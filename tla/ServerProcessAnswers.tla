----------------------- MODULE ServerProcessAnswers -----------------------
(***************************************************************************)
(* Proof of AnswersMatch: every answer of the helper process is read by    *)
(* the process whose request it answers.                                   *)
(***************************************************************************)
EXTENDS ServerProcessProofs

-----------------------------------------------------------------------------
(* Who talks to the helper.  A child that is being set up has its end of   *)
(* the synchronization pipe, so that its parent is waiting for it.         *)
SyncAt(c) ==
  /\ srv[c].pc \in Forking => <<srv[c].cur, "sync1">> \in fds[c].open
  /\ \A s \in Sessions : (ServerOf(s) = c /\ proc[s].pc \in BeingSetUp) =>
       /\ srv[c].alive /\ srv[c].pc = "sync" /\ srv[c].cur = s
       /\ <<s, "sync1">> \in fds[s].open

SyncInv == \A c \in Servers : SyncAt(c)

(* Nothing in the connection c that SyncAt tells apart has changed.        *)
SyncSameFork(c) ==
  srv'[c].pc \in Forking =>
    srv[c].pc \in Forking /\ srv'[c].cur = srv[c].cur /\ fds'[c] = fds[c]

SyncSameParent(c) ==
  (srv[c].alive /\ srv[c].pc = "sync") =>
    srv'[c].alive /\ srv'[c].pc = "sync" /\ srv'[c].cur = srv[c].cur

SyncSameChild(s) ==
  proc'[s].pc \in BeingSetUp => proc[s].pc \in BeingSetUp /\ fds'[s] = fds[s]

(* The parent waits as long as the child is being set up (spawn_shell,     *)
(* spawn_parent, spawn_child).                                             *)
LEMMA SyncStep == Shape /\ CurInv /\ SyncInv /\ [Next]_vars => SyncInv'
<1> SUFFICES ASSUME Shape, CurInv, SyncInv, [Next]_vars
             PROVE  SyncInv'
  OBVIOUS
<1>a. HasSrv
  BY HasFields
<1>p. HasProc
  BY HasFields
<1>g. HasFds
  BY HasFields
<1>b. Sessions' = Sessions /\ Servers' = Servers
  BY SceneFixed
<1>c. /\ \A s \in Sessions : ServerOf(s) \in Servers
      /\ \A c \in Servers : srv[c].pc \in Busy =>
           srv[c].cur \in Sessions /\ ServerOf(srv[c].cur) = c
  BY NamesDiffer DEF Shape, CurInv
<1>n. /\ \A c \in Servers, s \in Sessions : c # s
      /\ Servers \subseteq Processes /\ Sessions \subseteq Processes
  BY NamesDiffer DEF Shape, Processes
<1>d. ASSUME NEW c \in Servers, LocalTo(c), SyncAt(c)' PROVE SyncInv'
  <2>1. ASSUME NEW d \in Servers, d # c PROVE SyncAt(d)'
    <3>1. SyncAt(d)
      BY DEF SyncInv
    <3>2. srv'[d] = srv[d] /\ fds'[d] = fds[d]
      BY <1>d, <2>1 DEF LocalTo
    <3>3. \A s \in Sessions : ServerOf(s) = d => proc'[s] = proc[s] /\ fds'[s] = fds[s]
      BY <1>d, <2>1 DEF LocalTo
    <3>4. QED
      BY <1>b, <3>1, <3>2, <3>3 DEF SyncAt
  <2>2. QED
    BY <1>b, <1>d, <2>1 DEF SyncInv
<1>e. ASSUME NEW c \in Servers, SyncSameFork(c), SyncSameParent(c),
             \A s \in Sessions : ServerOf(s) = c => SyncSameChild(s)
      PROVE  SyncAt(c)'
  <2>1. SyncAt(c)
    BY DEF SyncInv
  <2>2. srv'[c].pc \in Forking => <<srv'[c].cur, "sync1">> \in fds'[c].open
    BY <1>e, <2>1 DEF SyncSameFork, SyncAt
  <2>3. ASSUME NEW s \in Sessions, ServerOf(s) = c, proc'[s].pc \in BeingSetUp
        PROVE  /\ srv'[c].alive /\ srv'[c].pc = "sync" /\ srv'[c].cur = s
               /\ <<s, "sync1">> \in fds'[s].open
    <3>1. proc[s].pc \in BeingSetUp /\ fds'[s] = fds[s]
      BY <1>e, <2>3 DEF SyncSameChild
    <3>2. /\ srv[c].alive /\ srv[c].pc = "sync" /\ srv[c].cur = s
          /\ <<s, "sync1">> \in fds[s].open
      BY <2>1, <2>3, <3>1 DEF SyncAt
    <3>3. QED
      BY <1>e, <3>1, <3>2 DEF SyncSameParent
  <2>4. QED
    BY <1>b, <2>2, <2>3 DEF SyncAt
<1>f. ASSUME NEW c \in Servers,
             srv'[c].pc \in Forking => <<srv'[c].cur, "sync1">> \in fds'[c].open,
             \A s \in Sessions : (ServerOf(s) = c /\ proc'[s].pc \in BeingSetUp) =>
               /\ srv'[c].alive /\ srv'[c].pc = "sync" /\ srv'[c].cur = s
               /\ <<s, "sync1">> \in fds'[s].open
      PROVE  SyncAt(c)'
  BY <1>b, <1>f DEF SyncAt
<1>h. ASSUME NEW c \in Servers, srv[c].pc # "sync", NEW s \in Sessions, ServerOf(s) = c
      PROVE  proc[s].pc \notin BeingSetUp
  BY <1>h DEF SyncInv, SyncAt
<1> USE DEF HasSrv, HasProc, HasFds
<1>1. ASSUME NEW c \in Servers, Created(c) PROVE SyncAt(c)'
  <2>1. srv[c].alive /\ srv[c].pc = "create"
    BY <1>1 DEF Created, At
  <2>2. /\ srv'[c].alive = srv[c].alive
        /\ srv'[c].pc = "fork"
        /\ srv'[c].cur = srv[c].cur
    BY <1>a, <1>1 DEF Created, WithoutAnswer
  <2>3. srv[c].cur \in Sessions /\ ServerOf(srv[c].cur) = c
    BY <1>c, <2>1 DEF Busy
  <2>4. fds' = fds
    BY <1>1 DEF Created
  <2>5. proc' = proc
    BY <1>1 DEF Created
  <2>6. SyncSameFork(c) /\ SyncSameParent(c)
    BY <2>1, <2>2, <1>1, <2>4 DEF SyncSameFork, SyncSameParent, Forking
  <2>7. \A t \in Sessions : ServerOf(t) = c => SyncSameChild(t)
    BY <2>1, <2>5, <2>4 DEF SyncSameChild, BeingSetUp
  <2>8. QED
    BY <1>e, <2>6, <2>7
<1>2. ASSUME NEW c \in Servers, ForkChild(c) PROVE SyncAt(c)'
  <2>1. srv[c].alive /\ srv[c].pc = "fork"
    BY <1>2 DEF ForkChild, At
  <2>2. /\ srv'[c].alive = srv[c].alive
        /\ srv'[c].pc = "sync"
        /\ srv'[c].cur = srv[c].cur
    BY <1>a, <1>2 DEF ForkChild
  <2>3. srv[c].cur \in Sessions /\ ServerOf(srv[c].cur) = c
    BY <1>c, <2>1 DEF Busy
  <2>4. \A t \in Sessions : t # srv[c].cur => fds'[t] = fds[t]
    BY <1>n, <1>g, <1>2 DEF ForkChild
  <2>5. proc'[srv[c].cur].pc = "setup" /\ \A t \in Sessions : t # srv[c].cur => proc'[t] = proc[t]
    BY <1>p, <1>2, <2>3 DEF ForkChild
  <2>6. <<srv[c].cur, "sync1">> \in fds[c].open
    BY <2>1 DEF SyncInv, SyncAt, Forking
  <2>7. <<srv[c].cur, "sync1">> \in fds'[srv[c].cur].open
    BY <1>n, <1>g, <1>2, <2>3, <2>6 DEF ForkChild, Closed, Fd
  <2>8. QED
    BY <1>f, <1>h, <2>1, <2>2, <2>3, <2>5, <2>7 DEF Forking
<1>3. ASSUME NEW c \in Servers, ForkFailsTold(c) PROVE SyncAt(c)'
  <2>1. srv[c].alive /\ srv[c].pc = "fork"
    BY <1>3 DEF ForkFailsTold, At
  <2>2. /\ srv'[c].alive = srv[c].alive
        /\ srv'[c].pc = "destroy"
        /\ srv'[c].cur = srv[c].cur
    BY <1>a, <1>3 DEF ForkFailsTold, pty_send_message
  <2>3. srv[c].cur \in Sessions /\ ServerOf(srv[c].cur) = c
    BY <1>c, <2>1 DEF Busy
  <2>4. \A t \in Sessions : fds'[t] = fds[t]
    BY <1>n, <1>g, <1>3 DEF ForkFailsTold, SpawnErrorFds
  <2>5. proc' = proc
    BY <1>3 DEF ForkFailsTold
  <2>6. SyncSameFork(c) /\ SyncSameParent(c)
    BY <2>1, <2>2 DEF SyncSameFork, SyncSameParent, Forking
  <2>7. \A t \in Sessions : ServerOf(t) = c => SyncSameChild(t)
    BY <2>1, <2>5, <2>4 DEF SyncSameChild, BeingSetUp
  <2>8. QED
    BY <1>e, <2>6, <2>7
<1>4. ASSUME NEW c \in Servers, ForkFails(c) PROVE SyncAt(c)'
  <2>1. srv[c].alive /\ srv[c].pc = "fork"
    BY <1>4 DEF ForkFails, At
  <2>2. /\ srv'[c].alive = srv[c].alive
        /\ srv'[c].pc = "loop"
        /\ srv'[c].cur = srv[c].cur
    BY <1>a, <1>4 DEF ForkFails
  <2>3. srv[c].cur \in Sessions /\ ServerOf(srv[c].cur) = c
    BY <1>c, <2>1 DEF Busy
  <2>4. \A t \in Sessions : fds'[t] = fds[t]
    BY <1>n, <1>g, <1>4 DEF ForkFails, SpawnErrorFds
  <2>5. proc' = proc
    BY <1>4 DEF ForkFails
  <2>6. SyncSameFork(c) /\ SyncSameParent(c)
    BY <2>1, <2>2 DEF SyncSameFork, SyncSameParent, Forking
  <2>7. \A t \in Sessions : ServerOf(t) = c => SyncSameChild(t)
    BY <2>1, <2>5, <2>4 DEF SyncSameChild, BeingSetUp
  <2>8. QED
    BY <1>e, <2>6, <2>7
<1>5. ASSUME NEW c \in Servers, Destroyed(c) PROVE SyncAt(c)'
  <2>1. srv[c].alive /\ srv[c].pc = "destroy"
    BY <1>5 DEF Destroyed, At
  <2>2. /\ srv'[c].alive = srv[c].alive
        /\ srv'[c].pc = "loop"
        /\ srv'[c].cur = srv[c].cur
    BY <1>a, <1>5 DEF Destroyed, WithoutAnswer
  <2>3. fds' = fds
    BY <1>5 DEF Destroyed
  <2>4. proc' = proc
    BY <1>5 DEF Destroyed
  <2>5. SyncSameFork(c) /\ SyncSameParent(c)
    BY <2>1, <2>2, <2>3 DEF SyncSameFork, SyncSameParent, Forking
  <2>6. \A t \in Sessions : ServerOf(t) = c => SyncSameChild(t)
    BY <2>1, <2>4, <2>3 DEF SyncSameChild, BeingSetUp
  <2>7. QED
    BY <1>e, <2>5, <2>6
<1>6. ASSUME NEW c \in Servers, Synced(c) PROVE SyncAt(c)'
  <2>1. srv[c].alive /\ srv[c].pc = "sync"
    BY <1>6 DEF Synced, At
  <2>2. /\ srv'[c].alive = srv[c].alive
        /\ srv'[c].pc = "loop"
        /\ srv'[c].cur = srv[c].cur
    BY <1>a, <1>6 DEF Synced
  <2>3. srv[c].cur \in Sessions /\ ServerOf(srv[c].cur) = c
    BY <1>c, <2>1 DEF Busy
  <2>4. \A t \in Sessions : fds'[t] = fds[t]
    BY <1>n, <1>g, <1>6 DEF Synced
  <2>5. proc' = proc
    BY <1>6 DEF Synced
  <2>6. \A t \in Sessions : ServerOf(t) = c => proc[t].pc \notin BeingSetUp
    BY <1>n, <1>g, <1>6 DEF Synced, SyncInv, SyncAt
  <2>7. QED
    BY <1>f, <2>2, <2>5, <2>6 DEF Forking
<1>7. ASSUME NEW c \in Servers, SigChld(c) PROVE SyncAt(c)'
  <2>1. srv[c].alive /\ srv[c].pc = "loop"
    BY <1>7 DEF SigChld, Idle, At
  <2>2. /\ srv'[c].alive = srv[c].alive
        /\ srv'[c].pc = "reap"
        /\ srv'[c].cur = srv[c].cur
    BY <1>a, <1>7 DEF SigChld
  <2>3. fds' = fds
    BY <1>7 DEF SigChld
  <2>4. proc' = proc
    BY <1>7 DEF SigChld
  <2>5. SyncSameFork(c) /\ SyncSameParent(c)
    BY <2>1, <2>2, <2>3 DEF SyncSameFork, SyncSameParent, Forking
  <2>6. \A t \in Sessions : ServerOf(t) = c => SyncSameChild(t)
    BY <2>1, <2>4, <2>3 DEF SyncSameChild, BeingSetUp
  <2>7. QED
    BY <1>e, <2>5, <2>6
<1>8. ASSUME NEW c \in Servers, ReapEnds(c) PROVE SyncAt(c)'
  <2>1. srv[c].alive /\ srv[c].pc = "reap"
    BY <1>8 DEF ReapEnds, At
  <2>2. /\ srv'[c].alive = srv[c].alive
        /\ srv'[c].pc = "loop"
        /\ srv'[c].cur = srv[c].cur
    BY <1>a, <1>8 DEF ReapEnds
  <2>3. fds' = fds
    BY <1>8 DEF ReapEnds
  <2>4. proc' = proc
    BY <1>8 DEF ReapEnds
  <2>5. SyncSameFork(c) /\ SyncSameParent(c)
    BY <2>1, <2>2, <2>3 DEF SyncSameFork, SyncSameParent, Forking
  <2>6. \A t \in Sessions : ServerOf(t) = c => SyncSameChild(t)
    BY <2>1, <2>4, <2>3 DEF SyncSameChild, BeingSetUp
  <2>7. QED
    BY <1>e, <2>5, <2>6
<1>9. ASSUME NEW c \in Servers, LoggedOut(c) PROVE SyncAt(c)'
  <2>1. srv[c].alive /\ srv[c].pc = "logout"
    BY <1>9 DEF LoggedOut, At
  <2>2. /\ srv'[c].alive = srv[c].alive
        /\ srv'[c].pc = "reap"
        /\ srv'[c].cur = srv[c].cur
    BY <1>a, <1>9 DEF LoggedOut, WithoutAnswer
  <2>3. fds' = fds
    BY <1>9 DEF LoggedOut
  <2>4. proc' = proc
    BY <1>9 DEF LoggedOut
  <2>5. SyncSameFork(c) /\ SyncSameParent(c)
    BY <2>1, <2>2, <2>3 DEF SyncSameFork, SyncSameParent, Forking
  <2>6. \A t \in Sessions : ServerOf(t) = c => SyncSameChild(t)
    BY <2>1, <2>4, <2>3 DEF SyncSameChild, BeingSetUp
  <2>7. QED
    BY <1>e, <2>5, <2>6
<1>10. ASSUME NEW c \in Servers, BindFree(c) PROVE SyncAt(c)'
  <2>1. srv[c].alive /\ srv[c].pc = "bind"
    BY <1>10 DEF BindFree, At
  <2>2. /\ srv'[c].alive = srv[c].alive
        /\ srv'[c].pc = "xauth"
        /\ srv'[c].cur = srv[c].cur
    BY <1>a, <1>10 DEF BindFree
  <2>3. fds' = fds
    BY <1>10 DEF BindFree
  <2>4. proc' = proc
    BY <1>10 DEF BindFree
  <2>5. SyncSameFork(c) /\ SyncSameParent(c)
    BY <2>1, <2>2, <2>3 DEF SyncSameFork, SyncSameParent, Forking
  <2>6. \A t \in Sessions : ServerOf(t) = c => SyncSameChild(t)
    BY <2>1, <2>4, <2>3 DEF SyncSameChild, BeingSetUp
  <2>7. QED
    BY <1>e, <2>5, <2>6
<1>11. ASSUME NEW c \in Servers, BindTaken(c) PROVE SyncAt(c)'
  <2>1. srv[c].alive /\ srv[c].pc = "bind"
    BY <1>11 DEF BindTaken, At
  <2>2. /\ srv'[c].alive = srv[c].alive
        /\ srv'[c].pc = srv[c].pc
        /\ srv'[c].cur = srv[c].cur
    BY <1>a, <1>11 DEF BindTaken
  <2>3. fds' = fds
    BY <1>11 DEF BindTaken
  <2>4. proc' = proc
    BY <1>11 DEF BindTaken
  <2>5. SyncSameFork(c) /\ SyncSameParent(c)
    BY <2>1, <2>2, <2>3 DEF SyncSameFork, SyncSameParent, Forking
  <2>6. \A t \in Sessions : ServerOf(t) = c => SyncSameChild(t)
    BY <2>1, <2>4, <2>3 DEF SyncSameChild, BeingSetUp
  <2>7. QED
    BY <1>e, <2>5, <2>6
<1>12. ASSUME NEW c \in Servers, BindNone(c) PROVE SyncAt(c)'
  <2>1. srv[c].alive /\ srv[c].pc = "bind"
    BY <1>12 DEF BindNone, At
  <2>2. /\ srv'[c].alive = srv[c].alive
        /\ srv'[c].pc = "loop"
        /\ srv'[c].cur = srv[c].cur
    BY <1>a, <1>12 DEF BindNone
  <2>3. fds' = fds
    BY <1>12 DEF BindNone
  <2>4. proc' = proc
    BY <1>12 DEF BindNone
  <2>5. SyncSameFork(c) /\ SyncSameParent(c)
    BY <2>1, <2>2, <2>3 DEF SyncSameFork, SyncSameParent, Forking
  <2>6. \A t \in Sessions : ServerOf(t) = c => SyncSameChild(t)
    BY <2>1, <2>4, <2>3 DEF SyncSameChild, BeingSetUp
  <2>7. QED
    BY <1>e, <2>5, <2>6
<1>13. ASSUME NEW c \in Servers, PortOpens(c) PROVE SyncAt(c)'
  <2>1. srv[c].alive /\ srv[c].pc = "xauth"
    BY <1>13 DEF PortOpens, At
  <2>2. /\ srv'[c].alive = srv[c].alive
        /\ srv'[c].pc = "loop"
        /\ srv'[c].cur = srv[c].cur
    BY <1>a, <1>13 DEF PortOpens
  <2>3. fds' = fds
    BY <1>13 DEF PortOpens
  <2>4. proc' = proc
    BY <1>13 DEF PortOpens
  <2>5. SyncSameFork(c) /\ SyncSameParent(c)
    BY <2>1, <2>2, <2>3 DEF SyncSameFork, SyncSameParent, Forking
  <2>6. \A t \in Sessions : ServerOf(t) = c => SyncSameChild(t)
    BY <2>1, <2>4, <2>3 DEF SyncSameChild, BeingSetUp
  <2>7. QED
    BY <1>e, <2>5, <2>6
<1>14. ASSUME NEW c \in Servers, PortFails(c) PROVE SyncAt(c)'
  <2>1. srv[c].alive /\ srv[c].pc = "xauth"
    BY <1>14 DEF PortFails, At
  <2>2. /\ srv'[c].alive = srv[c].alive
        /\ srv'[c].pc = "unlink"
        /\ srv'[c].cur = srv[c].cur
    BY <1>a, <1>14 DEF PortFails
  <2>3. fds' = fds
    BY <1>14 DEF PortFails
  <2>4. proc' = proc
    BY <1>14 DEF PortFails
  <2>5. SyncSameFork(c) /\ SyncSameParent(c)
    BY <2>1, <2>2, <2>3 DEF SyncSameFork, SyncSameParent, Forking
  <2>6. \A t \in Sessions : ServerOf(t) = c => SyncSameChild(t)
    BY <2>1, <2>4, <2>3 DEF SyncSameChild, BeingSetUp
  <2>7. QED
    BY <1>e, <2>5, <2>6
<1>15. ASSUME NEW c \in Servers, UnlinkSocket(c) PROVE SyncAt(c)'
  <2>1. srv[c].alive /\ srv[c].pc = "unlink"
    BY <1>15 DEF UnlinkSocket, At
  <2>2. /\ srv'[c].alive = srv[c].alive
        /\ srv'[c].pc = "unlink_xauth"
        /\ srv'[c].cur = srv[c].cur
    BY <1>a, <1>15 DEF UnlinkSocket
  <2>3. fds' = fds
    BY <1>15 DEF UnlinkSocket
  <2>4. proc' = proc
    BY <1>15 DEF UnlinkSocket
  <2>5. SyncSameFork(c) /\ SyncSameParent(c)
    BY <2>1, <2>2, <2>3 DEF SyncSameFork, SyncSameParent, Forking
  <2>6. \A t \in Sessions : ServerOf(t) = c => SyncSameChild(t)
    BY <2>1, <2>4, <2>3 DEF SyncSameChild, BeingSetUp
  <2>7. QED
    BY <1>e, <2>5, <2>6
<1>16. ASSUME NEW c \in Servers, UnlinkXauth(c) PROVE SyncAt(c)'
  <2>1. srv[c].alive /\ srv[c].pc = "unlink_xauth"
    BY <1>16 DEF UnlinkXauth, At
  <2>2. /\ srv'[c].alive = srv[c].alive
        /\ srv'[c].pc = "loop"
        /\ srv'[c].cur = srv[c].cur
    BY <1>a, <1>16 DEF UnlinkXauth
  <2>3. \A t \in Sessions : fds'[t] = fds[t]
    BY <1>n, <1>g, <1>16 DEF UnlinkXauth
  <2>4. proc' = proc
    BY <1>16 DEF UnlinkXauth
  <2>5. SyncSameFork(c) /\ SyncSameParent(c)
    BY <2>1, <2>2 DEF SyncSameFork, SyncSameParent, Forking
  <2>6. \A t \in Sessions : ServerOf(t) = c => SyncSameChild(t)
    BY <2>1, <2>4, <2>3 DEF SyncSameChild, BeingSetUp
  <2>7. QED
    BY <1>e, <2>5, <2>6
<1>17. ASSUME NEW c \in Servers, Disconnect(c) PROVE SyncAt(c)'
  <2>1. srv[c].alive /\ srv[c].pc = "loop"
    BY <1>17 DEF Disconnect, Idle, At
  <2>2. /\ srv'[c].alive = srv[c].alive
        /\ srv'[c].pc = srv[c].pc
        /\ srv'[c].cur = srv[c].cur
    BY <1>a, <1>17 DEF Disconnect
  <2>3. fds' = fds
    BY <1>17 DEF Disconnect
  <2>4. proc' = proc
    BY <1>17 DEF Disconnect
  <2>5. SyncSameFork(c) /\ SyncSameParent(c)
    BY <2>1, <2>2, <2>3 DEF SyncSameFork, SyncSameParent, Forking
  <2>6. \A t \in Sessions : ServerOf(t) = c => SyncSameChild(t)
    BY <2>1, <2>4, <2>3 DEF SyncSameChild, BeingSetUp
  <2>7. QED
    BY <1>e, <2>5, <2>6
<1>18. ASSUME NEW c \in Servers, ServerExit(c) PROVE SyncAt(c)'
  <2>1. srv[c].alive /\ srv[c].pc = "loop"
    BY <1>18 DEF ServerExit, Idle, At
  <2>2. /\ srv'[c].alive = FALSE
        /\ srv'[c].pc = srv[c].pc
        /\ srv'[c].cur = srv[c].cur
    BY <1>a, <1>18 DEF ServerExit
  <2>3. \A t \in Sessions : fds'[t] = fds[t]
    BY <1>n, <1>g, <1>18 DEF ServerExit
  <2>4. \A t \in Sessions : proc'[t].pc \in BeingSetUp => proc'[t] = proc[t]
    BY <1>p, <1>18 DEF ServerExit, BeingSetUp
  <2>5. SyncSameFork(c) /\ SyncSameParent(c)
    BY <2>1, <2>2 DEF SyncSameFork, SyncSameParent, Forking
  <2>6. \A t \in Sessions : ServerOf(t) = c => SyncSameChild(t)
    BY <2>1, <2>4, <2>3 DEF SyncSameChild, BeingSetUp
  <2>7. QED
    BY <1>e, <2>5, <2>6
<1>19. ASSUME NEW c \in Servers, HelperServes(c) PROVE SyncAt(c)'
  <2>1. \E requests, answers :
          srv' = [srv EXCEPT ![c].requests = requests, ![c].answers = answers]
    BY <1>19, Zenon DEF HelperServes
  <2>2. /\ srv'[c].alive = srv[c].alive
        /\ srv'[c].pc = srv[c].pc
        /\ srv'[c].cur = srv[c].cur
    BY <1>a, <2>1
  <2>3. fds' = fds
    BY <1>19 DEF HelperServes
  <2>4. proc' = proc
    BY <1>19 DEF HelperServes
  <2>5. SyncSameFork(c) /\ SyncSameParent(c)
    BY <2>2, <2>3 DEF SyncSameFork, SyncSameParent, Forking
  <2>6. \A t \in Sessions : ServerOf(t) = c => SyncSameChild(t)
    BY <2>4, <2>3 DEF SyncSameChild, BeingSetUp
  <2>7. QED
    BY <1>e, <2>5, <2>6
<1>20. ASSUME NEW c \in Servers, HelperExits(c) PROVE SyncAt(c)'
  <2>1. srv' = srv
    BY <1>20 DEF HelperExits
  <2>2. fds' = fds
    BY <1>20 DEF HelperExits
  <2>3. proc' = proc
    BY <1>20 DEF HelperExits
  <2>4. SyncSameFork(c) /\ SyncSameParent(c)
    BY <2>1, <2>2 DEF SyncSameFork, SyncSameParent, Forking
  <2>5. \A t \in Sessions : ServerOf(t) = c => SyncSameChild(t)
    BY <2>3, <2>2 DEF SyncSameChild, BeingSetUp
  <2>6. QED
    BY <1>e, <2>4, <2>5
<1>21. ASSUME NEW c \in Servers, NEW s \in Sessions, ReapUnknown(c, s) PROVE SyncAt(c)'
  <2>1. srv[c].alive /\ srv[c].pc = "reap" /\ ServerOf(s) = c
    BY <1>21 DEF ReapUnknown, At, Zombies, Of
  <2>2. srv' = srv
    BY <1>21 DEF ReapUnknown
  <2>3. fds' = fds
    BY <1>21 DEF ReapUnknown
  <2>4. proc'[s].pc = "reaped" /\ \A t \in Sessions : t # s => proc'[t] = proc[t]
    BY <1>p, <1>21 DEF ReapUnknown
  <2>5. SyncSameFork(c) /\ SyncSameParent(c)
    BY <2>1, <2>2, <2>3 DEF SyncSameFork, SyncSameParent, Forking
  <2>6. \A t \in Sessions : ServerOf(t) = c => SyncSameChild(t)
    BY <2>1, <2>4, <2>3 DEF SyncSameChild, BeingSetUp
  <2>7. QED
    BY <1>e, <2>5, <2>6
<1>22. ASSUME NEW c \in Servers, NEW s \in Sessions, ReapTold(c, s) PROVE SyncAt(c)'
  <2>1. srv[c].alive /\ srv[c].pc = "reap" /\ ServerOf(s) = c
    BY <1>22 DEF ReapTold, At, Zombies, Of
  <2>2. /\ srv'[c].alive = srv[c].alive
        /\ srv'[c].pc = "logout"
        /\ srv'[c].cur = s
    BY <1>a, <1>22 DEF ReapTold, pty_send_message
  <2>3. fds' = fds
    BY <1>22 DEF ReapTold
  <2>4. proc'[s].pc = "reaped" /\ \A t \in Sessions : t # s => proc'[t] = proc[t]
    BY <1>p, <1>22 DEF ReapTold
  <2>5. SyncSameFork(c) /\ SyncSameParent(c)
    BY <2>1, <2>2, <2>3 DEF SyncSameFork, SyncSameParent, Forking
  <2>6. \A t \in Sessions : ServerOf(t) = c => SyncSameChild(t)
    BY <2>1, <2>4, <2>3 DEF SyncSameChild, BeingSetUp
  <2>7. QED
    BY <1>e, <2>5, <2>6
<1>23. ASSUME NEW c \in Servers, NEW s \in Sessions, ReapUntold(c, s) PROVE SyncAt(c)'
  <2>1. srv[c].alive /\ srv[c].pc = "reap" /\ ServerOf(s) = c
    BY <1>23 DEF ReapUntold, At, Zombies, Of
  <2>2. /\ srv'[c].alive = srv[c].alive
        /\ srv'[c].pc = srv[c].pc
        /\ srv'[c].cur = s
    BY <1>a, <1>23 DEF ReapUntold
  <2>3. fds' = fds
    BY <1>23 DEF ReapUntold
  <2>4. proc'[s].pc = "reaped" /\ \A t \in Sessions : t # s => proc'[t] = proc[t]
    BY <1>p, <1>23 DEF ReapUntold
  <2>5. SyncSameFork(c) /\ SyncSameParent(c)
    BY <2>1, <2>2, <2>3 DEF SyncSameFork, SyncSameParent, Forking
  <2>6. \A t \in Sessions : ServerOf(t) = c => SyncSameChild(t)
    BY <2>1, <2>4, <2>3 DEF SyncSameChild, BeingSetUp
  <2>7. QED
    BY <1>e, <2>5, <2>6
<1>24. ASSUME NEW c \in Servers, NEW s \in Sessions, PtyGranted(c, s) PROVE SyncAt(c)'
  <2>1. srv[c].alive /\ srv[c].pc = "loop" /\ ServerOf(s) = c
    BY <1>24 DEF PtyGranted, Asked, Idle, At, Of
  <2>2. srv' = srv
    BY <1>24 DEF PtyGranted
  <2>3. \A t \in Sessions : fds'[t] = fds[t]
    BY <1>n, <1>g, <1>24 DEF PtyGranted
  <2>4. proc' = proc
    BY <1>24 DEF PtyGranted
  <2>5. SyncSameFork(c) /\ SyncSameParent(c)
    BY <2>1, <2>2 DEF SyncSameFork, SyncSameParent, Forking
  <2>6. \A t \in Sessions : ServerOf(t) = c => SyncSameChild(t)
    BY <2>1, <2>4, <2>3 DEF SyncSameChild, BeingSetUp
  <2>7. QED
    BY <1>e, <2>5, <2>6
<1>25. ASSUME NEW c \in Servers, NEW s \in Sessions, PtyRefused(c, s) PROVE SyncAt(c)'
  <2>1. srv[c].alive /\ srv[c].pc = "loop" /\ ServerOf(s) = c
    BY <1>25 DEF PtyRefused, Asked, Idle, At, Of
  <2>2. srv' = srv
    BY <1>25 DEF PtyRefused
  <2>3. fds' = fds
    BY <1>25 DEF PtyRefused
  <2>4. proc' = proc
    BY <1>25 DEF PtyRefused
  <2>5. SyncSameFork(c) /\ SyncSameParent(c)
    BY <2>1, <2>2, <2>3 DEF SyncSameFork, SyncSameParent, Forking
  <2>6. \A t \in Sessions : ServerOf(t) = c => SyncSameChild(t)
    BY <2>1, <2>4, <2>3 DEF SyncSameChild, BeingSetUp
  <2>7. QED
    BY <1>e, <2>5, <2>6
<1>26. ASSUME NEW c \in Servers, NEW s \in Sessions, NEW failure, SpawnFails(c, s,
              failure)
       PROVE  SyncAt(c)'
  <2>1. srv[c].alive /\ srv[c].pc = "loop" /\ ServerOf(s) = c
    BY <1>26 DEF SpawnFails, CanSpawn, Asked, Idle, At, Of
  <2>2. /\ srv'[c].alive = srv[c].alive
        /\ srv'[c].pc = srv[c].pc
        /\ srv'[c].cur = s
    BY <1>a, <1>26 DEF SpawnFails
  <2>3. \A t \in Sessions : fds'[t] = fds[t]
    BY <1>n, <1>g, <1>26 DEF SpawnFails
  <2>4. proc' = proc
    BY <1>26 DEF SpawnFails
  <2>5. SyncSameFork(c) /\ SyncSameParent(c)
    BY <2>1, <2>2 DEF SyncSameFork, SyncSameParent, Forking
  <2>6. \A t \in Sessions : ServerOf(t) = c => SyncSameChild(t)
    BY <2>1, <2>4, <2>3 DEF SyncSameChild, BeingSetUp
  <2>7. QED
    BY <1>e, <2>5, <2>6
<1>27. ASSUME NEW c \in Servers, NEW s \in Sessions, NEW failure, SpawnAsks(c, s, failure)
       PROVE  SyncAt(c)'
  <2>1. srv[c].alive /\ srv[c].pc = "loop" /\ ServerOf(s) = c
    BY <1>27 DEF SpawnAsks, CanSpawn, Asked, Idle, At, Of
  <2>2. /\ srv'[c].alive = srv[c].alive
        /\ srv'[c].pc = "create"
        /\ srv'[c].cur = s
    BY <1>a, <1>27 DEF SpawnAsks
  <2>3. \A t \in Sessions : fds'[t] = fds[t]
    BY <1>n, <1>g, <1>27 DEF SpawnAsks
  <2>4. proc' = proc
    BY <1>27 DEF SpawnAsks
  <2>5. <<s, "sync1">> \in fds'[c].open
    BY <1>n, <1>g, <1>27 DEF SpawnAsks, SpawnFds, Opened, Fd
  <2>6. QED
    BY <1>f, <1>h, <2>1, <2>2, <2>4, <2>5
<1>28. ASSUME NEW c \in Servers, NEW s \in Sessions, NEW failure, SpawnAlone(c, s,
              failure)
       PROVE  SyncAt(c)'
  <2>1. srv[c].alive /\ srv[c].pc = "loop" /\ ServerOf(s) = c
    BY <1>28 DEF SpawnAlone, CanSpawn, Asked, Idle, At, Of
  <2>2. /\ srv'[c].alive = srv[c].alive
        /\ srv'[c].pc = "fork"
        /\ srv'[c].cur = s
    BY <1>a, <1>28 DEF SpawnAlone
  <2>3. \A t \in Sessions : fds'[t] = fds[t]
    BY <1>n, <1>g, <1>28 DEF SpawnAlone
  <2>4. proc' = proc
    BY <1>28 DEF SpawnAlone
  <2>5. <<s, "sync1">> \in fds'[c].open
    BY <1>n, <1>g, <1>28 DEF SpawnAlone, SpawnFds, Opened, Fd
  <2>6. QED
    BY <1>f, <1>h, <2>1, <2>2, <2>4, <2>5
<1>29. ASSUME NEW c \in Servers, NEW s \in Sessions, SpawnRefused(c, s) PROVE SyncAt(c)'
  <2>1. srv[c].alive /\ srv[c].pc = "loop" /\ ServerOf(s) = c
    BY <1>29 DEF SpawnRefused, Asked, Idle, At, Of
  <2>2. srv' = srv
    BY <1>29 DEF SpawnRefused
  <2>3. fds' = fds
    BY <1>29 DEF SpawnRefused
  <2>4. proc' = proc
    BY <1>29 DEF SpawnRefused
  <2>5. SyncSameFork(c) /\ SyncSameParent(c)
    BY <2>1, <2>2, <2>3 DEF SyncSameFork, SyncSameParent, Forking
  <2>6. \A t \in Sessions : ServerOf(t) = c => SyncSameChild(t)
    BY <2>1, <2>4, <2>3 DEF SyncSameChild, BeingSetUp
  <2>7. QED
    BY <1>e, <2>5, <2>6
<1>30. ASSUME NEW c \in Servers, NEW s \in Sessions, Abort(c, s) PROVE SyncAt(c)'
  <2>1. srv[c].alive /\ srv[c].pc = "loop" /\ ServerOf(s) = c
    BY <1>30 DEF Abort, Asked, Idle, At, Of
  <2>2. /\ srv'[c].alive = FALSE
        /\ srv'[c].pc = "aborted"
        /\ srv'[c].cur = srv[c].cur
    BY <1>a, <1>30 DEF Abort
  <2>3. \A t \in Sessions : fds'[t] = fds[t]
    BY <1>n, <1>g, <1>30 DEF Abort
  <2>4. proc' = proc
    BY <1>30 DEF Abort
  <2>5. SyncSameFork(c) /\ SyncSameParent(c)
    BY <2>1, <2>2 DEF SyncSameFork, SyncSameParent, Forking
  <2>6. \A t \in Sessions : ServerOf(t) = c => SyncSameChild(t)
    BY <2>1, <2>4, <2>3 DEF SyncSameChild, BeingSetUp
  <2>7. QED
    BY <1>e, <2>5, <2>6
<1>31. ASSUME NEW c \in Servers, NEW s \in Sessions, X11Accepted(c, s) PROVE SyncAt(c)'
  <2>1. srv[c].alive /\ srv[c].pc = "loop" /\ ServerOf(s) = c
    BY <1>31 DEF X11Accepted, Asked, Idle, At, Of
  <2>2. /\ srv'[c].alive = srv[c].alive
        /\ srv'[c].pc = "bind"
        /\ srv'[c].cur = s
    BY <1>a, <1>31 DEF X11Accepted
  <2>3. fds' = fds
    BY <1>31 DEF X11Accepted
  <2>4. proc' = proc
    BY <1>31 DEF X11Accepted
  <2>5. SyncSameFork(c) /\ SyncSameParent(c)
    BY <2>1, <2>2, <2>3 DEF SyncSameFork, SyncSameParent, Forking
  <2>6. \A t \in Sessions : ServerOf(t) = c => SyncSameChild(t)
    BY <2>1, <2>4, <2>3 DEF SyncSameChild, BeingSetUp
  <2>7. QED
    BY <1>e, <2>5, <2>6
<1>32. ASSUME NEW c \in Servers, NEW s \in Sessions, X11Refused(c, s) PROVE SyncAt(c)'
  <2>1. srv[c].alive /\ srv[c].pc = "loop" /\ ServerOf(s) = c
    BY <1>32 DEF X11Refused, Asked, Idle, At, Of
  <2>2. srv' = srv
    BY <1>32 DEF X11Refused
  <2>3. fds' = fds
    BY <1>32 DEF X11Refused
  <2>4. proc' = proc
    BY <1>32 DEF X11Refused
  <2>5. SyncSameFork(c) /\ SyncSameParent(c)
    BY <2>1, <2>2, <2>3 DEF SyncSameFork, SyncSameParent, Forking
  <2>6. \A t \in Sessions : ServerOf(t) = c => SyncSameChild(t)
    BY <2>1, <2>4, <2>3 DEF SyncSameChild, BeingSetUp
  <2>7. QED
    BY <1>e, <2>5, <2>6
<1>33. ASSUME NEW c \in Servers, NEW s \in Sessions, AcceptSingle(c, s) PROVE SyncAt(c)'
  <2>1. srv[c].alive /\ srv[c].pc = "loop" /\ ServerOf(s) = c
    BY <1>33 DEF AcceptSingle, Idle, At, Of
  <2>2. /\ srv'[c].alive = srv[c].alive
        /\ srv'[c].pc = "unlink"
        /\ srv'[c].cur = s
    BY <1>a, <1>33 DEF AcceptSingle
  <2>3. fds' = fds
    BY <1>33 DEF AcceptSingle
  <2>4. proc' = proc
    BY <1>33 DEF AcceptSingle
  <2>5. SyncSameFork(c) /\ SyncSameParent(c)
    BY <2>1, <2>2, <2>3 DEF SyncSameFork, SyncSameParent, Forking
  <2>6. \A t \in Sessions : ServerOf(t) = c => SyncSameChild(t)
    BY <2>1, <2>4, <2>3 DEF SyncSameChild, BeingSetUp
  <2>7. QED
    BY <1>e, <2>5, <2>6
<1>34. ASSUME NEW c \in Servers, NEW s \in Sessions, CloseSession(c, s) PROVE SyncAt(c)'
  <2>1. srv[c].alive /\ srv[c].pc = "loop" /\ ServerOf(s) = c
    BY <1>34 DEF CloseSession, Idle, At, Of
  <2>2. /\ srv'[c].pc = "loop" \/ srv'[c].pc = "unlink"
        /\ srv'[c].alive = srv[c].alive
    BY <1>a, <1>34, <2>1 DEF CloseSession
  <2>3. \A t \in Sessions : fds'[t] = fds[t]
    BY <1>n, <1>g, <1>34 DEF CloseSession
  <2>4. \A t \in Sessions : proc'[t].pc \in BeingSetUp => proc'[t] = proc[t]
    BY <1>p, <1>34 DEF CloseSession, do_kill_process, BeingSetUp
  <2>5. SyncSameFork(c) /\ SyncSameParent(c)
    BY <2>1, <2>2 DEF SyncSameFork, SyncSameParent, Forking
  <2>6. \A t \in Sessions : ServerOf(t) = c => SyncSameChild(t)
    BY <2>1, <2>4, <2>3 DEF SyncSameChild, BeingSetUp
  <2>7. QED
    BY <1>e, <2>5, <2>6
<1>35. ASSUME NEW s \in Sessions, SetupFails(s) PROVE SyncAt(ServerOf(s))'
  <2> DEFINE c == ServerOf(s)
  <2> c \in Servers
    BY <1>c
  <2>1. proc[s].pc = "setup"
    BY <1>35 DEF SetupFails
  <2>2. /\ srv'[c].alive = srv[c].alive
        /\ srv'[c].pc = srv[c].pc
        /\ srv'[c].cur = srv[c].cur
    BY <1>a, <1>35 DEF SetupFails
  <2>3. \A t \in Sessions : t # s => fds'[t] = fds[t]
    BY <1>n, <1>g, <1>35 DEF SetupFails, NoFds
  <2>4. proc'[s].pc = "zombie" /\ \A t \in Sessions : t # s => proc'[t] = proc[t]
    BY <1>p, <1>35 DEF SetupFails, Exited
  <2>5. fds'[c] = fds[c]
    BY <1>n, <1>g, <1>35 DEF SetupFails, NoFds
  <2>6. SyncSameFork(c) /\ SyncSameParent(c)
    BY <2>2, <2>5 DEF SyncSameFork, SyncSameParent
  <2>7. \A t \in Sessions : ServerOf(t) = c => SyncSameChild(t)
    BY <2>1, <2>4, <2>3 DEF SyncSameChild, BeingSetUp
  <2>8. QED
    BY <1>e, <2>6, <2>7
<1>36. ASSUME NEW s \in Sessions, AskLogin(s) PROVE SyncAt(ServerOf(s))'
  <2> DEFINE c == ServerOf(s)
  <2> c \in Servers
    BY <1>c
  <2>1. proc[s].pc = "setup"
    BY <1>36 DEF AskLogin
  <2>2. /\ srv'[c].alive = srv[c].alive
        /\ srv'[c].pc = srv[c].pc
        /\ srv'[c].cur = srv[c].cur
    BY <1>a, <1>36 DEF AskLogin, pty_send_message
  <2>3. fds' = fds
    BY <1>36 DEF AskLogin
  <2>4. proc'[s].pc = "login" /\ \A t \in Sessions : t # s => proc'[t] = proc[t]
    BY <1>p, <1>36 DEF AskLogin
  <2>5. SyncSameFork(c) /\ SyncSameParent(c)
    BY <2>2, <2>3 DEF SyncSameFork, SyncSameParent
  <2>6. \A t \in Sessions : ServerOf(t) = c => SyncSameChild(t)
    BY <2>1, <2>4, <2>3 DEF SyncSameChild, BeingSetUp
  <2>7. QED
    BY <1>e, <2>5, <2>6
<1>37. ASSUME NEW s \in Sessions, StartUnrecorded(s) PROVE SyncAt(ServerOf(s))'
  <2> DEFINE c == ServerOf(s)
  <2> c \in Servers
    BY <1>c
  <2>1. proc[s].pc = "setup"
    BY <1>37 DEF StartUnrecorded
  <2>2. srv' = srv
    BY <1>37 DEF StartUnrecorded
  <2>3. \A t \in Sessions : t # s => fds'[t] = fds[t]
    BY <1>n, <1>g, <1>37 DEF StartUnrecorded, Start
  <2>4. proc'[s].pc = "running" /\ \A t \in Sessions : t # s => proc'[t] = proc[t]
    BY <1>p, <1>37 DEF StartUnrecorded, Start
  <2>5. fds'[c] = fds[c]
    BY <1>n, <1>g, <1>37 DEF StartUnrecorded, Start
  <2>6. SyncSameFork(c) /\ SyncSameParent(c)
    BY <2>2, <2>5 DEF SyncSameFork, SyncSameParent
  <2>7. \A t \in Sessions : ServerOf(t) = c => SyncSameChild(t)
    BY <2>1, <2>4, <2>3 DEF SyncSameChild, BeingSetUp
  <2>8. QED
    BY <1>e, <2>6, <2>7
<1>38. ASSUME NEW s \in Sessions, LoggedIn(s) PROVE SyncAt(ServerOf(s))'
  <2> DEFINE c == ServerOf(s)
  <2> c \in Servers
    BY <1>c
  <2>1. proc[s].pc = "login"
    BY <1>38 DEF LoggedIn
  <2>2. /\ srv'[c].alive = srv[c].alive
        /\ srv'[c].pc = srv[c].pc
        /\ srv'[c].cur = srv[c].cur
    BY <1>a, <1>38 DEF LoggedIn, WithoutAnswer
  <2>3. \A t \in Sessions : t # s => fds'[t] = fds[t]
    BY <1>n, <1>g, <1>38 DEF LoggedIn, Start
  <2>4. proc'[s].pc = "running" /\ \A t \in Sessions : t # s => proc'[t] = proc[t]
    BY <1>p, <1>38 DEF LoggedIn, Start
  <2>5. fds'[c] = fds[c]
    BY <1>n, <1>g, <1>38 DEF LoggedIn, Start
  <2>6. SyncSameFork(c) /\ SyncSameParent(c)
    BY <2>2, <2>5 DEF SyncSameFork, SyncSameParent
  <2>7. \A t \in Sessions : ServerOf(t) = c => SyncSameChild(t)
    BY <2>1, <2>4, <2>3 DEF SyncSameChild, BeingSetUp
  <2>8. QED
    BY <1>e, <2>6, <2>7
<1>39. ASSUME NEW s \in Sessions, Ends(s) PROVE SyncAt(ServerOf(s))'
  <2> DEFINE c == ServerOf(s)
  <2> c \in Servers
    BY <1>c
  <2>1. proc[s].pc \in {"setup", "login", "running"}
    BY <1>39 DEF Ends
  <2>2. /\ srv'[c].alive = srv[c].alive
        /\ srv'[c].pc = srv[c].pc
        /\ srv'[c].cur = srv[c].cur
    BY <1>a, <1>39 DEF Ends
  <2>3. \A t \in Sessions : t # s => fds'[t] = fds[t]
    BY <1>n, <1>g, <1>39 DEF Ends, NoFds
  <2>4. proc'[s].pc \in {"zombie", "reaped"} /\ \A t \in Sessions : t # s => proc'[t] = proc[t]
    BY <1>p, <1>39 DEF Ends, Exited
  <2>5. fds'[c] = fds[c]
    BY <1>n, <1>g, <1>39 DEF Ends, NoFds
  <2>6. SyncSameFork(c) /\ SyncSameParent(c)
    BY <2>2, <2>5 DEF SyncSameFork, SyncSameParent
  <2>7. \A t \in Sessions : ServerOf(t) = c => SyncSameChild(t)
    BY <2>1, <2>4, <2>3 DEF SyncSameChild, BeingSetUp
  <2>8. QED
    BY <1>e, <2>6, <2>7
<1>40. ASSUME NEW c \in Servers,
             ServerStep(c) \/ Disconnect(c) \/ ServerExit(c) \/ HelperServes(c) \/ HelperExits(c)
      PROVE  SyncInv'
  <2>1. LocalTo(c)
    BY <1>40, Local
  <2>2. SyncAt(c)'
    BY <1>40, <1>1, <1>2, <1>3, <1>4, <1>5, <1>6, <1>7, <1>8, <1>9, <1>10, <1>11, <1>12,
       <1>13, <1>14, <1>15, <1>16, <1>17, <1>18, <1>19, <1>20, <1>21, <1>22, <1>23 DEF
       ServerStep, Fork, Reap, open_x11_socket, create_xauth
  <2>3. QED
    BY <1>d, <2>1, <2>2
<1>41. ASSUME NEW c \in Servers, NEW s \in Sessions, ClientStep(c, s) PROVE SyncInv'
  <2>1. LocalTo(c)
    BY <1>41, Local
  <2>2. SyncAt(c)'
    BY <1>41, <1>24, <1>25, <1>26, <1>27, <1>28, <1>29, <1>30, <1>31, <1>32, <1>33, <1>34
       DEF ClientStep, PtyRequest, Spawn, X11Request
  <2>3. QED
    BY <1>d, <2>1, <2>2
<1>42. ASSUME NEW s \in Sessions, ChildStep(s) \/ Ends(s) PROVE SyncInv'
  <2>1. LocalTo(ServerOf(s))
    BY <1>42, Local
  <2>2. SyncAt(ServerOf(s))'
    BY <1>42, <1>35, <1>36, <1>37, <1>38, <1>39 DEF ChildStep, Setup
  <2>3. QED
    BY <1>c, <1>d, <2>1, <2>2
<1>43. ASSUME UNCHANGED vars PROVE SyncInv'
  <2>1. srv' = srv /\ proc' = proc /\ fds' = fds
    BY <1>43 DEF vars
  <2>2. \A c \in Servers : SyncAt(c)'
    BY <1>e, <2>1 DEF SyncSameFork, SyncSameParent, SyncSameChild
  <2>3. QED
    BY <1>b, <2>2 DEF SyncInv
<1>44. QED
  BY <1>40, <1>41, <1>42, <1>43 DEF Next

(* At most one of them has asked the helper and has not had its answer.    *)
Quiet(c) == srv[c].requests = <<>> /\ srv[c].answers = <<>>

One(queue) == queue # <<>> /\ queue = <<Head(queue)>>

Requested(c) ==
  /\ srv[c].answers = <<>> /\ One(srv[c].requests)
  /\ helper[c].alive => Readers(c) = {Head(srv[c].requests).from}

AnswerSent(c) ==
  /\ srv[c].requests = <<>> /\ One(srv[c].answers)
  /\ Readers(c) = {Head(srv[c].answers).to}

TalkAt(c) == ~srv[c].torn => Quiet(c) \/ Requested(c) \/ AnswerSent(c)

TalkInv == \A c \in Servers : TalkAt(c)

Asking == {"create", "destroy", "logout"}

(* The same processes wait for an answer.                                  *)
SameParentReads(c) ==
  (srv'[c].alive /\ srv'[c].pc \in Asking) <=> (srv[c].alive /\ srv[c].pc \in Asking)

SameChildReads(s) == proc'[s].pc = "login" <=> proc[s].pc = "login"

(* A request is made when no other is pending, and the helper answers it   *)
(* before it reads on (send_helper_request, process_request).              *)
LEMMA TalkStep == Shape /\ CurInv /\ SyncInv /\ TalkInv /\ [Next]_vars => TalkInv'
<1> SUFFICES ASSUME Shape, CurInv, SyncInv, TalkInv, [Next]_vars
             PROVE  TalkInv'
  OBVIOUS
<1>a. HasSrv
  BY HasFields
<1>p. HasProc
  BY HasFields
<1>i. HasHelper
  BY HasFields
<1>b. Sessions' = Sessions /\ Servers' = Servers
  BY SceneFixed
<1>c. /\ \A s \in Sessions : ServerOf(s) \in Servers /\ ServerOf(s) # s
      /\ \A c \in Servers : srv[c].pc \in Busy =>
           srv[c].cur \in Sessions /\ ServerOf(srv[c].cur) = c
  BY NamesDiffer DEF Shape, CurInv
<1>s. /\ \A m : Append(<<>>, m) = <<m>>
      /\ \A m : <<m>> # <<>> /\ Tail(<<m>>) = <<>> /\ Head(<<m>>) = m
  OBVIOUS
<1>r. ASSUME NEW c \in Servers, SameParentReads(c),
             \A s \in Sessions : ServerOf(s) = c => SameChildReads(s)
      PROVE  Readers(c)' = Readers(c)
  BY <1>b, <1>r DEF Readers, Of, SameParentReads, SameChildReads, Asking
<1>d. ASSUME NEW c \in Servers, LocalTo(c), TalkAt(c)' PROVE TalkInv'
  <2>1. ASSUME NEW d \in Servers, d # c PROVE TalkAt(d)'
    <3>1. TalkAt(d)
      BY DEF TalkInv
    <3>2. srv'[d] = srv[d] /\ helper'[d] = helper[d]
      BY <1>d, <2>1 DEF LocalTo
    <3>3. \A s \in Sessions : ServerOf(s) = d => proc'[s] = proc[s]
      BY <1>d, <2>1 DEF LocalTo
    <3>4. Readers(d)' = Readers(d)
      BY <1>r, <3>2, <3>3 DEF SameParentReads, SameChildReads
    <3>5. QED
      BY <3>1, <3>2, <3>4 DEF TalkAt, Quiet, Requested, AnswerSent
  <2>2. QED
    BY <1>b, <1>d, <2>1 DEF TalkInv
<1>e. ASSUME NEW c \in Servers, Readers(c)' = Readers(c),
             srv'[c].requests = srv[c].requests, srv'[c].answers = srv[c].answers,
             srv[c].torn => srv'[c].torn, helper'[c].alive => helper[c].alive
      PROVE  TalkAt(c)'
  <2>1. TalkAt(c)
    BY DEF TalkInv
  <2>2. QED
    BY <1>e, <2>1 DEF TalkAt, Quiet, Requested, AnswerSent
<1>f. ASSUME NEW c \in Servers, Readers(c) = {}, helper[c].alive, ~srv[c].torn PROVE Quiet(c)
  <2>1. TalkAt(c)
    BY DEF TalkInv
  <2>2. QED
    BY <1>f, <2>1 DEF TalkAt, Requested, AnswerSent
<1>h. ASSUME NEW c \in Servers, Readers(c) = {}, helper[c].alive, srv'[c].torn = srv[c].torn,
             srv'[c].answers = srv[c].answers,
             NEW m, srv'[c].requests = Append(srv[c].requests, m), Readers(c)' = {m.from}
      PROVE  TalkAt(c)'
  <2> SUFFICES ASSUME ~srv[c].torn
               PROVE  Requested(c)'
    BY <1>h DEF TalkAt
  <2>1. Quiet(c)
    BY <1>f, <1>h
  <2>2. srv'[c].requests = <<m>> /\ srv'[c].answers = <<>>
    BY <1>h, <1>s, <2>1 DEF Quiet
  <2>3. QED
    BY <1>h, <1>s, <2>2 DEF Requested, One
<1>k. ASSUME NEW c \in Servers, Answered(c), srv'[c].torn = srv[c].torn,
             srv'[c].requests = srv[c].requests, helper' = helper,
             srv'[c].answers = IF srv[c].answers = <<>> THEN srv[c].answers ELSE Tail(srv[c].answers)
      PROVE  TalkAt(c)'
  <2> SUFFICES ASSUME ~srv[c].torn
               PROVE  Quiet(c)' \/ Requested(c)'
    BY <1>k DEF TalkAt
  <2>1. Quiet(c) \/ Requested(c) \/ AnswerSent(c)
    BY DEF TalkInv, TalkAt
  <2>2. CASE Quiet(c)
    BY <1>k, <2>2 DEF Quiet
  <2>3. CASE Requested(c)
    <3>1. ~helper[c].alive
      BY <1>k, <2>3 DEF Requested, Answered
    <3>2. srv'[c].answers = <<>> /\ srv'[c].requests = srv[c].requests
      BY <1>k, <2>3 DEF Requested
    <3>3. QED
      BY <1>k, <2>3, <3>1, <3>2 DEF Requested
  <2>4. CASE AnswerSent(c)
    <3>1. srv[c].answers # <<>> /\ srv[c].answers = <<Head(srv[c].answers)>>
      BY <2>4 DEF AnswerSent, One
    <3>2. Tail(srv[c].answers) = <<>>
      BY <1>s, <3>1
    <3>3. QED
      BY <1>k, <2>4, <3>1, <3>2 DEF AnswerSent, Quiet
  <2>5. QED
    BY <2>1, <2>2, <2>3, <2>4
<1>m. ASSUME NEW c \in Servers, srv[c].pc # "sync", NEW s \in Sessions, ServerOf(s) = c
      PROVE  proc[s].pc # "login" /\ proc[s].pc # "setup"
  BY <1>m DEF SyncInv, SyncAt, BeingSetUp
<1>o. ASSUME NEW c \in Servers, srv[c].pc # "sync", srv[c].pc \notin Asking
      PROVE  Readers(c) = {}
  BY <1>m, <1>o DEF Readers, Of, Asking
<1> USE DEF HasSrv, HasProc, HasHelper
<1>1. ASSUME NEW c \in Servers, Created(c) PROVE TalkAt(c)'
  <2>1. srv[c].alive /\ srv[c].pc = "create"
    BY <1>1 DEF Created, At
  <2>2. /\ srv'[c].alive = srv[c].alive
        /\ srv'[c].pc = "fork"
        /\ srv'[c].torn = srv[c].torn
        /\ srv'[c].requests = srv[c].requests
        /\ srv'[c].answers = IF srv[c].answers = <<>> THEN srv[c].answers ELSE Tail(srv[c].answers)
    BY <1>a, <1>1 DEF Created, WithoutAnswer
  <2>3. proc' = proc
    BY <1>1 DEF Created
  <2>4. helper' = helper
    BY <1>1 DEF Created
  <2>5. Answered(c)
    BY <1>1 DEF Created
  <2>6. QED
    BY <1>k, <2>2, <2>4, <2>5
<1>2. ASSUME NEW c \in Servers, ForkChild(c) PROVE TalkAt(c)'
  <2>1. srv[c].alive /\ srv[c].pc = "fork"
    BY <1>2 DEF ForkChild, At
  <2>2. /\ srv'[c].alive = srv[c].alive
        /\ srv'[c].pc = "sync"
        /\ srv'[c].torn = srv[c].torn
        /\ srv'[c].requests = srv[c].requests
        /\ srv'[c].answers = srv[c].answers
    BY <1>a, <1>2 DEF ForkChild
  <2>3. srv[c].cur \in Sessions /\ ServerOf(srv[c].cur) = c
    BY <1>c, <2>1 DEF Busy
  <2>4. \A t \in Sessions : SameChildReads(t)
    BY <1>p, <1>2, <1>m, <2>1, <2>3 DEF ForkChild, SameChildReads
  <2>5. helper' = helper
    BY <1>2 DEF ForkChild
  <2>6. Readers(c)' = Readers(c)
    BY <1>r, <2>1, <2>2, <2>4 DEF SameParentReads, Asking
  <2>7. QED
    BY <1>e, <2>2, <2>5, <2>6
<1>3. ASSUME NEW c \in Servers, ForkFailsTold(c) PROVE TalkAt(c)'
  <2>1. srv[c].alive /\ srv[c].pc = "fork"
    BY <1>3 DEF ForkFailsTold, At
  <2>2. /\ srv'[c].alive = srv[c].alive
        /\ srv'[c].pc = "destroy"
        /\ srv'[c].torn = srv[c].torn
        /\ srv'[c].requests = Append(srv[c].requests, Request("DESTROY", sess[srv[c].cur].ref, c, NoTty))
        /\ srv'[c].answers = srv[c].answers
    BY <1>a, <1>3 DEF ForkFailsTold, pty_send_message
  <2>3. proc' = proc
    BY <1>3 DEF ForkFailsTold
  <2>4. helper' = helper
    BY <1>3 DEF ForkFailsTold
  <2>5. Readers(c) = {}
    BY <1>o, <2>1 DEF Asking
  <2>6. \A t \in Sessions : ServerOf(t) = c => proc'[t].pc # "login"
    BY <1>m, <2>1, <2>3
  <2>7. Readers(c)' = {c}
    BY <1>b, <2>1, <2>2, <2>6 DEF Readers, Of
  <2>8. helper[c].alive
    BY <1>3 DEF ForkFailsTold, HelperKnows
  <2>9. QED
    BY <1>h, <2>2, <2>5, <2>7, <2>8 DEF Request
<1>4. ASSUME NEW c \in Servers, ForkFails(c) PROVE TalkAt(c)'
  <2>1. srv[c].alive /\ srv[c].pc = "fork"
    BY <1>4 DEF ForkFails, At
  <2>2. /\ srv'[c].alive = srv[c].alive
        /\ srv'[c].pc = "loop"
        /\ srv'[c].torn = srv[c].torn
        /\ srv'[c].requests = srv[c].requests
        /\ srv'[c].answers = srv[c].answers
    BY <1>a, <1>4 DEF ForkFails
  <2>3. proc' = proc
    BY <1>4 DEF ForkFails
  <2>4. helper' = helper
    BY <1>4 DEF ForkFails
  <2>5. Readers(c)' = Readers(c)
    BY <1>r, <2>1, <2>2, <2>3 DEF SameParentReads, Asking, SameChildReads
  <2>6. QED
    BY <1>e, <2>2, <2>4, <2>5
<1>5. ASSUME NEW c \in Servers, Destroyed(c) PROVE TalkAt(c)'
  <2>1. srv[c].alive /\ srv[c].pc = "destroy"
    BY <1>5 DEF Destroyed, At
  <2>2. /\ srv'[c].alive = srv[c].alive
        /\ srv'[c].pc = "loop"
        /\ srv'[c].torn = srv[c].torn
        /\ srv'[c].requests = srv[c].requests
        /\ srv'[c].answers = IF srv[c].answers = <<>> THEN srv[c].answers ELSE Tail(srv[c].answers)
    BY <1>a, <1>5 DEF Destroyed, WithoutAnswer
  <2>3. proc' = proc
    BY <1>5 DEF Destroyed
  <2>4. helper' = helper
    BY <1>5 DEF Destroyed
  <2>5. Answered(c)
    BY <1>5 DEF Destroyed
  <2>6. QED
    BY <1>k, <2>2, <2>4, <2>5
<1>6. ASSUME NEW c \in Servers, Synced(c) PROVE TalkAt(c)'
  <2>1. srv[c].alive /\ srv[c].pc = "sync"
    BY <1>6 DEF Synced, At
  <2>2. /\ srv'[c].alive = srv[c].alive
        /\ srv'[c].pc = "loop"
        /\ srv'[c].torn = srv[c].torn
        /\ srv'[c].requests = srv[c].requests
        /\ srv'[c].answers = srv[c].answers
    BY <1>a, <1>6 DEF Synced
  <2>3. proc' = proc
    BY <1>6 DEF Synced
  <2>4. helper' = helper
    BY <1>6 DEF Synced
  <2>5. Readers(c)' = Readers(c)
    BY <1>r, <2>1, <2>2, <2>3 DEF SameParentReads, Asking, SameChildReads
  <2>6. QED
    BY <1>e, <2>2, <2>4, <2>5
<1>7. ASSUME NEW c \in Servers, SigChld(c) PROVE TalkAt(c)'
  <2>1. srv[c].alive /\ srv[c].pc = "loop"
    BY <1>7 DEF SigChld, Idle, At
  <2>2. /\ srv'[c].alive = srv[c].alive
        /\ srv'[c].pc = "reap"
        /\ srv'[c].torn = srv[c].torn
        /\ srv'[c].requests = srv[c].requests
        /\ srv'[c].answers = srv[c].answers
    BY <1>a, <1>7 DEF SigChld
  <2>3. proc' = proc
    BY <1>7 DEF SigChld
  <2>4. helper' = helper
    BY <1>7 DEF SigChld
  <2>5. Readers(c)' = Readers(c)
    BY <1>r, <2>1, <2>2, <2>3 DEF SameParentReads, Asking, SameChildReads
  <2>6. QED
    BY <1>e, <2>2, <2>4, <2>5
<1>8. ASSUME NEW c \in Servers, ReapEnds(c) PROVE TalkAt(c)'
  <2>1. srv[c].alive /\ srv[c].pc = "reap"
    BY <1>8 DEF ReapEnds, At
  <2>2. /\ srv'[c].alive = srv[c].alive
        /\ srv'[c].pc = "loop"
        /\ srv'[c].torn = srv[c].torn
        /\ srv'[c].requests = srv[c].requests
        /\ srv'[c].answers = srv[c].answers
    BY <1>a, <1>8 DEF ReapEnds
  <2>3. proc' = proc
    BY <1>8 DEF ReapEnds
  <2>4. helper' = helper
    BY <1>8 DEF ReapEnds
  <2>5. Readers(c)' = Readers(c)
    BY <1>r, <2>1, <2>2, <2>3 DEF SameParentReads, Asking, SameChildReads
  <2>6. QED
    BY <1>e, <2>2, <2>4, <2>5
<1>9. ASSUME NEW c \in Servers, LoggedOut(c) PROVE TalkAt(c)'
  <2>1. srv[c].alive /\ srv[c].pc = "logout"
    BY <1>9 DEF LoggedOut, At
  <2>2. /\ srv'[c].alive = srv[c].alive
        /\ srv'[c].pc = "reap"
        /\ srv'[c].torn = srv[c].torn
        /\ srv'[c].requests = srv[c].requests
        /\ srv'[c].answers = IF srv[c].answers = <<>> THEN srv[c].answers ELSE Tail(srv[c].answers)
    BY <1>a, <1>9 DEF LoggedOut, WithoutAnswer
  <2>3. proc' = proc
    BY <1>9 DEF LoggedOut
  <2>4. helper' = helper
    BY <1>9 DEF LoggedOut
  <2>5. Answered(c)
    BY <1>9 DEF LoggedOut
  <2>6. QED
    BY <1>k, <2>2, <2>4, <2>5
<1>10. ASSUME NEW c \in Servers, BindFree(c) PROVE TalkAt(c)'
  <2>1. srv[c].alive /\ srv[c].pc = "bind"
    BY <1>10 DEF BindFree, At
  <2>2. /\ srv'[c].alive = srv[c].alive
        /\ srv'[c].pc = "xauth"
        /\ srv'[c].torn = srv[c].torn
        /\ srv'[c].requests = srv[c].requests
        /\ srv'[c].answers = srv[c].answers
    BY <1>a, <1>10 DEF BindFree
  <2>3. proc' = proc
    BY <1>10 DEF BindFree
  <2>4. helper' = helper
    BY <1>10 DEF BindFree
  <2>5. Readers(c)' = Readers(c)
    BY <1>r, <2>1, <2>2, <2>3 DEF SameParentReads, Asking, SameChildReads
  <2>6. QED
    BY <1>e, <2>2, <2>4, <2>5
<1>11. ASSUME NEW c \in Servers, BindTaken(c) PROVE TalkAt(c)'
  <2>1. srv[c].alive /\ srv[c].pc = "bind"
    BY <1>11 DEF BindTaken, At
  <2>2. /\ srv'[c].alive = srv[c].alive
        /\ srv'[c].pc = srv[c].pc
        /\ srv'[c].torn = srv[c].torn
        /\ srv'[c].requests = srv[c].requests
        /\ srv'[c].answers = srv[c].answers
    BY <1>a, <1>11 DEF BindTaken
  <2>3. proc' = proc
    BY <1>11 DEF BindTaken
  <2>4. helper' = helper
    BY <1>11 DEF BindTaken
  <2>5. Readers(c)' = Readers(c)
    BY <1>r, <2>1, <2>2, <2>3 DEF SameParentReads, Asking, SameChildReads
  <2>6. QED
    BY <1>e, <2>2, <2>4, <2>5
<1>12. ASSUME NEW c \in Servers, BindNone(c) PROVE TalkAt(c)'
  <2>1. srv[c].alive /\ srv[c].pc = "bind"
    BY <1>12 DEF BindNone, At
  <2>2. /\ srv'[c].alive = srv[c].alive
        /\ srv'[c].pc = "loop"
        /\ srv'[c].torn = srv[c].torn
        /\ srv'[c].requests = srv[c].requests
        /\ srv'[c].answers = srv[c].answers
    BY <1>a, <1>12 DEF BindNone
  <2>3. proc' = proc
    BY <1>12 DEF BindNone
  <2>4. helper' = helper
    BY <1>12 DEF BindNone
  <2>5. Readers(c)' = Readers(c)
    BY <1>r, <2>1, <2>2, <2>3 DEF SameParentReads, Asking, SameChildReads
  <2>6. QED
    BY <1>e, <2>2, <2>4, <2>5
<1>13. ASSUME NEW c \in Servers, PortOpens(c) PROVE TalkAt(c)'
  <2>1. srv[c].alive /\ srv[c].pc = "xauth"
    BY <1>13 DEF PortOpens, At
  <2>2. /\ srv'[c].alive = srv[c].alive
        /\ srv'[c].pc = "loop"
        /\ srv'[c].torn = srv[c].torn
        /\ srv'[c].requests = srv[c].requests
        /\ srv'[c].answers = srv[c].answers
    BY <1>a, <1>13 DEF PortOpens
  <2>3. proc' = proc
    BY <1>13 DEF PortOpens
  <2>4. helper' = helper
    BY <1>13 DEF PortOpens
  <2>5. Readers(c)' = Readers(c)
    BY <1>r, <2>1, <2>2, <2>3 DEF SameParentReads, Asking, SameChildReads
  <2>6. QED
    BY <1>e, <2>2, <2>4, <2>5
<1>14. ASSUME NEW c \in Servers, PortFails(c) PROVE TalkAt(c)'
  <2>1. srv[c].alive /\ srv[c].pc = "xauth"
    BY <1>14 DEF PortFails, At
  <2>2. /\ srv'[c].alive = srv[c].alive
        /\ srv'[c].pc = "unlink"
        /\ srv'[c].torn = srv[c].torn
        /\ srv'[c].requests = srv[c].requests
        /\ srv'[c].answers = srv[c].answers
    BY <1>a, <1>14 DEF PortFails
  <2>3. proc' = proc
    BY <1>14 DEF PortFails
  <2>4. helper' = helper
    BY <1>14 DEF PortFails
  <2>5. Readers(c)' = Readers(c)
    BY <1>r, <2>1, <2>2, <2>3 DEF SameParentReads, Asking, SameChildReads
  <2>6. QED
    BY <1>e, <2>2, <2>4, <2>5
<1>15. ASSUME NEW c \in Servers, UnlinkSocket(c) PROVE TalkAt(c)'
  <2>1. srv[c].alive /\ srv[c].pc = "unlink"
    BY <1>15 DEF UnlinkSocket, At
  <2>2. /\ srv'[c].alive = srv[c].alive
        /\ srv'[c].pc = "unlink_xauth"
        /\ srv'[c].torn = srv[c].torn
        /\ srv'[c].requests = srv[c].requests
        /\ srv'[c].answers = srv[c].answers
    BY <1>a, <1>15 DEF UnlinkSocket
  <2>3. proc' = proc
    BY <1>15 DEF UnlinkSocket
  <2>4. helper' = helper
    BY <1>15 DEF UnlinkSocket
  <2>5. Readers(c)' = Readers(c)
    BY <1>r, <2>1, <2>2, <2>3 DEF SameParentReads, Asking, SameChildReads
  <2>6. QED
    BY <1>e, <2>2, <2>4, <2>5
<1>16. ASSUME NEW c \in Servers, UnlinkXauth(c) PROVE TalkAt(c)'
  <2>1. srv[c].alive /\ srv[c].pc = "unlink_xauth"
    BY <1>16 DEF UnlinkXauth, At
  <2>2. /\ srv'[c].alive = srv[c].alive
        /\ srv'[c].pc = "loop"
        /\ srv'[c].torn = srv[c].torn
        /\ srv'[c].requests = srv[c].requests
        /\ srv'[c].answers = srv[c].answers
    BY <1>a, <1>16 DEF UnlinkXauth
  <2>3. proc' = proc
    BY <1>16 DEF UnlinkXauth
  <2>4. helper' = helper
    BY <1>16 DEF UnlinkXauth
  <2>5. Readers(c)' = Readers(c)
    BY <1>r, <2>1, <2>2, <2>3 DEF SameParentReads, Asking, SameChildReads
  <2>6. QED
    BY <1>e, <2>2, <2>4, <2>5
<1>17. ASSUME NEW c \in Servers, Disconnect(c) PROVE TalkAt(c)'
  <2>1. srv[c].alive /\ srv[c].pc = "loop"
    BY <1>17 DEF Disconnect, Idle, At
  <2>2. /\ srv'[c].alive = srv[c].alive
        /\ srv'[c].pc = srv[c].pc
        /\ srv'[c].torn = srv[c].torn
        /\ srv'[c].requests = srv[c].requests
        /\ srv'[c].answers = srv[c].answers
    BY <1>a, <1>17 DEF Disconnect
  <2>3. proc' = proc
    BY <1>17 DEF Disconnect
  <2>4. helper' = helper
    BY <1>17 DEF Disconnect
  <2>5. Readers(c)' = Readers(c)
    BY <1>r, <2>1, <2>2, <2>3 DEF SameParentReads, Asking, SameChildReads
  <2>6. QED
    BY <1>e, <2>2, <2>4, <2>5
<1>18. ASSUME NEW c \in Servers, ServerExit(c) PROVE TalkAt(c)'
  <2>1. srv[c].alive /\ srv[c].pc = "loop"
    BY <1>18 DEF ServerExit, Idle, At
  <2>2. /\ srv'[c].alive = FALSE
        /\ srv'[c].pc = srv[c].pc
        /\ srv'[c].torn = srv[c].torn
        /\ srv'[c].requests = srv[c].requests
        /\ srv'[c].answers = srv[c].answers
    BY <1>a, <1>18 DEF ServerExit
  <2>3. \A t \in Sessions : SameChildReads(t)
    BY <1>p, <1>18, <2>1 DEF ServerExit, Zombies, SameChildReads
  <2>4. helper' = helper
    BY <1>18 DEF ServerExit
  <2>5. Readers(c)' = Readers(c)
    BY <1>r, <2>1, <2>2, <2>3 DEF SameParentReads, Asking
  <2>6. QED
    BY <1>e, <2>2, <2>4, <2>5
<1>19. ASSUME NEW c \in Servers, HelperServes(c) PROVE TalkAt(c)'
  <2> SUFFICES ASSUME ~srv'[c].torn
               PROVE  AnswerSent(c)'
    BY DEF TalkAt
  <2>1. PICK ok \in BOOLEAN :
          LET r == process_request(helper[c], log, Head(srv[c].requests), ok)
          IN  srv' = [srv EXCEPT ![c].requests = Tail(@), ![c].answers = Append(@, r.answer)]
    BY <1>19, Zenon DEF HelperServes, pty_send_message
  <2> DEFINE answer == process_request(helper[c], log, Head(srv[c].requests), ok).answer
  <2>2. answer.to = Head(srv[c].requests).from
    BY AnswerGoesBack DEF Shape
  <2>3. srv' = [srv EXCEPT ![c].requests = Tail(@), ![c].answers = Append(@, answer)]
    BY <2>1
  <2> HIDE DEF answer
  <2>4. /\ srv'[c].torn = srv[c].torn /\ srv'[c].alive = srv[c].alive /\ srv'[c].pc = srv[c].pc
        /\ srv'[c].requests = Tail(srv[c].requests)
        /\ srv'[c].answers = Append(srv[c].answers, answer)
    BY <1>a, <2>3
  <2>5. helper[c].alive /\ srv[c].requests # <<>> /\ proc' = proc
    BY <1>19 DEF HelperServes
  <2>6. Readers(c)' = Readers(c)
    BY <1>r, <2>4, <2>5 DEF SameParentReads, SameChildReads
  <2>7. Requested(c)
    BY <2>4, <2>5 DEF TalkInv, TalkAt, Quiet, AnswerSent
  <2>8. /\ srv[c].requests = <<Head(srv[c].requests)>> /\ srv[c].answers = <<>>
        /\ Readers(c) = {Head(srv[c].requests).from}
    BY <2>5, <2>7 DEF Requested, One
  <2>9. srv'[c].requests = <<>> /\ srv'[c].answers = <<answer>>
    BY <1>s, <2>4, <2>8
  <2>10. QED
    BY <1>s, <2>2, <2>6, <2>8, <2>9 DEF AnswerSent, One
<1>20. ASSUME NEW c \in Servers, HelperExits(c) PROVE TalkAt(c)'
  <2>1. srv' = srv
    BY <1>20 DEF HelperExits
  <2>2. proc' = proc
    BY <1>20 DEF HelperExits
  <2>3. helper'[c].alive => helper[c].alive
    BY <1>i, <1>20 DEF HelperExits
  <2>4. Readers(c)' = Readers(c)
    BY <1>r, <2>1, <2>2 DEF SameParentReads, Asking, SameChildReads
  <2>5. QED
    BY <1>e, <2>1, <2>3, <2>4
<1>21. ASSUME NEW c \in Servers, NEW s \in Sessions, ReapUnknown(c, s) PROVE TalkAt(c)'
  <2>1. srv[c].alive /\ srv[c].pc = "reap" /\ ServerOf(s) = c
    BY <1>21 DEF ReapUnknown, At, Zombies, Of
  <2>2. srv' = srv
    BY <1>21 DEF ReapUnknown
  <2>3. \A t \in Sessions : SameChildReads(t)
    BY <1>p, <1>21, <2>1 DEF ReapUnknown, Zombies, Of, SameChildReads
  <2>4. helper' = helper
    BY <1>21 DEF ReapUnknown
  <2>5. Readers(c)' = Readers(c)
    BY <1>r, <2>1, <2>2, <2>3 DEF SameParentReads, Asking
  <2>6. QED
    BY <1>e, <2>2, <2>4, <2>5
<1>22. ASSUME NEW c \in Servers, NEW s \in Sessions, ReapTold(c, s) PROVE TalkAt(c)'
  <2>1. srv[c].alive /\ srv[c].pc = "reap" /\ ServerOf(s) = c
    BY <1>22 DEF ReapTold, At, Zombies, Of
  <2>2. /\ srv'[c].alive = srv[c].alive
        /\ srv'[c].pc = "logout"
        /\ srv'[c].torn = srv[c].torn
        /\ srv'[c].requests = Append(srv[c].requests, Request("LOGOUT", sess[s].ref, c, NoTty))
        /\ srv'[c].answers = srv[c].answers
    BY <1>a, <1>22 DEF ReapTold, pty_send_message
  <2>3. \A t \in Sessions : SameChildReads(t)
    BY <1>p, <1>22, <2>1 DEF ReapTold, Zombies, Of, SameChildReads
  <2>4. helper' = helper
    BY <1>22 DEF ReapTold
  <2>5. Readers(c) = {}
    BY <1>o, <2>1 DEF Asking
  <2>6. \A t \in Sessions : ServerOf(t) = c => proc'[t].pc # "login"
    BY <1>m, <2>1, <2>3 DEF SameChildReads
  <2>7. Readers(c)' = {c}
    BY <1>b, <2>1, <2>2, <2>6 DEF Readers, Of
  <2>8. helper[c].alive
    BY <1>22 DEF ReapTold, HelperKnows
  <2>9. QED
    BY <1>h, <2>2, <2>5, <2>7, <2>8 DEF Request
<1>23. ASSUME NEW c \in Servers, NEW s \in Sessions, ReapUntold(c, s) PROVE TalkAt(c)'
  <2>1. srv[c].alive /\ srv[c].pc = "reap" /\ ServerOf(s) = c
    BY <1>23 DEF ReapUntold, At, Zombies, Of
  <2>2. /\ srv'[c].alive = srv[c].alive
        /\ srv'[c].pc = srv[c].pc
        /\ srv'[c].torn = srv[c].torn
        /\ srv'[c].requests = srv[c].requests
        /\ srv'[c].answers = srv[c].answers
    BY <1>a, <1>23 DEF ReapUntold
  <2>3. \A t \in Sessions : SameChildReads(t)
    BY <1>p, <1>23, <2>1 DEF ReapUntold, Zombies, Of, SameChildReads
  <2>4. helper' = helper
    BY <1>23 DEF ReapUntold
  <2>5. Readers(c)' = Readers(c)
    BY <1>r, <2>1, <2>2, <2>3 DEF SameParentReads, Asking
  <2>6. QED
    BY <1>e, <2>2, <2>4, <2>5
<1>24. ASSUME NEW c \in Servers, NEW s \in Sessions, PtyGranted(c, s) PROVE TalkAt(c)'
  <2>1. srv[c].alive /\ srv[c].pc = "loop" /\ ServerOf(s) = c
    BY <1>24 DEF PtyGranted, Asked, Idle, At, Of
  <2>2. srv' = srv
    BY <1>24 DEF PtyGranted
  <2>3. proc' = proc
    BY <1>24 DEF PtyGranted
  <2>4. helper' = helper
    BY <1>24 DEF PtyGranted
  <2>5. Readers(c)' = Readers(c)
    BY <1>r, <2>1, <2>2, <2>3 DEF SameParentReads, Asking, SameChildReads
  <2>6. QED
    BY <1>e, <2>2, <2>4, <2>5
<1>25. ASSUME NEW c \in Servers, NEW s \in Sessions, PtyRefused(c, s) PROVE TalkAt(c)'
  <2>1. srv[c].alive /\ srv[c].pc = "loop" /\ ServerOf(s) = c
    BY <1>25 DEF PtyRefused, Asked, Idle, At, Of
  <2>2. srv' = srv
    BY <1>25 DEF PtyRefused
  <2>3. proc' = proc
    BY <1>25 DEF PtyRefused
  <2>4. helper' = helper
    BY <1>25 DEF PtyRefused
  <2>5. Readers(c)' = Readers(c)
    BY <1>r, <2>1, <2>2, <2>3 DEF SameParentReads, Asking, SameChildReads
  <2>6. QED
    BY <1>e, <2>2, <2>4, <2>5
<1>26. ASSUME NEW c \in Servers, NEW s \in Sessions, NEW failure, SpawnFails(c, s,
              failure)
       PROVE  TalkAt(c)'
  <2>1. srv[c].alive /\ srv[c].pc = "loop" /\ ServerOf(s) = c
    BY <1>26 DEF SpawnFails, CanSpawn, Asked, Idle, At, Of
  <2>2. /\ srv'[c].alive = srv[c].alive
        /\ srv'[c].pc = srv[c].pc
        /\ srv'[c].torn = srv[c].torn
        /\ srv'[c].requests = srv[c].requests
        /\ srv'[c].answers = srv[c].answers
    BY <1>a, <1>26 DEF SpawnFails
  <2>3. proc' = proc
    BY <1>26 DEF SpawnFails
  <2>4. helper' = helper
    BY <1>26 DEF SpawnFails
  <2>5. Readers(c)' = Readers(c)
    BY <1>r, <2>1, <2>2, <2>3 DEF SameParentReads, Asking, SameChildReads
  <2>6. QED
    BY <1>e, <2>2, <2>4, <2>5
<1>27. ASSUME NEW c \in Servers, NEW s \in Sessions, NEW failure, SpawnAsks(c, s, failure)
       PROVE  TalkAt(c)'
  <2>1. srv[c].alive /\ srv[c].pc = "loop" /\ ServerOf(s) = c
    BY <1>27 DEF SpawnAsks, CanSpawn, Asked, Idle, At, Of
  <2>2. /\ srv'[c].alive = srv[c].alive /\ srv'[c].pc = "create"
        /\ srv'[c].torn = srv[c].torn /\ srv'[c].answers = srv[c].answers
        /\ \E tty : srv'[c].requests = Append(srv[c].requests, Request("CREATE", -1, c, tty))
    BY <1>a, <1>27 DEF SpawnAsks, pty_send_message
  <2>3. proc' = proc
    BY <1>27 DEF SpawnAsks
  <2>4. helper' = helper
    BY <1>27 DEF SpawnAsks
  <2>5. Readers(c) = {}
    BY <1>o, <2>1 DEF Asking
  <2>6. \A t \in Sessions : ServerOf(t) = c => proc'[t].pc # "login"
    BY <1>m, <2>1, <2>3
  <2>7. Readers(c)' = {c}
    BY <1>b, <2>1, <2>2, <2>6 DEF Readers, Of
  <2>8. helper[c].alive
    BY <1>27 DEF SpawnAsks
  <2>9. QED
    BY <1>h, <2>2, <2>5, <2>7, <2>8 DEF Request
<1>28. ASSUME NEW c \in Servers, NEW s \in Sessions, NEW failure, SpawnAlone(c, s,
              failure)
       PROVE  TalkAt(c)'
  <2>1. srv[c].alive /\ srv[c].pc = "loop" /\ ServerOf(s) = c
    BY <1>28 DEF SpawnAlone, CanSpawn, Asked, Idle, At, Of
  <2>2. /\ srv'[c].alive = srv[c].alive
        /\ srv'[c].pc = "fork"
        /\ srv'[c].torn = srv[c].torn
        /\ srv'[c].requests = srv[c].requests
        /\ srv'[c].answers = srv[c].answers
    BY <1>a, <1>28 DEF SpawnAlone
  <2>3. proc' = proc
    BY <1>28 DEF SpawnAlone
  <2>4. helper' = helper
    BY <1>28 DEF SpawnAlone
  <2>5. Readers(c)' = Readers(c)
    BY <1>r, <2>1, <2>2, <2>3 DEF SameParentReads, Asking, SameChildReads
  <2>6. QED
    BY <1>e, <2>2, <2>4, <2>5
<1>29. ASSUME NEW c \in Servers, NEW s \in Sessions, SpawnRefused(c, s) PROVE TalkAt(c)'
  <2>1. srv[c].alive /\ srv[c].pc = "loop" /\ ServerOf(s) = c
    BY <1>29 DEF SpawnRefused, Asked, Idle, At, Of
  <2>2. srv' = srv
    BY <1>29 DEF SpawnRefused
  <2>3. proc' = proc
    BY <1>29 DEF SpawnRefused
  <2>4. helper' = helper
    BY <1>29 DEF SpawnRefused
  <2>5. Readers(c)' = Readers(c)
    BY <1>r, <2>1, <2>2, <2>3 DEF SameParentReads, Asking, SameChildReads
  <2>6. QED
    BY <1>e, <2>2, <2>4, <2>5
<1>30. ASSUME NEW c \in Servers, NEW s \in Sessions, Abort(c, s) PROVE TalkAt(c)'
  <2>1. srv[c].alive /\ srv[c].pc = "loop" /\ ServerOf(s) = c
    BY <1>30 DEF Abort, Asked, Idle, At, Of
  <2>2. /\ srv'[c].alive = FALSE
        /\ srv'[c].pc = "aborted"
        /\ srv'[c].torn = srv[c].torn
        /\ srv'[c].requests = srv[c].requests
        /\ srv'[c].answers = srv[c].answers
    BY <1>a, <1>30 DEF Abort
  <2>3. proc' = proc
    BY <1>30 DEF Abort
  <2>4. helper' = helper
    BY <1>30 DEF Abort
  <2>5. Readers(c)' = Readers(c)
    BY <1>r, <2>1, <2>2, <2>3 DEF SameParentReads, Asking, SameChildReads
  <2>6. QED
    BY <1>e, <2>2, <2>4, <2>5
<1>31. ASSUME NEW c \in Servers, NEW s \in Sessions, X11Accepted(c, s) PROVE TalkAt(c)'
  <2>1. srv[c].alive /\ srv[c].pc = "loop" /\ ServerOf(s) = c
    BY <1>31 DEF X11Accepted, Asked, Idle, At, Of
  <2>2. /\ srv'[c].alive = srv[c].alive
        /\ srv'[c].pc = "bind"
        /\ srv'[c].torn = srv[c].torn
        /\ srv'[c].requests = srv[c].requests
        /\ srv'[c].answers = srv[c].answers
    BY <1>a, <1>31 DEF X11Accepted
  <2>3. proc' = proc
    BY <1>31 DEF X11Accepted
  <2>4. helper' = helper
    BY <1>31 DEF X11Accepted
  <2>5. Readers(c)' = Readers(c)
    BY <1>r, <2>1, <2>2, <2>3 DEF SameParentReads, Asking, SameChildReads
  <2>6. QED
    BY <1>e, <2>2, <2>4, <2>5
<1>32. ASSUME NEW c \in Servers, NEW s \in Sessions, X11Refused(c, s) PROVE TalkAt(c)'
  <2>1. srv[c].alive /\ srv[c].pc = "loop" /\ ServerOf(s) = c
    BY <1>32 DEF X11Refused, Asked, Idle, At, Of
  <2>2. srv' = srv
    BY <1>32 DEF X11Refused
  <2>3. proc' = proc
    BY <1>32 DEF X11Refused
  <2>4. helper' = helper
    BY <1>32 DEF X11Refused
  <2>5. Readers(c)' = Readers(c)
    BY <1>r, <2>1, <2>2, <2>3 DEF SameParentReads, Asking, SameChildReads
  <2>6. QED
    BY <1>e, <2>2, <2>4, <2>5
<1>33. ASSUME NEW c \in Servers, NEW s \in Sessions, AcceptSingle(c, s) PROVE TalkAt(c)'
  <2>1. srv[c].alive /\ srv[c].pc = "loop" /\ ServerOf(s) = c
    BY <1>33 DEF AcceptSingle, Idle, At, Of
  <2>2. /\ srv'[c].alive = srv[c].alive
        /\ srv'[c].pc = "unlink"
        /\ srv'[c].torn = srv[c].torn
        /\ srv'[c].requests = srv[c].requests
        /\ srv'[c].answers = srv[c].answers
    BY <1>a, <1>33 DEF AcceptSingle
  <2>3. proc' = proc
    BY <1>33 DEF AcceptSingle
  <2>4. helper' = helper
    BY <1>33 DEF AcceptSingle
  <2>5. Readers(c)' = Readers(c)
    BY <1>r, <2>1, <2>2, <2>3 DEF SameParentReads, Asking, SameChildReads
  <2>6. QED
    BY <1>e, <2>2, <2>4, <2>5
<1>34. ASSUME NEW c \in Servers, NEW s \in Sessions, CloseSession(c, s) PROVE TalkAt(c)'
  <2>1. srv[c].alive /\ srv[c].pc = "loop" /\ ServerOf(s) = c
    BY <1>34 DEF CloseSession, Idle, At, Of
  <2>2. /\ srv'[c].pc = "loop" \/ srv'[c].pc = "unlink"
        /\ srv'[c].alive = srv[c].alive
        /\ srv'[c].torn = srv[c].torn
        /\ srv'[c].requests = srv[c].requests
        /\ srv'[c].answers = srv[c].answers
    BY <1>a, <1>34, <2>1 DEF CloseSession
  <2>3. \A t \in Sessions : SameChildReads(t)
    BY <1>p, <1>34, <2>1 DEF CloseSession, do_kill_process, SameChildReads
  <2>4. helper' = helper
    BY <1>34 DEF CloseSession
  <2>5. Readers(c)' = Readers(c)
    BY <1>r, <2>1, <2>2, <2>3 DEF SameParentReads, Asking
  <2>6. QED
    BY <1>e, <2>2, <2>4, <2>5
<1>35. ASSUME NEW s \in Sessions, SetupFails(s) PROVE TalkAt(ServerOf(s))'
  <2> DEFINE c == ServerOf(s)
  <2> c \in Servers
    BY <1>c
  <2>1. proc[s].pc = "setup"
    BY <1>35 DEF SetupFails
  <2>2. /\ srv'[c].alive = srv[c].alive
        /\ srv'[c].pc = srv[c].pc
        /\ srv'[c].torn = srv[c].torn
        /\ srv'[c].requests = srv[c].requests
        /\ srv'[c].answers = srv[c].answers
    BY <1>a, <1>35 DEF SetupFails
  <2>3. \A t \in Sessions : SameChildReads(t)
    BY <1>p, <1>35, <2>1 DEF SetupFails, Exited, SameChildReads
  <2>4. helper' = helper
    BY <1>35 DEF SetupFails
  <2>5. Readers(c)' = Readers(c)
    BY <1>r, <2>1, <2>2, <2>3 DEF SameParentReads, Asking
  <2>6. QED
    BY <1>e, <2>2, <2>4, <2>5
<1>36. ASSUME NEW s \in Sessions, AskLogin(s) PROVE TalkAt(ServerOf(s))'
  <2> DEFINE c == ServerOf(s)
  <2> c \in Servers
    BY <1>c
  <2>1. proc[s].pc = "setup"
    BY <1>36 DEF AskLogin
  <2>2. /\ srv'[c].alive = srv[c].alive
        /\ srv'[c].pc = srv[c].pc
        /\ srv'[c].torn = srv[c].torn
        /\ srv'[c].requests = Append(srv[c].requests, Request("LOGIN", sess[s].ref, s, NoTty))
        /\ srv'[c].answers = srv[c].answers
    BY <1>a, <1>36 DEF AskLogin, pty_send_message
  <2>3. proc'[s].pc = "login" /\ \A t \in Sessions : t # s => proc'[t] = proc[t]
    BY <1>p, <1>36 DEF AskLogin
  <2>4. helper' = helper
    BY <1>36 DEF AskLogin
  <2>5. /\ srv[c].pc = "sync"
        /\ \A t \in Sessions : (ServerOf(t) = c /\ t # s) => proc[t].pc # "login"
    BY <2>1 DEF SyncInv, SyncAt, BeingSetUp
  <2>6. Readers(c) = {}
    BY <2>1, <2>5 DEF Readers, Of
  <2>7. Readers(c)' = {s}
    BY <1>b, <2>2, <2>5, <2>3 DEF Readers, Of
  <2>8. helper[c].alive
    BY <1>36 DEF AskLogin, HelperKnows
  <2>9. QED
    BY <1>h, <2>2, <2>6, <2>7, <2>8 DEF Request
<1>37. ASSUME NEW s \in Sessions, StartUnrecorded(s) PROVE TalkAt(ServerOf(s))'
  <2> DEFINE c == ServerOf(s)
  <2> c \in Servers
    BY <1>c
  <2>1. proc[s].pc = "setup"
    BY <1>37 DEF StartUnrecorded
  <2>2. srv' = srv
    BY <1>37 DEF StartUnrecorded
  <2>3. \A t \in Sessions : SameChildReads(t)
    BY <1>p, <1>37, <2>1 DEF StartUnrecorded, Start, SameChildReads
  <2>4. helper' = helper
    BY <1>37 DEF StartUnrecorded
  <2>5. Readers(c)' = Readers(c)
    BY <1>r, <2>1, <2>2, <2>3 DEF SameParentReads, Asking
  <2>6. QED
    BY <1>e, <2>2, <2>4, <2>5
<1>38. ASSUME NEW s \in Sessions, LoggedIn(s) PROVE TalkAt(ServerOf(s))'
  <2> DEFINE c == ServerOf(s)
  <2> c \in Servers
    BY <1>c
  <2>1. proc[s].pc = "login"
    BY <1>38 DEF LoggedIn
  <2>2. /\ srv'[c].alive = srv[c].alive
        /\ srv'[c].pc = srv[c].pc
        /\ srv'[c].torn = srv[c].torn
        /\ srv'[c].requests = srv[c].requests
        /\ srv'[c].answers = IF srv[c].answers = <<>> THEN srv[c].answers ELSE Tail(srv[c].answers)
    BY <1>a, <1>38 DEF LoggedIn, WithoutAnswer
  <2>3. helper' = helper
    BY <1>38 DEF LoggedIn
  <2>4. Answered(c)
    BY <1>38 DEF LoggedIn
  <2>5. QED
    BY <1>k, <2>2, <2>3, <2>4
<1>39. ASSUME NEW s \in Sessions, Ends(s) PROVE TalkAt(ServerOf(s))'
  <2> DEFINE c == ServerOf(s)
  <2> c \in Servers
    BY <1>c
  <2>1. /\ srv'[c].torn = (srv[c].torn \/ proc[s].pc = "login")
        /\ srv'[c].requests = srv[c].requests /\ srv'[c].answers = srv[c].answers
        /\ srv'[c].alive = srv[c].alive /\ srv'[c].pc = srv[c].pc
    BY <1>a, <1>39 DEF Ends
  <2>2. helper' = helper
    BY <1>39 DEF Ends
  <2>3. CASE proc[s].pc = "login"
    BY <2>1, <2>3 DEF TalkAt
  <2>4. CASE proc[s].pc # "login"
    <3>1. proc'[s].pc # "login" /\ \A t \in Sessions : t # s => proc'[t] = proc[t]
      BY <1>p, <1>39 DEF Ends, Exited
    <3>2. Readers(c)' = Readers(c)
      BY <1>r, <2>1, <2>4, <3>1 DEF SameParentReads, SameChildReads
    <3>3. srv[c].torn => srv'[c].torn
      BY <2>1
    <3>4. QED
      BY <1>e, <2>1, <2>2, <3>2, <3>3
  <2>5. QED
    BY <2>3, <2>4
<1>40. ASSUME NEW c \in Servers,
             ServerStep(c) \/ Disconnect(c) \/ ServerExit(c) \/ HelperServes(c) \/ HelperExits(c)
      PROVE  TalkInv'
  <2>1. LocalTo(c)
    BY <1>40, Local
  <2>2. TalkAt(c)'
    BY <1>40, <1>1, <1>2, <1>3, <1>4, <1>5, <1>6, <1>7, <1>8, <1>9, <1>10, <1>11, <1>12,
       <1>13, <1>14, <1>15, <1>16, <1>17, <1>18, <1>19, <1>20, <1>21, <1>22, <1>23 DEF
       ServerStep, Fork, Reap, open_x11_socket, create_xauth
  <2>3. QED
    BY <1>d, <2>1, <2>2
<1>41. ASSUME NEW c \in Servers, NEW s \in Sessions, ClientStep(c, s) PROVE TalkInv'
  <2>1. LocalTo(c)
    BY <1>41, Local
  <2>2. TalkAt(c)'
    BY <1>41, <1>24, <1>25, <1>26, <1>27, <1>28, <1>29, <1>30, <1>31, <1>32, <1>33, <1>34
       DEF ClientStep, PtyRequest, Spawn, X11Request
  <2>3. QED
    BY <1>d, <2>1, <2>2
<1>42. ASSUME NEW s \in Sessions, ChildStep(s) \/ Ends(s) PROVE TalkInv'
  <2>1. LocalTo(ServerOf(s))
    BY <1>42, Local
  <2>2. TalkAt(ServerOf(s))'
    BY <1>42, <1>35, <1>36, <1>37, <1>38, <1>39 DEF ChildStep, Setup
  <2>3. QED
    BY <1>c, <1>d, <2>1, <2>2
<1>43. ASSUME UNCHANGED vars PROVE TalkInv'
  <2>1. srv' = srv /\ proc' = proc /\ helper' = helper
    BY <1>43 DEF vars
  <2>2. \A c \in Servers : Readers(c)' = Readers(c)
    BY <1>r, <2>1 DEF SameParentReads, SameChildReads
  <2>3. \A c \in Servers : TalkAt(c)'
    BY <1>e, <2>1, <2>2
  <2>4. QED
    BY <1>b, <2>3 DEF TalkInv
<1>44. QED
  BY <1>40, <1>41, <1>42, <1>43 DEF Next

(* AnswersMatch, for any number of connections and sessions: an answer is  *)
(* read by the process that it is for, though parent and child read from   *)
(* the same socket (send_helper_request, spawn_parent, process_request).   *)
THEOREM AnswersDoMatch == Spec => []AnswersMatch
<1>1. Init => Shape /\ CurInv /\ SyncInv /\ TalkInv
  <2> SUFFICES ASSUME Init PROVE CurInv /\ SyncInv /\ TalkInv
    BY ShapeInit
  <2>1. \A c \in Servers : /\ srv[c].pc = "loop"
                           /\ srv[c].requests = <<>> /\ srv[c].answers = <<>>
    BY DEF Init
  <2>2. \A s \in Sessions : proc[s].pc = "none"
    BY DEF Init, NoProcess
  <2>3. CurInv
    BY <2>1 DEF CurInv, Busy
  <2>4. SyncInv
    BY <2>1, <2>2 DEF SyncInv, SyncAt, Forking, BeingSetUp
  <2>5. TalkInv
    BY <2>1 DEF TalkInv, TalkAt, Quiet
  <2>6. QED
    BY <2>3, <2>4, <2>5
<1>2. Shape /\ CurInv /\ SyncInv /\ TalkInv /\ [Next]_vars
        => (Shape /\ CurInv /\ SyncInv /\ TalkInv)'
  BY ShapeStep, CurStep, SyncStep, TalkStep
<1>3. TalkInv => AnswersMatch
  <2> SUFFICES ASSUME TalkInv, NEW c \in Servers, srv[c].answers # <<>>, ~srv[c].torn
               PROVE  /\ Readers(c) = {Head(srv[c].answers).to}
                      /\ Len(srv[c].answers) = 1 /\ srv[c].requests = <<>>
    BY DEF AnswersMatch
  <2>1. AnswerSent(c)
    BY DEF TalkInv, TalkAt, Quiet, Requested
  <2>2. /\ srv[c].answers = <<Head(srv[c].answers)>> /\ srv[c].requests = <<>>
        /\ Readers(c) = {Head(srv[c].answers).to}
    BY <2>1 DEF AnswerSent, One
  <2>3. \A r : Len(<<r>>) = 1
    OBVIOUS
  <2>4. QED
    BY <2>2, <2>3
<1>4. QED
  BY <1>1, <1>2, <1>3, PTL DEF Spec
=============================================================================
