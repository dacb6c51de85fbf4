----------------------- MODULE ServerProcessPrivate -----------------------
(***************************************************************************)
(* Proof of DescriptorsPrivate: no process inherits a descriptor that is   *)
(* not meant for it.                                                       *)
(***************************************************************************)
EXTENDS ServerProcessProofs

-----------------------------------------------------------------------------
(* Descriptors.  f is left over from a spawn that failed.                  *)
Spare(c, f) == f[1] \in Sessions /\ ServerOf(f[1]) = c /\ sess[f[1]].leaky

(* The descriptors of the process that lshd-connection is about to start.  *)
Making(c) ==
  IF srv[c].pc \in Forking THEN Fd(srv[c].cur, Pipes \cup {"sync0", "sync1"})
  ELSE IF srv[c].pc = "sync" THEN Fd(srv[c].cur, {"sync0", "in1", "out0", "err0"})
  ELSE {}

(* In the middle of do_kill_server_session.                                *)
Closing(c, s) ==
  srv[c].pc \in {"unlink", "unlink_xauth"} /\ srv[c].after = "close" /\ srv[c].cur = s

OfSession(c, f) ==
  \E s \in Sessions :
    /\ ServerOf(s) = c
    /\ f \in Fd(s, {"master"}) \/ (f \in SessionFds(s) /\ (sess[s].alive \/ Closing(c, s)))

KeepAt(c) == \A f \in fds[c].keep : Spare(c, f) \/ f \in Making(c)

OpenAt(c) ==
  \A f \in fds[c].open : f \in HelperFd \/ Spare(c, f) \/ f \in Making(c) \/ OfSession(c, f)

ChildAt(c, s) ==
  /\ proc[s].pc \in BeingSetUp =>
       \A f \in fds[s].keep : Spare(c, f) \/ f \in Fd(s, Pipes \cup {"sync1"})
  /\ proc[s].pc = "running" => \A f \in fds[s].open : Spare(c, f)

MadeAt(c) == srv[c].pc \in Forking \cup {"sync"} => sess[srv[c].cur].alive

PrivateAt(c) ==
  /\ KeepAt(c) /\ OpenAt(c) /\ MadeAt(c)
  /\ \A s \in Sessions : ServerOf(s) = c => ChildAt(c, s)

PrivateInv == \A c \in Servers : PrivateAt(c)

(* What a step leaves as it is, for all but a few.                         *)
LeakyStay == \A s \in Sessions : sess[s].leaky => sess'[s].leaky

ChildSame(s) ==
  /\ proc'[s].pc \in BeingSetUp => proc[s].pc \in BeingSetUp /\ fds'[s] = fds[s]
  /\ proc'[s].pc = "running" => proc[s].pc = "running" /\ fds'[s] = fds[s]

(* All calls that open a descriptor either mark it to be closed on exec or *)
(* are followed by one that does, and what the child inherits of its own   *)
(* session it closes (spawn_shell, spawn_child, io_set_close_on_exec).     *)
LEMMA PrivateStep == Shape /\ CurInv /\ PrivateInv /\ [Next]_vars => PrivateInv'
<1> SUFFICES ASSUME Shape, CurInv, PrivateInv, [Next]_vars
             PROVE  PrivateInv'
  OBVIOUS
<1>a. HasSrv
  BY HasFields
<1>s. HasSess
  BY HasFields
<1>p. HasProc
  BY HasFields
<1>g. HasFds
  BY HasFields
<1>b. Sessions' = Sessions /\ Servers' = Servers
  BY SceneFixed
<1>c. /\ \A s \in Sessions : ServerOf(s) \in Servers
      /\ \A c \in Servers : srv[c].pc \in Busy =>
           srv[c].cur \in Sessions /\ ServerOf(srv[c].cur) = c
  BY NamesDiffer DEF Shape, CurInv
<1>n. /\ \A c \in Servers, s \in Sessions : c # s
      /\ Servers \subseteq Processes /\ Sessions \subseteq Processes
  BY NamesDiffer DEF Shape, Processes
<1>i. ASSUME NEW c \in Servers
      PROVE  /\ KeepAt(c) /\ OpenAt(c) /\ MadeAt(c)
             /\ \A s \in Sessions : ServerOf(s) = c => ChildAt(c, s)
  BY DEF PrivateInv, PrivateAt
<1>d. ASSUME NEW c \in Servers, LocalTo(c), PrivateAt(c)' PROVE PrivateInv'
  <2>1. ASSUME NEW d \in Servers, d # c PROVE PrivateAt(d)'
    <3>1. srv'[d] = srv[d] /\ fds'[d] = fds[d]
      BY <1>d, <2>1 DEF LocalTo
    <3>2. \A s \in Sessions : ServerOf(s) = d =>
            sess'[s] = sess[s] /\ proc'[s] = proc[s] /\ fds'[s] = fds[s]
      BY <1>d, <2>1 DEF LocalTo
    <3>3. /\ \A f : Spare(d, f) => Spare(d, f)'
          /\ Making(d)' = Making(d)
          /\ \A s : Closing(d, s)' = Closing(d, s)
      BY <1>b, <3>1, <3>2 DEF Spare, Making, Closing
    <3>4. \A f : OfSession(d, f) => OfSession(d, f)'
      BY <1>b, <3>2, <3>3 DEF OfSession
    <3>5. KeepAt(d)' /\ OpenAt(d)'
      BY <1>i, <3>1, <3>3, <3>4 DEF KeepAt, OpenAt
    <3>6. MadeAt(d)'
      BY <1>c, <1>i, <3>1, <3>2 DEF MadeAt, Busy, Forking
    <3>7. \A s \in Sessions : ServerOf(s) = d => ChildAt(d, s)'
      BY <1>i, <3>2, <3>3 DEF ChildAt
    <3>8. QED
      BY <1>b, <3>5, <3>6, <3>7 DEF PrivateAt
  <2>2. QED
    BY <1>b, <1>d, <2>1 DEF PrivateInv
<1>e. ASSUME LeakyStay, NEW c \in Servers, NEW f, Spare(c, f) PROVE Spare(c, f)'
  BY <1>b, <1>e DEF LeakyStay, Spare
<1>f. ASSUME NEW c \in Servers, LeakyStay, NEW s \in Sessions, ServerOf(s) = c, ChildSame(s)
      PROVE  ChildAt(c, s)'
  <2>1. ChildAt(c, s)
    BY <1>f, <1>i
  <2>2. QED
    BY <1>e, <1>f, <2>1 DEF ChildAt, ChildSame
<1>h. ASSUME NEW c \in Servers, LeakyStay, fds'[c].keep \subseteq fds[c].keep,
             \A f \in fds'[c].keep : f \in Making(c) => f \in Making(c)'
      PROVE  KeepAt(c)'
  BY <1>e, <1>h, <1>i DEF KeepAt
<1>k. ASSUME NEW c \in Servers, LeakyStay, fds'[c].open \subseteq fds[c].open,
             \A f \in fds'[c].open : f \in Making(c) => f \in Making(c)' \/ OfSession(c, f)',
             \A f \in fds'[c].open : OfSession(c, f) => OfSession(c, f)'
      PROVE  OpenAt(c)'
  BY <1>e, <1>i, <1>k DEF OpenAt, HelperFd
<1>l. ASSUME NEW c \in Servers, KeepAt(c)', OpenAt(c)', MadeAt(c)',
             \A s \in Sessions : ServerOf(s) = c => ChildAt(c, s)'
      PROVE  PrivateAt(c)'
  BY <1>b, <1>l DEF PrivateAt
<1>m. ASSUME NEW c \in Servers,
             \A s \in Sessions : sess[s].alive => sess'[s].alive,
             \A s : Closing(c, s) => Closing(c, s)',
             NEW f, OfSession(c, f)
      PROVE  OfSession(c, f)'
  BY <1>b, <1>m DEF OfSession
<1>o. ASSUME NEW c \in Servers, LeakyStay,
             \A s \in Sessions : sess[s].alive => sess'[s].alive,
             \A s : Closing(c, s) => Closing(c, s)',
             fds'[c].keep \subseteq fds[c].keep, fds'[c].open \subseteq fds[c].open,
             Making(c) \subseteq Making(c)', MadeAt(c)',
             \A s \in Sessions : ServerOf(s) = c => ChildSame(s)
      PROVE  PrivateAt(c)'
  <2>1. KeepAt(c)'
    BY <1>h, <1>o
  <2>2. \A f : OfSession(c, f) => OfSession(c, f)'
    BY <1>m, <1>o
  <2>3. OpenAt(c)'
    BY <1>k, <1>o, <2>2
  <2>4. \A s \in Sessions : ServerOf(s) = c => ChildAt(c, s)'
    BY <1>f, <1>o
  <2>5. QED
    BY <1>l, <1>o, <2>1, <2>3, <2>4
<1>q. \A s, names, f : f \in Fd(s, names) => f[1] = s
  BY DEF Fd
<1>r. \A s, names, f : f \in Fd(s, names) <=> \E name \in names : f = <<s, name>>
  BY DEF Fd
<1> USE DEF HasSrv, HasSess, HasProc, HasFds
<1>1. ASSUME NEW c \in Servers, Created(c) PROVE PrivateAt(c)'
  <2>1. srv[c].alive /\ srv[c].pc = "create"
    BY <1>1 DEF Created, At
  <2>2. /\ srv'[c].pc = "fork"
        /\ srv'[c].cur = srv[c].cur
        /\ srv'[c].after = srv[c].after
    BY <1>a, <1>1 DEF Created, WithoutAnswer
  <2>3. srv[c].cur \in Sessions /\ ServerOf(srv[c].cur) = c
    BY <1>c, <2>1 DEF Busy
  <2>4. \A t \in Sessions : sess'[t].alive = sess[t].alive /\ sess'[t].leaky = sess[t].leaky
    BY <1>s, <1>1, <2>3 DEF Created
  <2>5. proc' = proc /\ fds' = fds
    BY <1>1 DEF Created
  <2>6. \A t \in Sessions : ChildSame(t)
    BY <2>5 DEF ChildSame
  <2>7. LeakyStay /\ \A t \in Sessions : sess[t].alive => sess'[t].alive
    BY <2>4 DEF LeakyStay
  <2>8. Making(c) \subseteq Making(c)' /\ \A t : Closing(c, t) => Closing(c, t)'
    BY <2>1, <2>2 DEF Making, Closing, Forking
  <2>9. MadeAt(c)'
    BY <1>i, <2>1, <2>2, <2>7, <1>c DEF MadeAt, Forking, Busy
  <2>10. QED
    BY <1>o, <2>7, <2>8, <2>9, <2>6, <2>5
<1>2. ASSUME NEW c \in Servers, ForkChild(c) PROVE PrivateAt(c)'
  <2> DEFINE s == srv[c].cur
  <2>1. srv[c].alive /\ srv[c].pc = "fork" /\ sess' = sess
    BY <1>2 DEF ForkChild, At
  <2>2. s \in Sessions /\ ServerOf(s) = c
    BY <1>c, <2>1 DEF Busy
  <2>3. srv'[c].pc = "sync" /\ srv'[c].cur = s
    BY <1>a, <1>2 DEF ForkChild
  <2>4. proc'[s].pc = "setup" /\ \A t \in Sessions : t # s => proc'[t] = proc[t]
    BY <1>p, <2>2, <1>2 DEF ForkChild
  <2>5. /\ fds'[s].keep = fds[c].keep \ Fd(s, {"sync0"})
        /\ \A t \in Sessions : t # s => fds'[t] = fds[t]
    BY <1>n, <1>g, <2>2, <1>2 DEF ForkChild, Closed
  <2>6. /\ fds'[c].keep = fds[c].keep \ Fd(s, {"sync1", "in0", "out1", "err1"})
        /\ fds'[c].open = fds[c].open \ Fd(s, {"sync1", "in0", "out1", "err1"})
    BY <1>n, <1>g, <2>2, <1>2 DEF ForkChild, Closed
  <2>7. /\ Making(c) = Fd(s, Pipes \cup {"sync0", "sync1"})
        /\ Making(c)' = Fd(s, {"sync0", "in1", "out0", "err0"})
    BY <2>1, <2>3 DEF Making, Forking
  <2> HIDE DEF s
  <2>8. \A f : (f \in Making(c) /\ f \notin Fd(s, {"sync1", "in0", "out1", "err1"}))
                => f \in Making(c)'
    BY <2>7 DEF Fd, Pipes
  <2>9. \A f : (f \in Making(c) /\ f \notin Fd(s, {"sync0"})) => f \in Fd(s, Pipes \cup {"sync1"})
    BY <2>7 DEF Fd
  <2>10. LeakyStay
    BY <2>1 DEF LeakyStay
  <2>11. KeepAt(c)'
    BY <1>h, <2>6, <2>8, <2>10
  <2>12. \A f : OfSession(c, f) => OfSession(c, f)'
    <3>1. \A t : ~Closing(c, t)
      BY <2>1 DEF Closing
    <3>2. QED
      BY <1>m, <2>1, <3>1
  <2>13. OpenAt(c)'
    BY <1>k, <2>6, <2>8, <2>10, <2>12
  <2>14. MadeAt(c)'
    BY <1>i, <2>1, <2>3 DEF MadeAt, Forking, s
  <2>15. ASSUME NEW t \in Sessions, t = s PROVE ChildAt(c, t)'
    <3>1. \A f \in fds[c].keep : Spare(c, f)' \/ f \in Making(c)
      BY <1>e, <1>i, <2>10 DEF KeepAt
    <3>2. \A f \in fds'[t].keep : Spare(c, f)' \/ f \in Fd(t, Pipes \cup {"sync1"})
      BY <2>5, <2>9, <2>15, <3>1
    <3>3. proc'[t].pc = "setup"
      BY <2>4, <2>15
    <3>4. QED
      BY <3>2, <3>3 DEF ChildAt
  <2>16. \A t \in Sessions : (ServerOf(t) = c /\ t # s) => ChildAt(c, t)'
    BY <1>f, <2>4, <2>5, <2>10 DEF ChildSame
  <2>17. QED
    BY <1>l, <2>11, <2>13, <2>14, <2>15, <2>16
<1>3. ASSUME NEW c \in Servers, ForkFailsTold(c) PROVE PrivateAt(c)'
  <2> DEFINE s == srv[c].cur
  <2>1. srv[c].alive /\ srv[c].pc = "fork" /\ proc' = proc
    BY <1>3 DEF ForkFailsTold, At
  <2>2. s \in Sessions /\ ServerOf(s) = c
    BY <1>c, <2>1 DEF Busy
  <2>3. srv'[c].pc = "destroy"
    BY <1>a, <1>3 DEF ForkFailsTold
  <2>4. \A t \in Sessions : sess'[t].alive = sess[t].alive /\ sess'[t].leaky = sess[t].leaky
    BY <1>s, <2>2, <1>3 DEF ForkFailsTold
  <2>5. \A t \in Sessions : fds'[t] = fds[t]
    BY <1>n, <1>g, <1>3 DEF ForkFailsTold, SpawnErrorFds
  <2>6. /\ fds'[c].keep = fds[c].keep \ Making(c)
        /\ fds'[c].open = fds[c].open \ Making(c)
    BY <1>n, <1>g, <2>1, <1>3 DEF ForkFailsTold, SpawnErrorFds, Closed, Making, Forking
  <2>7. LeakyStay
    BY <2>4 DEF LeakyStay
  <2>8. KeepAt(c)'
    BY <1>h, <2>6, <2>7
  <2>9. \A f : OfSession(c, f) => OfSession(c, f)'
    <3>1. \A t : ~Closing(c, t)
      BY <2>1 DEF Closing
    <3>2. QED
      BY <1>m, <2>4, <3>1
  <2>10. OpenAt(c)'
    BY <1>k, <2>6, <2>7, <2>9
  <2>11. MadeAt(c)'
    BY <2>3 DEF MadeAt, Forking
  <2>12. \A t \in Sessions : ServerOf(t) = c => ChildAt(c, t)'
    BY <1>f, <2>1, <2>5, <2>7 DEF ChildSame
  <2>13. QED
    BY <1>l, <2>8, <2>10, <2>11, <2>12
<1>4. ASSUME NEW c \in Servers, ForkFails(c) PROVE PrivateAt(c)'
  <2> DEFINE s == srv[c].cur
  <2>1. srv[c].alive /\ srv[c].pc = "fork" /\ proc' = proc
    BY <1>4 DEF ForkFails, At
  <2>2. s \in Sessions /\ ServerOf(s) = c
    BY <1>c, <2>1 DEF Busy
  <2>3. srv'[c].pc = "loop"
    BY <1>a, <1>4 DEF ForkFails
  <2>4. \A t \in Sessions : sess'[t].alive = sess[t].alive /\ sess'[t].leaky = sess[t].leaky
    BY <1>s, <2>2, <1>4 DEF ForkFails, Reply
  <2>5. \A t \in Sessions : fds'[t] = fds[t]
    BY <1>n, <1>g, <1>4 DEF ForkFails, SpawnErrorFds
  <2>6. /\ fds'[c].keep = fds[c].keep \ Making(c)
        /\ fds'[c].open = fds[c].open \ Making(c)
    BY <1>n, <1>g, <2>1, <1>4 DEF ForkFails, SpawnErrorFds, Closed, Making, Forking
  <2>7. LeakyStay
    BY <2>4 DEF LeakyStay
  <2>8. KeepAt(c)'
    BY <1>h, <2>6, <2>7
  <2>9. \A f : OfSession(c, f) => OfSession(c, f)'
    <3>1. \A t : ~Closing(c, t)
      BY <2>1 DEF Closing
    <3>2. QED
      BY <1>m, <2>4, <3>1
  <2>10. OpenAt(c)'
    BY <1>k, <2>6, <2>7, <2>9
  <2>11. MadeAt(c)'
    BY <2>3 DEF MadeAt, Forking
  <2>12. \A t \in Sessions : ServerOf(t) = c => ChildAt(c, t)'
    BY <1>f, <2>1, <2>5, <2>7 DEF ChildSame
  <2>13. QED
    BY <1>l, <2>8, <2>10, <2>11, <2>12
<1>5. ASSUME NEW c \in Servers, Destroyed(c) PROVE PrivateAt(c)'
  <2>1. srv[c].alive /\ srv[c].pc = "destroy"
    BY <1>5 DEF Destroyed, At
  <2>2. /\ srv'[c].pc = "loop"
        /\ srv'[c].cur = srv[c].cur
        /\ srv'[c].after = srv[c].after
    BY <1>a, <1>5 DEF Destroyed, WithoutAnswer
  <2>3. srv[c].cur \in Sessions /\ ServerOf(srv[c].cur) = c
    BY <1>c, <2>1 DEF Busy
  <2>4. \A t \in Sessions : sess'[t].alive = sess[t].alive /\ sess'[t].leaky = sess[t].leaky
    BY <1>s, <1>5, <2>3 DEF Destroyed, Reply
  <2>5. proc' = proc /\ fds' = fds
    BY <1>5 DEF Destroyed
  <2>6. \A t \in Sessions : ChildSame(t)
    BY <2>5 DEF ChildSame
  <2>7. LeakyStay /\ \A t \in Sessions : sess[t].alive => sess'[t].alive
    BY <2>4 DEF LeakyStay
  <2>8. Making(c) \subseteq Making(c)' /\ \A t : Closing(c, t) => Closing(c, t)'
    BY <2>1, <2>2 DEF Making, Closing, Forking
  <2>9. MadeAt(c)'
    BY <1>i, <2>1, <2>2, <2>7, <1>c DEF MadeAt, Forking, Busy
  <2>10. QED
    BY <1>o, <2>7, <2>8, <2>9, <2>6, <2>5
<1>6. ASSUME NEW c \in Servers, Synced(c) PROVE PrivateAt(c)'
  <2> DEFINE s == srv[c].cur
  <2>1. srv[c].alive /\ srv[c].pc = "sync" /\ proc' = proc
    BY <1>6 DEF Synced, At
  <2>2. s \in Sessions /\ ServerOf(s) = c
    BY <1>c, <2>1 DEF Busy
  <2>3. srv'[c].pc = "loop"
    BY <1>a, <1>6 DEF Synced
  <2>4. \A t \in Sessions : sess'[t].alive = sess[t].alive /\ sess'[t].leaky = sess[t].leaky
    BY <1>s, <2>2, <1>6 DEF Synced, Reply
  <2>5. \A t \in Sessions : fds'[t] = fds[t]
    BY <1>n, <1>g, <1>6 DEF Synced
  <2>6. /\ fds'[c].keep = (fds[c].keep \ Fd(s, {"sync0"})) \ Fd(s, {"in1", "out0", "err0"})
        /\ fds'[c].open = fds[c].open \ Fd(s, {"sync0"})
    BY <1>n, <1>g, <1>6 DEF Synced, Closed, ClosedOnExec
  <2>7. Making(c) = Fd(s, {"sync0", "in1", "out0", "err0"})
    BY <2>1 DEF Making, Forking
  <2>8. sess[s].alive
    BY <1>i, <2>1 DEF MadeAt
  <2> HIDE DEF s
  <2>9. LeakyStay
    BY <2>4 DEF LeakyStay
  <2>10. /\ \A f : f \in Making(c) /\ f \notin Fd(s, {"sync0"}) => f \in SessionFds(s)
        /\ SessionFds(s) = Fd(s, {"in1", "out0", "err0"})
    BY <2>7 DEF Fd, SessionFds
  <2>11. KeepAt(c)'
    BY <1>h, <2>6, <2>9, <2>10
  <2>12. \A f : OfSession(c, f) => OfSession(c, f)'
    <3>1. \A t : ~Closing(c, t)
      BY <2>1 DEF Closing
    <3>2. QED
      BY <1>m, <2>4, <3>1
  <2>13. \A f \in SessionFds(s) : OfSession(c, f)'
    BY <1>b, <2>2, <2>4, <2>8 DEF OfSession
  <2>14. OpenAt(c)'
    BY <1>k, <2>6, <2>9, <2>10, <2>12, <2>13
  <2>15. MadeAt(c)'
    BY <2>3 DEF MadeAt, Forking
  <2>16. \A t \in Sessions : ServerOf(t) = c => ChildAt(c, t)'
    BY <1>f, <2>1, <2>5, <2>9 DEF ChildSame
  <2>17. QED
    BY <1>l, <2>11, <2>14, <2>15, <2>16
<1>7. ASSUME NEW c \in Servers, SigChld(c) PROVE PrivateAt(c)'
  <2>1. srv[c].alive /\ srv[c].pc = "loop"
    BY <1>7 DEF SigChld, Idle, At
  <2>2. /\ srv'[c].pc = "reap"
        /\ srv'[c].cur = srv[c].cur
        /\ srv'[c].after = srv[c].after
    BY <1>a, <1>7 DEF SigChld
  <2>3. sess' = sess
    BY <1>7 DEF SigChld
  <2>4. proc' = proc /\ fds' = fds
    BY <1>7 DEF SigChld
  <2>5. \A t \in Sessions : ChildSame(t)
    BY <2>4 DEF ChildSame
  <2>6. LeakyStay /\ \A t \in Sessions : sess[t].alive => sess'[t].alive
    BY <2>3 DEF LeakyStay
  <2>7. Making(c) \subseteq Making(c)' /\ \A t : Closing(c, t) => Closing(c, t)'
    BY <2>1, <2>2 DEF Making, Closing, Forking
  <2>8. MadeAt(c)'
    BY <1>i, <2>1, <2>2, <2>6, <1>c DEF MadeAt, Forking, Busy
  <2>9. QED
    BY <1>o, <2>6, <2>7, <2>8, <2>5, <2>4
<1>8. ASSUME NEW c \in Servers, ReapEnds(c) PROVE PrivateAt(c)'
  <2>1. srv[c].alive /\ srv[c].pc = "reap"
    BY <1>8 DEF ReapEnds, At
  <2>2. /\ srv'[c].pc = "loop"
        /\ srv'[c].cur = srv[c].cur
        /\ srv'[c].after = srv[c].after
    BY <1>a, <1>8 DEF ReapEnds
  <2>3. sess' = sess
    BY <1>8 DEF ReapEnds
  <2>4. proc' = proc /\ fds' = fds
    BY <1>8 DEF ReapEnds
  <2>5. \A t \in Sessions : ChildSame(t)
    BY <2>4 DEF ChildSame
  <2>6. LeakyStay /\ \A t \in Sessions : sess[t].alive => sess'[t].alive
    BY <2>3 DEF LeakyStay
  <2>7. Making(c) \subseteq Making(c)' /\ \A t : Closing(c, t) => Closing(c, t)'
    BY <2>1, <2>2 DEF Making, Closing, Forking
  <2>8. MadeAt(c)'
    BY <1>i, <2>1, <2>2, <2>6, <1>c DEF MadeAt, Forking, Busy
  <2>9. QED
    BY <1>o, <2>6, <2>7, <2>8, <2>5, <2>4
<1>9. ASSUME NEW c \in Servers, LoggedOut(c) PROVE PrivateAt(c)'
  <2>1. srv[c].alive /\ srv[c].pc = "logout"
    BY <1>9 DEF LoggedOut, At
  <2>2. /\ srv'[c].pc = "reap"
        /\ srv'[c].cur = srv[c].cur
        /\ srv'[c].after = srv[c].after
    BY <1>a, <1>9 DEF LoggedOut, WithoutAnswer
  <2>3. srv[c].cur \in Sessions /\ ServerOf(srv[c].cur) = c
    BY <1>c, <2>1 DEF Busy
  <2>4. \A t \in Sessions : sess'[t].alive = sess[t].alive /\ sess'[t].leaky = sess[t].leaky
    BY <1>s, <1>9, <2>3 DEF LoggedOut, do_exit_shell
  <2>5. proc' = proc /\ fds' = fds
    BY <1>9 DEF LoggedOut
  <2>6. \A t \in Sessions : ChildSame(t)
    BY <2>5 DEF ChildSame
  <2>7. LeakyStay /\ \A t \in Sessions : sess[t].alive => sess'[t].alive
    BY <2>4 DEF LeakyStay
  <2>8. Making(c) \subseteq Making(c)' /\ \A t : Closing(c, t) => Closing(c, t)'
    BY <2>1, <2>2 DEF Making, Closing, Forking
  <2>9. MadeAt(c)'
    BY <1>i, <2>1, <2>2, <2>7, <1>c DEF MadeAt, Forking, Busy
  <2>10. QED
    BY <1>o, <2>7, <2>8, <2>9, <2>6, <2>5
<1>10. ASSUME NEW c \in Servers, BindFree(c) PROVE PrivateAt(c)'
  <2>1. srv[c].alive /\ srv[c].pc = "bind"
    BY <1>10 DEF BindFree, At
  <2>2. /\ srv'[c].pc = "xauth"
        /\ srv'[c].cur = srv[c].cur
        /\ srv'[c].after = srv[c].after
    BY <1>a, <1>10 DEF BindFree
  <2>3. sess' = sess
    BY <1>10 DEF BindFree
  <2>4. proc' = proc /\ fds' = fds
    BY <1>10 DEF BindFree
  <2>5. \A t \in Sessions : ChildSame(t)
    BY <2>4 DEF ChildSame
  <2>6. LeakyStay /\ \A t \in Sessions : sess[t].alive => sess'[t].alive
    BY <2>3 DEF LeakyStay
  <2>7. Making(c) \subseteq Making(c)' /\ \A t : Closing(c, t) => Closing(c, t)'
    BY <2>1, <2>2 DEF Making, Closing, Forking
  <2>8. MadeAt(c)'
    BY <1>i, <2>1, <2>2, <2>6, <1>c DEF MadeAt, Forking, Busy
  <2>9. QED
    BY <1>o, <2>6, <2>7, <2>8, <2>5, <2>4
<1>11. ASSUME NEW c \in Servers, BindTaken(c) PROVE PrivateAt(c)'
  <2>1. srv[c].alive /\ srv[c].pc = "bind"
    BY <1>11 DEF BindTaken, At
  <2>2. /\ srv'[c].pc = srv[c].pc
        /\ srv'[c].cur = srv[c].cur
        /\ srv'[c].after = srv[c].after
    BY <1>a, <1>11 DEF BindTaken
  <2>3. sess' = sess
    BY <1>11 DEF BindTaken
  <2>4. proc' = proc /\ fds' = fds
    BY <1>11 DEF BindTaken
  <2>5. \A t \in Sessions : ChildSame(t)
    BY <2>4 DEF ChildSame
  <2>6. LeakyStay /\ \A t \in Sessions : sess[t].alive => sess'[t].alive
    BY <2>3 DEF LeakyStay
  <2>7. Making(c) \subseteq Making(c)' /\ \A t : Closing(c, t) => Closing(c, t)'
    BY <2>1, <2>2 DEF Making, Closing, Forking
  <2>8. MadeAt(c)'
    BY <1>i, <2>1, <2>2, <2>6, <1>c DEF MadeAt, Forking, Busy
  <2>9. QED
    BY <1>o, <2>6, <2>7, <2>8, <2>5, <2>4
<1>12. ASSUME NEW c \in Servers, BindNone(c) PROVE PrivateAt(c)'
  <2>1. srv[c].alive /\ srv[c].pc = "bind"
    BY <1>12 DEF BindNone, At
  <2>2. /\ srv'[c].pc = "loop"
        /\ srv'[c].cur = srv[c].cur
        /\ srv'[c].after = srv[c].after
    BY <1>a, <1>12 DEF BindNone
  <2>3. srv[c].cur \in Sessions /\ ServerOf(srv[c].cur) = c
    BY <1>c, <2>1 DEF Busy
  <2>4. \A t \in Sessions : sess'[t].alive = sess[t].alive /\ sess'[t].leaky = sess[t].leaky
    BY <1>s, <1>12, <2>3 DEF BindNone, Reply
  <2>5. proc' = proc /\ fds' = fds
    BY <1>12 DEF BindNone
  <2>6. \A t \in Sessions : ChildSame(t)
    BY <2>5 DEF ChildSame
  <2>7. LeakyStay /\ \A t \in Sessions : sess[t].alive => sess'[t].alive
    BY <2>4 DEF LeakyStay
  <2>8. Making(c) \subseteq Making(c)' /\ \A t : Closing(c, t) => Closing(c, t)'
    BY <2>1, <2>2 DEF Making, Closing, Forking
  <2>9. MadeAt(c)'
    BY <1>i, <2>1, <2>2, <2>7, <1>c DEF MadeAt, Forking, Busy
  <2>10. QED
    BY <1>o, <2>7, <2>8, <2>9, <2>6, <2>5
<1>13. ASSUME NEW c \in Servers, PortOpens(c) PROVE PrivateAt(c)'
  <2>1. srv[c].alive /\ srv[c].pc = "xauth"
    BY <1>13 DEF PortOpens, At
  <2>2. /\ srv'[c].pc = "loop"
        /\ srv'[c].cur = srv[c].cur
        /\ srv'[c].after = srv[c].after
    BY <1>a, <1>13 DEF PortOpens
  <2>3. srv[c].cur \in Sessions /\ ServerOf(srv[c].cur) = c
    BY <1>c, <2>1 DEF Busy
  <2>4. \A t \in Sessions : sess'[t].alive = sess[t].alive /\ sess'[t].leaky = sess[t].leaky
    BY <1>s, <1>13, <2>3 DEF PortOpens, Reply
  <2>5. proc' = proc /\ fds' = fds
    BY <1>13 DEF PortOpens
  <2>6. \A t \in Sessions : ChildSame(t)
    BY <2>5 DEF ChildSame
  <2>7. LeakyStay /\ \A t \in Sessions : sess[t].alive => sess'[t].alive
    BY <2>4 DEF LeakyStay
  <2>8. Making(c) \subseteq Making(c)' /\ \A t : Closing(c, t) => Closing(c, t)'
    BY <2>1, <2>2 DEF Making, Closing, Forking
  <2>9. MadeAt(c)'
    BY <1>i, <2>1, <2>2, <2>7, <1>c DEF MadeAt, Forking, Busy
  <2>10. QED
    BY <1>o, <2>7, <2>8, <2>9, <2>6, <2>5
<1>14. ASSUME NEW c \in Servers, PortFails(c) PROVE PrivateAt(c)'
  <2>1. srv[c].alive /\ srv[c].pc = "xauth"
    BY <1>14 DEF PortFails, At
  <2>2. /\ srv'[c].pc = "unlink"
        /\ srv'[c].cur = srv[c].cur
        /\ srv'[c].after = "refuse"
    BY <1>a, <1>14 DEF PortFails
  <2>3. sess' = sess
    BY <1>14 DEF PortFails
  <2>4. proc' = proc /\ fds' = fds
    BY <1>14 DEF PortFails
  <2>5. \A t \in Sessions : ChildSame(t)
    BY <2>4 DEF ChildSame
  <2>6. LeakyStay /\ \A t \in Sessions : sess[t].alive => sess'[t].alive
    BY <2>3 DEF LeakyStay
  <2>7. Making(c) \subseteq Making(c)' /\ \A t : Closing(c, t) => Closing(c, t)'
    BY <2>1, <2>2 DEF Making, Closing, Forking
  <2>8. MadeAt(c)'
    BY <1>i, <2>1, <2>2, <2>6, <1>c DEF MadeAt, Forking, Busy
  <2>9. QED
    BY <1>o, <2>6, <2>7, <2>8, <2>5, <2>4
<1>15. ASSUME NEW c \in Servers, UnlinkSocket(c) PROVE PrivateAt(c)'
  <2>1. srv[c].alive /\ srv[c].pc = "unlink"
    BY <1>15 DEF UnlinkSocket, At
  <2>2. /\ srv'[c].pc = "unlink_xauth"
        /\ srv'[c].cur = srv[c].cur
        /\ srv'[c].after = srv[c].after
    BY <1>a, <1>15 DEF UnlinkSocket
  <2>3. sess' = sess
    BY <1>15 DEF UnlinkSocket
  <2>4. proc' = proc /\ fds' = fds
    BY <1>15 DEF UnlinkSocket
  <2>5. \A t \in Sessions : ChildSame(t)
    BY <2>4 DEF ChildSame
  <2>6. LeakyStay /\ \A t \in Sessions : sess[t].alive => sess'[t].alive
    BY <2>3 DEF LeakyStay
  <2>7. Making(c) \subseteq Making(c)' /\ \A t : Closing(c, t) => Closing(c, t)'
    BY <2>1, <2>2 DEF Making, Closing, Forking
  <2>8. MadeAt(c)'
    BY <1>i, <2>1, <2>2, <2>6, <1>c DEF MadeAt, Forking, Busy
  <2>9. QED
    BY <1>o, <2>6, <2>7, <2>8, <2>5, <2>4
<1>16. ASSUME NEW c \in Servers, UnlinkXauth(c) PROVE PrivateAt(c)'
  <2> DEFINE s == srv[c].cur
  <2>1. srv[c].alive /\ srv[c].pc = "unlink_xauth" /\ proc' = proc
    BY <1>16 DEF UnlinkXauth, At
  <2>2. s \in Sessions /\ ServerOf(s) = c
    BY <1>c, <2>1 DEF Busy
  <2>3. srv'[c].pc = "loop"
    BY <1>a, <1>16 DEF UnlinkXauth
  <2>4. \A t \in Sessions : sess'[t].alive = sess[t].alive /\ sess'[t].leaky = sess[t].leaky
    BY <1>s, <2>2, <1>16 DEF UnlinkXauth, Reply
  <2>5. \A t \in Sessions : fds'[t] = fds[t]
    BY <1>n, <1>g, <1>16 DEF UnlinkXauth
  <2>6. /\ fds'[c].keep \subseteq fds[c].keep /\ fds'[c].open \subseteq fds[c].open
        /\ srv[c].after = "close" => fds'[c].open = fds[c].open \ SessionFds(s)
    BY <1>n, <1>g, <1>16 DEF UnlinkXauth, Closed
  <2>7. LeakyStay /\ Making(c) = {}
    BY <2>1, <2>4 DEF LeakyStay, Making, Forking
  <2>8. KeepAt(c)'
    BY <1>h, <2>6, <2>7
  <2>9. ASSUME NEW f \in fds'[c].open, OfSession(c, f) PROVE OfSession(c, f)'
    <3>1. PICK t \in Sessions :
            /\ ServerOf(t) = c
            /\ f \in Fd(t, {"master"}) \/ (f \in SessionFds(t) /\ (sess[t].alive \/ Closing(c, t)))
      BY <2>9 DEF OfSession
    <3>2. (f \in SessionFds(t) /\ Closing(c, t)) => FALSE
      BY <2>6, <2>9 DEF Closing
    <3>3. QED
      BY <1>b, <2>4, <3>1, <3>2 DEF OfSession
  <2>10. OpenAt(c)'
    BY <1>k, <2>6, <2>7, <2>9
  <2>11. MadeAt(c)'
    BY <2>3 DEF MadeAt, Forking
  <2>12. \A t \in Sessions : ServerOf(t) = c => ChildAt(c, t)'
    BY <1>f, <2>1, <2>5, <2>7 DEF ChildSame
  <2>13. QED
    BY <1>l, <2>8, <2>10, <2>11, <2>12
<1>17. ASSUME NEW c \in Servers, Disconnect(c) PROVE PrivateAt(c)'
  <2>1. srv[c].alive /\ srv[c].pc = "loop"
    BY <1>17 DEF Disconnect, Idle, At
  <2>2. /\ srv'[c].pc = srv[c].pc
        /\ srv'[c].cur = srv[c].cur
        /\ srv'[c].after = srv[c].after
    BY <1>a, <1>17 DEF Disconnect
  <2>3. sess' = sess
    BY <1>17 DEF Disconnect
  <2>4. proc' = proc /\ fds' = fds
    BY <1>17 DEF Disconnect
  <2>5. \A t \in Sessions : ChildSame(t)
    BY <2>4 DEF ChildSame
  <2>6. LeakyStay /\ \A t \in Sessions : sess[t].alive => sess'[t].alive
    BY <2>3 DEF LeakyStay
  <2>7. Making(c) \subseteq Making(c)' /\ \A t : Closing(c, t) => Closing(c, t)'
    BY <2>1, <2>2 DEF Making, Closing, Forking
  <2>8. MadeAt(c)'
    BY <1>i, <2>1, <2>2, <2>6, <1>c DEF MadeAt, Forking, Busy
  <2>9. QED
    BY <1>o, <2>6, <2>7, <2>8, <2>5, <2>4
<1>18. ASSUME NEW c \in Servers, ServerExit(c) PROVE PrivateAt(c)'
  <2>1. srv[c].alive /\ srv[c].pc = "loop"
    BY <1>18 DEF ServerExit, Idle, At
  <2>2. /\ srv'[c].pc = srv[c].pc
        /\ srv'[c].cur = srv[c].cur
        /\ srv'[c].after = srv[c].after
    BY <1>a, <1>18 DEF ServerExit
  <2>3. sess' = sess
    BY <1>18 DEF ServerExit
  <2>4. \A t \in Sessions : fds'[t] = fds[t]
    BY <1>n, <1>g, <1>18 DEF ServerExit
  <2>5. \A t \in Sessions : proc'[t].pc # "reaped" => proc'[t] = proc[t]
    BY <1>p, <1>18 DEF ServerExit
  <2>6. \A t \in Sessions : ChildSame(t)
    BY <2>5, <2>4 DEF ChildSame, BeingSetUp
  <2>7. fds'[c].keep = {} /\ fds'[c].open = {}
    BY <1>n, <1>g, <1>18 DEF ServerExit
  <2>8. LeakyStay /\ \A t \in Sessions : sess[t].alive => sess'[t].alive
    BY <2>3 DEF LeakyStay
  <2>9. Making(c) \subseteq Making(c)' /\ \A t : Closing(c, t) => Closing(c, t)'
    BY <2>1, <2>2 DEF Making, Closing, Forking
  <2>10. MadeAt(c)'
    BY <1>i, <2>1, <2>2, <2>8, <1>c DEF MadeAt, Forking, Busy
  <2>11. QED
    BY <1>o, <2>8, <2>9, <2>10, <2>6, <2>7
<1>19. ASSUME NEW c \in Servers, HelperServes(c) PROVE PrivateAt(c)'
  <2>1. \E requests, answers :
          srv' = [srv EXCEPT ![c].requests = requests, ![c].answers = answers]
    BY <1>19, Zenon DEF HelperServes
  <2>2. /\ srv'[c].pc = srv[c].pc
        /\ srv'[c].cur = srv[c].cur
        /\ srv'[c].after = srv[c].after
    BY <1>a, <2>1
  <2>3. sess' = sess
    BY <1>19 DEF HelperServes
  <2>4. proc' = proc /\ fds' = fds
    BY <1>19 DEF HelperServes
  <2>5. \A t \in Sessions : ChildSame(t)
    BY <2>4 DEF ChildSame
  <2>6. LeakyStay /\ \A t \in Sessions : sess[t].alive => sess'[t].alive
    BY <2>3 DEF LeakyStay
  <2>7. Making(c) \subseteq Making(c)' /\ \A t : Closing(c, t) => Closing(c, t)'
    BY <2>2 DEF Making, Closing, Forking
  <2>8. MadeAt(c)'
    BY <1>i, <2>2, <2>6, <1>c DEF MadeAt, Forking, Busy
  <2>9. QED
    BY <1>o, <2>6, <2>7, <2>8, <2>5, <2>4
<1>20. ASSUME NEW c \in Servers, HelperExits(c) PROVE PrivateAt(c)'
  <2>1. srv' = srv
    BY <1>20 DEF HelperExits
  <2>2. sess' = sess
    BY <1>20 DEF HelperExits
  <2>3. proc' = proc /\ fds' = fds
    BY <1>20 DEF HelperExits
  <2>4. \A t \in Sessions : ChildSame(t)
    BY <2>3 DEF ChildSame
  <2>5. LeakyStay /\ \A t \in Sessions : sess[t].alive => sess'[t].alive
    BY <2>2 DEF LeakyStay
  <2>6. Making(c) \subseteq Making(c)' /\ \A t : Closing(c, t) => Closing(c, t)'
    BY <2>1 DEF Making, Closing, Forking
  <2>7. MadeAt(c)'
    BY <1>i, <2>1, <2>5, <1>c DEF MadeAt, Forking, Busy
  <2>8. QED
    BY <1>o, <2>5, <2>6, <2>7, <2>4, <2>3
<1>21. ASSUME NEW c \in Servers, NEW s \in Sessions, ReapUnknown(c, s) PROVE PrivateAt(c)'
  <2>1. srv[c].alive /\ srv[c].pc = "reap" /\ ServerOf(s) = c
    BY <1>21 DEF ReapUnknown, At, Zombies, Of
  <2>2. srv' = srv
    BY <1>21 DEF ReapUnknown
  <2>3. sess' = sess
    BY <1>21 DEF ReapUnknown
  <2>4. fds' = fds
    BY <1>21 DEF ReapUnknown
  <2>5. proc'[s].pc = "reaped" /\ \A t \in Sessions : t # s => proc'[t] = proc[t]
    BY <1>p, <1>21 DEF ReapUnknown
  <2>6. \A t \in Sessions : ChildSame(t)
    BY <2>5, <2>4 DEF ChildSame, BeingSetUp
  <2>7. LeakyStay /\ \A t \in Sessions : sess[t].alive => sess'[t].alive
    BY <2>3 DEF LeakyStay
  <2>8. Making(c) \subseteq Making(c)' /\ \A t : Closing(c, t) => Closing(c, t)'
    BY <2>1, <2>2 DEF Making, Closing, Forking
  <2>9. MadeAt(c)'
    BY <1>i, <2>1, <2>2, <2>7, <1>c DEF MadeAt, Forking, Busy
  <2>10. QED
    BY <1>o, <2>7, <2>8, <2>9, <2>6, <2>4
<1>22. ASSUME NEW c \in Servers, NEW s \in Sessions, ReapTold(c, s) PROVE PrivateAt(c)'
  <2>1. srv[c].alive /\ srv[c].pc = "reap" /\ ServerOf(s) = c
    BY <1>22 DEF ReapTold, At, Zombies, Of
  <2>2. /\ srv'[c].pc = "logout"
        /\ srv'[c].cur = s
        /\ srv'[c].after = srv[c].after
    BY <1>a, <1>22 DEF ReapTold, pty_send_message
  <2>3. \A t \in Sessions : sess'[t].alive = sess[t].alive /\ sess'[t].leaky = sess[t].leaky
    BY <1>s, <1>22 DEF ReapTold
  <2>4. fds' = fds
    BY <1>22 DEF ReapTold
  <2>5. proc'[s].pc = "reaped" /\ \A t \in Sessions : t # s => proc'[t] = proc[t]
    BY <1>p, <1>22 DEF ReapTold
  <2>6. \A t \in Sessions : ChildSame(t)
    BY <2>5, <2>4 DEF ChildSame, BeingSetUp
  <2>7. LeakyStay /\ \A t \in Sessions : sess[t].alive => sess'[t].alive
    BY <2>3 DEF LeakyStay
  <2>8. Making(c) \subseteq Making(c)' /\ \A t : Closing(c, t) => Closing(c, t)'
    BY <2>1, <2>2 DEF Making, Closing, Forking
  <2>9. MadeAt(c)'
    BY <1>i, <2>1, <2>2, <2>7, <1>c DEF MadeAt, Forking, Busy
  <2>10. QED
    BY <1>o, <2>7, <2>8, <2>9, <2>6, <2>4
<1>23. ASSUME NEW c \in Servers, NEW s \in Sessions, ReapUntold(c, s) PROVE PrivateAt(c)'
  <2>1. srv[c].alive /\ srv[c].pc = "reap" /\ ServerOf(s) = c
    BY <1>23 DEF ReapUntold, At, Zombies, Of
  <2>2. /\ srv'[c].pc = srv[c].pc
        /\ srv'[c].cur = s
        /\ srv'[c].after = srv[c].after
    BY <1>a, <1>23 DEF ReapUntold
  <2>3. \A t \in Sessions : sess'[t].alive = sess[t].alive /\ sess'[t].leaky = sess[t].leaky
    BY <1>s, <1>23 DEF ReapUntold, do_exit_shell
  <2>4. fds' = fds
    BY <1>23 DEF ReapUntold
  <2>5. proc'[s].pc = "reaped" /\ \A t \in Sessions : t # s => proc'[t] = proc[t]
    BY <1>p, <1>23 DEF ReapUntold
  <2>6. \A t \in Sessions : ChildSame(t)
    BY <2>5, <2>4 DEF ChildSame, BeingSetUp
  <2>7. LeakyStay /\ \A t \in Sessions : sess[t].alive => sess'[t].alive
    BY <2>3 DEF LeakyStay
  <2>8. Making(c) \subseteq Making(c)' /\ \A t : Closing(c, t) => Closing(c, t)'
    BY <2>1, <2>2 DEF Making, Closing, Forking
  <2>9. MadeAt(c)'
    BY <1>i, <2>1, <2>2, <2>7, <1>c DEF MadeAt, Forking, Busy
  <2>10. QED
    BY <1>o, <2>7, <2>8, <2>9, <2>6, <2>4
<1>24. ASSUME NEW c \in Servers, NEW s \in Sessions, PtyGranted(c, s) PROVE PrivateAt(c)'
  <2>1. srv[c].alive /\ srv[c].pc = "loop" /\ ServerOf(s) = c
    BY <1>24 DEF PtyGranted, Asked, Idle, At, Of
  <2>2. srv' = srv /\ proc' = proc /\ \A t \in Sessions : fds'[t] = fds[t]
    BY <1>n, <1>g, <1>24 DEF PtyGranted
  <2>3. \A t \in Sessions : sess'[t].alive = sess[t].alive /\ sess'[t].leaky = sess[t].leaky
    BY <1>s, <1>24 DEF PtyGranted, Reply
  <2>4. LeakyStay
    BY <2>3 DEF LeakyStay
  <2>5. /\ fds'[c].keep \subseteq fds[c].keep
        /\ fds'[c].open = fds[c].open \cup Fd(s, {"master"})
    BY <1>n, <1>g, <1>24 DEF PtyGranted, ClosedOnExec, Opened
  <2>6. Making(c)' = Making(c) /\ \A t : Closing(c, t)' = Closing(c, t)
    BY <2>2 DEF Making, Closing
  <2>7. KeepAt(c)'
    BY <1>h, <2>4, <2>5, <2>6
  <2>8. \A f : OfSession(c, f) => OfSession(c, f)'
    BY <1>m, <2>3, <2>6
  <2>9. \A f \in Fd(s, {"master"}) : OfSession(c, f)'
    BY <1>b, <2>1 DEF OfSession
  <2>10. OpenAt(c)'
    BY <1>e, <1>i, <2>4, <2>5, <2>6, <2>8, <2>9 DEF OpenAt, HelperFd
  <2>11. MadeAt(c)'
    BY <2>1, <2>2 DEF MadeAt, Forking
  <2>12. \A t \in Sessions : ServerOf(t) = c => ChildAt(c, t)'
    BY <1>f, <2>2, <2>4 DEF ChildSame
  <2>13. QED
    BY <1>l, <2>7, <2>10, <2>11, <2>12
<1>25. ASSUME NEW c \in Servers, NEW s \in Sessions, PtyRefused(c, s) PROVE PrivateAt(c)'
  <2>1. srv[c].alive /\ srv[c].pc = "loop" /\ ServerOf(s) = c
    BY <1>25 DEF PtyRefused, Asked, Idle, At, Of
  <2>2. srv' = srv
    BY <1>25 DEF PtyRefused
  <2>3. \A t \in Sessions : sess'[t].alive = sess[t].alive /\ sess'[t].leaky = sess[t].leaky
    BY <1>s, <1>25 DEF PtyRefused, Reply
  <2>4. proc' = proc /\ fds' = fds
    BY <1>25 DEF PtyRefused
  <2>5. \A t \in Sessions : ChildSame(t)
    BY <2>4 DEF ChildSame
  <2>6. LeakyStay /\ \A t \in Sessions : sess[t].alive => sess'[t].alive
    BY <2>3 DEF LeakyStay
  <2>7. Making(c) \subseteq Making(c)' /\ \A t : Closing(c, t) => Closing(c, t)'
    BY <2>1, <2>2 DEF Making, Closing, Forking
  <2>8. MadeAt(c)'
    BY <1>i, <2>1, <2>2, <2>6, <1>c DEF MadeAt, Forking, Busy
  <2>9. QED
    BY <1>o, <2>6, <2>7, <2>8, <2>5, <2>4
<1>26. ASSUME NEW c \in Servers, NEW s \in Sessions, NEW failure, SpawnFails(c, s,
              failure)
       PROVE  PrivateAt(c)'
  <2>1. srv[c].alive /\ srv[c].pc = "loop" /\ ServerOf(s) = c /\ sess[s].alive
    BY <1>26 DEF SpawnFails, CanSpawn, Asked, Idle, At, Of
  <2>2. srv'[c].pc = "loop" /\ srv'[c].cur = s
    BY <1>a, <1>26, <2>1 DEF SpawnFails
  <2>3. proc' = proc /\ \A t \in Sessions : fds'[t] = fds[t]
    BY <1>n, <1>g, <1>26 DEF SpawnFails
  <2>4. /\ sess'[s].alive = sess[s].alive
        /\ sess'[s].leaky = (sess[s].leaky \/ failure \in {"dup_out", "sync"})
        /\ \A t \in Sessions : t # s => sess'[t] = sess[t]
    BY <1>s, <1>26 DEF SpawnFails, Reply, SpawnSession, Spawnable, WithoutPty
  <2>5. LeakyStay
    BY <2>4 DEF LeakyStay
  <2> DEFINE new == Prepared(Spawnable(s), s, failure).open
  <2>6. fds' = [fds EXCEPT ![c] = SpawnFds(@, s, failure, {})]
    BY <1>26 DEF SpawnFails
  <2>7. /\ fds'[c].keep \subseteq fds[c].keep \cup new \cup Fd(s, {})
        /\ fds'[c].open \subseteq fds[c].open \cup new \cup Fd(s, {})
    <3> HIDE DEF new
    <3>1. fds'[c] = SpawnFds(fds[c], s, failure, {})
      BY <1>n, <1>g, <2>6
    <3>2. QED
      BY <3>1 DEF SpawnFds, Opened, Closed, new
  <2>8. \A f \in new \cup Fd(s, {}) : Spare(c, f)'
    <3>1. ~SpawnGoesOn(s, failure)
      BY <1>26 DEF SpawnFails
    <3>2. ASSUME NEW f \in new PROVE f[1] = s /\ failure = "sync"
      BY <1>q, <3>1, <3>2 DEF SpawnGoesOn, Prepared
    <3>3. Fd(s, {}) = {}
      BY DEF Fd
    <3>4. \A f \in new : f[1] = s /\ sess'[s].leaky
      BY <2>4, <3>2
    <3> HIDE DEF new
    <3>5. QED
      BY <1>b, <2>1, <3>3, <3>4 DEF Spare
  <2>9. \A f \in fds[c].keep : Spare(c, f)'
    BY <1>e, <1>i, <2>1, <2>5 DEF KeepAt, Making, Forking
  <2>10. \A f : OfSession(c, f) => OfSession(c, f)'
    <3>1. \A t : ~Closing(c, t)
      BY <2>1 DEF Closing
    <3>2. QED
      BY <1>m, <2>4, <3>1
  <2>11. \A f \in fds[c].open : f \in HelperFd \/ Spare(c, f)' \/ OfSession(c, f)'
    BY <1>e, <1>i, <2>1, <2>5, <2>10 DEF OpenAt, Making, Forking
  <2>12. KeepAt(c)' /\ OpenAt(c)'
    BY <2>7, <2>8, <2>9, <2>11 DEF KeepAt, OpenAt, HelperFd
  <2>13. MadeAt(c)'
    BY <2>1, <2>2, <2>4 DEF MadeAt, Forking
  <2>14. \A t \in Sessions : ServerOf(t) = c => ChildAt(c, t)'
    BY <1>f, <2>3, <2>5 DEF ChildSame
  <2>15. QED
    BY <1>l, <2>12, <2>13, <2>14
<1>27. ASSUME NEW c \in Servers, NEW s \in Sessions, NEW failure, SpawnAsks(c, s, failure)
       PROVE  PrivateAt(c)'
  <2>1. srv[c].alive /\ srv[c].pc = "loop" /\ ServerOf(s) = c /\ sess[s].alive
    BY <1>27 DEF SpawnAsks, CanSpawn, Asked, Idle, At, Of
  <2>2. srv'[c].pc = "create" /\ srv'[c].cur = s
    BY <1>a, <1>27 DEF SpawnAsks
  <2>3. proc' = proc /\ \A t \in Sessions : fds'[t] = fds[t]
    BY <1>n, <1>g, <1>27 DEF SpawnAsks
  <2>4. /\ sess'[s].alive = sess[s].alive
        /\ sess'[s].leaky = (sess[s].leaky \/ failure \in {"dup_out", "sync"})
        /\ \A t \in Sessions : t # s => sess'[t] = sess[t]
    BY <1>s, <1>27 DEF SpawnAsks, SpawnSession, Spawnable, WithoutPty
  <2>5. LeakyStay
    BY <2>4 DEF LeakyStay
  <2> DEFINE new == Prepared(Spawnable(s), s, failure).open
  <2>6. fds' = [fds EXCEPT ![c] = SpawnFds(@, s, failure, {"sync0", "sync1"})]
    BY <1>27 DEF SpawnAsks
  <2>7. /\ fds'[c].keep \subseteq fds[c].keep \cup new \cup Fd(s, {"sync0", "sync1"})
        /\ fds'[c].open \subseteq fds[c].open \cup new \cup Fd(s, {"sync0", "sync1"})
    <3> HIDE DEF new
    <3>1. fds'[c] = SpawnFds(fds[c], s, failure, {"sync0", "sync1"})
      BY <1>n, <1>g, <2>6
    <3>2. QED
      BY <3>1 DEF SpawnFds, Opened, Closed, new
  <2>8. \A f \in new \cup Fd(s, {"sync0", "sync1"}) : Spare(c, f)' \/ f \in Making(c)'
    <3>1. Making(c)' = Fd(s, Pipes \cup {"sync0", "sync1"})
      BY <2>2 DEF Making, Forking
    <3>2. ASSUME NEW f \in new
          PROVE  f \in Fd(s, Pipes) \/ (f[1] = s /\ failure = "dup_out")
      BY <1>q, <3>2 DEF Prepared, Fd, Pipes
    <3>3. ASSUME NEW f, f[1] = s, failure = "dup_out" PROVE Spare(c, f)'
      BY <1>b, <2>1, <2>4, <3>3 DEF Spare
    <3> HIDE DEF new
    <3>4. \A f \in Fd(s, Pipes) \cup Fd(s, {"sync0", "sync1"}) : f \in Making(c)'
      BY <3>1 DEF Fd
    <3>5. QED
      BY <3>2, <3>3, <3>4
  <2>9. \A f \in fds[c].keep : Spare(c, f)'
    BY <1>e, <1>i, <2>1, <2>5 DEF KeepAt, Making, Forking
  <2>10. \A f : OfSession(c, f) => OfSession(c, f)'
    <3>1. \A t : ~Closing(c, t)
      BY <2>1 DEF Closing
    <3>2. QED
      BY <1>m, <2>4, <3>1
  <2>11. \A f \in fds[c].open : f \in HelperFd \/ Spare(c, f)' \/ OfSession(c, f)'
    BY <1>e, <1>i, <2>1, <2>5, <2>10 DEF OpenAt, Making, Forking
  <2>12. KeepAt(c)' /\ OpenAt(c)'
    BY <2>7, <2>8, <2>9, <2>11 DEF KeepAt, OpenAt, HelperFd
  <2>13. MadeAt(c)'
    BY <2>1, <2>2, <2>4 DEF MadeAt, Forking
  <2>14. \A t \in Sessions : ServerOf(t) = c => ChildAt(c, t)'
    BY <1>f, <2>3, <2>5 DEF ChildSame
  <2>15. QED
    BY <1>l, <2>12, <2>13, <2>14
<1>28. ASSUME NEW c \in Servers, NEW s \in Sessions, NEW failure, SpawnAlone(c, s,
              failure)
       PROVE  PrivateAt(c)'
  <2>1. srv[c].alive /\ srv[c].pc = "loop" /\ ServerOf(s) = c /\ sess[s].alive
    BY <1>28 DEF SpawnAlone, CanSpawn, Asked, Idle, At, Of
  <2>2. srv'[c].pc = "fork" /\ srv'[c].cur = s
    BY <1>a, <1>28 DEF SpawnAlone
  <2>3. proc' = proc /\ \A t \in Sessions : fds'[t] = fds[t]
    BY <1>n, <1>g, <1>28 DEF SpawnAlone
  <2>4. /\ sess'[s].alive = sess[s].alive
        /\ sess'[s].leaky = (sess[s].leaky \/ failure \in {"dup_out", "sync"})
        /\ \A t \in Sessions : t # s => sess'[t] = sess[t]
    BY <1>s, <1>28 DEF SpawnAlone, SpawnSession, Spawnable, WithoutPty
  <2>5. LeakyStay
    BY <2>4 DEF LeakyStay
  <2> DEFINE new == Prepared(Spawnable(s), s, failure).open
  <2>6. fds' = [fds EXCEPT ![c] = SpawnFds(@, s, failure, {"sync0", "sync1"})]
    BY <1>28 DEF SpawnAlone
  <2>7. /\ fds'[c].keep \subseteq fds[c].keep \cup new \cup Fd(s, {"sync0", "sync1"})
        /\ fds'[c].open \subseteq fds[c].open \cup new \cup Fd(s, {"sync0", "sync1"})
    <3> HIDE DEF new
    <3>1. fds'[c] = SpawnFds(fds[c], s, failure, {"sync0", "sync1"})
      BY <1>n, <1>g, <2>6
    <3>2. QED
      BY <3>1 DEF SpawnFds, Opened, Closed, new
  <2>8. \A f \in new \cup Fd(s, {"sync0", "sync1"}) : Spare(c, f)' \/ f \in Making(c)'
    <3>1. Making(c)' = Fd(s, Pipes \cup {"sync0", "sync1"})
      BY <2>2 DEF Making, Forking
    <3>2. ASSUME NEW f \in new
          PROVE  f \in Fd(s, Pipes) \/ (f[1] = s /\ failure = "dup_out")
      BY <1>q, <3>2 DEF Prepared, Fd, Pipes
    <3>3. ASSUME NEW f, f[1] = s, failure = "dup_out" PROVE Spare(c, f)'
      BY <1>b, <2>1, <2>4, <3>3 DEF Spare
    <3> HIDE DEF new
    <3>4. \A f \in Fd(s, Pipes) \cup Fd(s, {"sync0", "sync1"}) : f \in Making(c)'
      BY <3>1 DEF Fd
    <3>5. QED
      BY <3>2, <3>3, <3>4
  <2>9. \A f \in fds[c].keep : Spare(c, f)'
    BY <1>e, <1>i, <2>1, <2>5 DEF KeepAt, Making, Forking
  <2>10. \A f : OfSession(c, f) => OfSession(c, f)'
    <3>1. \A t : ~Closing(c, t)
      BY <2>1 DEF Closing
    <3>2. QED
      BY <1>m, <2>4, <3>1
  <2>11. \A f \in fds[c].open : f \in HelperFd \/ Spare(c, f)' \/ OfSession(c, f)'
    BY <1>e, <1>i, <2>1, <2>5, <2>10 DEF OpenAt, Making, Forking
  <2>12. KeepAt(c)' /\ OpenAt(c)'
    BY <2>7, <2>8, <2>9, <2>11 DEF KeepAt, OpenAt, HelperFd
  <2>13. MadeAt(c)'
    BY <2>1, <2>2, <2>4 DEF MadeAt, Forking
  <2>14. \A t \in Sessions : ServerOf(t) = c => ChildAt(c, t)'
    BY <1>f, <2>3, <2>5 DEF ChildSame
  <2>15. QED
    BY <1>l, <2>12, <2>13, <2>14
<1>29. ASSUME NEW c \in Servers, NEW s \in Sessions, SpawnRefused(c, s)
       PROVE  PrivateAt(c)'
  <2>1. srv[c].alive /\ srv[c].pc = "loop" /\ ServerOf(s) = c
    BY <1>29 DEF SpawnRefused, Asked, Idle, At, Of
  <2>2. srv' = srv
    BY <1>29 DEF SpawnRefused
  <2>3. \A t \in Sessions : sess'[t].alive = sess[t].alive /\ sess'[t].leaky = sess[t].leaky
    BY <1>s, <1>29 DEF SpawnRefused, Reply
  <2>4. proc' = proc /\ fds' = fds
    BY <1>29 DEF SpawnRefused
  <2>5. \A t \in Sessions : ChildSame(t)
    BY <2>4 DEF ChildSame
  <2>6. LeakyStay /\ \A t \in Sessions : sess[t].alive => sess'[t].alive
    BY <2>3 DEF LeakyStay
  <2>7. Making(c) \subseteq Making(c)' /\ \A t : Closing(c, t) => Closing(c, t)'
    BY <2>1, <2>2 DEF Making, Closing, Forking
  <2>8. MadeAt(c)'
    BY <1>i, <2>1, <2>2, <2>6, <1>c DEF MadeAt, Forking, Busy
  <2>9. QED
    BY <1>o, <2>6, <2>7, <2>8, <2>5, <2>4
<1>30. ASSUME NEW c \in Servers, NEW s \in Sessions, Abort(c, s) PROVE PrivateAt(c)'
  <2>1. srv[c].alive /\ srv[c].pc = "loop" /\ ServerOf(s) = c
    BY <1>30 DEF Abort, Asked, Idle, At, Of
  <2>2. /\ srv'[c].pc = "aborted"
        /\ srv'[c].cur = srv[c].cur
        /\ srv'[c].after = srv[c].after
    BY <1>a, <1>30 DEF Abort
  <2>3. sess' = sess
    BY <1>30 DEF Abort
  <2>4. \A t \in Sessions : fds'[t] = fds[t]
    BY <1>n, <1>g, <1>30 DEF Abort
  <2>5. proc' = proc
    BY <1>30 DEF Abort
  <2>6. \A t \in Sessions : ChildSame(t)
    BY <2>5, <2>4 DEF ChildSame
  <2>7. fds'[c].keep = {} /\ fds'[c].open = {}
    BY <1>n, <1>g, <1>30 DEF Abort
  <2>8. LeakyStay /\ \A t \in Sessions : sess[t].alive => sess'[t].alive
    BY <2>3 DEF LeakyStay
  <2>9. Making(c) \subseteq Making(c)' /\ \A t : Closing(c, t) => Closing(c, t)'
    BY <2>1, <2>2 DEF Making, Closing, Forking
  <2>10. MadeAt(c)'
    BY <1>i, <2>1, <2>2, <2>8, <1>c DEF MadeAt, Forking, Busy
  <2>11. QED
    BY <1>o, <2>8, <2>9, <2>10, <2>6, <2>7
<1>31. ASSUME NEW c \in Servers, NEW s \in Sessions, X11Accepted(c, s) PROVE PrivateAt(c)'
  <2>1. srv[c].alive /\ srv[c].pc = "loop" /\ ServerOf(s) = c
    BY <1>31 DEF X11Accepted, Asked, Idle, At, Of
  <2>2. /\ srv'[c].pc = "bind"
        /\ srv'[c].cur = s
        /\ srv'[c].after = srv[c].after
    BY <1>a, <1>31 DEF X11Accepted
  <2>3. sess' = sess
    BY <1>31 DEF X11Accepted
  <2>4. proc' = proc /\ fds' = fds
    BY <1>31 DEF X11Accepted
  <2>5. \A t \in Sessions : ChildSame(t)
    BY <2>4 DEF ChildSame
  <2>6. LeakyStay /\ \A t \in Sessions : sess[t].alive => sess'[t].alive
    BY <2>3 DEF LeakyStay
  <2>7. Making(c) \subseteq Making(c)' /\ \A t : Closing(c, t) => Closing(c, t)'
    BY <2>1, <2>2 DEF Making, Closing, Forking
  <2>8. MadeAt(c)'
    BY <1>i, <2>1, <2>2, <2>6, <1>c DEF MadeAt, Forking, Busy
  <2>9. QED
    BY <1>o, <2>6, <2>7, <2>8, <2>5, <2>4
<1>32. ASSUME NEW c \in Servers, NEW s \in Sessions, X11Refused(c, s) PROVE PrivateAt(c)'
  <2>1. srv[c].alive /\ srv[c].pc = "loop" /\ ServerOf(s) = c
    BY <1>32 DEF X11Refused, Asked, Idle, At, Of
  <2>2. srv' = srv
    BY <1>32 DEF X11Refused
  <2>3. \A t \in Sessions : sess'[t].alive = sess[t].alive /\ sess'[t].leaky = sess[t].leaky
    BY <1>s, <1>32 DEF X11Refused, Reply
  <2>4. proc' = proc /\ fds' = fds
    BY <1>32 DEF X11Refused
  <2>5. \A t \in Sessions : ChildSame(t)
    BY <2>4 DEF ChildSame
  <2>6. LeakyStay /\ \A t \in Sessions : sess[t].alive => sess'[t].alive
    BY <2>3 DEF LeakyStay
  <2>7. Making(c) \subseteq Making(c)' /\ \A t : Closing(c, t) => Closing(c, t)'
    BY <2>1, <2>2 DEF Making, Closing, Forking
  <2>8. MadeAt(c)'
    BY <1>i, <2>1, <2>2, <2>6, <1>c DEF MadeAt, Forking, Busy
  <2>9. QED
    BY <1>o, <2>6, <2>7, <2>8, <2>5, <2>4
<1>33. ASSUME NEW c \in Servers, NEW s \in Sessions, AcceptSingle(c, s)
       PROVE  PrivateAt(c)'
  <2>1. srv[c].alive /\ srv[c].pc = "loop" /\ ServerOf(s) = c
    BY <1>33 DEF AcceptSingle, Idle, At, Of
  <2>2. /\ srv'[c].pc = "unlink"
        /\ srv'[c].cur = s
        /\ srv'[c].after = "loop"
    BY <1>a, <1>33 DEF AcceptSingle
  <2>3. \A t \in Sessions : sess'[t].alive = sess[t].alive /\ sess'[t].leaky = sess[t].leaky
    BY <1>s, <1>33 DEF AcceptSingle
  <2>4. proc' = proc /\ fds' = fds
    BY <1>33 DEF AcceptSingle
  <2>5. \A t \in Sessions : ChildSame(t)
    BY <2>4 DEF ChildSame
  <2>6. LeakyStay /\ \A t \in Sessions : sess[t].alive => sess'[t].alive
    BY <2>3 DEF LeakyStay
  <2>7. Making(c) \subseteq Making(c)' /\ \A t : Closing(c, t) => Closing(c, t)'
    BY <2>1, <2>2 DEF Making, Closing, Forking
  <2>8. MadeAt(c)'
    BY <1>i, <2>1, <2>2, <2>6, <1>c DEF MadeAt, Forking, Busy
  <2>9. QED
    BY <1>o, <2>6, <2>7, <2>8, <2>5, <2>4
<1>34. ASSUME NEW c \in Servers, NEW s \in Sessions, CloseSession(c, s)
       PROVE  PrivateAt(c)'
  <2>1. srv[c].alive /\ srv[c].pc = "loop" /\ ServerOf(s) = c
    BY <1>34 DEF CloseSession, Idle, At, Of
  <2>2. /\ srv'[c].pc = "loop" \/ srv'[c].pc = "unlink"
        /\ sess[s].listening => Closing(c, s)'
    BY <1>a, <2>1, <1>34 DEF CloseSession, Closing
  <2>3. \A t \in Sessions : proc'[t].pc # "astray" => proc'[t] = proc[t]
    BY <1>p, <1>34 DEF CloseSession, do_kill_process
  <2>4. /\ \A t \in Sessions : sess'[t].leaky = sess[t].leaky
        /\ \A t \in Sessions : t # s => sess'[t].alive = sess[t].alive
    BY <1>s, <1>34 DEF CloseSession
  <2>5. \A t \in Sessions : fds'[t] = fds[t]
    BY <1>n, <1>g, <1>34 DEF CloseSession
  <2>6. /\ fds'[c].keep \subseteq fds[c].keep /\ fds'[c].open \subseteq fds[c].open
        /\ ~sess[s].listening => fds'[c].open \cap SessionFds(s) = {}
    BY <1>n, <1>g, <1>34 DEF CloseSession, Closed
  <2>7. LeakyStay /\ Making(c) = {}
    BY <2>1, <2>4 DEF LeakyStay, Making, Forking
  <2>8. KeepAt(c)'
    BY <1>h, <2>6, <2>7
  <2>9. ASSUME NEW f \in fds'[c].open, OfSession(c, f) PROVE OfSession(c, f)'
    <3>1. PICK t \in Sessions :
            /\ ServerOf(t) = c
            /\ f \in Fd(t, {"master"}) \/ (f \in SessionFds(t) /\ (sess[t].alive \/ Closing(c, t)))
      BY <2>9 DEF OfSession
    <3>2. ~Closing(c, t)
      BY <2>1 DEF Closing
    <3>3. (f \in SessionFds(t) /\ t = s) => Closing(c, t)'
      BY <2>2, <2>6, <2>9
    <3>4. QED
      BY <1>b, <2>4, <3>1, <3>2, <3>3 DEF OfSession
  <2>10. OpenAt(c)'
    BY <1>k, <2>6, <2>7, <2>9
  <2>11. MadeAt(c)'
    BY <2>2 DEF MadeAt, Forking
  <2>12. \A t \in Sessions : ServerOf(t) = c => ChildAt(c, t)'
    BY <1>f, <2>3, <2>5, <2>7 DEF ChildSame, BeingSetUp
  <2>13. QED
    BY <1>l, <2>8, <2>10, <2>11, <2>12
<1>35. ASSUME NEW s \in Sessions, SetupFails(s) PROVE PrivateAt(ServerOf(s))'
  <2> DEFINE c == ServerOf(s)
  <2> c \in Servers
    BY <1>c
  <2>1. proc[s].pc = "setup"
    BY <1>35 DEF SetupFails
  <2>2. /\ srv'[c].pc = srv[c].pc
        /\ srv'[c].cur = srv[c].cur
        /\ srv'[c].after = srv[c].after
    BY <1>a, <1>35 DEF SetupFails
  <2>3. sess' = sess
    BY <1>35 DEF SetupFails
  <2>4. \A t \in Sessions : t # s => fds'[t] = fds[t]
    BY <1>n, <1>g, <1>35 DEF SetupFails, NoFds
  <2>5. proc'[s].pc = "zombie" /\ \A t \in Sessions : t # s => proc'[t] = proc[t]
    BY <1>p, <1>35 DEF SetupFails, Exited
  <2>6. \A t \in Sessions : ChildSame(t)
    BY <2>1, <2>5, <2>4 DEF ChildSame, BeingSetUp
  <2>7. fds'[c] = fds[c]
    BY <1>n, <1>g, <1>35 DEF SetupFails, NoFds
  <2>8. LeakyStay /\ \A t \in Sessions : sess[t].alive => sess'[t].alive
    BY <2>3 DEF LeakyStay
  <2>9. Making(c) \subseteq Making(c)' /\ \A t : Closing(c, t) => Closing(c, t)'
    BY <2>2 DEF Making, Closing, Forking
  <2>10. MadeAt(c)'
    BY <1>i, <2>2, <2>8, <1>c DEF MadeAt, Forking, Busy
  <2>11. QED
    BY <1>o, <2>8, <2>9, <2>10, <2>6, <2>7
<1>36. ASSUME NEW s \in Sessions, AskLogin(s) PROVE PrivateAt(ServerOf(s))'
  <2> DEFINE c == ServerOf(s)
  <2> c \in Servers
    BY <1>c
  <2>1. proc[s].pc = "setup"
    BY <1>36 DEF AskLogin
  <2>2. /\ srv'[c].pc = srv[c].pc
        /\ srv'[c].cur = srv[c].cur
        /\ srv'[c].after = srv[c].after
    BY <1>a, <1>36 DEF AskLogin, pty_send_message
  <2>3. sess' = sess
    BY <1>36 DEF AskLogin
  <2>4. fds' = fds
    BY <1>36 DEF AskLogin
  <2>5. proc'[s].pc = "login" /\ \A t \in Sessions : t # s => proc'[t] = proc[t]
    BY <1>p, <1>36 DEF AskLogin
  <2>6. \A t \in Sessions : ChildSame(t)
    BY <2>1, <2>5, <2>4 DEF ChildSame, BeingSetUp
  <2>7. LeakyStay /\ \A t \in Sessions : sess[t].alive => sess'[t].alive
    BY <2>3 DEF LeakyStay
  <2>8. Making(c) \subseteq Making(c)' /\ \A t : Closing(c, t) => Closing(c, t)'
    BY <2>2 DEF Making, Closing, Forking
  <2>9. MadeAt(c)'
    BY <1>i, <2>2, <2>7, <1>c DEF MadeAt, Forking, Busy
  <2>10. QED
    BY <1>o, <2>7, <2>8, <2>9, <2>6, <2>4
<1>37. ASSUME NEW s \in Sessions, StartUnrecorded(s) PROVE PrivateAt(ServerOf(s))'
  <2> DEFINE c == ServerOf(s)
  <2> c \in Servers
    BY <1>c
  <2>1. proc[s].pc \in BeingSetUp /\ sess' = sess
    BY <1>37 DEF StartUnrecorded, BeingSetUp
  <2>2. /\ srv'[c].pc = srv[c].pc /\ srv'[c].cur = srv[c].cur /\ srv'[c].after = srv[c].after
    BY <1>a, <1>37 DEF StartUnrecorded
  <2>3. fds'[c] = fds[c] /\ \A t \in Sessions : t # s => fds'[t] = fds[t]
    BY <1>n, <1>g, <1>37 DEF StartUnrecorded, Start
  <2>4. proc'[s].pc = "running" /\ \A t \in Sessions : t # s => proc'[t] = proc[t]
    BY <1>p, <1>37 DEF StartUnrecorded, Start
  <2>5. fds'[s].open = fds[s].keep \ Fd(s, Pipes \cup {"sync1"})
    BY <1>n, <1>g, <1>37 DEF StartUnrecorded, Start, Closed
  <2>6. LeakyStay
    BY <2>1 DEF LeakyStay
  <2>7. ChildAt(c, s)'
    <3>1. \A f \in fds[s].keep : Spare(c, f)' \/ f \in Fd(s, Pipes \cup {"sync1"})
      BY <1>e, <1>i, <2>1, <2>6 DEF ChildAt
    <3>2. QED
      BY <2>4, <2>5, <3>1 DEF ChildAt, BeingSetUp
  <2>8. \A t \in Sessions : (ServerOf(t) = c /\ t # s) => ChildAt(c, t)'
    BY <1>f, <2>3, <2>4, <2>6 DEF ChildSame
  <2>9. Making(c)' = Making(c) /\ \A t : Closing(c, t)' = Closing(c, t)
    BY <2>2 DEF Making, Closing
  <2>10. \A f : OfSession(c, f) => OfSession(c, f)'
    BY <1>m, <2>1, <2>9
  <2>11. KeepAt(c)' /\ OpenAt(c)'
    BY <1>h, <1>k, <2>3, <2>6, <2>9, <2>10
  <2>12. MadeAt(c)'
    BY <1>i, <2>1, <2>2 DEF MadeAt
  <2>13. QED
    BY <1>l, <2>7, <2>8, <2>11, <2>12
<1>38. ASSUME NEW s \in Sessions, LoggedIn(s) PROVE PrivateAt(ServerOf(s))'
  <2> DEFINE c == ServerOf(s)
  <2> c \in Servers
    BY <1>c
  <2>1. proc[s].pc \in BeingSetUp /\ sess' = sess
    BY <1>38 DEF LoggedIn, BeingSetUp
  <2>2. /\ srv'[c].pc = srv[c].pc /\ srv'[c].cur = srv[c].cur /\ srv'[c].after = srv[c].after
    BY <1>a, <1>38 DEF LoggedIn, WithoutAnswer
  <2>3. fds'[c] = fds[c] /\ \A t \in Sessions : t # s => fds'[t] = fds[t]
    BY <1>n, <1>g, <1>38 DEF LoggedIn, Start
  <2>4. proc'[s].pc = "running" /\ \A t \in Sessions : t # s => proc'[t] = proc[t]
    BY <1>p, <1>38 DEF LoggedIn, Start
  <2>5. fds'[s].open = fds[s].keep \ Fd(s, Pipes \cup {"sync1"})
    BY <1>n, <1>g, <1>38 DEF LoggedIn, Start, Closed
  <2>6. LeakyStay
    BY <2>1 DEF LeakyStay
  <2>7. ChildAt(c, s)'
    <3>1. \A f \in fds[s].keep : Spare(c, f)' \/ f \in Fd(s, Pipes \cup {"sync1"})
      BY <1>e, <1>i, <2>1, <2>6 DEF ChildAt
    <3>2. QED
      BY <2>4, <2>5, <3>1 DEF ChildAt, BeingSetUp
  <2>8. \A t \in Sessions : (ServerOf(t) = c /\ t # s) => ChildAt(c, t)'
    BY <1>f, <2>3, <2>4, <2>6 DEF ChildSame
  <2>9. Making(c)' = Making(c) /\ \A t : Closing(c, t)' = Closing(c, t)
    BY <2>2 DEF Making, Closing
  <2>10. \A f : OfSession(c, f) => OfSession(c, f)'
    BY <1>m, <2>1, <2>9
  <2>11. KeepAt(c)' /\ OpenAt(c)'
    BY <1>h, <1>k, <2>3, <2>6, <2>9, <2>10
  <2>12. MadeAt(c)'
    BY <1>i, <2>1, <2>2 DEF MadeAt
  <2>13. QED
    BY <1>l, <2>7, <2>8, <2>11, <2>12
<1>39. ASSUME NEW s \in Sessions, Ends(s) PROVE PrivateAt(ServerOf(s))'
  <2> DEFINE c == ServerOf(s)
  <2> c \in Servers
    BY <1>c
  <2>1. proc[s].pc \in {"setup", "login", "running"}
    BY <1>39 DEF Ends
  <2>2. /\ srv'[c].pc = srv[c].pc
        /\ srv'[c].cur = srv[c].cur
        /\ srv'[c].after = srv[c].after
    BY <1>a, <1>39 DEF Ends
  <2>3. sess' = sess
    BY <1>39 DEF Ends
  <2>4. \A t \in Sessions : t # s => fds'[t] = fds[t]
    BY <1>n, <1>g, <1>39 DEF Ends, NoFds
  <2>5. proc'[s].pc \in {"zombie", "reaped"} /\ \A t \in Sessions : t # s => proc'[t] = proc[t]
    BY <1>p, <1>39 DEF Ends, Exited
  <2>6. \A t \in Sessions : ChildSame(t)
    BY <2>1, <2>5, <2>4 DEF ChildSame, BeingSetUp
  <2>7. fds'[c] = fds[c]
    BY <1>n, <1>g, <1>39 DEF Ends, NoFds
  <2>8. LeakyStay /\ \A t \in Sessions : sess[t].alive => sess'[t].alive
    BY <2>3 DEF LeakyStay
  <2>9. Making(c) \subseteq Making(c)' /\ \A t : Closing(c, t) => Closing(c, t)'
    BY <2>2 DEF Making, Closing, Forking
  <2>10. MadeAt(c)'
    BY <1>i, <2>2, <2>8, <1>c DEF MadeAt, Forking, Busy
  <2>11. QED
    BY <1>o, <2>8, <2>9, <2>10, <2>6, <2>7
<1>40. ASSUME NEW c \in Servers,
             ServerStep(c) \/ Disconnect(c) \/ ServerExit(c) \/ HelperServes(c) \/ HelperExits(c)
      PROVE  PrivateInv'
  <2>1. LocalTo(c)
    BY <1>40, Local
  <2>2. PrivateAt(c)'
    BY <1>40, <1>1, <1>2, <1>3, <1>4, <1>5, <1>6, <1>7, <1>8, <1>9, <1>10, <1>11, <1>12,
       <1>13, <1>14, <1>15, <1>16, <1>17, <1>18, <1>19, <1>20, <1>21, <1>22, <1>23 DEF
       ServerStep, Fork, Reap, open_x11_socket, create_xauth
  <2>3. QED
    BY <1>d, <2>1, <2>2
<1>41. ASSUME NEW c \in Servers, NEW s \in Sessions, ClientStep(c, s) PROVE PrivateInv'
  <2>1. LocalTo(c)
    BY <1>41, Local
  <2>2. PrivateAt(c)'
    BY <1>41, <1>24, <1>25, <1>26, <1>27, <1>28, <1>29, <1>30, <1>31, <1>32, <1>33, <1>34
       DEF ClientStep, PtyRequest, Spawn, X11Request
  <2>3. QED
    BY <1>d, <2>1, <2>2
<1>42. ASSUME NEW s \in Sessions, ChildStep(s) \/ Ends(s) PROVE PrivateInv'
  <2>1. LocalTo(ServerOf(s))
    BY <1>42, Local
  <2>2. PrivateAt(ServerOf(s))'
    BY <1>42, <1>35, <1>36, <1>37, <1>38, <1>39 DEF ChildStep, Setup
  <2>3. QED
    BY <1>c, <1>d, <2>1, <2>2
<1>43. ASSUME UNCHANGED vars PROVE PrivateInv'
  <2>1. srv' = srv /\ sess' = sess /\ proc' = proc /\ fds' = fds
    BY <1>43 DEF vars
  <2>2. LeakyStay /\ \A s \in Sessions : ChildSame(s)
    BY <2>1 DEF LeakyStay, ChildSame
  <2>3. ASSUME NEW c \in Servers PROVE PrivateAt(c)'
    <3>1. Making(c)' = Making(c) /\ \A s : Closing(c, s)' = Closing(c, s)
      BY <2>1 DEF Making, Closing
    <3>2. MadeAt(c)'
      BY <1>i, <2>1 DEF MadeAt
    <3>3. QED
      BY <1>o, <2>1, <2>2, <3>1, <3>2
  <2>4. QED
    BY <1>b, <2>3 DEF PrivateInv
<1>44. QED
  BY <1>40, <1>41, <1>42, <1>43 DEF Next

(* DescriptorsPrivate, for any number of connections and sessions: what a  *)
(* process inherits is its stdio, and a closed session leaves no pipe open *)
(* (spawn_process, spawn_shell, spawn_child, do_kill_server_session).      *)
THEOREM DescriptorsArePrivate == Spec => []DescriptorsPrivate
<1>1. Init => Shape /\ CurInv /\ PrivateInv
  <2> SUFFICES ASSUME Init PROVE CurInv /\ PrivateInv
    BY ShapeInit
  <2>1. \A c \in Servers : srv[c].pc = "loop"
    BY DEF Init
  <2>2. \A s \in Sessions : proc[s].pc = "none"
    BY DEF Init, NoProcess
  <2>3. \A c \in Servers : fds[c].keep = {} /\ fds[c].open \subseteq HelperFd
    BY DEF Init
  <2>4. CurInv
    BY <2>1 DEF CurInv, Busy
  <2>5. PrivateInv
    BY <2>1, <2>2, <2>3 DEF PrivateInv, PrivateAt, KeepAt, OpenAt, MadeAt, ChildAt, Forking, BeingSetUp
  <2>6. QED
    BY <2>4, <2>5
<1>2. Shape /\ CurInv /\ PrivateInv /\ [Next]_vars => (Shape /\ CurInv /\ PrivateInv)'
  BY ShapeStep, CurStep, PrivateStep
<1>3. Shape /\ PrivateInv => DescriptorsPrivate
  <2> SUFFICES ASSUME Shape, PrivateInv, NEW s \in Sessions
               PROVE  /\ proc[s].pc = "running" =>
                           \A f \in fds[s].open : f[1] \in Sessions /\ sess[f[1]].leaky
                      /\ (~sess[s].alive /\ srv[ServerOf(s)].pc = "loop" /\ ~sess[s].leaky) =>
                           \A f \in fds[ServerOf(s)].open : f[1] = s => f[2] = "master"
    BY DEF DescriptorsPrivate
  <2> DEFINE c == ServerOf(s)
  <2>1. c \in Servers /\ Nobody # s
    BY NamesDiffer DEF Shape
  <2>2. OpenAt(c) /\ ChildAt(c, s)
    BY <2>1 DEF PrivateInv, PrivateAt
  <2>3. proc[s].pc = "running" => \A f \in fds[s].open : f[1] \in Sessions /\ sess[f[1]].leaky
    BY <2>2 DEF ChildAt, Spare
  <2>4. ASSUME ~sess[s].alive, srv[c].pc = "loop", ~sess[s].leaky,
               NEW f \in fds[c].open, f[1] = s
        PROVE  f[2] = "master"
    <3>1. f \notin HelperFd
      BY <2>1, <2>4 DEF HelperFd, Nobody
    <3>2. ~Spare(c, f)
      BY <2>4 DEF Spare
    <3>3. f \notin Making(c)
      BY <2>4 DEF Making, Forking
    <3>4. OfSession(c, f)
      BY <2>2, <2>4, <3>1, <3>2, <3>3 DEF OpenAt
    <3>5. PICK t \in Sessions :
            f \in Fd(t, {"master"}) \/ (f \in SessionFds(t) /\ (sess[t].alive \/ Closing(c, t)))
      BY <3>4 DEF OfSession
    <3>6. ~(f \in SessionFds(t) /\ (sess[t].alive \/ Closing(c, t)))
      BY <2>4 DEF SessionFds, Fd, Closing
    <3>7. QED
      BY <3>5, <3>6 DEF Fd
  <2>5. QED
    BY <2>3, <2>4
<1>4. QED
  BY <1>1, <1>2, <1>3, PTL DEF Spec
=============================================================================
