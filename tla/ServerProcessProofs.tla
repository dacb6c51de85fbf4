------------------------ MODULE ServerProcessProofs ------------------------
(***************************************************************************)
(* Proofs about ServerProcess, for any number of connections and sessions, *)
(* any requests in them, any number of displays and of failing calls.      *)
(***************************************************************************)
EXTENDS ServerProcess, TLAPS

-----------------------------------------------------------------------------
(* lshd-connection is about to start a process; the process is not yet     *)
(* running the user's program.                                             *)
Forking == {"create", "fork"}
BeingSetUp == {"setup", "login"}

SrvFields ==
  {"alive", "closing", "pc", "cur", "display", "after", "sigchld", "handlers",
   "requests", "answers", "torn", "xfailed"}
SessFields ==
  {"todo", "alive", "pty", "term", "info", "kind", "process", "x11", "listening", "ref",
   "leaky", "replies", "status"}
ProcFields == {"pc", "env", "login", "std"}
HelperFields == {"alive", "objects"}
FileFields == {"socket", "xauth"}
FdFields == {"open", "keep"}

Processes == Servers \cup Sessions

(* The shape of the state: which functions and records it is made of.      *)
Shape ==
  /\ scene \in Scenes
  /\ DOMAIN srv = Servers /\ \A c \in Servers : DOMAIN srv[c] = SrvFields
  /\ DOMAIN sess = Sessions /\ \A s \in Sessions : DOMAIN sess[s] = SessFields
  /\ DOMAIN proc = Sessions /\ \A s \in Sessions : DOMAIN proc[s] = ProcFields
  /\ DOMAIN helper = Servers /\ \A c \in Servers : DOMAIN helper[c] = HelperFields
  /\ DOMAIN files = Displays /\ \A n \in Displays : DOMAIN files[n] = FileFields
  /\ DOMAIN fds = Processes
  /\ \A p \in Processes : DOMAIN fds[p] = FdFields

(* The names of sessions, of servers and Nobody are different.             *)
LEMMA NamesDiffer ==
  ASSUME scene \in Scenes
  PROVE  /\ \A s \in Sessions : ServerOf(s) \in Servers /\ ServerOf(s) \notin Sessions
         /\ Nobody \notin Sessions /\ Nobody \notin Servers
         /\ \A c \in Servers : c \notin Sessions
<1>1. Sessions \subseteq Nat \X Nat
  BY ScenesAssumption DEF Sessions
<1>2. \A s \in Sessions : ServerOf(s) \in Servers
  BY DEF Servers
<1>3. \A s \in Nat \X Nat : s = <<s[1], s[2]>>
  OBVIOUS
<1>4. \A a, b, d : <<a>> # <<b, d>> /\ <<>> # <<b, d>> /\ <<>> # <<a>>
  OBVIOUS
<1>5. \A c \in Servers : \E a : c = <<a>>
  BY DEF Servers, ServerOf
<1>6. \A s \in Sessions : \E a, b : s = <<a, b>>
  BY <1>1, <1>3
<1>7. QED
  BY <1>2, <1>4, <1>5, <1>6, Zenon DEF Nobody

(* No process changes what the clients ask for, so that the sets of        *)
(* sessions and of servers are fixed.                                      *)
LEMMA SceneFixed ==
  ASSUME [Next]_vars
  PROVE  scene' = scene /\ Sessions' = Sessions /\ Servers' = Servers /\ Processes' = Processes
<1>1. scene' = scene
  <2>1. CASE UNCHANGED vars
    BY <2>1 DEF vars
  <2>2. ASSUME NEW c, ServerStep(c) PROVE scene' = scene
    BY <2>2 DEF ServerStep, Created, Fork, ForkChild, ForkFailsTold, ForkFails, Destroyed, Synced,
                SigChld, Reap, ReapEnds, ReapUnknown, ReapTold, ReapUntold, LoggedOut,
                open_x11_socket, BindFree, BindTaken, BindNone, create_xauth, PortOpens,
                PortFails, UnlinkSocket, UnlinkXauth
  <2>3. ASSUME NEW c, NEW s, ClientStep(c, s) PROVE scene' = scene
    BY <2>3 DEF ClientStep, PtyRequest, PtyGranted, PtyRefused, Spawn, SpawnFails, SpawnAsks,
                SpawnAlone, SpawnRefused, Abort, X11Request, X11Accepted, X11Refused,
                AcceptSingle, CloseSession
  <2>4. ASSUME NEW c, Disconnect(c) \/ ServerExit(c) \/ HelperServes(c) \/ HelperExits(c)
        PROVE  scene' = scene
    BY <2>4 DEF Disconnect, ServerExit, HelperServes, HelperExits
  <2>5. ASSUME NEW s, ChildStep(s) \/ Ends(s) PROVE scene' = scene
    BY <2>5 DEF ChildStep, Setup, SetupFails, AskLogin, StartUnrecorded, LoggedIn, Ends
  <2>6. QED
    BY <2>1, <2>2, <2>3, <2>4, <2>5 DEF Next
<1>2. QED
  BY <1>1 DEF Sessions, Servers, Processes

(* The initial state has this shape.                                       *)
LEMMA ShapeInit == Init => Shape
<1> SUFFICES ASSUME Init PROVE Shape
  OBVIOUS
<1>1. scene \in Scenes
  BY DEF Init
<1>2. DOMAIN srv = Servers /\ \A c \in Servers : DOMAIN srv[c] = SrvFields
  BY DEF Init, SrvFields
<1>3. DOMAIN sess = Sessions /\ \A s \in Sessions : DOMAIN sess[s] = SessFields
  BY DEF Init, SessFields
<1>4. DOMAIN proc = Sessions /\ \A s \in Sessions : DOMAIN proc[s] = ProcFields
  BY DEF Init, ProcFields, NoProcess
<1>5. DOMAIN helper = Servers /\ \A c \in Servers : DOMAIN helper[c] = HelperFields
  BY DEF Init, init_pty_state, HelperFields
<1>6. DOMAIN files = Displays /\ \A n \in Displays : DOMAIN files[n] = FileFields
  BY DEF Init, FileFields
<1>7. /\ DOMAIN fds = Processes
      /\ \A p \in Processes : DOMAIN fds[p] = FdFields
  BY DEF Init, FdFields, Processes
<1>8. QED
  BY <1>1, <1>2, <1>3, <1>4, <1>5, <1>6, <1>7 DEF Shape

(* Steps assign to fields of what is there.                                *)
SameShape ==
  /\ DOMAIN srv' = Servers /\ \A c \in Servers : DOMAIN srv'[c] = DOMAIN srv[c]
  /\ DOMAIN sess' = Sessions /\ \A s \in Sessions : DOMAIN sess'[s] = DOMAIN sess[s]
  /\ DOMAIN proc' = Sessions /\ \A s \in Sessions : DOMAIN proc'[s] = DOMAIN proc[s]
  /\ DOMAIN helper' = Servers /\ \A c \in Servers : DOMAIN helper'[c] = DOMAIN helper[c]
  /\ DOMAIN files' = Displays /\ \A n \in Displays : DOMAIN files'[n] = DOMAIN files[n]
  /\ DOMAIN fds' = Processes
  /\ \A p \in Processes : DOMAIN fds'[p] = DOMAIN fds[p]

(* process_request: the answer is for whoever sent the request, and the    *)
(* helper goes on.                                                         *)
LEMMA AnswerGoesBack ==
  ASSUME NEW h, NEW lg, NEW request, NEW ok, DOMAIN h = HelperFields
  PROVE  LET r == process_request(h, lg, request, ok)
         IN  /\ r.answer.to = request.from
             /\ DOMAIN r.helper = HelperFields /\ r.helper.alive = h.alive
<1> DEFINE Goes(r) == /\ r.answer.to = request.from
                      /\ DOMAIN r.helper = HelperFields /\ r.helper.alive = h.alive
<1>1. ASSUME NEW g, DOMAIN g = HelperFields, g.alive = h.alive, NEW l, NEW error, NEW ref
      PROVE  /\ Goes(Result(g, l, Answer(request, error, ref)))
             /\ \A objects : Goes(Result([g EXCEPT !.objects = objects], l, Answer(request, error, ref)))
  BY <1>1 DEF Result, Answer, HelperFields
<1>2. /\ DOMAIN pty_object_alloc(h).helper = HelperFields
      /\ pty_object_alloc(h).helper.alive = h.alive
  BY DEF pty_object_alloc, HelperFields
<1> HIDE DEF Goes
<1>3. Goes(Create(h, lg, request, ok))
  BY <1>1, <1>2 DEF Create
<1>4. Goes(Login(h, lg, request))
  BY <1>1 DEF Login
<1>5. Goes(Logout(h, lg, request))
  BY <1>1 DEF Logout, pty_object_free
<1>6. Goes(Destroy(h, lg, request))
  BY <1>1 DEF Destroy, pty_object_free
<1>7. Goes(process_request(h, lg, request, ok))
  BY <1>1, <1>3, <1>4, <1>5, <1>6 DEF process_request
<1>8. QED
  BY <1>7 DEF Goes

(* Every step keeps the shape of the state.                                *)
LEMMA ShapeStep == Shape /\ [Next]_vars => Shape'
<1> SUFFICES ASSUME Shape, [Next]_vars
             PROVE  Shape'
  OBVIOUS
<1>0. SameShape => Shape'
  <2>1. scene' = scene /\ Sessions' = Sessions /\ Servers' = Servers /\ Processes' = Processes
    BY SceneFixed
  <2>2. QED
    BY <2>1 DEF SameShape, Shape
<1> USE DEF Shape, SameShape
<1>1. ASSUME NEW c \in Servers, Created(c) PROVE SameShape
  BY <1>1 DEF Created, WithoutAnswer
<1>2. ASSUME NEW c \in Servers, ForkChild(c) PROVE SameShape
  <2>1. UNCHANGED <<sess, helper, files>>
    BY <1>2 DEF ForkChild
  <2>2. DOMAIN srv' = Servers /\ \A d \in Servers : DOMAIN srv'[d] = DOMAIN srv[d]
    BY <1>2 DEF ForkChild
  <2>3. DOMAIN proc' = Sessions /\ \A t \in Sessions : DOMAIN proc'[t] = DOMAIN proc[t]
    BY <1>2 DEF ForkChild
  <2>4. DOMAIN fds' = Processes /\ \A p \in Processes : DOMAIN fds'[p] = DOMAIN fds[p]
    BY <1>2 DEF ForkChild, Closed, FdFields
  <2>5. QED
    BY <2>1, <2>2, <2>3, <2>4
<1>3. ASSUME NEW c \in Servers, ForkFailsTold(c) PROVE SameShape
  <2>1. UNCHANGED <<sess, proc, helper, files>>
    BY <1>3 DEF ForkFailsTold
  <2>2. DOMAIN srv' = Servers /\ \A d \in Servers : DOMAIN srv'[d] = DOMAIN srv[d]
    BY <1>3 DEF ForkFailsTold
  <2>3. DOMAIN fds' = Processes /\ \A p \in Processes : DOMAIN fds'[p] = DOMAIN fds[p]
    BY <1>3 DEF ForkFailsTold, SpawnErrorFds, Closed, FdFields
  <2>4. QED
    BY <2>1, <2>2, <2>3
<1>4. ASSUME NEW c \in Servers, ForkFails(c) PROVE SameShape
  <2>1. UNCHANGED <<proc, helper, files>>
    BY <1>4 DEF ForkFails
  <2>2. DOMAIN srv' = Servers /\ \A d \in Servers : DOMAIN srv'[d] = DOMAIN srv[d]
    BY <1>4 DEF ForkFails
  <2>3. DOMAIN sess' = Sessions /\ \A t \in Sessions : DOMAIN sess'[t] = DOMAIN sess[t]
    BY <1>4 DEF ForkFails, Reply
  <2>4. DOMAIN fds' = Processes /\ \A p \in Processes : DOMAIN fds'[p] = DOMAIN fds[p]
    BY <1>4 DEF ForkFails, SpawnErrorFds, Closed, FdFields
  <2>5. QED
    BY <2>1, <2>2, <2>3, <2>4
<1>5. ASSUME NEW c \in Servers, Destroyed(c) PROVE SameShape
  BY <1>5 DEF Destroyed, WithoutAnswer, Reply
<1>6. ASSUME NEW c \in Servers, Synced(c) PROVE SameShape
  <2>1. UNCHANGED <<proc, helper, files>>
    BY <1>6 DEF Synced
  <2>2. DOMAIN srv' = Servers /\ \A d \in Servers : DOMAIN srv'[d] = DOMAIN srv[d]
    BY <1>6 DEF Synced
  <2>3. DOMAIN sess' = Sessions /\ \A t \in Sessions : DOMAIN sess'[t] = DOMAIN sess[t]
    BY <1>6 DEF Synced, Reply
  <2>4. DOMAIN fds' = Processes /\ \A p \in Processes : DOMAIN fds'[p] = DOMAIN fds[p]
    BY <1>6 DEF Synced, Closed, ClosedOnExec, FdFields
  <2>5. QED
    BY <2>1, <2>2, <2>3, <2>4
<1>7. ASSUME NEW c \in Servers, SigChld(c) PROVE SameShape
  BY <1>7 DEF SigChld
<1>8. ASSUME NEW c \in Servers, ReapEnds(c) PROVE SameShape
  BY <1>8 DEF ReapEnds
<1>9. ASSUME NEW c \in Servers, LoggedOut(c) PROVE SameShape
  BY <1>9 DEF LoggedOut, WithoutAnswer, do_exit_shell
<1>10. ASSUME NEW c \in Servers, BindFree(c) PROVE SameShape
  BY <1>10 DEF BindFree
<1>11. ASSUME NEW c \in Servers, BindTaken(c) PROVE SameShape
  BY <1>11 DEF BindTaken
<1>12. ASSUME NEW c \in Servers, BindNone(c) PROVE SameShape
  BY <1>12 DEF BindNone, Reply
<1>13. ASSUME NEW c \in Servers, PortOpens(c) PROVE SameShape
  BY <1>13 DEF PortOpens, Reply
<1>14. ASSUME NEW c \in Servers, PortFails(c) PROVE SameShape
  BY <1>14 DEF PortFails
<1>15. ASSUME NEW c \in Servers, UnlinkSocket(c) PROVE SameShape
  BY <1>15 DEF UnlinkSocket
<1>16. ASSUME NEW c \in Servers, UnlinkXauth(c) PROVE SameShape
  BY <1>16 DEF UnlinkXauth, Reply, Closed, FdFields
<1>17. ASSUME NEW c \in Servers, Disconnect(c) PROVE SameShape
  BY <1>17 DEF Disconnect
<1>18. ASSUME NEW c \in Servers, ServerExit(c) PROVE SameShape
  BY <1>18 DEF ServerExit, FdFields
<1>19. ASSUME NEW c \in Servers, HelperServes(c) PROVE SameShape
  <2>1. UNCHANGED <<sess, proc, files, fds>>
    BY <1>19 DEF HelperServes
  <2>2. DOMAIN srv' = Servers /\ \A d \in Servers : DOMAIN srv'[d] = DOMAIN srv[d]
    BY <1>19 DEF HelperServes
  <2>3. PICK ok \in BOOLEAN :
          helper' = [helper EXCEPT ![c] =
                       process_request(helper[c], log, Head(srv[c].requests), ok).helper]
    BY <1>19 DEF HelperServes
  <2>4. DOMAIN process_request(helper[c], log, Head(srv[c].requests), ok).helper
          = HelperFields
    BY AnswerGoesBack
  <2>5. DOMAIN helper' = Servers /\ \A d \in Servers : DOMAIN helper'[d] = DOMAIN helper[d]
    BY <2>3, <2>4
  <2>6. QED
    BY <2>1, <2>2, <2>5
<1>20. ASSUME NEW c \in Servers, HelperExits(c) PROVE SameShape
  BY <1>20 DEF HelperExits
<1>21. ASSUME NEW c \in Servers, NEW s \in Sessions, ReapUnknown(c, s) PROVE SameShape
  BY <1>21 DEF ReapUnknown
<1>22. ASSUME NEW c \in Servers, NEW s \in Sessions, ReapTold(c, s) PROVE SameShape
  <2>1. UNCHANGED <<helper, files, fds>>
    BY <1>22 DEF ReapTold
  <2>2. DOMAIN srv' = Servers /\ \A d \in Servers : DOMAIN srv'[d] = DOMAIN srv[d]
    BY <1>22 DEF ReapTold
  <2>3. DOMAIN sess' = Sessions /\ \A t \in Sessions : DOMAIN sess'[t] = DOMAIN sess[t]
    BY <1>22 DEF ReapTold
  <2>4. DOMAIN proc' = Sessions /\ \A t \in Sessions : DOMAIN proc'[t] = DOMAIN proc[t]
    BY <1>22 DEF ReapTold
  <2>5. QED
    BY <2>1, <2>2, <2>3, <2>4
<1>23. ASSUME NEW c \in Servers, NEW s \in Sessions, ReapUntold(c, s) PROVE SameShape
  <2>1. UNCHANGED <<helper, files, fds>>
    BY <1>23 DEF ReapUntold
  <2>2. DOMAIN srv' = Servers /\ \A d \in Servers : DOMAIN srv'[d] = DOMAIN srv[d]
    BY <1>23 DEF ReapUntold
  <2>3. DOMAIN sess' = Sessions /\ \A t \in Sessions : DOMAIN sess'[t] = DOMAIN sess[t]
    BY <1>23 DEF ReapUntold, do_exit_shell
  <2>4. DOMAIN proc' = Sessions /\ \A t \in Sessions : DOMAIN proc'[t] = DOMAIN proc[t]
    BY <1>23 DEF ReapUntold
  <2>5. QED
    BY <2>1, <2>2, <2>3, <2>4
<1>24. ASSUME NEW c \in Servers, NEW s \in Sessions, PtyGranted(c, s) PROVE SameShape
  <2>1. UNCHANGED <<srv, proc, helper, files>>
    BY <1>24 DEF PtyGranted
  <2>2. DOMAIN sess' = Sessions /\ \A t \in Sessions : DOMAIN sess'[t] = DOMAIN sess[t]
    BY <1>24 DEF PtyGranted, Reply
  <2>3. DOMAIN fds' = Processes /\ \A p \in Processes : DOMAIN fds'[p] = DOMAIN fds[p]
    BY <1>24 DEF PtyGranted, ClosedOnExec, Opened, FdFields
  <2>4. QED
    BY <2>1, <2>2, <2>3
<1>25. ASSUME NEW c \in Servers, NEW s \in Sessions, PtyRefused(c, s) PROVE SameShape
  BY <1>25 DEF PtyRefused, Reply
<1>26. ASSUME NEW c \in Servers, NEW s \in Sessions, NEW failure, SpawnFails(c, s,
              failure)
       PROVE  SameShape
  <2>1. UNCHANGED <<proc, helper, files>>
    BY <1>26 DEF SpawnFails
  <2>2. DOMAIN srv' = Servers /\ \A d \in Servers : DOMAIN srv'[d] = DOMAIN srv[d]
    BY <1>26 DEF SpawnFails
  <2>3. DOMAIN sess' = Sessions /\ \A t \in Sessions : DOMAIN sess'[t] = DOMAIN sess[t]
    BY <1>26 DEF SpawnFails, Reply, SpawnSession, Spawnable, WithoutPty
  <2>4. DOMAIN fds' = Processes /\ \A p \in Processes : DOMAIN fds'[p] = DOMAIN fds[p]
    BY <1>26 DEF SpawnFails, Opened, SpawnFds, FdFields
  <2>5. QED
    BY <2>1, <2>2, <2>3, <2>4
<1>27. ASSUME NEW c \in Servers, NEW s \in Sessions, NEW failure, SpawnAsks(c, s, failure)
       PROVE  SameShape
  <2>1. UNCHANGED <<proc, helper, files>>
    BY <1>27 DEF SpawnAsks
  <2>2. DOMAIN srv' = Servers /\ \A d \in Servers : DOMAIN srv'[d] = DOMAIN srv[d]
    BY <1>27 DEF SpawnAsks
  <2>3. DOMAIN sess' = Sessions /\ \A t \in Sessions : DOMAIN sess'[t] = DOMAIN sess[t]
    BY <1>27 DEF SpawnAsks, SpawnSession, Spawnable, WithoutPty
  <2>4. DOMAIN fds' = Processes /\ \A p \in Processes : DOMAIN fds'[p] = DOMAIN fds[p]
    BY <1>27 DEF SpawnAsks, Opened, SpawnFds, FdFields
  <2>5. QED
    BY <2>1, <2>2, <2>3, <2>4
<1>28. ASSUME NEW c \in Servers, NEW s \in Sessions, NEW failure, SpawnAlone(c, s,
              failure)
       PROVE  SameShape
  <2>1. UNCHANGED <<proc, helper, files>>
    BY <1>28 DEF SpawnAlone
  <2>2. DOMAIN srv' = Servers /\ \A d \in Servers : DOMAIN srv'[d] = DOMAIN srv[d]
    BY <1>28 DEF SpawnAlone
  <2>3. DOMAIN sess' = Sessions /\ \A t \in Sessions : DOMAIN sess'[t] = DOMAIN sess[t]
    BY <1>28 DEF SpawnAlone, SpawnSession, Spawnable, WithoutPty
  <2>4. DOMAIN fds' = Processes /\ \A p \in Processes : DOMAIN fds'[p] = DOMAIN fds[p]
    BY <1>28 DEF SpawnAlone, Opened, SpawnFds, FdFields
  <2>5. QED
    BY <2>1, <2>2, <2>3, <2>4
<1>29. ASSUME NEW c \in Servers, NEW s \in Sessions, SpawnRefused(c, s) PROVE SameShape
  BY <1>29 DEF SpawnRefused, Reply
<1>30. ASSUME NEW c \in Servers, NEW s \in Sessions, Abort(c, s) PROVE SameShape
  BY <1>30 DEF Abort, FdFields
<1>31. ASSUME NEW c \in Servers, NEW s \in Sessions, X11Accepted(c, s) PROVE SameShape
  BY <1>31 DEF X11Accepted
<1>32. ASSUME NEW c \in Servers, NEW s \in Sessions, X11Refused(c, s) PROVE SameShape
  BY <1>32 DEF X11Refused, Reply
<1>33. ASSUME NEW c \in Servers, NEW s \in Sessions, AcceptSingle(c, s) PROVE SameShape
  BY <1>33 DEF AcceptSingle
<1>34. ASSUME NEW c \in Servers, NEW s \in Sessions, CloseSession(c, s) PROVE SameShape
  <2>1. UNCHANGED <<helper, files>>
    BY <1>34 DEF CloseSession
  <2>2. DOMAIN srv' = Servers /\ \A d \in Servers : DOMAIN srv'[d] = DOMAIN srv[d]
    BY <1>34 DEF CloseSession
  <2>3. DOMAIN sess' = Sessions /\ \A t \in Sessions : DOMAIN sess'[t] = DOMAIN sess[t]
    BY <1>34 DEF CloseSession
  <2>4. DOMAIN proc' = Sessions /\ \A t \in Sessions : DOMAIN proc'[t] = DOMAIN proc[t]
    BY <1>34 DEF CloseSession, do_kill_process
  <2>5. DOMAIN fds' = Processes /\ \A p \in Processes : DOMAIN fds'[p] = DOMAIN fds[p]
    BY <1>34 DEF CloseSession, Closed, FdFields
  <2>6. QED
    BY <2>1, <2>2, <2>3, <2>4, <2>5
<1>35. ASSUME NEW s \in Sessions, SetupFails(s) PROVE SameShape
  <2>1. UNCHANGED <<sess, helper, files>>
    BY <1>35 DEF SetupFails
  <2>2. DOMAIN srv' = Servers /\ \A d \in Servers : DOMAIN srv'[d] = DOMAIN srv[d]
    BY <1>35 DEF SetupFails
  <2>3. DOMAIN proc' = Sessions /\ \A t \in Sessions : DOMAIN proc'[t] = DOMAIN proc[t]
    BY <1>35 DEF SetupFails, Exited
  <2>4. DOMAIN fds' = Processes /\ \A p \in Processes : DOMAIN fds'[p] = DOMAIN fds[p]
    BY <1>35 DEF SetupFails, NoFds, FdFields
  <2>5. QED
    BY <2>1, <2>2, <2>3, <2>4
<1>36. ASSUME NEW s \in Sessions, AskLogin(s) PROVE SameShape
  BY <1>36 DEF AskLogin
<1>37. ASSUME NEW s \in Sessions, StartUnrecorded(s) PROVE SameShape
  <2>1. UNCHANGED <<srv, sess, helper, files>>
    BY <1>37 DEF StartUnrecorded
  <2>2. DOMAIN proc' = Sessions /\ \A t \in Sessions : DOMAIN proc'[t] = DOMAIN proc[t]
    BY <1>37 DEF StartUnrecorded, Start, ProcFields
  <2>3. DOMAIN fds' = Processes /\ \A p \in Processes : DOMAIN fds'[p] = DOMAIN fds[p]
    BY <1>37 DEF StartUnrecorded, Closed, Start, FdFields
  <2>4. QED
    BY <2>1, <2>2, <2>3
<1>38. ASSUME NEW s \in Sessions, LoggedIn(s) PROVE SameShape
  <2>1. UNCHANGED <<sess, helper, files>>
    BY <1>38 DEF LoggedIn
  <2>2. DOMAIN srv' = Servers /\ \A d \in Servers : DOMAIN srv'[d] = DOMAIN srv[d]
    BY <1>38 DEF LoggedIn, WithoutAnswer
  <2>3. DOMAIN proc' = Sessions /\ \A t \in Sessions : DOMAIN proc'[t] = DOMAIN proc[t]
    BY <1>38 DEF LoggedIn, Start, ProcFields
  <2>4. DOMAIN fds' = Processes /\ \A p \in Processes : DOMAIN fds'[p] = DOMAIN fds[p]
    BY <1>38 DEF LoggedIn, Closed, Start, FdFields
  <2>5. QED
    BY <2>1, <2>2, <2>3, <2>4
<1>39. ASSUME NEW s \in Sessions, Ends(s) PROVE SameShape
  <2>1. UNCHANGED <<sess, helper, files>>
    BY <1>39 DEF Ends
  <2>2. DOMAIN srv' = Servers /\ \A d \in Servers : DOMAIN srv'[d] = DOMAIN srv[d]
    BY <1>39 DEF Ends
  <2>3. DOMAIN proc' = Sessions /\ \A t \in Sessions : DOMAIN proc'[t] = DOMAIN proc[t]
    BY <1>39 DEF Ends, Exited
  <2>4. DOMAIN fds' = Processes /\ \A p \in Processes : DOMAIN fds'[p] = DOMAIN fds[p]
    BY <1>39 DEF Ends, NoFds, FdFields
  <2>5. QED
    BY <2>1, <2>2, <2>3, <2>4
<1>40. ASSUME UNCHANGED vars PROVE SameShape
  <2>1. UNCHANGED <<srv, sess, proc, helper, files, fds>>
    BY <1>40 DEF vars
  <2>2. QED
    BY <2>1
<1> HIDE DEF Shape, SameShape
<1>41. QED
  BY <1>0, <1>1, <1>2, <1>3, <1>4, <1>5, <1>6, <1>7, <1>8, <1>9, <1>10, <1>11, <1>12,
     <1>13, <1>14, <1>15, <1>16, <1>17, <1>18, <1>19, <1>20, <1>21, <1>22, <1>23, <1>24,
     <1>25, <1>26, <1>27, <1>28, <1>29, <1>30, <1>31, <1>32, <1>33, <1>34, <1>35, <1>36,
     <1>37, <1>38, <1>39, <1>40
     DEF Next, ServerStep, ClientStep, ChildStep, Fork, Reap, open_x11_socket, create_xauth,
         PtyRequest, Spawn, X11Request, Setup

(* The fields that the steps read are there.                               *)
HasSrv ==
  /\ DOMAIN srv = Servers
  /\ \A c \in Servers :
       /\ "alive" \in DOMAIN srv[c] /\ "closing" \in DOMAIN srv[c] /\ "pc" \in DOMAIN srv[c]
       /\ "cur" \in DOMAIN srv[c] /\ "display" \in DOMAIN srv[c] /\ "after" \in DOMAIN srv[c]
       /\ "sigchld" \in DOMAIN srv[c] /\ "handlers" \in DOMAIN srv[c]
       /\ "requests" \in DOMAIN srv[c] /\ "answers" \in DOMAIN srv[c]
       /\ "torn" \in DOMAIN srv[c] /\ "xfailed" \in DOMAIN srv[c]
HasSess ==
  /\ DOMAIN sess = Sessions
  /\ \A s \in Sessions :
       /\ "todo" \in DOMAIN sess[s] /\ "alive" \in DOMAIN sess[s] /\ "pty" \in DOMAIN sess[s]
       /\ "term" \in DOMAIN sess[s] /\ "info" \in DOMAIN sess[s] /\ "kind" \in DOMAIN sess[s]
       /\ "process" \in DOMAIN sess[s] /\ "x11" \in DOMAIN sess[s]
       /\ "listening" \in DOMAIN sess[s] /\ "ref" \in DOMAIN sess[s]
       /\ "leaky" \in DOMAIN sess[s] /\ "replies" \in DOMAIN sess[s]
       /\ "status" \in DOMAIN sess[s]
HasProc ==
  /\ DOMAIN proc = Sessions
  /\ \A s \in Sessions :
       /\ "pc" \in DOMAIN proc[s] /\ "env" \in DOMAIN proc[s]
       /\ "login" \in DOMAIN proc[s] /\ "std" \in DOMAIN proc[s]
HasFiles ==
  /\ DOMAIN files = Displays
  /\ \A n \in Displays : "socket" \in DOMAIN files[n] /\ "xauth" \in DOMAIN files[n]
HasFds ==
  /\ DOMAIN fds = Processes
  /\ \A p \in Processes : "open" \in DOMAIN fds[p] /\ "keep" \in DOMAIN fds[p]
HasHelper ==
  /\ DOMAIN helper = Servers
  /\ \A c \in Servers : "alive" \in DOMAIN helper[c] /\ "objects" \in DOMAIN helper[c]

LEMMA HasFields ==
  ASSUME Shape
  PROVE  HasSrv /\ HasSess /\ HasProc /\ HasFiles /\ HasFds /\ HasHelper
<1>1. HasSrv
  BY DEF Shape, HasSrv, SrvFields
<1>2. HasSess
  BY DEF Shape, HasSess, SessFields
<1>3. HasProc
  BY DEF Shape, HasProc, ProcFields
<1>4. HasFiles
  BY DEF Shape, HasFiles, FileFields
<1>5. HasFds
  BY DEF Shape, HasFds, FdFields
<1>6. HasHelper
  BY DEF Shape, HasHelper, HelperFields
<1>7. QED
  BY <1>1, <1>2, <1>3, <1>4, <1>5, <1>6

-----------------------------------------------------------------------------
(* What belongs to one connection is touched by its own processes only.    *)
(* While lshd-connection is in the middle of something, that is about one  *)
(* of its own sessions.                                                    *)
Busy ==
  {"create", "fork", "destroy", "sync", "logout", "bind", "xauth", "unlink", "unlink_xauth"}

CurInv ==
  \A c \in Servers : srv[c].pc \in Busy =>
    srv[c].cur \in Sessions /\ ServerOf(srv[c].cur) = c

CurStays ==
  \A c \in Servers : srv'[c].pc \in Busy =>
    \/ srv[c].pc \in Busy /\ srv'[c].cur = srv[c].cur
    \/ srv'[c].cur \in Sessions /\ ServerOf(srv'[c].cur) = c

LocalTo(c) ==
  /\ \A d \in Servers : d # c =>
       srv'[d] = srv[d] /\ helper'[d] = helper[d] /\ fds'[d] = fds[d]
  /\ \A s \in Sessions : ServerOf(s) # c =>
       sess'[s] = sess[s] /\ proc'[s] = proc[s] /\ fds'[s] = fds[s]

(* A step of a connection c or of its processes leaves the others alone.   *)
LEMMA Local ==
  ASSUME Shape, CurInv
  PROVE  /\ \A c \in Servers :
              (ServerStep(c) \/ Disconnect(c) \/ ServerExit(c) \/ HelperServes(c) \/ HelperExits(c))
                => LocalTo(c)
         /\ \A c \in Servers, s \in Sessions : ClientStep(c, s) => LocalTo(c)
         /\ \A s \in Sessions : ChildStep(s) \/ Ends(s) => LocalTo(ServerOf(s))
<1>a. HasSrv /\ HasSess /\ HasProc /\ HasFds /\ HasHelper
  BY HasFields
<1>b. /\ \A s \in Sessions : ServerOf(s) \in Servers /\ ServerOf(s) # s
      /\ \A c \in Servers, s \in Sessions : c # s
      /\ Servers \subseteq Processes /\ Sessions \subseteq Processes
  BY NamesDiffer DEF Shape, Processes
<1>c. \A c \in Servers : srv[c].pc \in Busy =>
        srv[c].cur \in Sessions /\ ServerOf(srv[c].cur) = c
  BY DEF CurInv
<1> USE DEF LocalTo, HasSrv, HasSess, HasProc, HasFds, HasHelper
<1>1. ASSUME NEW c \in Servers, Created(c) PROVE LocalTo(c)
  <2>1. srv[c].cur \in Sessions /\ ServerOf(srv[c].cur) = c
    BY <1>c, <1>1 DEF Created, At, Busy
  <2>2. QED
    BY <1>a, <1>b, <1>1, <2>1 DEF Created, WithoutAnswer
<1>2. ASSUME NEW c \in Servers, ForkChild(c) PROVE LocalTo(c)
  <2>1. srv[c].cur \in Sessions /\ ServerOf(srv[c].cur) = c
    BY <1>c, <1>2 DEF ForkChild, At, Busy
  <2>2. QED
    BY <1>a, <1>b, <1>2, <2>1 DEF ForkChild
<1>3. ASSUME NEW c \in Servers, ForkFailsTold(c) PROVE LocalTo(c)
  <2>1. srv[c].cur \in Sessions /\ ServerOf(srv[c].cur) = c
    BY <1>c, <1>3 DEF ForkFailsTold, At, Busy
  <2>2. QED
    BY <1>a, <1>b, <1>3, <2>1 DEF ForkFailsTold, SpawnErrorFds
<1>4. ASSUME NEW c \in Servers, ForkFails(c) PROVE LocalTo(c)
  <2>1. srv[c].cur \in Sessions /\ ServerOf(srv[c].cur) = c
    BY <1>c, <1>4 DEF ForkFails, At, Busy
  <2>2. QED
    BY <1>a, <1>b, <1>4, <2>1 DEF ForkFails, SpawnErrorFds
<1>5. ASSUME NEW c \in Servers, Destroyed(c) PROVE LocalTo(c)
  <2>1. srv[c].cur \in Sessions /\ ServerOf(srv[c].cur) = c
    BY <1>c, <1>5 DEF Destroyed, At, Busy
  <2>2. QED
    BY <1>a, <1>b, <1>5, <2>1 DEF Destroyed, WithoutAnswer
<1>6. ASSUME NEW c \in Servers, Synced(c) PROVE LocalTo(c)
  <2>1. srv[c].cur \in Sessions /\ ServerOf(srv[c].cur) = c
    BY <1>c, <1>6 DEF Synced, At, Busy
  <2>2. QED
    BY <1>a, <1>b, <1>6, <2>1 DEF Synced
<1>7. ASSUME NEW c \in Servers, SigChld(c) PROVE LocalTo(c)
  BY <1>a, <1>b, <1>7 DEF SigChld
<1>8. ASSUME NEW c \in Servers, ReapEnds(c) PROVE LocalTo(c)
  BY <1>a, <1>b, <1>8 DEF ReapEnds
<1>9. ASSUME NEW c \in Servers, LoggedOut(c) PROVE LocalTo(c)
  <2>1. srv[c].cur \in Sessions /\ ServerOf(srv[c].cur) = c
    BY <1>c, <1>9 DEF LoggedOut, At, Busy
  <2>2. QED
    BY <1>a, <1>b, <1>9, <2>1 DEF LoggedOut, WithoutAnswer
<1>10. ASSUME NEW c \in Servers, BindFree(c) PROVE LocalTo(c)
  <2>1. srv[c].cur \in Sessions /\ ServerOf(srv[c].cur) = c
    BY <1>c, <1>10 DEF BindFree, At, Busy
  <2>2. QED
    BY <1>a, <1>b, <1>10, <2>1 DEF BindFree
<1>11. ASSUME NEW c \in Servers, BindTaken(c) PROVE LocalTo(c)
  BY <1>a, <1>b, <1>11 DEF BindTaken
<1>12. ASSUME NEW c \in Servers, BindNone(c) PROVE LocalTo(c)
  <2>1. srv[c].cur \in Sessions /\ ServerOf(srv[c].cur) = c
    BY <1>c, <1>12 DEF BindNone, At, Busy
  <2>2. QED
    BY <1>a, <1>b, <1>12, <2>1 DEF BindNone
<1>13. ASSUME NEW c \in Servers, PortOpens(c) PROVE LocalTo(c)
  <2>1. srv[c].cur \in Sessions /\ ServerOf(srv[c].cur) = c
    BY <1>c, <1>13 DEF PortOpens, At, Busy
  <2>2. QED
    BY <1>a, <1>b, <1>13, <2>1 DEF PortOpens
<1>14. ASSUME NEW c \in Servers, PortFails(c) PROVE LocalTo(c)
  <2>1. srv[c].cur \in Sessions /\ ServerOf(srv[c].cur) = c
    BY <1>c, <1>14 DEF PortFails, At, Busy
  <2>2. QED
    BY <1>a, <1>b, <1>14, <2>1 DEF PortFails
<1>15. ASSUME NEW c \in Servers, UnlinkSocket(c) PROVE LocalTo(c)
  BY <1>a, <1>b, <1>15 DEF UnlinkSocket
<1>16. ASSUME NEW c \in Servers, UnlinkXauth(c) PROVE LocalTo(c)
  <2>1. srv[c].cur \in Sessions /\ ServerOf(srv[c].cur) = c
    BY <1>c, <1>16 DEF UnlinkXauth, At, Busy
  <2>2. QED
    BY <1>a, <1>b, <1>16, <2>1 DEF UnlinkXauth
<1>17. ASSUME NEW c \in Servers, Disconnect(c) PROVE LocalTo(c)
  BY <1>a, <1>b, <1>17 DEF Disconnect
<1>18. ASSUME NEW c \in Servers, ServerExit(c) PROVE LocalTo(c)
  BY <1>a, <1>b, <1>18 DEF ServerExit, Zombies, Of
<1>19. ASSUME NEW c \in Servers, HelperServes(c) PROVE LocalTo(c)
  BY <1>a, <1>b, <1>19 DEF HelperServes
<1>20. ASSUME NEW c \in Servers, HelperExits(c) PROVE LocalTo(c)
  BY <1>a, <1>b, <1>20 DEF HelperExits
<1>21. ASSUME NEW c \in Servers, NEW s \in Sessions, ReapUnknown(c, s) PROVE LocalTo(c)
  <2>1. ServerOf(s) = c
    BY <1>21 DEF ReapUnknown, Zombies, Of
  <2>2. QED
    BY <1>a, <1>b, <1>21, <2>1 DEF ReapUnknown
<1>22. ASSUME NEW c \in Servers, NEW s \in Sessions, ReapTold(c, s) PROVE LocalTo(c)
  <2>1. ServerOf(s) = c
    BY <1>22 DEF ReapTold, Zombies, Of
  <2>2. QED
    BY <1>a, <1>b, <1>22, <2>1 DEF ReapTold
<1>23. ASSUME NEW c \in Servers, NEW s \in Sessions, ReapUntold(c, s) PROVE LocalTo(c)
  <2>1. ServerOf(s) = c
    BY <1>23 DEF ReapUntold, Zombies, Of
  <2>2. QED
    BY <1>a, <1>b, <1>23, <2>1 DEF ReapUntold
<1>24. ASSUME NEW c \in Servers, NEW s \in Sessions, PtyGranted(c, s) PROVE LocalTo(c)
  <2>1. ServerOf(s) = c
    BY <1>24 DEF PtyGranted, Asked, Of
  <2>2. QED
    BY <1>a, <1>b, <1>24, <2>1 DEF PtyGranted
<1>25. ASSUME NEW c \in Servers, NEW s \in Sessions, PtyRefused(c, s) PROVE LocalTo(c)
  <2>1. ServerOf(s) = c
    BY <1>25 DEF PtyRefused, Asked, Of
  <2>2. QED
    BY <1>a, <1>b, <1>25, <2>1 DEF PtyRefused
<1>26. ASSUME NEW c \in Servers, NEW s \in Sessions, NEW failure, SpawnFails(c, s,
              failure)
       PROVE  LocalTo(c)
  <2>1. ServerOf(s) = c
    BY <1>26 DEF SpawnFails, CanSpawn, Asked, Of
  <2>2. QED
    BY <1>a, <1>b, <1>26, <2>1 DEF SpawnFails
<1>27. ASSUME NEW c \in Servers, NEW s \in Sessions, NEW failure, SpawnAsks(c, s, failure)
       PROVE  LocalTo(c)
  <2>1. ServerOf(s) = c
    BY <1>27 DEF SpawnAsks, CanSpawn, Asked, Of
  <2>2. QED
    BY <1>a, <1>b, <1>27, <2>1 DEF SpawnAsks
<1>28. ASSUME NEW c \in Servers, NEW s \in Sessions, NEW failure, SpawnAlone(c, s,
              failure)
       PROVE  LocalTo(c)
  <2>1. ServerOf(s) = c
    BY <1>28 DEF SpawnAlone, CanSpawn, Asked, Of
  <2>2. QED
    BY <1>a, <1>b, <1>28, <2>1 DEF SpawnAlone
<1>29. ASSUME NEW c \in Servers, NEW s \in Sessions, SpawnRefused(c, s) PROVE LocalTo(c)
  <2>1. ServerOf(s) = c
    BY <1>29 DEF SpawnRefused, Asked, Of
  <2>2. QED
    BY <1>a, <1>b, <1>29, <2>1 DEF SpawnRefused
<1>30. ASSUME NEW c \in Servers, NEW s \in Sessions, Abort(c, s) PROVE LocalTo(c)
  <2>1. ServerOf(s) = c
    BY <1>30 DEF Abort, Asked, Of
  <2>2. QED
    BY <1>a, <1>b, <1>30, <2>1 DEF Abort
<1>31. ASSUME NEW c \in Servers, NEW s \in Sessions, X11Accepted(c, s) PROVE LocalTo(c)
  <2>1. ServerOf(s) = c
    BY <1>31 DEF X11Accepted, Asked, Of
  <2>2. QED
    BY <1>a, <1>b, <1>31, <2>1 DEF X11Accepted
<1>32. ASSUME NEW c \in Servers, NEW s \in Sessions, X11Refused(c, s) PROVE LocalTo(c)
  <2>1. ServerOf(s) = c
    BY <1>32 DEF X11Refused, Asked, Of
  <2>2. QED
    BY <1>a, <1>b, <1>32, <2>1 DEF X11Refused
<1>33. ASSUME NEW c \in Servers, NEW s \in Sessions, AcceptSingle(c, s) PROVE LocalTo(c)
  <2>1. ServerOf(s) = c
    BY <1>33 DEF AcceptSingle, Of
  <2>2. QED
    BY <1>a, <1>b, <1>33, <2>1 DEF AcceptSingle
<1>34. ASSUME NEW c \in Servers, NEW s \in Sessions, CloseSession(c, s) PROVE LocalTo(c)
  <2>1. ServerOf(s) = c
    BY <1>34 DEF CloseSession, Of
  <2>2. QED
    BY <1>a, <1>b, <1>34, <2>1 DEF CloseSession, do_kill_process
<1>35. ASSUME NEW s \in Sessions, SetupFails(s) PROVE LocalTo(ServerOf(s))
  BY <1>a, <1>b, <1>35 DEF SetupFails, Exited, NoFds
<1>36. ASSUME NEW s \in Sessions, AskLogin(s) PROVE LocalTo(ServerOf(s))
  BY <1>a, <1>b, <1>36 DEF AskLogin
<1>37. ASSUME NEW s \in Sessions, StartUnrecorded(s) PROVE LocalTo(ServerOf(s))
  BY <1>a, <1>b, <1>37 DEF StartUnrecorded, Start
<1>38. ASSUME NEW s \in Sessions, LoggedIn(s) PROVE LocalTo(ServerOf(s))
  BY <1>a, <1>b, <1>38 DEF LoggedIn, WithoutAnswer, Start
<1>39. ASSUME NEW s \in Sessions, Ends(s) PROVE LocalTo(ServerOf(s))
  BY <1>a, <1>b, <1>39 DEF Ends, Exited, NoFds
<1> HIDE DEF LocalTo
<1>40. QED
  BY <1>1, <1>2, <1>3, <1>4, <1>5, <1>6, <1>7, <1>8, <1>9, <1>10, <1>11, <1>12, <1>13,
     <1>14, <1>15, <1>16, <1>17, <1>18, <1>19, <1>20, <1>21, <1>22, <1>23, <1>24, <1>25,
     <1>26, <1>27, <1>28, <1>29, <1>30, <1>31, <1>32, <1>33, <1>34, <1>35, <1>36, <1>37,
     <1>38, <1>39
     DEF ServerStep, ClientStep, ChildStep, Fork, Reap, open_x11_socket, create_xauth,
         PtyRequest, Spawn, X11Request, Setup

(* CurInv is kept.                                                         *)
LEMMA CurStep == Shape /\ CurInv /\ [Next]_vars => CurInv'
<1> SUFFICES ASSUME Shape, CurInv, [Next]_vars
             PROVE  CurInv'
  OBVIOUS
<1>a. HasSrv
  BY HasFields
<1>b. Sessions' = Sessions /\ Servers' = Servers
  BY SceneFixed
<1>c. CurStays => CurInv'
  BY <1>b DEF CurInv, CurStays
<1> USE DEF HasSrv, CurStays
<1>1. ASSUME NEW c \in Servers, Created(c) PROVE CurStays
  BY <1>a, <1>1 DEF Created, WithoutAnswer, At, Busy
<1>2. ASSUME NEW c \in Servers, ForkChild(c) PROVE CurStays
  BY <1>a, <1>2 DEF ForkChild, At, Busy
<1>3. ASSUME NEW c \in Servers, ForkFailsTold(c) PROVE CurStays
  BY <1>a, <1>3 DEF ForkFailsTold, At, Busy
<1>4. ASSUME NEW c \in Servers, ForkFails(c) PROVE CurStays
  BY <1>a, <1>4 DEF ForkFails, At, Busy
<1>5. ASSUME NEW c \in Servers, Destroyed(c) PROVE CurStays
  BY <1>a, <1>5 DEF Destroyed, WithoutAnswer, At, Busy
<1>6. ASSUME NEW c \in Servers, Synced(c) PROVE CurStays
  BY <1>a, <1>6 DEF Synced, At, Busy
<1>7. ASSUME NEW c \in Servers, SigChld(c) PROVE CurStays
  BY <1>a, <1>7 DEF SigChld, At, Busy
<1>8. ASSUME NEW c \in Servers, ReapEnds(c) PROVE CurStays
  BY <1>a, <1>8 DEF ReapEnds, At, Busy
<1>9. ASSUME NEW c \in Servers, LoggedOut(c) PROVE CurStays
  BY <1>a, <1>9 DEF LoggedOut, WithoutAnswer, At, Busy
<1>10. ASSUME NEW c \in Servers, BindFree(c) PROVE CurStays
  BY <1>a, <1>10 DEF BindFree, At, Busy
<1>11. ASSUME NEW c \in Servers, BindTaken(c) PROVE CurStays
  BY <1>a, <1>11 DEF BindTaken, At, Busy
<1>12. ASSUME NEW c \in Servers, BindNone(c) PROVE CurStays
  BY <1>a, <1>12 DEF BindNone, At, Busy
<1>13. ASSUME NEW c \in Servers, PortOpens(c) PROVE CurStays
  BY <1>a, <1>13 DEF PortOpens, At, Busy
<1>14. ASSUME NEW c \in Servers, PortFails(c) PROVE CurStays
  BY <1>a, <1>14 DEF PortFails, At, Busy
<1>15. ASSUME NEW c \in Servers, UnlinkSocket(c) PROVE CurStays
  BY <1>a, <1>15 DEF UnlinkSocket, At, Busy
<1>16. ASSUME NEW c \in Servers, UnlinkXauth(c) PROVE CurStays
  BY <1>a, <1>16 DEF UnlinkXauth, At, Busy
<1>17. ASSUME NEW c \in Servers, Disconnect(c) PROVE CurStays
  BY <1>a, <1>17 DEF Disconnect, At, Busy
<1>18. ASSUME NEW c \in Servers, ServerExit(c) PROVE CurStays
  BY <1>a, <1>18 DEF ServerExit, At, Busy
<1>19. ASSUME NEW c \in Servers, HelperServes(c) PROVE CurStays
  <2>1. \E requests, answers :
          srv' = [srv EXCEPT ![c].requests = requests, ![c].answers = answers]
    BY <1>19, Zenon DEF HelperServes
  <2>2. QED
    BY <1>a, <2>1
<1>20. ASSUME NEW c \in Servers, HelperExits(c) PROVE CurStays
  BY <1>a, <1>20 DEF HelperExits, At, Busy
<1>21. ASSUME NEW c \in Servers, NEW s \in Sessions, ReapUnknown(c, s) PROVE CurStays
  BY <1>a, <1>21 DEF ReapUnknown, At, Busy
<1>22. ASSUME NEW c \in Servers, NEW s \in Sessions, ReapTold(c, s) PROVE CurStays
  BY <1>a, <1>22 DEF ReapTold, Zombies, Of, At, Busy
<1>23. ASSUME NEW c \in Servers, NEW s \in Sessions, ReapUntold(c, s) PROVE CurStays
  BY <1>a, <1>23 DEF ReapUntold, Zombies, Of, At, Busy
<1>24. ASSUME NEW c \in Servers, NEW s \in Sessions, PtyGranted(c, s) PROVE CurStays
  BY <1>a, <1>24 DEF PtyGranted, At, Busy
<1>25. ASSUME NEW c \in Servers, NEW s \in Sessions, PtyRefused(c, s) PROVE CurStays
  BY <1>a, <1>25 DEF PtyRefused, At, Busy
<1>26. ASSUME NEW c \in Servers, NEW s \in Sessions, NEW failure, SpawnFails(c, s,
              failure)
       PROVE  CurStays
  BY <1>a, <1>26 DEF SpawnFails, CanSpawn, Asked, Idle, Of, At, Busy
<1>27. ASSUME NEW c \in Servers, NEW s \in Sessions, NEW failure, SpawnAsks(c, s, failure)
       PROVE  CurStays
  <2>1. ServerOf(s) = c
    BY <1>27 DEF SpawnAsks, CanSpawn, Asked, Of
  <2>2. \E requests : srv' = [srv EXCEPT ![c].pc = "create", ![c].cur = s,
                                        ![c].requests = requests]
    BY <1>27, Zenon DEF SpawnAsks
  <2>3. QED
    BY <1>a, <2>1, <2>2
<1>28. ASSUME NEW c \in Servers, NEW s \in Sessions, NEW failure, SpawnAlone(c, s,
              failure)
       PROVE  CurStays
  BY <1>a, <1>28 DEF SpawnAlone, CanSpawn, Asked, Idle, Of, At, Busy
<1>29. ASSUME NEW c \in Servers, NEW s \in Sessions, SpawnRefused(c, s) PROVE CurStays
  BY <1>a, <1>29 DEF SpawnRefused, At, Busy
<1>30. ASSUME NEW c \in Servers, NEW s \in Sessions, Abort(c, s) PROVE CurStays
  BY <1>a, <1>30 DEF Abort, At, Busy
<1>31. ASSUME NEW c \in Servers, NEW s \in Sessions, X11Accepted(c, s) PROVE CurStays
  BY <1>a, <1>31 DEF X11Accepted, Asked, Of, At, Busy
<1>32. ASSUME NEW c \in Servers, NEW s \in Sessions, X11Refused(c, s) PROVE CurStays
  BY <1>a, <1>32 DEF X11Refused, At, Busy
<1>33. ASSUME NEW c \in Servers, NEW s \in Sessions, AcceptSingle(c, s) PROVE CurStays
  BY <1>a, <1>33 DEF AcceptSingle, Of, At, Busy
<1>34. ASSUME NEW c \in Servers, NEW s \in Sessions, CloseSession(c, s) PROVE CurStays
  BY <1>a, <1>34 DEF CloseSession, Of, At, Busy
<1>35. ASSUME NEW s \in Sessions, SetupFails(s) PROVE CurStays
  BY <1>a, <1>35 DEF SetupFails, At, Busy
<1>36. ASSUME NEW s \in Sessions, AskLogin(s) PROVE CurStays
  BY <1>a, <1>36 DEF AskLogin, At, Busy
<1>37. ASSUME NEW s \in Sessions, StartUnrecorded(s) PROVE CurStays
  BY <1>a, <1>37 DEF StartUnrecorded, At, Busy
<1>38. ASSUME NEW s \in Sessions, LoggedIn(s) PROVE CurStays
  BY <1>a, <1>38 DEF LoggedIn, WithoutAnswer, At, Busy
<1>39. ASSUME NEW s \in Sessions, Ends(s) PROVE CurStays
  BY <1>a, <1>39 DEF Ends, At, Busy
<1>40. ASSUME UNCHANGED vars PROVE CurStays
  BY <1>40 DEF vars
<1> HIDE DEF CurStays
<1>41. QED
  BY <1>c, <1>1, <1>2, <1>3, <1>4, <1>5, <1>6, <1>7, <1>8, <1>9, <1>10, <1>11, <1>12,
     <1>13, <1>14, <1>15, <1>16, <1>17, <1>18, <1>19, <1>20, <1>21, <1>22, <1>23, <1>24,
     <1>25, <1>26, <1>27, <1>28, <1>29, <1>30, <1>31, <1>32, <1>33, <1>34, <1>35, <1>36,
     <1>37, <1>38, <1>39, <1>40
     DEF Next, ServerStep, ClientStep, ChildStep, Fork, Reap, open_x11_socket, create_xauth,
         PtyRequest, Spawn, X11Request, Setup

-----------------------------------------------------------------------------
(* DisplayKept.  While lshd-connection opens or closes a port, the display *)
(* is held by a session that does not listen.                              *)
X11Pcs == {"bind", "xauth", "unlink", "unlink_xauth"}

X11Held ==
  \A s \in Sessions : sess[s].listening =>
    sess[s].x11 \in Displays /\ files[sess[s].x11].socket = s

X11Busy ==
  \A c \in Servers : srv[c].pc \in X11Pcs =>
    srv[c].cur \in Sessions /\ ServerOf(srv[c].cur) = c /\ ~sess[srv[c].cur].listening

X11Bound ==
  \A c \in Servers : (srv[c].pc = "xauth" \/ srv[c].pc = "unlink") =>
    srv[c].display \in Displays /\ files[srv[c].display].socket = srv[c].cur

X11Xauth ==
  (\A c \in Servers : ~srv[c].xfailed) =>
    /\ \A s \in Sessions : sess[s].listening => files[sess[s].x11].xauth = s
    /\ \A c \in Servers : (srv[c].pc = "unlink" \/ srv[c].pc = "unlink_xauth") =>
         srv[c].display \in Displays /\ files[srv[c].display].xauth = srv[c].cur

X11Inv == X11Held /\ X11Busy /\ X11Bound /\ X11Xauth

(* What most steps do to the displays: nothing.                            *)
X11SameSess ==
  \A s \in Sessions : sess'[s].listening = sess[s].listening /\ sess'[s].x11 = sess[s].x11
X11SameSrv ==
  \A c \in Servers :
    /\ srv'[c].xfailed = srv[c].xfailed
    /\ srv'[c].pc \in X11Pcs =>
         /\ srv'[c].pc = srv[c].pc /\ srv'[c].cur = srv[c].cur
         /\ srv'[c].display = srv[c].display
X11Same == files' = files /\ X11SameSess /\ X11SameSrv

(* A step leaves the displays alone, or opens or closes a port.            *)
LEMMA X11Step == Shape /\ X11Inv /\ [Next]_vars => X11Inv'
<1> SUFFICES ASSUME Shape, X11Inv, [Next]_vars
             PROVE  X11Inv'
  OBVIOUS
<1>a. HasSrv
  BY HasFields
<1>s. HasSess
  BY HasFields
<1>f. HasFiles
  BY HasFields
<1>b. Sessions' = Sessions /\ Servers' = Servers
  BY SceneFixed
<1>c. /\ Nobody \notin Sessions
      /\ \A s \in Sessions : ServerOf(s) \in Servers
  BY NamesDiffer DEF Shape
<1>d. 0 \notin Displays
  BY DisplaysAssumption DEF Displays
<1>e. ASSUME X11Same PROVE X11Inv'
  <2>1. X11Held'
    BY <1>b, <1>e DEF X11Inv, X11Held, X11Same, X11SameSess
  <2>2. X11Busy'
    BY <1>b, <1>e DEF X11Inv, X11Busy, X11Same, X11SameSess, X11SameSrv
  <2>3. X11Bound'
    BY <1>b, <1>e DEF X11Inv, X11Bound, X11Same, X11SameSrv, X11Pcs
  <2>4. X11Xauth'
    BY <1>b, <1>e DEF X11Inv, X11Xauth, X11Same, X11SameSess, X11SameSrv, X11Pcs
  <2>5. QED
    BY <2>1, <2>2, <2>3, <2>4 DEF X11Inv
<1> USE DEF HasSrv, HasSess, HasFiles
<1>p. ASSUME NEW c \in Servers, NEW s \in Sessions, ServerOf(s) = c, srv[c].pc = "loop",
             files' = files,
             \A t \in Sessions : t # s => sess'[t] = sess[t],
             ~sess'[s].listening,
             \A d \in Servers : srv'[d].xfailed = srv[d].xfailed,
             \A d \in Servers : d # c => srv'[d] = srv[d],
             \/ ~sess[s].listening /\ srv' = srv
             \/ /\ sess[s].listening /\ srv'[c].pc = "unlink" /\ srv'[c].cur = s
                /\ srv'[c].display = sess[s].x11
      PROVE  X11Inv'
  <2>1. X11Held'
    BY <1>b, <1>p DEF X11Inv, X11Held
  <2>2. X11Busy'
    BY <1>b, <1>p DEF X11Inv, X11Busy, X11Pcs
  <2>3. X11Bound'
    BY <1>b, <1>p DEF X11Inv, X11Held, X11Bound
  <2>4. X11Xauth'
    BY <1>b, <1>p DEF X11Inv, X11Held, X11Xauth
  <2>5. QED
    BY <2>1, <2>2, <2>3, <2>4 DEF X11Inv
<1>1. ASSUME NEW c \in Servers, Created(c) PROVE X11Inv'
  <2>1. files' = files
    BY <1>1 DEF Created
  <2>2. X11SameSess
    BY <1>s, <1>1 DEF Created, X11SameSess
  <2>3. X11SameSrv
    BY <1>a, <1>1 DEF Created, WithoutAnswer, At, X11SameSrv, X11Pcs
  <2>4. QED
    BY <1>e, <2>1, <2>2, <2>3 DEF X11Same
<1>2. ASSUME NEW c \in Servers, ForkChild(c) PROVE X11Inv'
  <2>1. files' = files /\ sess' = sess
    BY <1>2 DEF ForkChild
  <2>2. X11SameSrv
    BY <1>a, <1>2 DEF ForkChild, At, X11SameSrv, X11Pcs
  <2>3. QED
    BY <1>e, <2>1, <2>2 DEF X11Same, X11SameSess
<1>3. ASSUME NEW c \in Servers, ForkFailsTold(c) PROVE X11Inv'
  <2>1. files' = files /\ sess' = sess
    BY <1>3 DEF ForkFailsTold
  <2>2. X11SameSrv
    BY <1>a, <1>3 DEF ForkFailsTold, At, X11SameSrv, X11Pcs
  <2>3. QED
    BY <1>e, <2>1, <2>2 DEF X11Same, X11SameSess
<1>4. ASSUME NEW c \in Servers, ForkFails(c) PROVE X11Inv'
  <2>1. files' = files
    BY <1>4 DEF ForkFails
  <2>2. X11SameSess
    BY <1>s, <1>4 DEF ForkFails, Reply, X11SameSess
  <2>3. X11SameSrv
    BY <1>a, <1>4 DEF ForkFails, At, X11SameSrv, X11Pcs
  <2>4. QED
    BY <1>e, <2>1, <2>2, <2>3 DEF X11Same
<1>5. ASSUME NEW c \in Servers, Destroyed(c) PROVE X11Inv'
  <2>1. files' = files
    BY <1>5 DEF Destroyed
  <2>2. X11SameSess
    BY <1>s, <1>5 DEF Destroyed, Reply, X11SameSess
  <2>3. X11SameSrv
    BY <1>a, <1>5 DEF Destroyed, WithoutAnswer, At, X11SameSrv, X11Pcs
  <2>4. QED
    BY <1>e, <2>1, <2>2, <2>3 DEF X11Same
<1>6. ASSUME NEW c \in Servers, Synced(c) PROVE X11Inv'
  <2>1. files' = files
    BY <1>6 DEF Synced
  <2>2. X11SameSess
    BY <1>s, <1>6 DEF Synced, Reply, X11SameSess
  <2>3. X11SameSrv
    BY <1>a, <1>6 DEF Synced, At, X11SameSrv, X11Pcs
  <2>4. QED
    BY <1>e, <2>1, <2>2, <2>3 DEF X11Same
<1>7. ASSUME NEW c \in Servers, SigChld(c) PROVE X11Inv'
  <2>1. files' = files /\ sess' = sess
    BY <1>7 DEF SigChld
  <2>2. X11SameSrv
    BY <1>a, <1>7 DEF SigChld, At, X11SameSrv, X11Pcs
  <2>3. QED
    BY <1>e, <2>1, <2>2 DEF X11Same, X11SameSess
<1>8. ASSUME NEW c \in Servers, ReapEnds(c) PROVE X11Inv'
  <2>1. files' = files /\ sess' = sess
    BY <1>8 DEF ReapEnds
  <2>2. X11SameSrv
    BY <1>a, <1>8 DEF ReapEnds, At, X11SameSrv, X11Pcs
  <2>3. QED
    BY <1>e, <2>1, <2>2 DEF X11Same, X11SameSess
<1>9. ASSUME NEW c \in Servers, LoggedOut(c) PROVE X11Inv'
  <2>1. files' = files
    BY <1>9 DEF LoggedOut
  <2>2. X11SameSess
    BY <1>s, <1>9 DEF LoggedOut, do_exit_shell, X11SameSess
  <2>3. X11SameSrv
    BY <1>a, <1>9 DEF LoggedOut, WithoutAnswer, At, X11SameSrv, X11Pcs
  <2>4. QED
    BY <1>e, <2>1, <2>2, <2>3 DEF X11Same
<1>10. ASSUME NEW c \in Servers, BindFree(c) PROVE X11Inv'
  <2> DEFINE n == srv[c].display
             s == srv[c].cur
  <2>1. /\ s \in Sessions /\ ServerOf(s) = c /\ ~sess[s].listening
        /\ n \in Displays /\ files[n].socket = Nobody /\ sess' = sess
    BY <1>10 DEF BindFree, At, X11Inv, X11Busy, X11Pcs
  <2>2. /\ srv'[c].pc = "xauth" /\ srv'[c].cur = s /\ srv'[c].display = n
        /\ \A d \in Servers : srv'[d].xfailed = srv[d].xfailed
        /\ \A d \in Servers : d # c => srv'[d] = srv[d]
    BY <1>a, <1>10 DEF BindFree
  <2>3. /\ files'[n].socket = s
        /\ \A m \in Displays : m # n => files'[m].socket = files[m].socket
        /\ \A m \in Displays : files'[m].xauth = files[m].xauth
    BY <1>f, <1>10, <2>1 DEF BindFree
  <2>4. X11Held'
    BY <1>b, <1>c, <2>1, <2>3 DEF X11Inv, X11Held
  <2>5. X11Busy'
    BY <1>b, <2>1, <2>2 DEF X11Inv, X11Busy
  <2>6. X11Bound'
    BY <1>b, <1>c, <2>1, <2>2, <2>3 DEF X11Inv, X11Bound, X11Busy, X11Pcs
  <2>7. X11Xauth'
    BY <1>b, <2>1, <2>2, <2>3 DEF X11Inv, X11Held, X11Xauth
  <2>8. QED
    BY <2>4, <2>5, <2>6, <2>7 DEF X11Inv
<1>11. ASSUME NEW c \in Servers, BindTaken(c) PROVE X11Inv'
  <2>1. /\ srv[c].cur \in Sessions /\ ServerOf(srv[c].cur) = c /\ ~sess[srv[c].cur].listening
        /\ srv[c].pc = "bind" /\ sess' = sess /\ files' = files
    BY <1>11 DEF BindTaken, At, X11Inv, X11Busy, X11Pcs
  <2>2. /\ srv'[c].pc = "bind" /\ srv'[c].cur = srv[c].cur
        /\ \A d \in Servers : srv'[d].xfailed = srv[d].xfailed
        /\ \A d \in Servers : d # c => srv'[d] = srv[d]
    BY <1>a, <1>11, <2>1 DEF BindTaken
  <2>3. QED
    BY <1>b, <2>1, <2>2 DEF X11Inv, X11Held, X11Busy, X11Bound, X11Xauth
<1>12. ASSUME NEW c \in Servers, BindNone(c) PROVE X11Inv'
  <2>1. files' = files
    BY <1>12 DEF BindNone
  <2>2. X11SameSess
    BY <1>s, <1>12 DEF BindNone, Reply, X11SameSess
  <2>3. X11SameSrv
    BY <1>a, <1>12 DEF BindNone, At, X11SameSrv, X11Pcs
  <2>4. QED
    BY <1>e, <2>1, <2>2, <2>3 DEF X11Same
<1>13. ASSUME NEW c \in Servers, PortOpens(c) PROVE X11Inv'
  <2> DEFINE n == srv[c].display
             s == srv[c].cur
  <2>1. /\ s \in Sessions /\ ServerOf(s) = c /\ ~sess[s].listening
        /\ n \in Displays /\ files[n].socket = s /\ files[n].xauth = Nobody
    BY <1>13 DEF PortOpens, At, XauthNew, X11Inv, X11Busy, X11Bound, X11Pcs
  <2>2. /\ sess'[s].listening /\ sess'[s].x11 = n
        /\ \A t \in Sessions : t # s => sess'[t] = sess[t]
    BY <1>s, <1>13, <2>1 DEF PortOpens, Reply
  <2>3. /\ \A m \in Displays : files'[m].socket = files[m].socket
        /\ \A m \in Displays : m # n => files'[m].xauth = files[m].xauth
        /\ files'[n].xauth = s
    BY <1>f, <1>13, <2>1 DEF PortOpens
  <2>4. /\ srv'[c].pc = "loop"
        /\ \A d \in Servers : d # c => srv'[d] = srv[d]
        /\ \A d \in Servers : srv'[d].xfailed = srv[d].xfailed
    BY <1>a, <1>13 DEF PortOpens
  <2>5. X11Held'
    BY <1>b, <2>1, <2>2, <2>3 DEF X11Inv, X11Held
  <2>6. X11Busy'
    BY <1>b, <2>1, <2>2, <2>4 DEF X11Inv, X11Busy, X11Pcs
  <2>7. X11Bound'
    BY <1>b, <2>1, <2>3, <2>4 DEF X11Inv, X11Bound
  <2>8. X11Xauth'
    <3>1. \A t \in Sessions : sess[t].listening => sess[t].x11 # n /\ sess[t].x11 \in Displays
      BY <2>1 DEF X11Inv, X11Held
    <3>2. \A d \in Servers : srv[d].pc \in X11Pcs => srv[d].cur # Nobody
      BY <1>c DEF X11Inv, X11Busy
    <3>3. QED
      BY <1>b, <2>1, <2>2, <2>3, <2>4, <3>1, <3>2 DEF X11Inv, X11Xauth, X11Pcs
  <2>9. QED
    BY <2>5, <2>6, <2>7, <2>8 DEF X11Inv
<1>14. ASSUME NEW c \in Servers, PortFails(c) PROVE X11Inv'
  <2> DEFINE n == srv[c].display
             s == srv[c].cur
  <2>1. /\ s \in Sessions /\ ServerOf(s) = c /\ ~sess[s].listening
        /\ n \in Displays /\ files[n].socket = s /\ sess' = sess
    BY <1>14 DEF PortFails, At, X11Inv, X11Busy, X11Bound, X11Pcs
  <2>2. \A m \in Displays : files'[m].socket = files[m].socket
    BY <1>f, <1>14 DEF PortFails
  <2>3. /\ srv'[c].xfailed /\ srv'[c].pc = "unlink" /\ srv'[c].cur = s /\ srv'[c].display = n
        /\ \A d \in Servers : d # c => srv'[d] = srv[d]
    BY <1>a, <1>14 DEF PortFails
  <2>4. X11Held' /\ X11Busy'
    BY <1>b, <2>1, <2>2, <2>3 DEF X11Inv, X11Held, X11Busy
  <2>5. X11Bound'
    BY <1>b, <2>1, <2>2, <2>3 DEF X11Inv, X11Bound
  <2>6. X11Xauth'
    BY <1>b, <2>3 DEF X11Xauth
  <2>7. QED
    BY <2>4, <2>5, <2>6 DEF X11Inv
<1>15. ASSUME NEW c \in Servers, UnlinkSocket(c) PROVE X11Inv'
  <2> DEFINE n == srv[c].display
             s == srv[c].cur
  <2>1. /\ s \in Sessions /\ ServerOf(s) = c /\ ~sess[s].listening /\ srv[c].pc = "unlink"
        /\ n \in Displays /\ files[n].socket = s /\ sess' = sess
    BY <1>15 DEF UnlinkSocket, At, X11Inv, X11Busy, X11Bound, X11Pcs
  <2>2. /\ \A m \in Displays : m # n => files'[m].socket = files[m].socket
        /\ \A m \in Displays : files'[m].xauth = files[m].xauth
    BY <1>f, <1>15 DEF UnlinkSocket
  <2>3. /\ \A d \in Servers : srv'[d].xfailed = srv[d].xfailed
        /\ \A d \in Servers : d # c => srv'[d] = srv[d]
        /\ srv'[c].pc = "unlink_xauth" /\ srv'[c].cur = s /\ srv'[c].display = n
    BY <1>a, <1>15 DEF UnlinkSocket
  <2>4. X11Held'
    BY <1>b, <2>1, <2>2 DEF X11Inv, X11Held
  <2>5. X11Busy'
    BY <1>b, <2>1, <2>3 DEF X11Inv, X11Busy
  <2>6. X11Bound'
    BY <1>b, <2>1, <2>2, <2>3 DEF X11Inv, X11Busy, X11Bound, X11Pcs
  <2>7. X11Xauth'
    BY <1>b, <2>1, <2>2, <2>3 DEF X11Inv, X11Held, X11Xauth
  <2>8. QED
    BY <2>4, <2>5, <2>6, <2>7 DEF X11Inv
<1>16. ASSUME NEW c \in Servers, UnlinkXauth(c) PROVE X11Inv'
  <2> DEFINE n == srv[c].display
             s == srv[c].cur
  <2>1. /\ s \in Sessions /\ ServerOf(s) = c /\ ~sess[s].listening /\ srv[c].pc = "unlink_xauth"
    BY <1>16 DEF UnlinkXauth, At, X11Inv, X11Busy, X11Pcs
  <2>2. /\ \A m \in Displays : m # n => files'[m].xauth = files[m].xauth
        /\ \A m \in Displays : files'[m].socket = files[m].socket
    BY <1>f, <1>16 DEF UnlinkXauth
  <2>3. /\ \A d \in Servers : srv'[d].xfailed = srv[d].xfailed
        /\ \A d \in Servers : d # c => srv'[d] = srv[d]
        /\ srv'[c].pc = "loop"
    BY <1>a, <1>16 DEF UnlinkXauth
  <2>4. X11SameSess
    BY <1>s, <1>16 DEF UnlinkXauth, Reply, X11SameSess
  <2>5. X11Held'
    BY <1>b, <2>2, <2>4 DEF X11Inv, X11Held, X11SameSess
  <2>6. X11Busy'
    BY <1>b, <2>3, <2>4 DEF X11Inv, X11Busy, X11SameSess, X11Pcs
  <2>7. X11Bound'
    BY <1>b, <2>2, <2>3 DEF X11Inv, X11Bound
  <2>8. X11Xauth'
    <3>1. SUFFICES ASSUME \A d \in Servers : ~srv[d].xfailed
                   PROVE  X11Xauth'
      BY <1>b, <2>3 DEF X11Xauth
    <3>2. n \in Displays /\ files[n].xauth = s
      BY <2>1, <3>1 DEF X11Inv, X11Xauth
    <3>3. \A t \in Sessions : sess'[t].listening => files'[sess'[t].x11].xauth = t
      BY <2>1, <2>2, <2>4, <3>1, <3>2 DEF X11Inv, X11Xauth, X11Held, X11SameSess
    <3>4. \A d \in Servers : (srv'[d].pc = "unlink" \/ srv'[d].pc = "unlink_xauth") =>
            srv'[d].display \in Displays /\ files'[srv'[d].display].xauth = srv'[d].cur
      BY <2>1, <2>2, <2>3, <3>1, <3>2 DEF X11Inv, X11Xauth, X11Busy, X11Pcs
    <3>5. QED
      BY <1>b, <3>3, <3>4 DEF X11Xauth
  <2>9. QED
    BY <2>5, <2>6, <2>7, <2>8 DEF X11Inv
<1>17. ASSUME NEW c \in Servers, Disconnect(c) PROVE X11Inv'
  <2>1. files' = files /\ sess' = sess
    BY <1>17 DEF Disconnect
  <2>2. X11SameSrv
    BY <1>a, <1>17 DEF Disconnect, At, X11SameSrv, X11Pcs
  <2>3. QED
    BY <1>e, <2>1, <2>2 DEF X11Same, X11SameSess
<1>18. ASSUME NEW c \in Servers, ServerExit(c) PROVE X11Inv'
  <2>1. files' = files /\ sess' = sess
    BY <1>18 DEF ServerExit
  <2>2. X11SameSrv
    BY <1>a, <1>18 DEF ServerExit, At, X11SameSrv, X11Pcs
  <2>3. QED
    BY <1>e, <2>1, <2>2 DEF X11Same, X11SameSess
<1>19. ASSUME NEW c \in Servers, HelperServes(c) PROVE X11Inv'
  <2>1. files' = files /\ sess' = sess
    BY <1>19 DEF HelperServes
  <2>2. \E requests, answers :
          srv' = [srv EXCEPT ![c].requests = requests, ![c].answers = answers]
    BY <1>19, Zenon DEF HelperServes
  <2>3. X11SameSrv
    BY <1>a, <2>2 DEF X11SameSrv
  <2>4. QED
    BY <1>e, <2>1, <2>2, <2>3 DEF X11Same, X11SameSess
<1>20. ASSUME NEW c \in Servers, HelperExits(c) PROVE X11Inv'
  <2>1. files' = files /\ sess' = sess /\ srv' = srv
    BY <1>20 DEF HelperExits
  <2>2. QED
    BY <1>e, <2>1 DEF X11Same, X11SameSess, X11SameSrv
<1>21. ASSUME NEW c \in Servers, NEW s \in Sessions, ReapUnknown(c, s) PROVE X11Inv'
  <2>1. files' = files /\ sess' = sess /\ srv' = srv
    BY <1>21 DEF ReapUnknown
  <2>2. QED
    BY <1>e, <2>1 DEF X11Same, X11SameSess, X11SameSrv
<1>22. ASSUME NEW c \in Servers, NEW s \in Sessions, ReapTold(c, s) PROVE X11Inv'
  <2>1. files' = files
    BY <1>22 DEF ReapTold
  <2>2. X11SameSess
    BY <1>s, <1>22 DEF ReapTold, X11SameSess
  <2>3. X11SameSrv
    BY <1>a, <1>22 DEF ReapTold, At, X11SameSrv, X11Pcs
  <2>4. QED
    BY <1>e, <2>1, <2>2, <2>3 DEF X11Same
<1>23. ASSUME NEW c \in Servers, NEW s \in Sessions, ReapUntold(c, s) PROVE X11Inv'
  <2>1. files' = files
    BY <1>23 DEF ReapUntold
  <2>2. X11SameSess
    BY <1>s, <1>23 DEF ReapUntold, do_exit_shell, X11SameSess
  <2>3. X11SameSrv
    BY <1>a, <1>23 DEF ReapUntold, At, X11SameSrv, X11Pcs
  <2>4. QED
    BY <1>e, <2>1, <2>2, <2>3 DEF X11Same
<1>24. ASSUME NEW c \in Servers, NEW s \in Sessions, PtyGranted(c, s) PROVE X11Inv'
  <2>1. files' = files /\ srv' = srv
    BY <1>24 DEF PtyGranted
  <2>2. X11SameSess
    BY <1>s, <1>24 DEF PtyGranted, Reply, X11SameSess
  <2>3. QED
    BY <1>e, <2>1, <2>2 DEF X11Same, X11SameSrv
<1>25. ASSUME NEW c \in Servers, NEW s \in Sessions, PtyRefused(c, s) PROVE X11Inv'
  <2>1. files' = files /\ srv' = srv
    BY <1>25 DEF PtyRefused
  <2>2. X11SameSess
    BY <1>s, <1>25 DEF PtyRefused, Reply, X11SameSess
  <2>3. QED
    BY <1>e, <2>1, <2>2 DEF X11Same, X11SameSrv
<1>26. ASSUME NEW c \in Servers, NEW s \in Sessions, NEW failure, SpawnFails(c, s,
              failure)
       PROVE  X11Inv'
  <2>1. files' = files
    BY <1>26 DEF SpawnFails
  <2>2. X11SameSess
    BY <1>s, <1>26 DEF SpawnFails, Reply, SpawnSession, Spawnable, WithoutPty, X11SameSess
  <2>3. X11SameSrv
    BY <1>a, <1>26 DEF SpawnFails, CanSpawn, Asked, Idle, At, X11SameSrv, X11Pcs
  <2>4. QED
    BY <1>e, <2>1, <2>2, <2>3 DEF X11Same
<1>27. ASSUME NEW c \in Servers, NEW s \in Sessions, NEW failure, SpawnAsks(c, s, failure)
       PROVE  X11Inv'
  <2>1. files' = files
    BY <1>27 DEF SpawnAsks
  <2>2. X11SameSess
    BY <1>s, <1>27 DEF SpawnAsks, SpawnSession, Spawnable, WithoutPty, X11SameSess
  <2>3. X11SameSrv
    BY <1>a, <1>27 DEF SpawnAsks, At, X11SameSrv, X11Pcs
  <2>4. QED
    BY <1>e, <2>1, <2>2, <2>3 DEF X11Same
<1>28. ASSUME NEW c \in Servers, NEW s \in Sessions, NEW failure, SpawnAlone(c, s,
              failure)
       PROVE  X11Inv'
  <2>1. files' = files
    BY <1>28 DEF SpawnAlone
  <2>2. X11SameSess
    BY <1>s, <1>28 DEF SpawnAlone, SpawnSession, Spawnable, WithoutPty, X11SameSess
  <2>3. X11SameSrv
    BY <1>a, <1>28 DEF SpawnAlone, At, X11SameSrv, X11Pcs
  <2>4. QED
    BY <1>e, <2>1, <2>2, <2>3 DEF X11Same
<1>29. ASSUME NEW c \in Servers, NEW s \in Sessions, SpawnRefused(c, s) PROVE X11Inv'
  <2>1. files' = files /\ srv' = srv
    BY <1>29 DEF SpawnRefused
  <2>2. X11SameSess
    BY <1>s, <1>29 DEF SpawnRefused, Reply, X11SameSess
  <2>3. QED
    BY <1>e, <2>1, <2>2 DEF X11Same, X11SameSrv
<1>30. ASSUME NEW c \in Servers, NEW s \in Sessions, Abort(c, s) PROVE X11Inv'
  <2>1. files' = files /\ sess' = sess
    BY <1>30 DEF Abort
  <2>2. X11SameSrv
    BY <1>a, <1>30 DEF Abort, At, X11SameSrv, X11Pcs
  <2>3. QED
    BY <1>e, <2>1, <2>2 DEF X11Same, X11SameSess
<1>31. ASSUME NEW c \in Servers, NEW s \in Sessions, X11Accepted(c, s) PROVE X11Inv'
  <2>1. ServerOf(s) = c
    BY <1>31 DEF X11Accepted, Asked, Of
  <2>2. files' = files /\ sess' = sess
    BY <1>31 DEF X11Accepted
  <2>3. ~sess[s].listening
    BY <1>d, <1>31 DEF X11Accepted, CanHaveX11, X11Inv, X11Held
  <2>4. /\ srv'[c].pc = "bind" /\ srv'[c].cur = s
        /\ \A d \in Servers : srv'[d].xfailed = srv[d].xfailed
        /\ \A d \in Servers : d # c => srv'[d] = srv[d]
    BY <1>a, <1>31 DEF X11Accepted
  <2>5. X11Held' /\ X11Busy' /\ X11Bound'
    BY <1>b, <2>1, <2>2, <2>3, <2>4 DEF X11Inv, X11Held, X11Busy, X11Bound
  <2>6. X11Xauth'
    BY <1>b, <2>2, <2>4 DEF X11Inv, X11Xauth
  <2>7. QED
    BY <2>5, <2>6 DEF X11Inv
<1>32. ASSUME NEW c \in Servers, NEW s \in Sessions, X11Refused(c, s) PROVE X11Inv'
  <2>1. files' = files /\ srv' = srv
    BY <1>32 DEF X11Refused
  <2>2. X11SameSess
    BY <1>s, <1>32 DEF X11Refused, Reply, X11SameSess
  <2>3. QED
    BY <1>e, <2>1, <2>2 DEF X11Same, X11SameSrv
<1>33. ASSUME NEW c \in Servers, NEW s \in Sessions, AcceptSingle(c, s) PROVE X11Inv'
  <2>1. ServerOf(s) = c /\ srv[c].pc = "loop" /\ files' = files /\ sess[s].listening
    BY <1>33 DEF AcceptSingle, Idle, At, Of
  <2>2. (\A t \in Sessions : t # s => sess'[t] = sess[t]) /\ ~sess'[s].listening
    BY <1>s, <1>33 DEF AcceptSingle
  <2>3. /\ \A d \in Servers : srv'[d].xfailed = srv[d].xfailed
        /\ \A d \in Servers : d # c => srv'[d] = srv[d]
        /\ srv'[c].pc = "unlink" /\ srv'[c].cur = s /\ srv'[c].display = sess[s].x11
    BY <1>a, <1>33 DEF AcceptSingle
  <2>4. QED
    BY <1>p, <2>1, <2>2, <2>3
<1>34. ASSUME NEW c \in Servers, NEW s \in Sessions, CloseSession(c, s) PROVE X11Inv'
  <2>1. ServerOf(s) = c /\ srv[c].pc = "loop" /\ files' = files
    BY <1>34 DEF CloseSession, Idle, At, Of
  <2>2. (\A t \in Sessions : t # s => sess'[t] = sess[t]) /\ ~sess'[s].listening
    BY <1>s, <1>34 DEF CloseSession
  <2>3. \/ ~sess[s].listening /\ srv' = srv
        \/ /\ sess[s].listening
           /\ srv' = [srv EXCEPT ![c].pc = "unlink", ![c].after = "close", ![c].cur = s,
                                 ![c].display = sess[s].x11]
    BY <1>34 DEF CloseSession
  <2>4. /\ \A d \in Servers : srv'[d].xfailed = srv[d].xfailed
        /\ \A d \in Servers : d # c => srv'[d] = srv[d]
        /\ sess[s].listening =>
             srv'[c].pc = "unlink" /\ srv'[c].cur = s /\ srv'[c].display = sess[s].x11
    BY <1>a, <2>3
  <2>5. QED
    BY <1>p, <2>1, <2>2, <2>3, <2>4
<1>35. ASSUME NEW s \in Sessions, SetupFails(s) PROVE X11Inv'
  <2>1. files' = files /\ sess' = sess
    BY <1>35 DEF SetupFails
  <2>2. X11SameSrv
    BY <1>a, <1>35 DEF SetupFails, At, X11SameSrv, X11Pcs
  <2>3. QED
    BY <1>e, <2>1, <2>2 DEF X11Same, X11SameSess
<1>36. ASSUME NEW s \in Sessions, AskLogin(s) PROVE X11Inv'
  <2>1. files' = files /\ sess' = sess
    BY <1>36 DEF AskLogin
  <2>2. X11SameSrv
    BY <1>a, <1>36 DEF AskLogin, At, X11SameSrv, X11Pcs
  <2>3. QED
    BY <1>e, <2>1, <2>2 DEF X11Same, X11SameSess
<1>37. ASSUME NEW s \in Sessions, StartUnrecorded(s) PROVE X11Inv'
  <2>1. files' = files /\ sess' = sess /\ srv' = srv
    BY <1>37 DEF StartUnrecorded
  <2>2. QED
    BY <1>e, <2>1 DEF X11Same, X11SameSess, X11SameSrv
<1>38. ASSUME NEW s \in Sessions, LoggedIn(s) PROVE X11Inv'
  <2>1. files' = files /\ sess' = sess
    BY <1>38 DEF LoggedIn
  <2>2. X11SameSrv
    BY <1>a, <1>38 DEF LoggedIn, WithoutAnswer, At, X11SameSrv, X11Pcs
  <2>3. QED
    BY <1>e, <2>1, <2>2 DEF X11Same, X11SameSess
<1>39. ASSUME NEW s \in Sessions, Ends(s) PROVE X11Inv'
  <2>1. files' = files /\ sess' = sess
    BY <1>39 DEF Ends
  <2>2. X11SameSrv
    BY <1>a, <1>39 DEF Ends, At, X11SameSrv, X11Pcs
  <2>3. QED
    BY <1>e, <2>1, <2>2 DEF X11Same, X11SameSess
<1>40. ASSUME UNCHANGED vars PROVE X11Inv'
  BY <1>e, <1>40 DEF vars, X11Same, X11SameSess, X11SameSrv
<1>41. QED
  BY <1>1, <1>2, <1>3, <1>4, <1>5, <1>6, <1>7, <1>8, <1>9, <1>10, <1>11, <1>12, <1>13,
     <1>14, <1>15, <1>16, <1>17, <1>18, <1>19, <1>20, <1>21, <1>22, <1>23, <1>24, <1>25,
     <1>26, <1>27, <1>28, <1>29, <1>30, <1>31, <1>32, <1>33, <1>34, <1>35, <1>36, <1>37,
     <1>38, <1>39, <1>40
     DEF Next, ServerStep, ClientStep, ChildStep, Fork, Reap, open_x11_socket, create_xauth,
         PtyRequest, Spawn, X11Request, Setup

(* DisplayKept, for any number of connections and displays: a session that *)
(* listens has the socket of its display and, unless create_xauth has      *)
(* failed before, the xauthority file (open_x11_socket, create_xauth,      *)
(* do_kill_x11_listen_port).                                               *)
THEOREM DisplayIsKept == Spec => []DisplayKept
<1>1. Init => Shape /\ X11Inv
  <2> SUFFICES ASSUME Init PROVE X11Inv
    BY ShapeInit
  <2>1. \A s \in Sessions : ~sess[s].listening
    BY DEF Init
  <2>2. \A c \in Servers : srv[c].pc = "loop"
    BY DEF Init
  <2>3. QED
    BY <2>1, <2>2 DEF X11Inv, X11Held, X11Busy, X11Bound, X11Xauth, X11Pcs
<1>2. Shape /\ X11Inv /\ [Next]_vars => (Shape /\ X11Inv)'
  BY ShapeStep, X11Step
<1>3. Shape /\ X11Inv => DisplayKept
  BY DEF X11Inv, X11Held, X11Xauth, DisplayKept
<1>4. QED
  BY <1>1, <1>2, <1>3, PTL DEF Spec

-----------------------------------------------------------------------------
(* ExitsReported.  A process that has been forked and not yet waited for   *)
(* has its callback registered, except while lshd-connection waits for it  *)
(* in spawn_parent, where it does not reap; and a callback is registered   *)
(* for such a process only.                                                *)
Unreaped == {"setup", "login", "running", "zombie"}

Waits(c, s) == srv[c].pc = "sync" /\ srv[c].cur = s
LogsOut(c, s) == srv[c].pc = "logout" /\ srv[c].cur = s

NoZombieLeft(c) ==
  (srv[c].pc # "reap" /\ srv[c].pc # "logout" /\ ~srv[c].sigchld) =>
    \A s \in Sessions : ServerOf(s) = c => proc[s].pc # "zombie"

SpawnsFresh(c) ==
  (srv[c].pc = "create" \/ srv[c].pc = "fork" \/ srv[c].pc = "destroy") =>
    sess[srv[c].cur].process = "none"

HandlerFits(c, s) ==
  /\ sess[s].process \in {"none", "alive", "dead"}
  /\ proc[s].pc \in Unreaped <=> (s \in srv[c].handlers \/ Waits(c, s))
  /\ Waits(c, s) => s \notin srv[c].handlers
  /\ sess[s].process = "none" <=> (proc[s].pc = "none" \/ Waits(c, s))
  /\ sess[s].process = "alive" => s \in srv[c].handlers

StatusFits(c, s) ==
  /\ proc[s].pc = "none" \/ proc[s].pc = "reaped" \/ proc[s].pc \in Unreaped
  /\ (proc[s].pc # "reaped" \/ LogsOut(c, s)) => sess[s].status = 0
  /\ LogsOut(c, s) => proc[s].pc = "reaped"
  /\ (proc[s].pc = "reaped" /\ ~LogsOut(c, s)) =>
       IF sess[s].alive THEN sess[s].status = 1 ELSE sess[s].status \in {0, 1}

ExitsAt(c) ==
  srv[c].alive =>
    /\ NoZombieLeft(c) /\ SpawnsFresh(c)
    /\ \A s \in Sessions : ServerOf(s) = c => HandlerFits(c, s) /\ StatusFits(c, s)

ExitsInv == \A c \in Servers : ExitsAt(c)

(* What a step of c that neither starts nor ends nor waits for a process   *)
(* changes: at most where lshd-connection is.                              *)
Elsewhere(pc) == pc # "sync" /\ pc # "reap" /\ pc # "logout"

ExitsSameSrv(c) ==
  srv'[c].alive =>
    /\ srv[c].alive
    /\ srv'[c].sigchld = srv[c].sigchld /\ srv'[c].handlers = srv[c].handlers
    /\ \/ srv'[c].pc = srv[c].pc /\ srv'[c].cur = srv[c].cur
       \/ /\ Elsewhere(srv[c].pc) /\ Elsewhere(srv'[c].pc)
          /\ (srv'[c].pc = "create" \/ srv'[c].pc = "fork" \/ srv'[c].pc = "destroy") =>
               sess[srv'[c].cur].process = "none"

ExitsSameSess ==
  \A s \in Sessions :
    /\ sess'[s].process = sess[s].process /\ sess'[s].alive = sess[s].alive
    /\ sess'[s].status = sess[s].status

(* What is true of one connection stays true when another takes a step,    *)
(* and when it does none of the above.                                     *)
LEMMA ExitsFrame ==
  ASSUME Shape, CurInv, ExitsInv, [Next]_vars, NEW c \in Servers
  PROVE  /\ LocalTo(c) => \A d \in Servers : d # c => ExitsAt(d)'
         /\ (ExitsSameSrv(c) /\ ExitsSameSess /\ proc' = proc) => ExitsAt(c)'
<1>b. Sessions' = Sessions /\ Servers' = Servers
  BY SceneFixed
<1>c. ASSUME NEW d \in Servers, srv[d].pc \in Busy
      PROVE  srv[d].cur \in Sessions /\ ServerOf(srv[d].cur) = d
  BY <1>c DEF CurInv
<1>1. ASSUME LocalTo(c), NEW d \in Servers, d # c PROVE ExitsAt(d)'
  <2>1. srv'[d] = srv[d]
    BY <1>1 DEF LocalTo
  <2>2. \A s \in Sessions : ServerOf(s) = d => sess'[s] = sess[s] /\ proc'[s] = proc[s]
    BY <1>1 DEF LocalTo
  <2> SUFFICES ASSUME srv[d].alive
               PROVE  ExitsAt(d)'
    BY <2>1 DEF ExitsAt
  <2>3. /\ NoZombieLeft(d) /\ SpawnsFresh(d)
        /\ \A s \in Sessions : ServerOf(s) = d => HandlerFits(d, s) /\ StatusFits(d, s)
    BY DEF ExitsInv, ExitsAt
  <2>4. NoZombieLeft(d)'
    BY <1>b, <2>1, <2>2, <2>3 DEF NoZombieLeft
  <2>5. SpawnsFresh(d)'
    BY <1>b, <1>c, <2>1, <2>2, <2>3 DEF SpawnsFresh, Busy
  <2>6. ASSUME NEW s \in Sessions, ServerOf(s) = d PROVE HandlerFits(d, s)' /\ StatusFits(d, s)'
    BY <2>1, <2>2, <2>3, <2>6 DEF HandlerFits, StatusFits, Waits, LogsOut
  <2>7. QED
    BY <1>b, <2>4, <2>5, <2>6 DEF ExitsAt
<1>2. ASSUME ExitsSameSrv(c), ExitsSameSess, proc' = proc PROVE ExitsAt(c)'
  <2> SUFFICES ASSUME srv'[c].alive
               PROVE  ExitsAt(c)'
    BY DEF ExitsAt
  <2>1. /\ NoZombieLeft(c) /\ SpawnsFresh(c)
        /\ \A s \in Sessions : ServerOf(s) = c => HandlerFits(c, s) /\ StatusFits(c, s)
    BY <1>2 DEF ExitsInv, ExitsAt, ExitsSameSrv
  <2>2. NoZombieLeft(c)'
    BY <1>b, <1>2, <2>1 DEF NoZombieLeft, ExitsSameSrv, Elsewhere
  <2>3. SpawnsFresh(c)'
    <3>1. ASSUME srv'[c].pc \in {"create", "fork", "destroy"}
          PROVE  srv'[c].cur \in Sessions
      BY <1>b, <3>1, CurStep DEF CurInv, Busy
    <3>2. QED
      BY <1>2, <2>1, <3>1 DEF SpawnsFresh, ExitsSameSrv, ExitsSameSess
  <2>4. ASSUME NEW s \in Sessions, ServerOf(s) = c PROVE HandlerFits(c, s)' /\ StatusFits(c, s)'
    <3>1. Waits(c, s)' = Waits(c, s) /\ LogsOut(c, s)' = LogsOut(c, s)
      BY <1>2 DEF Waits, LogsOut, ExitsSameSrv, Elsewhere
    <3>2. HandlerFits(c, s)'
      BY <1>2, <2>1, <2>4, <3>1 DEF HandlerFits, ExitsSameSrv, ExitsSameSess
    <3>3. StatusFits(c, s)'
      BY <1>2, <2>1, <2>4, <3>1 DEF StatusFits, ExitsSameSrv, ExitsSameSess
    <3>4. QED
      BY <3>2, <3>3
  <2>5. QED
    BY <1>b, <2>2, <2>3, <2>4 DEF ExitsAt
<1>3. QED
  BY <1>1, <1>2

(* A session of which nothing changes, and of which the reaper and the     *)
(* parent know what they knew, fits as it did.                             *)
LEMMA FitsKept ==
  ASSUME NEW c, NEW s, HandlerFits(c, s), StatusFits(c, s),
         sess'[s] = sess[s], proc'[s] = proc[s],
         s \in srv'[c].handlers <=> s \in srv[c].handlers,
         Waits(c, s)' <=> Waits(c, s), LogsOut(c, s)' <=> LogsOut(c, s)
  PROVE  HandlerFits(c, s)' /\ StatusFits(c, s)'
<1>1. HandlerFits(c, s)'
  BY DEF HandlerFits
<1>2. StatusFits(c, s)'
  BY DEF StatusFits
<1>3. QED
  BY <1>1, <1>2

(* Forking, waiting and reaping keep it too.                               *)
LEMMA ExitsStep == Shape /\ CurInv /\ ExitsInv /\ [Next]_vars => ExitsInv'
<1> SUFFICES ASSUME Shape, CurInv, ExitsInv, [Next]_vars
             PROVE  ExitsInv'
  OBVIOUS
<1>a. HasSrv
  BY HasFields
<1>s. HasSess
  BY HasFields
<1>p. HasProc
  BY HasFields
<1>b. Sessions' = Sessions /\ Servers' = Servers
  BY SceneFixed
<1>c. /\ \A s \in Sessions : ServerOf(s) \in Servers
      /\ \A c \in Servers : srv[c].pc \in Busy =>
           srv[c].cur \in Sessions /\ ServerOf(srv[c].cur) = c
  BY NamesDiffer DEF Shape, CurInv
<1>d. ASSUME NEW c \in Servers, LocalTo(c), ExitsAt(c)' PROVE ExitsInv'
  BY <1>b, <1>d, ExitsFrame DEF ExitsInv
<1>e. ASSUME NEW c \in Servers, ExitsSameSrv(c), ExitsSameSess, proc' = proc PROVE ExitsAt(c)'
  BY <1>e, ExitsFrame
<1>f. ASSUME NEW c \in Servers, srv[c].alive
      PROVE  /\ NoZombieLeft(c) /\ SpawnsFresh(c)
             /\ \A s \in Sessions : ServerOf(s) = c => HandlerFits(c, s) /\ StatusFits(c, s)
  BY <1>f DEF ExitsInv, ExitsAt
<1>g. ASSUME NEW c \in Servers, NoZombieLeft(c)', SpawnsFresh(c)',
             \A s \in Sessions : ServerOf(s) = c => HandlerFits(c, s)' /\ StatusFits(c, s)'
      PROVE  ExitsAt(c)'
  BY <1>b, <1>g DEF ExitsAt
<1>h. ASSUME NEW s \in Sessions, sess' = sess,
             /\ srv'[ServerOf(s)].alive = srv[ServerOf(s)].alive
             /\ srv'[ServerOf(s)].pc = srv[ServerOf(s)].pc
             /\ srv'[ServerOf(s)].cur = srv[ServerOf(s)].cur
             /\ srv'[ServerOf(s)].handlers = srv[ServerOf(s)].handlers,
             srv[ServerOf(s)].alive =>
               /\ proc[s].pc \in Unreaped /\ proc'[s].pc \in Unreaped
               /\ \/ srv'[ServerOf(s)].sigchld
                  \/ /\ srv'[ServerOf(s)].sigchld = srv[ServerOf(s)].sigchld
                     /\ proc'[s].pc # "zombie",
             \A t \in Sessions : t # s => proc'[t] = proc[t]
      PROVE  ExitsAt(ServerOf(s))'
  <2> DEFINE c == ServerOf(s)
  <2> c \in Servers
    BY <1>c
  <2> SUFFICES ASSUME srv[c].alive
               PROVE  ExitsAt(c)'
    BY <1>h DEF ExitsAt
  <2> HIDE DEF c
  <2>1. /\ srv'[c].pc = srv[c].pc /\ srv'[c].cur = srv[c].cur
        /\ srv'[c].handlers = srv[c].handlers /\ ServerOf(s) = c
        /\ proc[s].pc \in Unreaped /\ proc'[s].pc \in Unreaped
        /\ srv'[c].sigchld \/ (srv'[c].sigchld = srv[c].sigchld /\ proc'[s].pc # "zombie")
    BY <1>h DEF c
  <2>2. NoZombieLeft(c)'
    BY <1>b, <1>f, <1>h, <2>1 DEF NoZombieLeft
  <2>3. SpawnsFresh(c)'
    BY <1>f, <1>h, <2>1 DEF SpawnsFresh
  <2>4. ASSUME NEW t \in Sessions, ServerOf(t) = c PROVE HandlerFits(c, t)' /\ StatusFits(c, t)'
    <3>1. HandlerFits(c, t) /\ StatusFits(c, t)
      BY <1>f, <2>4
    <3>2. Waits(c, t)' = Waits(c, t) /\ LogsOut(c, t)' = LogsOut(c, t)
      BY <2>1 DEF Waits, LogsOut
    <3>3. CASE t # s
      BY <1>h, <2>1, <3>1, <3>2, <3>3, FitsKept
    <3>4. CASE t = s
      <4>1. /\ proc[t].pc \in Unreaped /\ proc'[t].pc \in Unreaped
            /\ sess'[t] = sess[t] /\ srv'[c].handlers = srv[c].handlers
        BY <1>h, <2>1, <3>4
      <4>2. HandlerFits(c, t)'
        BY <3>1, <3>2, <4>1 DEF HandlerFits, Unreaped
      <4>3. sess'[t].status = 0 /\ ~LogsOut(c, t)'
        BY <3>1, <3>2, <4>1 DEF StatusFits, Unreaped
      <4>4. QED
        BY <4>1, <4>2, <4>3 DEF StatusFits, Unreaped
    <3>5. QED
      BY <3>3, <3>4
  <2>5. QED
    BY <1>g, <2>2, <2>3, <2>4
<1> USE DEF HasSrv, HasSess, HasProc
<1>1. ASSUME NEW c \in Servers, Created(c) PROVE ExitsAt(c)'
  <2>1. proc' = proc
    BY <1>1 DEF Created
  <2>2. ExitsSameSess
    BY <1>s, <1>1 DEF Created, ExitsSameSess
  <2>3. srv[c].alive /\ Elsewhere(srv[c].pc)
    BY <1>1 DEF Created, At, Elsewhere
  <2>4. /\ srv'[c].pc = "fork" /\ srv'[c].cur = srv[c].cur
        /\ srv'[c].sigchld = srv[c].sigchld /\ srv'[c].handlers = srv[c].handlers
    BY <1>a, <1>1 DEF Created, WithoutAnswer
  <2>5. sess[srv[c].cur].process = "none"
    BY <1>f, <1>1, <2>3 DEF Created, At, SpawnsFresh
  <2>6. ExitsSameSrv(c)
    BY <2>3, <2>4, <2>5 DEF ExitsSameSrv, Elsewhere
  <2>7. QED
    BY <1>e, <2>1, <2>2, <2>6
<1>2. ASSUME NEW c \in Servers, ForkChild(c) PROVE ExitsAt(c)'
  <2> DEFINE s == srv[c].cur
  <2>1. srv[c].alive /\ srv[c].pc = "fork" /\ sess' = sess
    BY <1>2 DEF ForkChild, At
  <2>2. s \in Sessions /\ ServerOf(s) = c
    BY <1>c, <2>1 DEF Busy
  <2>3. /\ srv'[c].pc = "sync" /\ srv'[c].cur = s
        /\ srv'[c].handlers = srv[c].handlers /\ srv'[c].sigchld = srv[c].sigchld
    BY <1>a, <1>2 DEF ForkChild
  <2>4. proc'[s].pc = "setup" /\ \A t \in Sessions : t # s => proc'[t] = proc[t]
    BY <1>p, <2>2, <1>2 DEF ForkChild
  <2>5. sess[s].process = "none"
    BY <1>f, <2>1 DEF SpawnsFresh
  <2>6. NoZombieLeft(c)' /\ SpawnsFresh(c)'
    BY <1>b, <1>f, <2>1, <2>3, <2>4 DEF NoZombieLeft, SpawnsFresh
  <2>7. ASSUME NEW t \in Sessions, ServerOf(t) = c PROVE HandlerFits(c, t)' /\ StatusFits(c, t)'
    <3>1. HandlerFits(c, t) /\ StatusFits(c, t)
      BY <1>f, <2>1, <2>7
    <3>2. ~Waits(c, t) /\ ~LogsOut(c, t) /\ ~LogsOut(c, t)' /\ (Waits(c, t)' <=> t = s)
      BY <2>1, <2>3 DEF Waits, LogsOut
    <3>3. CASE t # s
      BY <2>1, <2>3, <2>4, <3>1, <3>2, <3>3, FitsKept
    <3>4. CASE t = s
      <4>1. /\ proc'[t].pc = "setup" /\ sess'[t] = sess[t] /\ sess[t].process = "none"
            /\ srv'[c].handlers = srv[c].handlers /\ Waits(c, t)'
        BY <2>1, <2>3, <2>4, <2>5, <3>2, <3>4
      <4>2. proc[t].pc = "none" /\ t \notin srv[c].handlers
        BY <3>1, <3>2, <4>1 DEF HandlerFits, Unreaped
      <4>3. HandlerFits(c, t)'
        BY <4>1, <4>2 DEF HandlerFits, Unreaped
      <4>4. sess'[t].status = 0
        BY <3>1, <4>1, <4>2 DEF StatusFits
      <4>5. QED
        BY <3>2, <4>1, <4>3, <4>4 DEF StatusFits, Unreaped
    <3>5. QED
      BY <3>3, <3>4
  <2>8. QED
    BY <1>g, <2>6, <2>7
<1>3. ASSUME NEW c \in Servers, ForkFailsTold(c) PROVE ExitsAt(c)'
  <2>1. proc' = proc /\ sess' = sess
    BY <1>3 DEF ForkFailsTold
  <2>2. srv[c].alive /\ Elsewhere(srv[c].pc)
    BY <1>3 DEF ForkFailsTold, At, Elsewhere
  <2>3. /\ srv'[c].pc = "destroy" /\ srv'[c].cur = srv[c].cur
        /\ srv'[c].sigchld = srv[c].sigchld /\ srv'[c].handlers = srv[c].handlers
    BY <1>a, <1>3 DEF ForkFailsTold
  <2>4. sess[srv[c].cur].process = "none"
    BY <1>f, <1>3, <2>2 DEF ForkFailsTold, At, SpawnsFresh
  <2>5. ExitsSameSrv(c)
    BY <2>2, <2>3, <2>4 DEF ExitsSameSrv, Elsewhere
  <2>6. QED
    BY <1>e, <2>1, <2>5 DEF ExitsSameSess
<1>4. ASSUME NEW c \in Servers, ForkFails(c) PROVE ExitsAt(c)'
  <2>1. proc' = proc
    BY <1>4 DEF ForkFails
  <2>2. ExitsSameSess
    BY <1>s, <1>4 DEF ForkFails, Reply, ExitsSameSess
  <2>3. srv[c].alive /\ Elsewhere(srv[c].pc)
    BY <1>4 DEF ForkFails, At, Elsewhere
  <2>4. /\ srv'[c].pc = "loop" /\ srv'[c].cur = srv[c].cur
        /\ srv'[c].sigchld = srv[c].sigchld /\ srv'[c].handlers = srv[c].handlers
    BY <1>a, <1>4 DEF ForkFails
  <2>5. ExitsSameSrv(c)
    BY <2>3, <2>4 DEF ExitsSameSrv, Elsewhere
  <2>6. QED
    BY <1>e, <2>1, <2>2, <2>5
<1>5. ASSUME NEW c \in Servers, Destroyed(c) PROVE ExitsAt(c)'
  <2>1. proc' = proc
    BY <1>5 DEF Destroyed
  <2>2. ExitsSameSess
    BY <1>s, <1>5 DEF Destroyed, Reply, ExitsSameSess
  <2>3. srv[c].alive /\ Elsewhere(srv[c].pc)
    BY <1>5 DEF Destroyed, At, Elsewhere
  <2>4. /\ srv'[c].pc = "loop" /\ srv'[c].cur = srv[c].cur
        /\ srv'[c].sigchld = srv[c].sigchld /\ srv'[c].handlers = srv[c].handlers
    BY <1>a, <1>5 DEF Destroyed, WithoutAnswer
  <2>5. ExitsSameSrv(c)
    BY <2>3, <2>4 DEF ExitsSameSrv, Elsewhere
  <2>6. QED
    BY <1>e, <2>1, <2>2, <2>5
<1>6. ASSUME NEW c \in Servers, Synced(c) PROVE ExitsAt(c)'
  <2> DEFINE s == srv[c].cur
  <2>1. srv[c].alive /\ srv[c].pc = "sync" /\ proc' = proc
    BY <1>6 DEF Synced, At
  <2>2. s \in Sessions /\ ServerOf(s) = c
    BY <1>c, <2>1 DEF Busy
  <2>3. /\ srv'[c].pc = "loop" /\ srv'[c].handlers = srv[c].handlers \cup {s}
        /\ srv'[c].sigchld = srv[c].sigchld
    BY <1>a, <1>6 DEF Synced
  <2>4. /\ sess'[s].process = "alive" /\ sess'[s].alive = sess[s].alive
        /\ sess'[s].status = sess[s].status
        /\ \A t \in Sessions : t # s => sess'[t] = sess[t]
    BY <1>s, <2>2, <1>6 DEF Synced, Reply
  <2>5. NoZombieLeft(c)' /\ SpawnsFresh(c)'
    BY <1>b, <1>f, <2>1, <2>3 DEF NoZombieLeft, SpawnsFresh
  <2>6. ASSUME NEW t \in Sessions, ServerOf(t) = c PROVE HandlerFits(c, t)' /\ StatusFits(c, t)'
    <3>1. HandlerFits(c, t) /\ StatusFits(c, t)
      BY <1>f, <2>1, <2>6
    <3>2. /\ ~Waits(c, t)' /\ ~LogsOut(c, t) /\ ~LogsOut(c, t)' /\ (Waits(c, t) <=> t = s)
      BY <2>1, <2>3 DEF Waits, LogsOut
    <3>3. CASE t # s
      BY <2>1, <2>3, <2>4, <3>1, <3>2, <3>3, FitsKept
    <3>4. CASE t = s
      <4>1. /\ proc'[t] = proc[t] /\ sess'[t].process = "alive" /\ t \in srv'[c].handlers
            /\ sess'[t].alive = sess[t].alive /\ sess'[t].status = sess[t].status
            /\ Waits(c, t)
        BY <2>1, <2>3, <2>4, <3>2, <3>4
      <4>2. proc[t].pc \in Unreaped
        BY <3>1, <4>1 DEF HandlerFits
      <4>3. HandlerFits(c, t)'
        BY <3>2, <4>1, <4>2 DEF HandlerFits, Unreaped
      <4>4. StatusFits(c, t)'
        BY <3>1, <3>2, <4>1 DEF StatusFits
      <4>5. QED
        BY <4>3, <4>4
    <3>5. QED
      BY <3>3, <3>4
  <2>7. QED
    BY <1>g, <2>5, <2>6
<1>7. ASSUME NEW c \in Servers, SigChld(c) PROVE ExitsAt(c)'
  <2>1. srv[c].alive /\ srv[c].pc = "loop" /\ proc' = proc /\ sess' = sess
    BY <1>7 DEF SigChld, Idle, At
  <2>2. srv'[c].pc = "reap" /\ srv'[c].handlers = srv[c].handlers
    BY <1>a, <1>7 DEF SigChld
  <2>3. NoZombieLeft(c)' /\ SpawnsFresh(c)'
    BY <2>2 DEF NoZombieLeft, SpawnsFresh
  <2>4. ASSUME NEW t \in Sessions, ServerOf(t) = c PROVE HandlerFits(c, t)' /\ StatusFits(c, t)'
    <3>1. HandlerFits(c, t) /\ StatusFits(c, t)
      BY <1>f, <2>1, <2>4
    <3>2. ~Waits(c, t) /\ ~Waits(c, t)' /\ ~LogsOut(c, t) /\ ~LogsOut(c, t)'
      BY <2>1, <2>2 DEF Waits, LogsOut
    <3>3. QED
      BY <2>1, <2>2, <3>1, <3>2, FitsKept
  <2>5. QED
    BY <1>g, <2>3, <2>4
<1>8. ASSUME NEW c \in Servers, ReapEnds(c) PROVE ExitsAt(c)'
  <2>1. srv[c].alive /\ srv[c].pc = "reap" /\ proc' = proc /\ sess' = sess
    BY <1>8 DEF ReapEnds, At
  <2>2. srv'[c].pc = "loop" /\ srv'[c].handlers = srv[c].handlers
    BY <1>a, <1>8 DEF ReapEnds
  <2>3. NoZombieLeft(c)' /\ SpawnsFresh(c)'
    BY <1>b, <1>8, <2>1, <2>2 DEF ReapEnds, Zombies, Of, NoZombieLeft, SpawnsFresh
  <2>4. ASSUME NEW t \in Sessions, ServerOf(t) = c PROVE HandlerFits(c, t)' /\ StatusFits(c, t)'
    <3>1. HandlerFits(c, t) /\ StatusFits(c, t)
      BY <1>f, <2>1, <2>4
    <3>2. ~Waits(c, t) /\ ~Waits(c, t)' /\ ~LogsOut(c, t) /\ ~LogsOut(c, t)'
      BY <2>1, <2>2 DEF Waits, LogsOut
    <3>3. QED
      BY <2>1, <2>2, <3>1, <3>2, FitsKept
  <2>5. QED
    BY <1>g, <2>3, <2>4
<1>9. ASSUME NEW c \in Servers, LoggedOut(c) PROVE ExitsAt(c)'
  <2> DEFINE s == srv[c].cur
  <2>1. srv[c].alive /\ srv[c].pc = "logout" /\ proc' = proc
    BY <1>9 DEF LoggedOut, At
  <2>2. s \in Sessions /\ ServerOf(s) = c
    BY <1>c, <2>1 DEF Busy
  <2>3. srv'[c].pc = "reap" /\ srv'[c].handlers = srv[c].handlers
    BY <1>a, <1>9 DEF LoggedOut, WithoutAnswer
  <2>4. /\ sess'[s].process = sess[s].process /\ sess'[s].alive = sess[s].alive
        /\ sess'[s].status = IF sess[s].alive THEN sess[s].status + 1 ELSE sess[s].status
        /\ \A t \in Sessions : t # s => sess'[t] = sess[t]
    BY <1>s, <2>2, <1>9 DEF LoggedOut, do_exit_shell
  <2>5. NoZombieLeft(c)' /\ SpawnsFresh(c)'
    BY <2>3 DEF NoZombieLeft, SpawnsFresh
  <2>6. ASSUME NEW t \in Sessions, ServerOf(t) = c PROVE HandlerFits(c, t)' /\ StatusFits(c, t)'
    <3>1. HandlerFits(c, t) /\ StatusFits(c, t)
      BY <1>f, <2>1, <2>6
    <3>2. ~Waits(c, t) /\ ~Waits(c, t)' /\ (LogsOut(c, t) <=> t = s) /\ ~LogsOut(c, t)'
      BY <2>1, <2>3 DEF Waits, LogsOut
    <3>3. CASE t = s
      <4>1. /\ proc'[t] = proc[t] /\ sess'[t].process = sess[t].process
            /\ srv'[c].handlers = srv[c].handlers /\ LogsOut(c, t)
            /\ sess'[t].alive = sess[t].alive
            /\ sess'[t].status = IF sess[t].alive THEN sess[t].status + 1 ELSE sess[t].status
        BY <2>1, <2>3, <2>4, <3>2, <3>3
      <4>2. HandlerFits(c, t)'
        BY <3>1, <3>2, <4>1 DEF HandlerFits
      <4>3. proc[t].pc = "reaped" /\ sess[t].status = 0
        BY <3>1, <4>1 DEF StatusFits
      <4>4. sess'[t].status = IF sess[t].alive THEN 1 ELSE 0
        BY <4>1, <4>3
      <4>5. QED
        BY <3>2, <4>1, <4>2, <4>3, <4>4 DEF StatusFits
    <3>4. CASE t # s
      BY <2>1, <2>3, <2>4, <3>1, <3>2, <3>4, FitsKept
    <3>5. QED
      BY <3>3, <3>4
  <2>7. QED
    BY <1>g, <2>5, <2>6
<1>10. ASSUME NEW c \in Servers, BindFree(c) PROVE ExitsAt(c)'
  <2>1. proc' = proc /\ sess' = sess
    BY <1>10 DEF BindFree
  <2>2. srv[c].alive /\ Elsewhere(srv[c].pc)
    BY <1>10 DEF BindFree, At, Elsewhere
  <2>3. /\ srv'[c].pc = "xauth" /\ srv'[c].cur = srv[c].cur
        /\ srv'[c].sigchld = srv[c].sigchld /\ srv'[c].handlers = srv[c].handlers
    BY <1>a, <1>10 DEF BindFree
  <2>4. ExitsSameSrv(c)
    BY <2>2, <2>3 DEF ExitsSameSrv, Elsewhere
  <2>5. QED
    BY <1>e, <2>1, <2>4 DEF ExitsSameSess
<1>11. ASSUME NEW c \in Servers, BindTaken(c) PROVE ExitsAt(c)'
  <2>1. proc' = proc /\ sess' = sess
    BY <1>11 DEF BindTaken
  <2>2. srv[c].alive /\ Elsewhere(srv[c].pc)
    BY <1>11 DEF BindTaken, At, Elsewhere
  <2>3. /\ srv'[c].pc = "bind" /\ srv'[c].cur = srv[c].cur
        /\ srv'[c].sigchld = srv[c].sigchld /\ srv'[c].handlers = srv[c].handlers
    BY <1>a, <1>11 DEF BindTaken, At
  <2>4. ExitsSameSrv(c)
    BY <2>2, <2>3 DEF ExitsSameSrv, Elsewhere
  <2>5. QED
    BY <1>e, <2>1, <2>4 DEF ExitsSameSess
<1>12. ASSUME NEW c \in Servers, BindNone(c) PROVE ExitsAt(c)'
  <2>1. proc' = proc
    BY <1>12 DEF BindNone
  <2>2. ExitsSameSess
    BY <1>s, <1>12 DEF BindNone, Reply, ExitsSameSess
  <2>3. srv[c].alive /\ Elsewhere(srv[c].pc)
    BY <1>12 DEF BindNone, At, Elsewhere
  <2>4. /\ srv'[c].pc = "loop" /\ srv'[c].cur = srv[c].cur
        /\ srv'[c].sigchld = srv[c].sigchld /\ srv'[c].handlers = srv[c].handlers
    BY <1>a, <1>12 DEF BindNone
  <2>5. ExitsSameSrv(c)
    BY <2>3, <2>4 DEF ExitsSameSrv, Elsewhere
  <2>6. QED
    BY <1>e, <2>1, <2>2, <2>5
<1>13. ASSUME NEW c \in Servers, PortOpens(c) PROVE ExitsAt(c)'
  <2>1. proc' = proc
    BY <1>13 DEF PortOpens
  <2>2. ExitsSameSess
    BY <1>s, <1>13 DEF PortOpens, Reply, ExitsSameSess
  <2>3. srv[c].alive /\ Elsewhere(srv[c].pc)
    BY <1>13 DEF PortOpens, At, Elsewhere
  <2>4. /\ srv'[c].pc = "loop" /\ srv'[c].cur = srv[c].cur
        /\ srv'[c].sigchld = srv[c].sigchld /\ srv'[c].handlers = srv[c].handlers
    BY <1>a, <1>13 DEF PortOpens
  <2>5. ExitsSameSrv(c)
    BY <2>3, <2>4 DEF ExitsSameSrv, Elsewhere
  <2>6. QED
    BY <1>e, <2>1, <2>2, <2>5
<1>14. ASSUME NEW c \in Servers, PortFails(c) PROVE ExitsAt(c)'
  <2>1. proc' = proc /\ sess' = sess
    BY <1>14 DEF PortFails
  <2>2. srv[c].alive /\ Elsewhere(srv[c].pc)
    BY <1>14 DEF PortFails, At, Elsewhere
  <2>3. /\ srv'[c].pc = "unlink" /\ srv'[c].cur = srv[c].cur
        /\ srv'[c].sigchld = srv[c].sigchld /\ srv'[c].handlers = srv[c].handlers
    BY <1>a, <1>14 DEF PortFails
  <2>4. ExitsSameSrv(c)
    BY <2>2, <2>3 DEF ExitsSameSrv, Elsewhere
  <2>5. QED
    BY <1>e, <2>1, <2>4 DEF ExitsSameSess
<1>15. ASSUME NEW c \in Servers, UnlinkSocket(c) PROVE ExitsAt(c)'
  <2>1. proc' = proc /\ sess' = sess
    BY <1>15 DEF UnlinkSocket
  <2>2. srv[c].alive /\ Elsewhere(srv[c].pc)
    BY <1>15 DEF UnlinkSocket, At, Elsewhere
  <2>3. /\ srv'[c].pc = "unlink_xauth" /\ srv'[c].cur = srv[c].cur
        /\ srv'[c].sigchld = srv[c].sigchld /\ srv'[c].handlers = srv[c].handlers
    BY <1>a, <1>15 DEF UnlinkSocket
  <2>4. ExitsSameSrv(c)
    BY <2>2, <2>3 DEF ExitsSameSrv, Elsewhere
  <2>5. QED
    BY <1>e, <2>1, <2>4 DEF ExitsSameSess
<1>16. ASSUME NEW c \in Servers, UnlinkXauth(c) PROVE ExitsAt(c)'
  <2>1. proc' = proc
    BY <1>16 DEF UnlinkXauth
  <2>2. ExitsSameSess
    BY <1>s, <1>16 DEF UnlinkXauth, Reply, ExitsSameSess
  <2>3. srv[c].alive /\ Elsewhere(srv[c].pc)
    BY <1>16 DEF UnlinkXauth, At, Elsewhere
  <2>4. /\ srv'[c].pc = "loop" /\ srv'[c].cur = srv[c].cur
        /\ srv'[c].sigchld = srv[c].sigchld /\ srv'[c].handlers = srv[c].handlers
    BY <1>a, <1>16 DEF UnlinkXauth
  <2>5. ExitsSameSrv(c)
    BY <2>3, <2>4 DEF ExitsSameSrv, Elsewhere
  <2>6. QED
    BY <1>e, <2>1, <2>2, <2>5
<1>17. ASSUME NEW c \in Servers, Disconnect(c) PROVE ExitsAt(c)'
  <2>1. proc' = proc /\ sess' = sess
    BY <1>17 DEF Disconnect
  <2>2. srv[c].alive /\ Elsewhere(srv[c].pc)
    BY <1>17 DEF Disconnect, Idle, At, Elsewhere
  <2>3. /\ srv'[c].pc = "loop" /\ srv'[c].cur = srv[c].cur
        /\ srv'[c].sigchld = srv[c].sigchld /\ srv'[c].handlers = srv[c].handlers
    BY <1>a, <1>17 DEF Disconnect, Idle, At
  <2>4. ExitsSameSrv(c)
    BY <2>2, <2>3 DEF ExitsSameSrv, Elsewhere
  <2>5. QED
    BY <1>e, <2>1, <2>4 DEF ExitsSameSess
<1>18. ASSUME NEW c \in Servers, ServerExit(c) PROVE ExitsAt(c)'
  <2>1. ~srv'[c].alive
    BY <1>a, <1>18 DEF ServerExit
  <2>2. QED
    BY <2>1 DEF ExitsAt
<1>19. ASSUME NEW c \in Servers, HelperServes(c) PROVE ExitsAt(c)'
  <2>1. proc' = proc /\ sess' = sess
    BY <1>19 DEF HelperServes
  <2>2. \E requests, answers :
          srv' = [srv EXCEPT ![c].requests = requests, ![c].answers = answers]
    BY <1>19, Zenon DEF HelperServes
  <2>3. ExitsSameSrv(c)
    BY <1>a, <2>2 DEF ExitsSameSrv
  <2>4. QED
    BY <1>e, <2>1, <2>3 DEF ExitsSameSess
<1>20. ASSUME NEW c \in Servers, HelperExits(c) PROVE ExitsAt(c)'
  <2>1. proc' = proc /\ sess' = sess /\ srv' = srv
    BY <1>20 DEF HelperExits
  <2>2. QED
    BY <1>e, <2>1 DEF ExitsSameSess, ExitsSameSrv
<1>21. ASSUME NEW c \in Servers, NEW s \in Sessions, ReapUnknown(c, s) PROVE ExitsAt(c)'
  <2>1. /\ srv[c].alive /\ srv[c].pc = "reap" /\ ServerOf(s) = c
        /\ proc[s].pc = "zombie" /\ s \notin srv[c].handlers
    BY <1>21 DEF ReapUnknown, At, Zombies, Of
  <2>2. HandlerFits(c, s) /\ ~Waits(c, s)
    BY <1>f, <2>1 DEF Waits
  <2>3. QED
    BY <2>1, <2>2 DEF HandlerFits, Unreaped
<1>22. ASSUME NEW c \in Servers, NEW s \in Sessions, ReapTold(c, s) PROVE ExitsAt(c)'
  <2>1. /\ srv[c].alive /\ srv[c].pc = "reap" /\ ServerOf(s) = c
        /\ proc[s].pc = "zombie" /\ s \in srv[c].handlers
    BY <1>22 DEF ReapTold, At, Zombies, Of
  <2>2. srv'[c].pc = "logout" /\ srv'[c].cur = s /\ srv'[c].handlers = srv[c].handlers \ {s}
    BY <1>a, <1>22 DEF ReapTold
  <2>3. proc'[s].pc = "reaped" /\ \A t \in Sessions : t # s => proc'[t] = proc[t]
    BY <1>p, <1>22 DEF ReapTold
  <2>4. /\ sess'[s].process = "dead" /\ sess'[s].alive = sess[s].alive
        /\ sess'[s].status = sess[s].status
        /\ \A t \in Sessions : t # s => sess'[t] = sess[t]
    BY <1>s, <1>22 DEF ReapTold
  <2>5. NoZombieLeft(c)' /\ SpawnsFresh(c)'
    BY <2>2 DEF NoZombieLeft, SpawnsFresh
  <2>6. ASSUME NEW t \in Sessions, ServerOf(t) = c PROVE HandlerFits(c, t)' /\ StatusFits(c, t)'
    <3>1. HandlerFits(c, t) /\ StatusFits(c, t)
      BY <1>f, <2>1, <2>6
    <3>2. ~Waits(c, t) /\ ~Waits(c, t)' /\ ~LogsOut(c, t) /\ (LogsOut(c, t)' <=> t = s)
      BY <2>1, <2>2 DEF Waits, LogsOut
    <3>3. CASE t = s
      <4>1. /\ proc'[t].pc = "reaped" /\ proc[t].pc = "zombie" /\ t \notin srv'[c].handlers
            /\ sess'[t].process = "dead" /\ sess'[t].status = sess[t].status
        BY <2>1, <2>2, <2>3, <2>4, <3>3
      <4>2. HandlerFits(c, t)'
        BY <3>2, <4>1 DEF HandlerFits, Unreaped
      <4>3. sess'[t].status = 0 /\ LogsOut(c, t)'
        BY <3>1, <3>2, <3>3, <4>1 DEF StatusFits
      <4>4. QED
        BY <4>1, <4>2, <4>3 DEF StatusFits
    <3>4. CASE t # s
      BY <2>1, <2>2, <2>3, <2>4, <3>1, <3>2, <3>4, FitsKept
    <3>5. QED
      BY <3>3, <3>4
  <2>7. QED
    BY <1>g, <2>5, <2>6
<1>23. ASSUME NEW c \in Servers, NEW s \in Sessions, ReapUntold(c, s) PROVE ExitsAt(c)'
  <2>1. /\ srv[c].alive /\ srv[c].pc = "reap" /\ ServerOf(s) = c
        /\ proc[s].pc = "zombie" /\ s \in srv[c].handlers
    BY <1>23 DEF ReapUntold, At, Zombies, Of
  <2>2. srv'[c].pc = "reap" /\ srv'[c].cur = s /\ srv'[c].handlers = srv[c].handlers \ {s}
    BY <1>a, <1>23, <2>1 DEF ReapUntold
  <2>3. proc'[s].pc = "reaped" /\ \A t \in Sessions : t # s => proc'[t] = proc[t]
    BY <1>p, <1>23 DEF ReapUntold
  <2>4. /\ sess'[s].process = "dead" /\ sess'[s].alive = sess[s].alive
        /\ sess'[s].status = IF sess[s].alive THEN sess[s].status + 1 ELSE sess[s].status
        /\ \A t \in Sessions : t # s => sess'[t] = sess[t]
    BY <1>s, <1>23 DEF ReapUntold, do_exit_shell
  <2>5. NoZombieLeft(c)' /\ SpawnsFresh(c)'
    BY <2>2 DEF NoZombieLeft, SpawnsFresh
  <2>6. ASSUME NEW t \in Sessions, ServerOf(t) = c PROVE HandlerFits(c, t)' /\ StatusFits(c, t)'
    <3>1. HandlerFits(c, t) /\ StatusFits(c, t)
      BY <1>f, <2>1, <2>6
    <3>2. ~Waits(c, t) /\ ~Waits(c, t)' /\ ~LogsOut(c, t) /\ ~LogsOut(c, t)'
      BY <2>1, <2>2 DEF Waits, LogsOut
    <3>3. CASE t = s
      <4>1. /\ proc'[t].pc = "reaped" /\ proc[t].pc = "zombie" /\ t \notin srv'[c].handlers
            /\ sess'[t].process = "dead" /\ sess'[t].alive = sess[t].alive
            /\ sess'[t].status = IF sess[t].alive THEN sess[t].status + 1 ELSE sess[t].status
        BY <2>1, <2>2, <2>3, <2>4, <3>3
      <4>2. HandlerFits(c, t)'
        BY <3>2, <4>1 DEF HandlerFits, Unreaped
      <4>3. sess[t].status = 0
        BY <3>1, <4>1 DEF StatusFits
      <4>4. sess'[t].status = IF sess[t].alive THEN 1 ELSE 0
        BY <4>1, <4>3
      <4>5. QED
        BY <3>2, <4>1, <4>2, <4>4 DEF StatusFits
    <3>4. CASE t # s
      BY <2>1, <2>2, <2>3, <2>4, <3>1, <3>2, <3>4, FitsKept
    <3>5. QED
      BY <3>3, <3>4
  <2>7. QED
    BY <1>g, <2>5, <2>6
<1>24. ASSUME NEW c \in Servers, NEW s \in Sessions, PtyGranted(c, s) PROVE ExitsAt(c)'
  <2>1. proc' = proc /\ srv' = srv
    BY <1>24 DEF PtyGranted
  <2>2. ExitsSameSess
    BY <1>s, <1>24 DEF PtyGranted, Reply, ExitsSameSess
  <2>3. QED
    BY <1>e, <2>1, <2>2 DEF ExitsSameSrv
<1>25. ASSUME NEW c \in Servers, NEW s \in Sessions, PtyRefused(c, s) PROVE ExitsAt(c)'
  <2>1. proc' = proc /\ srv' = srv
    BY <1>25 DEF PtyRefused
  <2>2. ExitsSameSess
    BY <1>s, <1>25 DEF PtyRefused, Reply, ExitsSameSess
  <2>3. QED
    BY <1>e, <2>1, <2>2 DEF ExitsSameSrv
<1>26. ASSUME NEW c \in Servers, NEW s \in Sessions, NEW failure, SpawnFails(c, s,
              failure)
       PROVE  ExitsAt(c)'
  <2>1. proc' = proc
    BY <1>26 DEF SpawnFails
  <2>2. ExitsSameSess
    BY <1>s, <1>26 DEF SpawnFails, Reply, SpawnSession, Spawnable, WithoutPty, ExitsSameSess
  <2>3. srv[c].alive /\ Elsewhere(srv[c].pc)
    BY <1>26 DEF SpawnFails, CanSpawn, Asked, Idle, At, Elsewhere
  <2>4. /\ srv'[c].pc = "loop" /\ srv'[c].cur = s
        /\ srv'[c].sigchld = srv[c].sigchld /\ srv'[c].handlers = srv[c].handlers
    BY <1>a, <1>26 DEF SpawnFails, CanSpawn, Asked, Idle, At
  <2>5. ExitsSameSrv(c)
    BY <2>3, <2>4 DEF ExitsSameSrv, Elsewhere
  <2>6. QED
    BY <1>e, <2>1, <2>2, <2>5
<1>27. ASSUME NEW c \in Servers, NEW s \in Sessions, NEW failure, SpawnAsks(c, s, failure)
       PROVE  ExitsAt(c)'
  <2>1. proc' = proc
    BY <1>27 DEF SpawnAsks
  <2>2. ExitsSameSess
    BY <1>s, <1>27 DEF SpawnAsks, SpawnSession, Spawnable, WithoutPty, ExitsSameSess
  <2>3. srv[c].alive /\ Elsewhere(srv[c].pc) /\ sess[s].process = "none"
    BY <1>27 DEF SpawnAsks, CanSpawn, Asked, Idle, At, Elsewhere
  <2>4. /\ srv'[c].pc = "create" /\ srv'[c].cur = s
        /\ srv'[c].sigchld = srv[c].sigchld /\ srv'[c].handlers = srv[c].handlers
    BY <1>a, <1>27 DEF SpawnAsks
  <2>5. ExitsSameSrv(c)
    BY <2>3, <2>4 DEF ExitsSameSrv, Elsewhere
  <2>6. QED
    BY <1>e, <2>1, <2>2, <2>5
<1>28. ASSUME NEW c \in Servers, NEW s \in Sessions, NEW failure, SpawnAlone(c, s,
              failure)
       PROVE  ExitsAt(c)'
  <2>1. proc' = proc
    BY <1>28 DEF SpawnAlone
  <2>2. ExitsSameSess
    BY <1>s, <1>28 DEF SpawnAlone, SpawnSession, Spawnable, WithoutPty, ExitsSameSess
  <2>3. srv[c].alive /\ Elsewhere(srv[c].pc) /\ sess[s].process = "none"
    BY <1>28 DEF SpawnAlone, CanSpawn, Asked, Idle, At, Elsewhere
  <2>4. /\ srv'[c].pc = "fork" /\ srv'[c].cur = s
        /\ srv'[c].sigchld = srv[c].sigchld /\ srv'[c].handlers = srv[c].handlers
    BY <1>a, <1>28 DEF SpawnAlone
  <2>5. ExitsSameSrv(c)
    BY <2>3, <2>4 DEF ExitsSameSrv, Elsewhere
  <2>6. QED
    BY <1>e, <2>1, <2>2, <2>5
<1>29. ASSUME NEW c \in Servers, NEW s \in Sessions, SpawnRefused(c, s) PROVE ExitsAt(c)'
  <2>1. proc' = proc /\ srv' = srv
    BY <1>29 DEF SpawnRefused
  <2>2. ExitsSameSess
    BY <1>s, <1>29 DEF SpawnRefused, Reply, ExitsSameSess
  <2>3. QED
    BY <1>e, <2>1, <2>2 DEF ExitsSameSrv
<1>30. ASSUME NEW c \in Servers, NEW s \in Sessions, Abort(c, s) PROVE ExitsAt(c)'
  <2>1. ~srv'[c].alive
    BY <1>a, <1>30 DEF Abort
  <2>2. QED
    BY <2>1 DEF ExitsAt
<1>31. ASSUME NEW c \in Servers, NEW s \in Sessions, X11Accepted(c, s) PROVE ExitsAt(c)'
  <2>1. proc' = proc /\ sess' = sess
    BY <1>31 DEF X11Accepted
  <2>2. srv[c].alive /\ Elsewhere(srv[c].pc)
    BY <1>31 DEF X11Accepted, Asked, Idle, At, Elsewhere
  <2>3. /\ srv'[c].pc = "bind" /\ srv'[c].cur = s
        /\ srv'[c].sigchld = srv[c].sigchld /\ srv'[c].handlers = srv[c].handlers
    BY <1>a, <1>31 DEF X11Accepted
  <2>4. ExitsSameSrv(c)
    BY <2>2, <2>3 DEF ExitsSameSrv, Elsewhere
  <2>5. QED
    BY <1>e, <2>1, <2>4 DEF ExitsSameSess
<1>32. ASSUME NEW c \in Servers, NEW s \in Sessions, X11Refused(c, s) PROVE ExitsAt(c)'
  <2>1. proc' = proc /\ srv' = srv
    BY <1>32 DEF X11Refused
  <2>2. ExitsSameSess
    BY <1>s, <1>32 DEF X11Refused, Reply, ExitsSameSess
  <2>3. QED
    BY <1>e, <2>1, <2>2 DEF ExitsSameSrv
<1>33. ASSUME NEW c \in Servers, NEW s \in Sessions, AcceptSingle(c, s) PROVE ExitsAt(c)'
  <2>1. proc' = proc
    BY <1>33 DEF AcceptSingle
  <2>2. ExitsSameSess
    BY <1>s, <1>33 DEF AcceptSingle, ExitsSameSess
  <2>3. srv[c].alive /\ Elsewhere(srv[c].pc)
    BY <1>33 DEF AcceptSingle, Idle, At, Elsewhere
  <2>4. /\ srv'[c].pc = "unlink" /\ srv'[c].cur = s
        /\ srv'[c].sigchld = srv[c].sigchld /\ srv'[c].handlers = srv[c].handlers
    BY <1>a, <1>33 DEF AcceptSingle
  <2>5. ExitsSameSrv(c)
    BY <2>3, <2>4 DEF ExitsSameSrv, Elsewhere
  <2>6. QED
    BY <1>e, <2>1, <2>2, <2>5
<1>34. ASSUME NEW c \in Servers, NEW s \in Sessions, CloseSession(c, s) PROVE ExitsAt(c)'
  <2>1. srv[c].alive /\ srv[c].pc = "loop" /\ ServerOf(s) = c
    BY <1>34 DEF CloseSession, Idle, At, Of
  <2>2. HandlerFits(c, s) /\ ~Waits(c, s)
    BY <1>f, <2>1 DEF Waits
  <2>3. proc' = proc
    BY <1>34, <2>2 DEF CloseSession, do_kill_process, HandlerFits, Unreaped
  <2>4. /\ srv'[c].pc = "loop" \/ srv'[c].pc = "unlink"
        /\ srv'[c].sigchld = srv[c].sigchld /\ srv'[c].handlers = srv[c].handlers
    BY <1>a, <1>34, <2>1 DEF CloseSession
  <2>5. /\ sess'[s].process = IF sess[s].process = "alive" THEN "dead" ELSE sess[s].process
        /\ ~sess'[s].alive /\ sess'[s].status = sess[s].status
        /\ \A t \in Sessions : t # s => sess'[t] = sess[t]
    BY <1>s, <1>34 DEF CloseSession
  <2>6. NoZombieLeft(c)' /\ SpawnsFresh(c)'
    BY <1>b, <1>f, <2>1, <2>3, <2>4 DEF NoZombieLeft, SpawnsFresh
  <2>7. ASSUME NEW t \in Sessions, ServerOf(t) = c PROVE HandlerFits(c, t)' /\ StatusFits(c, t)'
    <3>1. HandlerFits(c, t) /\ StatusFits(c, t)
      BY <1>f, <2>1, <2>7
    <3>2. ~Waits(c, t) /\ ~Waits(c, t)' /\ ~LogsOut(c, t) /\ ~LogsOut(c, t)'
      BY <2>1, <2>4 DEF Waits, LogsOut
    <3>3. CASE t = s
      <4>1. /\ proc'[t] = proc[t] /\ srv'[c].handlers = srv[c].handlers
            /\ sess'[t].process = IF sess[t].process = "alive" THEN "dead" ELSE sess[t].process
            /\ ~sess'[t].alive /\ sess'[t].status = sess[t].status
        BY <2>3, <2>4, <2>5, <3>3
      <4>2. HandlerFits(c, t)'
        BY <3>1, <3>2, <4>1 DEF HandlerFits
      <4>3. sess[t].status \in {0, 1}
        BY <3>1, <3>2 DEF StatusFits
      <4>4. StatusFits(c, t)'
        BY <3>1, <3>2, <4>1, <4>3 DEF StatusFits
      <4>5. QED
        BY <4>2, <4>4
    <3>4. CASE t # s
      BY <2>3, <2>4, <2>5, <3>1, <3>2, <3>4, FitsKept
    <3>5. QED
      BY <3>3, <3>4
  <2>8. QED
    BY <1>g, <2>6, <2>7
<1>35. ASSUME NEW s \in Sessions, SetupFails(s) PROVE ExitsAt(ServerOf(s))'
  <2>1. sess' = sess /\ proc[s].pc \in Unreaped
    BY <1>35 DEF SetupFails, Unreaped
  <2>2. /\ srv'[ServerOf(s)].alive = srv[ServerOf(s)].alive
        /\ srv'[ServerOf(s)].pc = srv[ServerOf(s)].pc
        /\ srv'[ServerOf(s)].cur = srv[ServerOf(s)].cur
        /\ srv'[ServerOf(s)].handlers = srv[ServerOf(s)].handlers
        /\ srv'[ServerOf(s)].sigchld
    BY <1>a, <1>c, <1>35 DEF SetupFails
  <2>3. /\ proc'[s].pc = "zombie"
        /\ \A t \in Sessions : t # s => proc'[t] = proc[t]
    BY <1>p, <1>35 DEF SetupFails, Exited
  <2>4. QED
    BY <1>h, <2>1, <2>2, <2>3 DEF Unreaped
<1>36. ASSUME NEW s \in Sessions, AskLogin(s) PROVE ExitsAt(ServerOf(s))'
  <2>1. sess' = sess /\ proc[s].pc \in Unreaped
    BY <1>36 DEF AskLogin, Unreaped
  <2>2. /\ srv'[ServerOf(s)].alive = srv[ServerOf(s)].alive
        /\ srv'[ServerOf(s)].pc = srv[ServerOf(s)].pc
        /\ srv'[ServerOf(s)].cur = srv[ServerOf(s)].cur
        /\ srv'[ServerOf(s)].handlers = srv[ServerOf(s)].handlers
        /\ srv'[ServerOf(s)].sigchld = srv[ServerOf(s)].sigchld
    BY <1>a, <1>c, <1>36 DEF AskLogin
  <2>3. /\ proc'[s].pc = "login"
        /\ \A t \in Sessions : t # s => proc'[t] = proc[t]
    BY <1>p, <1>36 DEF AskLogin
  <2>4. QED
    BY <1>h, <2>1, <2>2, <2>3 DEF Unreaped
<1>37. ASSUME NEW s \in Sessions, StartUnrecorded(s) PROVE ExitsAt(ServerOf(s))'
  <2>1. sess' = sess /\ proc[s].pc \in Unreaped
    BY <1>37 DEF StartUnrecorded, Unreaped
  <2>2. /\ srv'[ServerOf(s)].alive = srv[ServerOf(s)].alive
        /\ srv'[ServerOf(s)].pc = srv[ServerOf(s)].pc
        /\ srv'[ServerOf(s)].cur = srv[ServerOf(s)].cur
        /\ srv'[ServerOf(s)].handlers = srv[ServerOf(s)].handlers
        /\ srv'[ServerOf(s)].sigchld = srv[ServerOf(s)].sigchld
    BY <1>a, <1>c, <1>37 DEF StartUnrecorded
  <2>3. /\ proc'[s].pc = "running"
        /\ \A t \in Sessions : t # s => proc'[t] = proc[t]
    BY <1>p, <1>37 DEF StartUnrecorded, Start
  <2>4. QED
    BY <1>h, <2>1, <2>2, <2>3 DEF Unreaped
<1>38. ASSUME NEW s \in Sessions, LoggedIn(s) PROVE ExitsAt(ServerOf(s))'
  <2>1. sess' = sess /\ proc[s].pc \in Unreaped
    BY <1>38 DEF LoggedIn, Unreaped
  <2>2. /\ srv'[ServerOf(s)].alive = srv[ServerOf(s)].alive
        /\ srv'[ServerOf(s)].pc = srv[ServerOf(s)].pc
        /\ srv'[ServerOf(s)].cur = srv[ServerOf(s)].cur
        /\ srv'[ServerOf(s)].handlers = srv[ServerOf(s)].handlers
        /\ srv'[ServerOf(s)].sigchld = srv[ServerOf(s)].sigchld
    BY <1>a, <1>c, <1>38 DEF LoggedIn, WithoutAnswer
  <2>3. /\ proc'[s].pc = "running"
        /\ \A t \in Sessions : t # s => proc'[t] = proc[t]
    BY <1>p, <1>38 DEF LoggedIn, Start
  <2>4. QED
    BY <1>h, <2>1, <2>2, <2>3 DEF Unreaped
<1>39. ASSUME NEW s \in Sessions, Ends(s) PROVE ExitsAt(ServerOf(s))'
  <2>1. sess' = sess /\ proc[s].pc \in Unreaped
    BY <1>39 DEF Ends, Unreaped
  <2>2. /\ srv'[ServerOf(s)].alive = srv[ServerOf(s)].alive
        /\ srv'[ServerOf(s)].pc = srv[ServerOf(s)].pc
        /\ srv'[ServerOf(s)].cur = srv[ServerOf(s)].cur
        /\ srv'[ServerOf(s)].handlers = srv[ServerOf(s)].handlers
        /\ srv[ServerOf(s)].alive => srv'[ServerOf(s)].sigchld
    BY <1>a, <1>c, <1>39 DEF Ends
  <2>3. /\ srv[ServerOf(s)].alive => proc'[s].pc = "zombie"
        /\ \A t \in Sessions : t # s => proc'[t] = proc[t]
    BY <1>p, <1>39 DEF Ends, Exited
  <2>4. QED
    BY <1>h, <2>1, <2>2, <2>3 DEF Unreaped
<1>40. ASSUME NEW c \in Servers,
             ServerStep(c) \/ Disconnect(c) \/ ServerExit(c) \/ HelperServes(c) \/ HelperExits(c)
      PROVE  ExitsInv'
  <2>1. LocalTo(c)
    BY <1>40, Local
  <2>2. ExitsAt(c)'
    BY <1>40, <1>1, <1>2, <1>3, <1>4, <1>5, <1>6, <1>7, <1>8, <1>9, <1>10, <1>11, <1>12,
       <1>13, <1>14, <1>15, <1>16, <1>17, <1>18, <1>19, <1>20, <1>21, <1>22, <1>23 DEF
       ServerStep, Fork, Reap, open_x11_socket, create_xauth
  <2>3. QED
    BY <1>d, <2>1, <2>2
<1>41. ASSUME NEW c \in Servers, NEW s \in Sessions, ClientStep(c, s) PROVE ExitsInv'
  <2>1. LocalTo(c)
    BY <1>41, Local
  <2>2. ExitsAt(c)'
    BY <1>41, <1>24, <1>25, <1>26, <1>27, <1>28, <1>29, <1>30, <1>31, <1>32, <1>33, <1>34
       DEF ClientStep, PtyRequest, Spawn, X11Request
  <2>3. QED
    BY <1>d, <2>1, <2>2
<1>42. ASSUME NEW s \in Sessions, ChildStep(s) \/ Ends(s) PROVE ExitsInv'
  <2>1. LocalTo(ServerOf(s))
    BY <1>42, Local
  <2>2. ExitsAt(ServerOf(s))'
    BY <1>42, <1>35, <1>36, <1>37, <1>38, <1>39 DEF ChildStep, Setup
  <2>3. QED
    BY <1>c, <1>d, <2>1, <2>2
<1>43. ASSUME UNCHANGED vars PROVE ExitsInv'
  <2>1. srv' = srv /\ sess' = sess /\ proc' = proc
    BY <1>43 DEF vars
  <2>2. \A c \in Servers : ExitsAt(c)'
    BY <1>e, <2>1 DEF ExitsSameSrv, ExitsSameSess
  <2>3. QED
    BY <1>b, <2>2 DEF ExitsInv
<1>44. QED
  BY <1>40, <1>41, <1>42, <1>43 DEF Next

(* ExitsReported, for any number of connections and sessions: every child  *)
(* is waited for, its callback is called once, and no signal goes astray   *)
(* (do_reaper_callback, do_logout_notice, do_exit_shell, do_kill_process). *)
THEOREM ExitsAreReported == Spec => []ExitsReported
<1>1. Init => Shape /\ CurInv /\ ExitsInv
  <2> SUFFICES ASSUME Init PROVE CurInv /\ ExitsInv
    BY ShapeInit
  <2>1. \A c \in Servers : srv[c].pc = "loop" /\ srv[c].handlers = {}
    BY DEF Init
  <2>2. \A s \in Sessions : sess[s].process = "none" /\ sess[s].status = 0
    BY DEF Init
  <2>3. \A s \in Sessions : proc[s].pc = "none"
    BY DEF Init, NoProcess
  <2>4. CurInv
    BY <2>1 DEF CurInv, Busy
  <2>5. ASSUME NEW c \in Servers PROVE ExitsAt(c)
    BY <2>1, <2>2, <2>3 DEF ExitsAt, NoZombieLeft, SpawnsFresh, HandlerFits, StatusFits, Waits,
                            LogsOut, Unreaped
  <2>6. QED
    BY <2>4, <2>5 DEF ExitsInv
<1>2. Shape /\ CurInv /\ ExitsInv /\ [Next]_vars => (Shape /\ CurInv /\ ExitsInv)'
  BY ShapeStep, CurStep, ExitsStep
<1>3. Shape /\ CurInv /\ ExitsInv => ExitsReported
  <2> SUFFICES ASSUME ExitsInv, NEW c \in Servers, srv[c].alive
               PROVE  /\ (srv[c].pc = "loop" /\ ~srv[c].sigchld) => Zombies(c) = {}
                      /\ \A s \in Of(c) :
                           /\ proc[s].pc # "astray"
                           /\ sess[s].status <= 1
                           /\ (proc[s].pc = "reaped" /\ (srv[c].pc = "logout" => srv[c].cur # s))
                                => /\ sess[s].process = "dead"
                                   /\ sess[s].alive => sess[s].status = 1
    BY DEF ExitsReported
  <2>1. NoZombieLeft(c)
    BY DEF ExitsInv, ExitsAt
  <2>2. (srv[c].pc = "loop" /\ ~srv[c].sigchld) => Zombies(c) = {}
    BY <2>1 DEF NoZombieLeft, Zombies, Of
  <2>3. ASSUME NEW s \in Sessions, ServerOf(s) = c
        PROVE  /\ proc[s].pc # "astray"
               /\ sess[s].status <= 1
               /\ (proc[s].pc = "reaped" /\ (srv[c].pc = "logout" => srv[c].cur # s))
                    => /\ sess[s].process = "dead"
                       /\ sess[s].alive => sess[s].status = 1
    <3>1. HandlerFits(c, s) /\ StatusFits(c, s)
      BY <2>3 DEF ExitsInv, ExitsAt
    <3>2. QED
      BY <3>1 DEF HandlerFits, StatusFits, Waits, LogsOut, Unreaped
  <2>4. QED
    BY <2>2, <2>3 DEF Of
<1>4. QED
  BY <1>1, <1>2, <1>3, PTL DEF Spec
=============================================================================
