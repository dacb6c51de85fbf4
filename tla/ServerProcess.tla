--------------------------- MODULE ServerProcess ---------------------------
(***************************************************************************)
(* The processes of a server machine: for each connection an               *)
(* lshd-connection (server_session.c, unix_process.c, reaper.c,            *)
(* server_pty.c, server_x11.c) with its pty helper, and the processes that *)
(* are started in its sessions.  The channels of the sessions are the      *)
(* subject of SessionChannel; here a session is a list of requests and may *)
(* be closed by the client at any time.                                    *)
(*                                                                         *)
(* An lshd-connection is single-threaded.  pc says where it waits: in its  *)
(* event loop ("loop"), for an answer of the helper ("create", "destroy",  *)
(* "logout"), for its child ("sync"), or between two system calls that     *)
(* other processes can observe.  A session has at most one process, whose  *)
(* pid is the name of the session.                                         *)
(***************************************************************************)
EXTENDS PtyHelper

CONSTANTS Scenes,      \* what the clients ask for; see MCServerProcess
          MinDisplay, MaxDisplay,  \* X11_MIN_DISPLAY, X11_MAX_DISPLAY
          MaxFaults    \* bound: failing system calls and killed children

(* A session is named by its connection and its channel.                   *)
ASSUME ScenesAssumption == \A sc \in Scenes : DOMAIN sc.script \subseteq Nat \X Nat

(* Display 0, which stands for none, is not one that is looked for.        *)
ASSUME DisplaysAssumption == MinDisplay \in Nat \ {0} /\ MaxDisplay \in Nat

VARIABLES scene,   \* [script, helper, single, root]
          srv,     \* the lshd-connection processes
          sess,    \* their sessions
          proc,    \* the processes of the sessions
          helper,  \* the pty helpers
          log,     \* utmp and wtmp
          files,   \* files[n]: who has display n's socket and xauthority file
          fds,     \* the descriptors that are open in each process
          faults

vars == <<scene, srv, sess, proc, helper, log, files, fds, faults>>

Sessions == DOMAIN scene.script
ServerOf(s) == <<s[1]>>
Servers == {ServerOf(s) : s \in Sessions}
Of(c) == {s \in Sessions : ServerOf(s) = c}
Displays == MinDisplay .. MaxDisplay

(* Descriptors of a session: the ends of its pipes (with a pty, in1 and    *)
(* out0 are copies of the master), and the synchronization pipe.           *)
Fd(s, names) == {<<s, name>> : name \in names}
Pipes == {"in0", "in1", "out0", "out1", "err0", "err1"}
HelperFd == {<<<<>>, "helper">>}

NoProcess == [pc |-> "none", env |-> {}, login |-> FALSE, std |-> {}]

Init ==
  /\ scene \in Scenes
  /\ srv = [c \in Servers |->
       [alive |-> TRUE, closing |-> FALSE, pc |-> "loop", cur |-> <<>>, display |-> 0,
        after |-> "", sigchld |-> FALSE, handlers |-> {}, requests |-> <<>>, answers |-> <<>>,
        torn |-> FALSE, xfailed |-> FALSE]]
  /\ sess = [s \in Sessions |->
       [todo |-> scene.script[s], alive |-> TRUE, pty |-> "none", term |-> FALSE, info |-> FALSE,
        kind |-> "", process |-> "none", x11 |-> 0, listening |-> FALSE, ref |-> -1,
        leaky |-> FALSE, replies |-> <<>>, status |-> 0]]
  /\ proc = [s \in Sessions |-> NoProcess]
  /\ helper = [c \in Servers |-> init_pty_state(scene.root)]
  /\ log = [utmp |-> [s \in Sessions |-> Nobody], wtmp |-> <<>>]
  /\ files = [n \in Displays |-> [socket |-> Nobody, xauth |-> Nobody]]
  /\ fds = [p \in Servers \cup Sessions |->
       [open |-> IF p \in Servers /\ scene.helper THEN HelperFd ELSE {}, keep |-> {}]]
  /\ faults = 0

(* A system call that may fail: what is left of the bound.                 *)
MayFail(failure) ==
  IF failure THEN faults < MaxFaults /\ faults' = faults + 1 ELSE UNCHANGED faults

-----------------------------------------------------------------------------
(* Descriptors.  keep are those that an exec does not close.               *)

Opened(t, set) == [open |-> t.open \cup set, keep |-> t.keep \cup set]

(* Mutant of ClosedOnExec: the flag is not set.                            *)
NotClosedOnExec(t, set) == t

(* io_set_close_on_exec.                                                   *)
ClosedOnExec(t, set) == [t EXCEPT !.keep = @ \ set]
Closed(t, set) == [open |-> t.open \ set, keep |-> t.keep \ set]

-----------------------------------------------------------------------------
(* The event loop of lshd-connection.                                      *)

At(c, pc) == srv[c].alive /\ srv[c].pc = pc
Idle(c) == At(c, "loop")

Asked(c, s, kinds) ==
  /\ Idle(c) /\ ~srv[c].closing /\ s \in Of(c)
  /\ sess[s].alive /\ sess[s].todo # <<>> /\ Head(sess[s].todo) \in kinds

(* channel_request_reply.                                                  *)
Reply(k, ok) == [k EXCEPT !.todo = Tail(@), !.replies = Append(@, ok)]

(* pty_request_handler, pty_open_master: the master is closed on exec.     *)
CanHavePty(k) == k.pty = "none" /\ k.process = "none"

PtyGranted(c, s) ==
  /\ Asked(c, s, {"pty"}) /\ CanHavePty(sess[s])
  /\ sess' = [sess EXCEPT ![s] = Reply([@ EXCEPT !.pty = "held", !.term = TRUE], TRUE)]
  /\ fds' = [fds EXCEPT ![c] = ClosedOnExec(Opened(@, Fd(s, {"master"})), Fd(s, {"master"}))]
  /\ UNCHANGED <<scene, srv, proc, helper, log, files, faults>>

PtyRefused(c, s) ==
  /\ Asked(c, s, {"pty"}) /\ MayFail(CanHavePty(sess[s]))
  /\ sess' = [sess EXCEPT ![s] = Reply(@, FALSE)]
  /\ UNCHANGED <<scene, srv, proc, helper, log, files, fds>>

PtyRequest(c, s) == PtyGranted(c, s) \/ PtyRefused(c, s)

(* Shell, exec and subsystem requests when there is a process already; a   *)
(* command with a NUL, or a subsystem that is not configured.              *)
SpawnRefused(c, s) ==
  /\ Asked(c, s, {"shell", "exec", "subsystem"})
  /\ sess[s].process # "none" \/ Head(sess[s].todo) # "shell"
  /\ sess' = [sess EXCEPT ![s] = Reply(@, FALSE)]
  /\ UNCHANGED <<scene, srv, proc, helper, log, files, fds, faults>>

(* do_spawn_subsystem: does not use any pty.                               *)
WithoutPty(k) == IF k.pty = "none" THEN k ELSE [k EXCEPT !.pty = "none"]

(* make_pty asserts that the pty is alive, which it is not after an        *)
(* earlier attempt.  The process aborts, as it exits when it cannot read   *)
(* from the transport layer, and leaves everything as it is.               *)
MakePtyAborts(c, s) ==
  /\ Asked(c, s, {"shell", "exec"})
  /\ sess[s].process = "none" /\ sess[s].pty = "used"

Abort(c, s) ==
  /\ Idle(c) /\ ~srv[c].closing /\ s \in Of(c)
  /\ MayFail(~MakePtyAborts(c, s))
  /\ srv' = [srv EXCEPT ![c].alive = FALSE, ![c].pc = "aborted"]
  /\ fds' = [fds EXCEPT ![c] = [open |-> {}, keep |-> {}]]
  /\ UNCHANGED <<scene, sess, proc, helper, log, files>>

(* A message to the helper.                                                *)
Request(type, ref, from, tty) == [type |-> type, ref |-> ref, from |-> from, tty |-> tty]

(* make_pty, or make_pipes: which descriptors spawn_process opens, what is *)
(* left of the pty, and whether it goes on.  A pty of which no copy can be *)
(* made is forgotten, not closed: make_pty has marked it dead.             *)
Prepared(k, s, failure) ==
  IF k.pty = "held" /\ failure \notin {"dup_in", "dup_out"}
  THEN [ok |-> TRUE, pty |-> "used", open |-> Fd(s, {"in1", "out0"})]
  ELSE [ok |-> failure # "pipes", pty |-> "none",
        open |-> (IF failure = "dup_out" THEN Fd(s, {"copy"}) ELSE {})
                 \cup (IF failure = "pipes" THEN {} ELSE Fd(s, Pipes))]

AllFailures == {"", "pipes", "sync", "dup_in", "dup_out"}
Failures(k) == IF k.pty = "held" THEN AllFailures ELSE AllFailures \ {"dup_in", "dup_out"}

(* shell_request_handler, exec_request_handler and do_spawn_subsystem call *)
(* spawn_process, which makes the pipes, and then spawn_shell, which makes *)
(* the synchronization pipe.  failure names the call that fails, "" none.  *)
NewKind(s) == Head(sess[s].todo)
Spawnable(s) == IF NewKind(s) = "subsystem" THEN WithoutPty(sess[s]) ELSE sess[s]
Shut(s) ==
  IF NewKind(s) = "subsystem" /\ sess[s].pty = "held" THEN Fd(s, {"master"}) ELSE {}

CanSpawn(c, s, failure) ==
  /\ Asked(c, s, {"shell", "exec", "subsystem"})
  /\ sess[s].process = "none" /\ Spawnable(s).pty # "used"
  /\ failure \in Failures(Spawnable(s)) /\ MayFail(failure # "")

SpawnSession(s, failure) ==
  LET k == Spawnable(s)
  IN  [k EXCEPT !.pty = Prepared(k, s, failure).pty, !.info = k.pty # "none",
                !.kind = NewKind(s), !.leaky = @ \/ failure \in {"dup_out", "sync"}]

SpawnFds(t, s, failure, sync) ==
  Opened(Closed(t, Shut(s)), Prepared(Spawnable(s), s, failure).open \cup Fd(s, sync))

SpawnGoesOn(s, failure) == Prepared(Spawnable(s), s, failure).ok /\ failure # "sync"

SpawnFails(c, s, failure) ==
  /\ CanSpawn(c, s, failure) /\ ~SpawnGoesOn(s, failure)
  /\ sess' = [sess EXCEPT ![s] = Reply(SpawnSession(s, failure), FALSE)]
  /\ fds' = [fds EXCEPT ![c] = SpawnFds(@, s, failure, {})]
  /\ srv' = [srv EXCEPT ![c].cur = s]
  /\ UNCHANGED <<scene, proc, helper, log, files>>

(* Up to the request to the helper.                                        *)
SpawnAsks(c, s, failure) ==
  /\ CanSpawn(c, s, failure) /\ SpawnGoesOn(s, failure)
  /\ scene.helper /\ helper[c].alive
  /\ sess' = [sess EXCEPT ![s] = SpawnSession(s, failure)]
  /\ fds' = [fds EXCEPT ![c] = SpawnFds(@, s, failure, {"sync0", "sync1"})]
  /\ srv' = [srv EXCEPT ![c].pc = "create", ![c].cur = s,
       ![c].requests = pty_send_message(@,
         Request("CREATE", -1, c, IF Spawnable(s).pty # "none" THEN s ELSE NoTty))]
  /\ UNCHANGED <<scene, proc, helper, log, files>>

(* Up to the fork.                                                         *)
SpawnAlone(c, s, failure) ==
  /\ CanSpawn(c, s, failure) /\ SpawnGoesOn(s, failure)
  /\ ~(scene.helper /\ helper[c].alive)
  /\ sess' = [sess EXCEPT ![s] = SpawnSession(s, failure)]
  /\ fds' = [fds EXCEPT ![c] = SpawnFds(@, s, failure, {"sync0", "sync1"})]
  /\ srv' = [srv EXCEPT ![c].pc = "fork", ![c].cur = s]
  /\ UNCHANGED <<scene, proc, helper, log, files>>

Spawn(c, s) ==
  \E failure \in AllFailures :
    SpawnFails(c, s, failure) \/ SpawnAsks(c, s, failure) \/ SpawnAlone(c, s, failure)

(* send_helper_request when the answer has come, or the helper is gone.    *)
Answered(c) == srv[c].answers # <<>> \/ ~helper[c].alive

AnswerRef(c) ==
  IF srv[c].answers = <<>> \/ Head(srv[c].answers).error THEN -1 ELSE Head(srv[c].answers).ref

WithoutAnswer(v) == [v EXCEPT !.answers = IF @ = <<>> THEN @ ELSE Tail(@)]

Created(c) ==
  /\ At(c, "create") /\ Answered(c)
  /\ sess' = [sess EXCEPT ![srv[c].cur].ref = AnswerRef(c)]
  /\ srv' = [srv EXCEPT ![c] = [WithoutAnswer(@) EXCEPT !.pc = "fork"]]
  /\ UNCHANGED <<scene, proc, helper, log, files, fds, faults>>

(* Mutant of Fork: the parent does not close its end of the pipe.          *)
ForkKeepsSync(c) ==
  LET s == srv[c].cur
  IN  /\ At(c, "fork")
      /\ UNCHANGED <<scene, sess, helper, log, files, faults>>
      /\ srv' = [srv EXCEPT ![c].pc = "sync"]
      /\ proc' = [proc EXCEPT ![s].pc = "setup"]
      /\ fds' = [fds EXCEPT ![s] = Closed(fds[c], Fd(s, {"sync0"})),
                            ![c] = Closed(@, Fd(s, {"in0", "out1", "err1"}))]

(* The fork in spawn_shell.  The parent closes the child's descriptors and *)
(* waits.                                                                  *)
ForkChild(c) ==
  LET s == srv[c].cur
  IN  /\ At(c, "fork")
      /\ srv' = [srv EXCEPT ![c].pc = "sync"]
      /\ proc' = [proc EXCEPT ![s].pc = "setup"]
      /\ fds' = [fds EXCEPT ![s] = Closed(fds[c], Fd(s, {"sync0"})),
                            ![c] = Closed(@, Fd(s, {"sync1", "in0", "out1", "err1"}))]
      /\ UNCHANGED <<scene, sess, helper, log, files, faults>>

(* spawn_error closes all, and tells the helper if it knows of the session.*)
SpawnErrorFds(c) == [fds EXCEPT ![c] =
  Closed(@, Fd(srv[c].cur, Pipes \cup {"sync0", "sync1"}))]

HelperKnows(c, s) == sess[s].ref # -1 /\ helper[c].alive

ForkFailsTold(c) ==
  /\ At(c, "fork") /\ HelperKnows(c, srv[c].cur) /\ MayFail(TRUE)
  /\ srv' = [srv EXCEPT ![c].pc = "destroy", ![c].requests =
       pty_send_message(@, Request("DESTROY", sess[srv[c].cur].ref, c, NoTty))]
  /\ fds' = SpawnErrorFds(c)
  /\ UNCHANGED <<scene, sess, proc, helper, log, files>>

ForkFails(c) ==
  /\ At(c, "fork") /\ ~HelperKnows(c, srv[c].cur) /\ MayFail(TRUE)
  /\ srv' = [srv EXCEPT ![c].pc = "loop"]
  /\ sess' = [sess EXCEPT ![srv[c].cur] = Reply(@, FALSE)]
  /\ fds' = SpawnErrorFds(c)
  /\ UNCHANGED <<scene, proc, helper, log, files>>

Fork(c) == ForkChild(c) \/ ForkFailsTold(c) \/ ForkFails(c)

Destroyed(c) ==
  /\ At(c, "destroy") /\ Answered(c)
  /\ sess' = [sess EXCEPT ![srv[c].cur] = Reply([@ EXCEPT !.ref = -1], FALSE)]
  /\ srv' = [srv EXCEPT ![c] = [WithoutAnswer(@) EXCEPT !.pc = "loop"]]
  /\ UNCHANGED <<scene, proc, helper, log, files, fds, faults>>

(* Mutant of Synced: the parent does not wait for the child.               *)
SyncedAtOnce(c) ==
  LET s == srv[c].cur
  IN  /\ At(c, "sync")
      /\ srv' = [srv EXCEPT ![c].pc = "loop", ![c].handlers = @ \cup {s}]
      /\ sess' = [sess EXCEPT ![s] = Reply([@ EXCEPT !.process = "alive"], TRUE)]
      /\ fds' = [fds EXCEPT ![c] =
           ClosedOnExec(Closed(@, Fd(s, {"sync0"})), Fd(s, {"in1", "out0", "err0"}))]
      /\ UNCHANGED <<scene, proc, helper, log, files, faults>>

(* spawn_parent, when nobody holds the other end of the synchronization    *)
(* pipe, and the rest of spawn_process: io_register_fd marks the           *)
(* descriptors to be closed on exec.                                       *)
Synced(c) ==
  LET s == srv[c].cur
  IN  /\ At(c, "sync")
      /\ \A p \in DOMAIN fds : <<s, "sync1">> \notin fds[p].open
      /\ srv' = [srv EXCEPT ![c].pc = "loop", ![c].handlers = @ \cup {s}]
      /\ sess' = [sess EXCEPT ![s] = Reply([@ EXCEPT !.process = "alive"], TRUE)]
      /\ fds' = [fds EXCEPT ![c] =
           ClosedOnExec(Closed(@, Fd(s, {"sync0"})), Fd(s, {"in1", "out0", "err0"}))]
      /\ UNCHANGED <<scene, proc, helper, log, files, faults>>

-----------------------------------------------------------------------------
(* The child: spawn_child and exec_shell.                                  *)

Exited(s) == [proc EXCEPT ![s].pc = "zombie", ![s].std = {}]
NoFds(s) == [fds EXCEPT ![s] = [open |-> {}, keep |-> {}]]

(* init_spawn_info and exec_shell.                                         *)
Environment(k) ==
  {"SHELL", "HOME", "USER", "LOGNAME"}
    \cup (IF k.term THEN {"TERM"} ELSE {})
    \cup (IF k.info THEN {"SSH_TTY"} ELSE {})
    \cup (IF k.x11 # 0 THEN {"DISPLAY", "XAUTHORITY"} ELSE {})

(* The end of spawn_child, and exec_shell: the child closes the            *)
(* synchronization pipe and its session's descriptors, and the exec those  *)
(* marked for it; its stdio are pipes or the slave.                        *)
Start(s) ==
  /\ proc' = [proc EXCEPT ![s] =
       [pc |-> "running", env |-> Environment(sess[s]), login |-> sess[s].kind = "shell",
        std |-> IF sess[s].pty = "used" THEN Fd(s, {"slave"}) ELSE Fd(s, {"in0", "out1", "err1"})]]
  /\ fds' = [fds EXCEPT ![s] =
       LET t == Closed(@, Fd(s, Pipes \cup {"sync1"})) IN [t EXCEPT !.open = t.keep]]

(* setsid and pty_open_slave may fail; the helper is asked to record the   *)
(* login if there is one.                                                  *)
SetupFails(s) ==
  /\ proc[s].pc = "setup" /\ MayFail(TRUE)
  /\ proc' = Exited(s) /\ fds' = NoFds(s)
  /\ srv' = [srv EXCEPT ![ServerOf(s)].sigchld = TRUE]
  /\ UNCHANGED <<scene, sess, helper, log, files>>

AskLogin(s) ==
  /\ proc[s].pc = "setup" /\ HelperKnows(ServerOf(s), s)
  /\ proc' = [proc EXCEPT ![s].pc = "login"]
  /\ srv' = [srv EXCEPT ![ServerOf(s)].requests =
       pty_send_message(@, Request("LOGIN", sess[s].ref, s, NoTty))]
  /\ UNCHANGED <<scene, sess, helper, log, files, fds, faults>>

StartUnrecorded(s) ==
  /\ proc[s].pc = "setup" /\ ~HelperKnows(ServerOf(s), s)
  /\ Start(s)
  /\ UNCHANGED <<scene, srv, sess, helper, log, files, faults>>

Setup(s) == SetupFails(s) \/ AskLogin(s) \/ StartUnrecorded(s)

LoggedIn(s) ==
  LET c == ServerOf(s)
  IN  /\ proc[s].pc = "login" /\ Answered(c)
      /\ srv' = [srv EXCEPT ![c] = WithoutAnswer(@)]
      /\ Start(s)
      /\ UNCHANGED <<scene, sess, helper, log, files, faults>>

(* The process ends, by itself or by a signal, and its parent gets SIGCHLD *)
(* (if there is one; otherwise init reaps it).                             *)
Ends(s) ==
  LET c == ServerOf(s)
  IN  /\ proc[s].pc \in {"setup", "login", "running"}
      /\ MayFail(proc[s].pc # "running")
      /\ proc' = IF srv[c].alive THEN Exited(s) ELSE [Exited(s) EXCEPT ![s].pc = "reaped"]
      /\ fds' = NoFds(s)
      /\ srv' = [srv EXCEPT ![c].sigchld = srv[c].alive,
                            ![c].torn = @ \/ proc[s].pc = "login"]
      /\ UNCHANGED <<scene, sess, helper, log, files>>

-----------------------------------------------------------------------------
(* reaper.c: liboop calls do_reaper_callback from the event loop.          *)

SigChld(c) ==
  /\ Idle(c) /\ ~srv[c].closing /\ srv[c].sigchld
  /\ srv' = [srv EXCEPT ![c].pc = "reap", ![c].sigchld = FALSE]
  /\ UNCHANGED <<scene, sess, proc, helper, log, files, fds, faults>>

Zombies(c) == {s \in Of(c) : proc[s].pc = "zombie"}

(* do_exit_shell: exit-status or exit-signal, unless the channel has been  *)
(* closed.                                                                 *)
do_exit_shell(k) == IF k.alive THEN [k EXCEPT !.status = @ + 1] ELSE k

(* Mutant of Reap: only one child is waited for.                           *)
ReapOne(c) ==
  /\ At(c, "reap")
  /\ UNCHANGED <<scene, helper, log, files, fds, faults>>
  /\ \E s \in Zombies(c) :
       /\ proc' = [proc EXCEPT ![s].pc = "reaped"]
       /\ sess' = [sess EXCEPT ![s] = [do_exit_shell(@) EXCEPT !.process = "dead"]]
       /\ srv' = [srv EXCEPT ![c].handlers = @ \ {s}, ![c].pc = "loop"]

(* waitpid, until there is no zombie left.                                 *)
ReapEnds(c) ==
  /\ At(c, "reap") /\ Zombies(c) = {}
  /\ srv' = [srv EXCEPT ![c].pc = "loop"]
  /\ UNCHANGED <<scene, sess, proc, helper, log, files, fds, faults>>

ReapUnknown(c, s) ==
  /\ At(c, "reap") /\ s \in Zombies(c) /\ s \notin srv[c].handlers
  /\ proc' = [proc EXCEPT ![s].pc = "reaped"]
  /\ UNCHANGED <<scene, srv, sess, helper, log, files, fds, faults>>

(* A registered child has do_logout_notice called, which marks the process *)
(* as dead and tells the helper before it calls do_exit_shell.             *)
ReapTold(c, s) ==
  /\ At(c, "reap") /\ s \in Zombies(c) /\ s \in srv[c].handlers /\ HelperKnows(c, s)
  /\ proc' = [proc EXCEPT ![s].pc = "reaped"]
  /\ sess' = [sess EXCEPT ![s].process = "dead"]
  /\ srv' = [srv EXCEPT ![c].handlers = @ \ {s}, ![c].pc = "logout", ![c].cur = s,
       ![c].requests = pty_send_message(@, Request("LOGOUT", sess[s].ref, c, NoTty))]
  /\ UNCHANGED <<scene, helper, log, files, fds, faults>>

ReapUntold(c, s) ==
  /\ At(c, "reap") /\ s \in Zombies(c) /\ s \in srv[c].handlers /\ ~HelperKnows(c, s)
  /\ proc' = [proc EXCEPT ![s].pc = "reaped"]
  /\ sess' = [sess EXCEPT ![s] = [do_exit_shell(@) EXCEPT !.process = "dead"]]
  /\ srv' = [srv EXCEPT ![c].handlers = @ \ {s}, ![c].cur = s]
  /\ UNCHANGED <<scene, helper, log, files, fds, faults>>

Reap(c) ==
  \/ ReapEnds(c)
  \/ \E s \in Sessions : ReapUnknown(c, s) \/ ReapTold(c, s) \/ ReapUntold(c, s)

LoggedOut(c) ==
  LET s == srv[c].cur
  IN  /\ At(c, "logout") /\ Answered(c)
      /\ sess' = [sess EXCEPT ![s] = [do_exit_shell(@) EXCEPT !.ref = -1]]
      /\ srv' = [srv EXCEPT ![c] = [WithoutAnswer(@) EXCEPT !.pc = "reap"]]
      /\ UNCHANGED <<scene, proc, helper, log, files, fds, faults>>

-----------------------------------------------------------------------------
(* X11 (server_x11.c).                                                     *)

(* x11_request_handler, server_x11_setup up to the bind.                   *)
CanHaveX11(k) == k.x11 = 0 /\ k.process = "none"

X11Accepted(c, s) ==
  /\ Asked(c, s, {"x11"}) /\ CanHaveX11(sess[s])
  /\ srv' = [srv EXCEPT ![c].pc = "bind", ![c].cur = s, ![c].display = MinDisplay]
  /\ UNCHANGED <<scene, sess, proc, helper, log, files, fds, faults>>

X11Refused(c, s) ==
  /\ Asked(c, s, {"x11"}) /\ MayFail(CanHaveX11(sess[s]))
  /\ sess' = [sess EXCEPT ![s] = Reply(@, FALSE)]
  /\ UNCHANGED <<scene, srv, proc, helper, log, files, fds>>

X11Request(c, s) == X11Accepted(c, s) \/ X11Refused(c, s)

(* Mutant of open_x11_socket: a socket that is there is taken to be stale. *)
BindAnyway(c) ==
  /\ At(c, "bind")
  /\ files' = [files EXCEPT ![srv[c].display].socket = srv[c].cur]
  /\ srv' = [srv EXCEPT ![c].pc = "xauth"]
  /\ UNCHANGED <<scene, sess, proc, helper, log, fds, faults>>

(* One round of the loop in open_x11_socket.                               *)
BindFree(c) ==
  LET n == srv[c].display
  IN  /\ At(c, "bind") /\ n \in Displays /\ files[n].socket = Nobody
      /\ files' = [files EXCEPT ![n].socket = srv[c].cur]
      /\ srv' = [srv EXCEPT ![c].pc = "xauth"]
      /\ UNCHANGED <<scene, sess, proc, helper, log, fds, faults>>

BindTaken(c) ==
  LET n == srv[c].display
  IN  /\ At(c, "bind") /\ n \in Displays /\ files[n].socket # Nobody
      /\ srv' = [srv EXCEPT ![c].display = n + 1]
      /\ UNCHANGED <<scene, sess, proc, helper, log, files, fds, faults>>

BindNone(c) ==
  /\ At(c, "bind") /\ srv[c].display \notin Displays
  /\ sess' = [sess EXCEPT ![srv[c].cur] = Reply(@, FALSE)]
  /\ srv' = [srv EXCEPT ![c].pc = "loop"]
  /\ UNCHANGED <<scene, proc, helper, log, files, fds, faults>>

open_x11_socket(c) == BindFree(c) \/ BindTaken(c) \/ BindNone(c)

(* create_xauth, which does not take a file that exists, and io_listen.    *)
(* If either fails the port is killed.                                     *)
XauthNew(c) == files[srv[c].display].xauth = Nobody

PortOpens(c) ==
  /\ At(c, "xauth") /\ XauthNew(c)
  /\ files' = [files EXCEPT ![srv[c].display].xauth = srv[c].cur]
  /\ sess' = [sess EXCEPT ![srv[c].cur] =
       Reply([@ EXCEPT !.x11 = srv[c].display, !.listening = TRUE], TRUE)]
  /\ srv' = [srv EXCEPT ![c].pc = "loop"]
  /\ UNCHANGED <<scene, proc, helper, log, fds, faults>>

PortFails(c) ==
  /\ At(c, "xauth") /\ MayFail(XauthNew(c))
  /\ files' = IF XauthNew(c) THEN [files EXCEPT ![srv[c].display].xauth = srv[c].cur] ELSE files
  /\ srv' = [srv EXCEPT ![c].pc = "unlink", ![c].after = "refuse", ![c].xfailed = TRUE]
  /\ UNCHANGED <<scene, sess, proc, helper, log, fds>>

create_xauth(c) == PortOpens(c) \/ PortFails(c)

(* do_x11_listen_port_accept of a port for a single connection.            *)
AcceptSingle(c, s) ==
  /\ Idle(c) /\ ~srv[c].closing /\ s \in Of(c)
  /\ sess[s].listening /\ scene.single
  /\ sess' = [sess EXCEPT ![s].listening = FALSE]
  /\ srv' = [srv EXCEPT ![c].pc = "unlink", ![c].after = "loop", ![c].cur = s,
                        ![c].display = sess[s].x11]
  /\ UNCHANGED <<scene, proc, helper, log, files, fds, faults>>

(* do_kill_x11_listen_port, after the port has been marked as dead.        *)
UnlinkSocket(c) ==
  /\ At(c, "unlink")
  /\ files' = [files EXCEPT ![srv[c].display].socket = Nobody]
  /\ srv' = [srv EXCEPT ![c].pc = "unlink_xauth"]
  /\ UNCHANGED <<scene, sess, proc, helper, log, fds, faults>>

(* The end of do_kill_server_session.                                      *)
SessionFds(s) == Fd(s, {"in1", "out0", "err0"})

UnlinkXauth(c) ==
  LET s == srv[c].cur
  IN  /\ At(c, "unlink_xauth")
      /\ files' = [files EXCEPT ![srv[c].display].xauth = Nobody]
      /\ srv' = [srv EXCEPT ![c].pc = "loop"]
      /\ sess' = IF srv[c].after = "refuse" THEN [sess EXCEPT ![s] = Reply(@, FALSE)] ELSE sess
      /\ fds' = IF srv[c].after = "close" THEN [fds EXCEPT ![c] = Closed(@, SessionFds(s))] ELSE fds
      /\ UNCHANGED <<scene, proc, helper, log, faults>>

-----------------------------------------------------------------------------
(* Closing.                                                                *)

(* do_kill_process: a signal to a process that has been waited for goes    *)
(* astray.                                                                 *)
do_kill_process(s) ==
  IF sess[s].process = "alive" /\ proc[s].pc = "reaped"
  THEN [proc EXCEPT ![s].pc = "astray"] ELSE proc

(* do_kill_server_session.  A pty that is in use is not closed:            *)
(* do_kill_pty_info does nothing, since make_pty has marked it as dead.    *)
CloseSession(c, s) ==
  /\ Idle(c) /\ s \in Of(c) /\ sess[s].alive
  /\ proc' = do_kill_process(s)
  /\ sess' = [sess EXCEPT ![s].alive = FALSE, ![s].listening = FALSE,
                          ![s].process = IF @ = "alive" THEN "dead" ELSE @]
  /\ srv' = IF sess[s].listening
            THEN [srv EXCEPT ![c].pc = "unlink", ![c].after = "close", ![c].cur = s,
                             ![c].display = sess[s].x11] ELSE srv
  /\ fds' = [fds EXCEPT ![c] =
       Closed(@, (IF sess[s].pty = "held" THEN Fd(s, {"master"}) ELSE {})
                 \cup IF sess[s].listening THEN {} ELSE SessionFds(s))]
  /\ UNCHANGED <<scene, helper, log, files, faults>>

(* The connection is lost: kill_lshd_connection closes all sessions, and   *)
(* the event loop ends.                                                    *)
Disconnect(c) ==
  /\ Idle(c) /\ ~srv[c].closing
  /\ srv' = [srv EXCEPT ![c].closing = TRUE]
  /\ UNCHANGED <<scene, sess, proc, helper, log, files, fds, faults>>

ServerExit(c) ==
  /\ Idle(c) /\ srv[c].closing
  /\ \A s \in Of(c) : ~sess[s].alive
  /\ srv' = [srv EXCEPT ![c].alive = FALSE, ![c].sigchld = FALSE]
  /\ fds' = [fds EXCEPT ![c] = [open |-> {}, keep |-> {}]]
  /\ proc' = [s \in Sessions |->
       IF s \in Zombies(c) THEN [proc[s] EXCEPT !.pc = "reaped"] ELSE proc[s]]
  /\ UNCHANGED <<scene, sess, helper, log, files, faults>>

-----------------------------------------------------------------------------
(* The pty helper's main loop.                                             *)

HelperServes(c) ==
  /\ helper[c].alive /\ srv[c].requests # <<>>
  /\ \E ok \in BOOLEAN :
       LET request == Head(srv[c].requests)
           r       == process_request(helper[c], log, request, ok)
       IN  /\ ~ok => request.type = "CREATE"
           /\ MayFail(~ok)
           /\ helper' = [helper EXCEPT ![c] = r.helper]
           /\ log' = r.log
           /\ srv' = [srv EXCEPT ![c].requests = Tail(@),
                                 ![c].answers = pty_send_message(@, r.answer)]
  /\ UNCHANGED <<scene, sess, proc, files, fds>>

(* At the end of file, or when sending an answer fails.                    *)
HelperExits(c) ==
  /\ helper[c].alive
  /\ LET eof == /\ \A p \in {c} \cup Of(c) : HelperFd \cap fds[p].open = {}
                /\ srv[c].requests = <<>>
     IN  MayFail(~eof)
  /\ helper' = [helper EXCEPT ![c].alive = FALSE]
  /\ UNCHANGED <<scene, srv, sess, proc, log, files, fds>>

-----------------------------------------------------------------------------
(* What lshd-connection, its children and its helper do without being      *)
(* asked to.                                                               *)
ServerStep(c) ==
  \/ Created(c) \/ Fork(c) \/ Destroyed(c) \/ Synced(c)
  \/ SigChld(c) \/ Reap(c) \/ LoggedOut(c)
  \/ open_x11_socket(c) \/ create_xauth(c) \/ UnlinkSocket(c) \/ UnlinkXauth(c)

ClientStep(c, s) ==
  \/ PtyRequest(c, s) \/ Spawn(c, s) \/ SpawnRefused(c, s) \/ Abort(c, s)
  \/ X11Request(c, s) \/ AcceptSingle(c, s) \/ CloseSession(c, s)

ChildStep(s) == Setup(s) \/ LoggedIn(s)

Next ==
  \/ \E c \in Servers :
       ServerStep(c) \/ Disconnect(c) \/ ServerExit(c) \/ HelperServes(c) \/ HelperExits(c)
  \/ \E c \in Servers, s \in Sessions : ClientStep(c, s)
  \/ \E s \in Sessions : ChildStep(s) \/ Ends(s)

AllSessions == UNION {DOMAIN sc.script : sc \in Scenes}

(* Every process goes on if it can.                                        *)
Spec ==
  /\ Init /\ [][Next]_vars
  /\ \A c \in {ServerOf(s) : s \in AllSessions} :
       /\ WF_vars(c \in Servers /\ ServerStep(c))
       /\ WF_vars(c \in Servers /\ HelperServes(c))
  /\ \A s \in AllSessions : WF_vars(s \in Sessions /\ ChildStep(s))

-----------------------------------------------------------------------------
(* lshd-connection and the child it has forked talk to the helper over one *)
(* socket, and read from it without looking at whom an answer is for.      *)
(* spawn_parent's wait for the child ("helps for syncronization of the     *)
(* parent's and the child's requests") makes the only reader the one that  *)
(* the answer is for, unless a child was killed while it waited.           *)
Readers(c) ==
  (IF srv[c].alive /\ srv[c].pc \in {"create", "destroy", "logout"} THEN {c} ELSE {})
    \cup {s \in Of(c) : proc[s].pc = "login"}

AnswersMatch ==
  \A c \in Servers :
    (srv[c].answers # <<>> /\ ~srv[c].torn)
      => /\ Readers(c) = {Head(srv[c].answers).to}
         /\ Len(srv[c].answers) = 1 /\ srv[c].requests = <<>>

(* The helper has an object for each process that lshd-connection has not  *)
(* yet reported as logged out, and no other; utmp shows a login on a       *)
(* terminal while, and only while, the process that owns it has started    *)
(* and has not been logged out (unless the helper has failed).             *)
LoginsRecorded ==
  \A c \in Servers :
    (/\ srv[c].alive /\ helper[c].alive /\ ~srv[c].torn
     /\ srv[c].pc \notin {"create", "destroy", "logout"})
      => LET logged == {s \in Of(c) : sess[s].ref # -1}
         IN  /\ InUse(helper[c]) = {sess[s].ref : s \in logged}
             /\ \A s, t \in logged : sess[s].ref = sess[t].ref => s = t
             /\ \A s \in Of(c) : proc[s].pc # "login" =>
                  (log.utmp[s] = s <=> s \in logged /\ sess[s].info /\ proc[s].env # {})

(* Every child is waited for, whenever it dies, its callback is called     *)
(* once, so that an open session gets its exit status, and no signal is    *)
(* sent to a process that has been waited for (reaper.c, do_logout_notice, *)
(* do_kill_process).                                                       *)
ExitsReported ==
  \A c \in Servers : srv[c].alive =>
    /\ (srv[c].pc = "loop" /\ ~srv[c].sigchld) => Zombies(c) = {}
    /\ \A s \in Of(c) :
         /\ proc[s].pc # "astray"
         /\ sess[s].status <= 1
         /\ (proc[s].pc = "reaped" /\ (srv[c].pc = "logout" => srv[c].cur # s))
              => sess[s].process = "dead" /\ (sess[s].alive => sess[s].status = 1)

(* A process is started with its stdio and with no other descriptor of     *)
(* lshd-connection, in particular none of the helper's socket or of        *)
(* another session's pipes, which would keep that session's stdin open;    *)
(* and a session that is over has no descriptor but the master of its pty. *)
(* The descriptors of a spawn that failed for lack of a pipe or of a copy  *)
(* of the master are the exception.                                        *)
DescriptorsPrivate ==
  \A s \in Sessions :
    LET c == ServerOf(s)
    IN  /\ proc[s].pc = "running" =>
             \A f \in fds[s].open : f[1] \in Sessions /\ sess[f[1]].leaky
        /\ (~sess[s].alive /\ srv[c].pc = "loop" /\ ~sess[s].leaky) =>
             \A f \in fds[c].open : f[1] = s => f[2] = "master"

(* The display that a process is given is its own as long as its port is   *)
(* open: the socket is, and the xauthority file is unless create_xauth has *)
(* failed before.                                                          *)
DisplayKept ==
  \A s \in Sessions : sess[s].listening =>
    /\ files[sess[s].x11].socket = s
    /\ \/ files[sess[s].x11].xauth = s
       \/ \E c \in Servers : srv[c].xfailed

(* lshd-connection comes back to its event loop: neither the helper nor a  *)
(* child makes it wait for ever (send_helper_request, spawn_parent).       *)
Responsive ==
  \A c \in {ServerOf(s) : s \in AllSessions} :
    (c \in Servers /\ srv[c].alive) ~> (c \in Servers /\ (Idle(c) \/ ~srv[c].alive))
=============================================================================
