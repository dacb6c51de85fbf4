------------------------------- MODULE Login -------------------------------
(***************************************************************************)
(* From the command line of lsh to a running service: lsh (lsh.c) reads    *)
(* its options, stops or joins the gateway of an earlier lsh, or forks     *)
(* lsh-transport, which logs in to lshd (UserAuth).  All of them run       *)
(* concurrently.  Instead of lsh-transport there may be another client,    *)
(* which sends requests lsh-transport never sends, and instead of lshd     *)
(* another server, which for example asks questions                        *)
(* (keyboard-interactive).                                                 *)
(***************************************************************************)
EXTENDS UserAuth, Integers

CONSTANTS
  Scenarios,      \* configurations that a behaviour may start with
  OtherRequests,  \* what a client other than lsh-transport may send
  OtherReplies,   \* what a server other than lshd may send
  MaxExchanges,   \* key re-exchanges in a behaviour
  MaxOther        \* messages of the other client or server

VARIABLES
  opt,      \* what was configured
  lsh,      \* the lsh process
  old,      \* the gateway of an earlier lsh
  tr,       \* the lsh-transport process
  srv,      \* the connection in lshd
  ua,       \* lshd-userauth, later the service process
  up, down, \* packets to the server and to the client
  files,    \* the files that host keys are remembered in
  count     \* what is bounded: exchanges, messages of the others, runs

vars == <<opt, lsh, old, tr, srv, ua, up, down, files, count>>

-----------------------------------------------------------------------------
(* The options of lsh.                                                     *)

NewOptions ==
  [not |-> FALSE, use_gateway |-> -1, start_gateway |-> 0, stop_gateway |-> FALSE,
   with_pty |-> -1, used_pty |-> FALSE, with_x11 |-> FALSE, stdin_file |-> FALSE, used_stdin |-> FALSE,
   detach |-> FALSE, start_shell |-> TRUE, remote_forward |-> FALSE, x11_forward |-> FALSE,
   actions |-> <<>>, error |-> FALSE]

(* stdin goes to one session only; the others read /dev/null.              *)
make_client_session(o) ==
  IF o.stdin_file THEN [in |-> "file", o |-> [o EXCEPT !.stdin_file = FALSE]]
  ELSE IF o.used_stdin THEN [in |-> "null", o |-> o]
  ELSE [in |-> "stdin", o |-> [o EXCEPT !.used_stdin = TRUE]]

(* So does the terminal.                                                   *)
maybe_pty(o, default_pty) ==
  (IF o.with_pty < 0 THEN default_pty ELSE o.with_pty = 1) /\ ~o.used_pty

AddSession(o, kind, pty, x11) ==
  LET s == make_client_session([o EXCEPT !.used_pty = @ \/ pty, !.x11_forward = @ \/ x11])
  IN [s.o EXCEPT !.actions = Append(@, [kind |-> kind, in |-> s.in, pty |-> pty /\ opt.tty, x11 |-> x11])]

client_shell_session(o) == AddSession(o, "shell", maybe_pty(o, TRUE), o.with_x11 /\ opt.display)
client_command_session(o) == AddSession(o, "command", maybe_pty(o, FALSE), o.with_x11 /\ opt.display)
client_subsystem_session(o) == AddSession(o, "subsystem", FALSE, FALSE)

add_action(o, kind) ==
  [o EXCEPT !.actions = Append(@, [kind |-> kind, in |-> "none", pty |-> FALSE, x11 |-> FALSE])]

(* An option that "-n" turns around.                                       *)
FlagValue(o) == IF o.not THEN 0 ELSE 1

GatewayOption(o, key) ==
  CASE key = "use-gateway"    -> [o EXCEPT !.use_gateway = FlagValue(o), !.not = FALSE]
    [] key = "no-use-gateway" -> [o EXCEPT !.use_gateway = 0]
    [] key = "G"              -> [o EXCEPT !.start_gateway = -1]
    [] key = "start-gateway"  -> [o EXCEPT !.start_gateway = 1, !.stop_gateway = TRUE]
    [] key = "stop-gateway"   -> [o EXCEPT !.stop_gateway = TRUE]

SessionOption(o, key) ==
  CASE key = "E"         -> client_command_session(o)
    [] key = "command"   -> [client_command_session(o) EXCEPT !.start_shell = FALSE]
    [] key = "S"         -> client_shell_session(o)
    [] key = "subsystem" -> [client_subsystem_session(o) EXCEPT !.start_shell = FALSE, !.with_pty = 0]
    [] key = "stdin"     -> [o EXCEPT !.stdin_file = TRUE, !.not = FALSE]
    [] key = "t"         -> [o EXCEPT !.with_pty = FlagValue(o), !.not = FALSE]
    [] key = "x"         -> [o EXCEPT !.with_x11 = FlagValue(o) = 1, !.not = FALSE]
    [] key = "N"         -> [o EXCEPT !.start_shell = FALSE]
    [] key = "B"         -> [o EXCEPT !.start_shell = FALSE, !.detach = TRUE]

ForwardOption(o, key) ==
  IF key = "R" THEN [add_action(o, key) EXCEPT !.remote_forward = TRUE] ELSE add_action(o, key)

main_argp_parser(o, key) ==
  CASE key = "n" -> [o EXCEPT !.not = ~@]
    [] key \in {"use-gateway", "no-use-gateway", "G", "start-gateway", "stop-gateway"}
         -> GatewayOption(o, key)
    [] key \in {"L", "D", "R"} -> ForwardOption(o, key)
    [] OTHER -> SessionOption(o, key)

(* ARGP_KEY_END: consistency, then the shell that is the default action.   *)
EndOfOptions(o) ==
  IF o.start_gateway > 0 /\ o.use_gateway > 0 THEN [o EXCEPT !.error = TRUE]
  ELSE LET s == IF o.start_shell THEN client_shell_session(o) ELSE o
       IN [s EXCEPT !.error = s.actions = <<>> /\ ~s.stop_gateway /\ s.start_gateway = 0]

ParseOptions(args) ==
  LET parse[k \in 0..Len(args)] ==
        IF k = 0 THEN NewOptions ELSE main_argp_parser(parse[k - 1], args[k])
  IN EndOfOptions(parse[Len(args)])

-----------------------------------------------------------------------------
NewLsh == [pc |-> "options", o |-> NewOptions, fd |-> "none", exit |-> -1, port |-> FALSE, ran |-> <<>>]
NewConnections == [stop |-> "none", use |-> "none"]

Init ==
  /\ opt \in Scenarios
  /\ lsh = IF opt.client = "lsh" THEN NewLsh ELSE [NewLsh EXCEPT !.pc = "exit"]
  /\ old = [alive |-> opt.gateway # "none", listening |-> opt.gateway # "none",
            busy |-> opt.gateway = "busy", got_stop |-> FALSE, conn |-> NewConnections]
  /\ tr = NoTransport
  /\ srv = [state |-> IF opt.client = "lsh" THEN "none" ELSE "service"]
  /\ ua = NoUserauth
  /\ up = <<>> /\ down = <<>>
  /\ files = [acls |-> opt.known, other |-> {}]
  /\ count = [exchanges |-> 0, other |-> 0, runs |-> 1]

Exit(l, code) == [l EXCEPT !.pc = "exit", !.exit = code]

(* Failing to stop a gateway matters only if nothing else is to be done.   *)
AfterStop(l, code) == IF l.o.start_gateway = 0 THEN Exit(l, code) ELSE [l EXCEPT !.pc = "connect"]

(* The options are read; then a gateway is stopped if so asked.            *)
LshOptions ==
  /\ lsh.pc = "options"
  /\ LET o == ParseOptions(opt.args)
     IN lsh' = IF o.error THEN Exit(lsh, 1)
               ELSE [lsh EXCEPT !.o = o, !.pc = IF o.stop_gateway THEN "stop" ELSE "connect"]
  /\ UNCHANGED <<opt, old, tr, srv, ua, up, down, files, count>>

LshStop ==
  /\ lsh.pc = "stop"
  /\ IF old.listening
     THEN lsh' = [lsh EXCEPT !.pc = "stop_hello"] /\ old' = [old EXCEPT !.conn.stop = "backlog"]
     ELSE lsh' = AfterStop(lsh, 1) /\ UNCHANGED old
  /\ UNCHANGED <<opt, tr, srv, ua, up, down, files, count>>

(* The stop message is sent once the gateway has said hello; nothing is    *)
(* read back before the connection is closed.                              *)
LshStopHello ==
  /\ lsh.pc = "stop_hello"
  /\ \/ /\ old.conn.stop = "accepted"
        /\ lsh' = AfterStop(lsh, 0)
        /\ old' = [old EXCEPT !.conn.stop = "stopping"]
     \/ /\ old.conn.stop = "closed"
        /\ lsh' = AfterStop(lsh, 1) /\ UNCHANGED old
  /\ UNCHANGED <<opt, tr, srv, ua, up, down, files, count>>

LshConnect ==
  /\ lsh.pc = "connect"
  /\ IF lsh.o.use_gateway # 0 /\ old.listening
     THEN /\ lsh' = [lsh EXCEPT !.pc = "hello", !.fd = "gateway"]
          /\ old' = [old EXCEPT !.conn.use = "backlog"]
     ELSE /\ lsh' = [lsh EXCEPT !.pc = "fork",
                       !.o.start_gateway = IF lsh.o.use_gateway # 0 /\ @ < 0 THEN 1 ELSE @]
          /\ UNCHANGED old
  /\ UNCHANGED <<opt, tr, srv, ua, up, down, files, count>>

(* fork_lsh_transport; the child reads its own options and connects.       *)
LshFork ==
  /\ lsh.pc = "fork"
  /\ \/ /\ lsh.o.use_gateway # 1
        /\ lsh' = [lsh EXCEPT !.pc = "hello", !.fd = "transport"]
        /\ tr' = NewTransport(opt, files)
     \/ lsh' = Exit(lsh, 1) /\ UNCHANGED tr
  /\ UNCHANGED <<opt, old, srv, ua, up, down, files, count>>

(* process_hello_message blocks until the other end says hello or closes.  *)
HelloArrives == IF lsh.fd = "gateway" THEN old.conn.use = "accepted" ELSE tr.state = "forward"
HelloLost == IF lsh.fd = "gateway" THEN old.conn.use = "closed" ELSE tr.state = "exit"

LshHello ==
  /\ lsh.pc = "hello"
  /\ \/ HelloArrives /\ lsh' = [lsh EXCEPT !.pc = "setup"]
     \/ HelloLost /\ lsh' = Exit(lsh, 1)
  /\ UNCHANGED <<opt, old, tr, srv, ua, up, down, files, count>>

(* The gateway socket is bound, the queued actions are started in order,   *)
(* and lsh may move to the background (the parent exits).                  *)
LshSetup ==
  /\ lsh.pc = "setup"
  /\ \E bound \in BOOLEAN :
       LET port == lsh.o.start_gateway = 1 /\ bound
       IN lsh' = [lsh EXCEPT !.pc = "run", !.port = port, !.ran = lsh.o.actions,
                    !.o.actions = <<>>,
                    !.o.x11_forward = @ \/ port, !.o.remote_forward = @ \/ port]
  /\ UNCHANGED <<opt, old, tr, srv, ua, up, down, files, count>>

-----------------------------------------------------------------------------
(* The gateway of the earlier lsh: accept and stop, in any order.          *)

OldAccepts(c) ==
  /\ old.listening /\ old.conn[c] = "backlog"
  /\ old' = [old EXCEPT !.conn[c] = "accepted"]
  /\ UNCHANGED <<opt, lsh, tr, srv, ua, up, down, files, count>>

CloseAll(conn, which) == [c \in DOMAIN conn |-> IF conn[c] \in which THEN "closed" ELSE conn[c]]

(* The stop message closes the port, and the whole process if no channel   *)
(* is open; connections not yet accepted are lost with the port.           *)
OldStops ==
  /\ old.alive /\ old.conn.stop = "stopping" /\ ~old.got_stop
  /\ old' = [old EXCEPT !.got_stop = TRUE, !.listening = FALSE, !.alive = old.busy,
               !.conn = CloseAll(@, IF old.busy THEN {"backlog"} ELSE {"backlog", "accepted"})]
  /\ UNCHANGED <<opt, lsh, tr, srv, ua, up, down, files, count>>

(* Its connection ends; after a stop, when the last channel closes.        *)
OldDies ==
  /\ old.alive
  /\ old' = [old EXCEPT !.alive = FALSE, !.listening = FALSE,
               !.conn = CloseAll(@, {"backlog", "accepted", "stopping"})]
  /\ UNCHANGED <<opt, lsh, tr, srv, ua, up, down, files, count>>

-----------------------------------------------------------------------------
(* lsh-transport.                                                          *)

TrConnect ==
  /\ tr.state = "connect"
  /\ \/ tr' = [tr EXCEPT !.state = "lines"] /\ srv' = [state |-> "handshake"]
     \/ tr' = [tr EXCEPT !.state = "exit"] /\ UNCHANGED srv
  /\ UNCHANGED <<opt, lsh, old, ua, up, down, files, count>>

TrLine ==
  /\ tr.state = "lines"
  /\ \E line \in opt.lines : tr' = lsh_transport_line_handler(tr, line)
  /\ UNCHANGED <<opt, lsh, old, srv, ua, up, down, files, count>>

(* The key exchange, which ends with the check of the host key.  The first *)
(* one is followed by the service request.                                 *)
HostKeyCheck(key) ==
  \E trust, remember \in BOOLEAN :
    LET v == lsh_transport_lookup_verifier(opt, tr, key, trust)
        first == tr.state = "kex"
        remembered == v.ok /\ Remembers(opt, tr.db, key, remember)
    IN /\ tr' = IF ~v.ok THEN [v.tr EXCEPT !.state = "exit"]
                ELSE IF first THEN [v.tr EXCEPT !.state = "service_request"] ELSE v.tr
       /\ files' = IF remembered THEN [files EXCEPT ![opt.capture] = @ \cup {key}] ELSE files
       /\ up' = IF v.ok /\ first
                THEN Append(up, [type |-> "SERVICE_REQUEST", service |-> RequestedService(opt)]) ELSE up
       /\ srv' = IF v.ok /\ first THEN [state |-> "service"] ELSE srv

KeyExchange ==
  /\ tr.state = "kex" /\ srv.state = "handshake"
  /\ HostKeyCheck(opt.hostkey)
  /\ UNCHANGED <<opt, lsh, old, ua, down, count>>

KeyReexchange ==
  /\ tr.state \in {"service_request", "userauth", "forward"}
  /\ srv.state \in {"service", "forward"}
  /\ count.exchanges < MaxExchanges
  /\ HostKeyCheck(opt.hostkey)
  /\ count' = [count EXCEPT !.exchanges = @ + 1]
  /\ UNCHANGED <<opt, lsh, old, ua, down>>

(* What the user can type where a password is asked for.                   *)
Typed == IF opt.tty THEN {"right", "wrong", "empty", "none"} ELSE {"none"}

TrReceive ==
  /\ tr.state \in {"service_request", "userauth"}
  /\ down # <<>>
  /\ \E typed \in Typed :
       LET h == lsh_transport_packet_handler(opt, tr, Head(down), typed)
       IN tr' = h.tr /\ up' = up \o h.out
  /\ down' = Tail(down)
  /\ UNCHANGED <<opt, lsh, old, srv, ua, files, count>>

(* In the service phase the packets of the service pass through.           *)
TrForward ==
  /\ tr.state = "forward" /\ down # <<>>
  /\ tr' = IF Head(down).type \in ClosingTypes THEN [tr EXCEPT !.state = "exit"] ELSE tr
  /\ down' = Tail(down)
  /\ UNCHANGED <<opt, lsh, old, srv, ua, up, files, count>>

TrEof ==
  /\ tr.state \in {"service_request", "userauth", "forward"}
  /\ srv.state = "closed" /\ down = <<>>
  /\ tr' = [tr EXCEPT !.state = "exit"]
  /\ UNCHANGED <<opt, lsh, old, srv, ua, up, down, files, count>>

-----------------------------------------------------------------------------
(* lshd and lshd-userauth.                                                 *)

IsLshd == opt.server = "lshd"

SrvReceive ==
  /\ IsLshd /\ srv.state = "service" /\ up # <<>> /\ Head(up).type \notin ClosingTypes
  /\ \E starts \in BOOLEAN :
       LET h == lshd_packet_handler(opt, Head(up), starts)
       IN srv' = [state |-> h.state] /\ ua' = h.ua /\ down' = down \o h.out
  /\ up' = Tail(up)
  /\ UNCHANGED <<opt, lsh, old, tr, files, count>>

(* The connection ends: by a packet of the transport layer, or by EOF.     *)
ClientGone == tr.state = "exit" /\ opt.client = "lsh"

SrvClose ==
  /\ srv.state \in {"handshake", "service", "forward"}
  /\ \/ up # <<>> /\ Head(up).type \in ClosingTypes /\ up' = Tail(up)
     \/ up = <<>> /\ ClientGone /\ UNCHANGED up
  /\ srv' = [state |-> "closed"]
  /\ UNCHANGED <<opt, lsh, old, tr, ua, down, files, count>>

(* The process behind the service exits: lshd disconnects.                 *)
SrvServiceDied ==
  /\ srv.state = "forward" /\ ua.state = "exited"
  /\ srv' = [state |-> "closed"]
  /\ down' = Append(down, Disconnect)
  /\ UNCHANGED <<opt, lsh, old, tr, ua, up, files, count>>

Writes(h) == ua' = h.ua /\ down' = down \o h.out

UaReceive ==
  /\ srv.state = "forward" /\ ua.state = "running" /\ ua.attempt < MaxAttempts
  /\ up # <<>> /\ Head(up).type \notin ClosingTypes
  /\ Writes(handle_userauth(opt, ua, Head(up)))
  /\ up' = Tail(up)
  /\ UNCHANGED <<opt, lsh, old, tr, srv, files, count>>

UaDenies ==
  /\ srv.state = "forward" /\ ua.state = "running" /\ ua.attempt >= MaxAttempts
  /\ Writes(AccessDenied(ua))
  /\ UNCHANGED <<opt, lsh, old, tr, srv, up, files, count>>

UaStartService ==
  /\ srv.state = "forward" /\ ua.state = "start_service"
  /\ \/ \E home_exists \in BOOLEAN : ua' = start_service_ua(ua, home_exists) /\ UNCHANGED down
     \/ \E reported \in BOOLEAN : Writes(start_service_fails(ua, reported))
  /\ UNCHANGED <<opt, lsh, old, tr, srv, up, files, count>>

(* End of file on stdin, once lshd has closed the connection.              *)
UaEof ==
  /\ srv.state = "closed" /\ ua.state \in {"running", "start_service", "service"}
  /\ ua' = [ua EXCEPT !.state = "exited"]
  /\ UNCHANGED <<opt, lsh, old, tr, srv, up, down, files, count>>

-----------------------------------------------------------------------------
(* Clients and servers that are not part of lsh.                           *)

OtherClient ==
  /\ opt.client = "other" /\ count.other < MaxOther
  /\ srv.state \in {"service", "forward"} /\ ua.state \in {"none", "running"} /\ Len(up) < 2
  /\ \E m \in OtherRequests : up' = Append(up, m)
  /\ count' = [count EXCEPT !.other = @ + 1]
  /\ UNCHANGED <<opt, lsh, old, tr, srv, ua, down, files>>

OtherClientReads ==
  /\ opt.client = "other" /\ down # <<>> /\ down' = Tail(down)
  /\ UNCHANGED <<opt, lsh, old, tr, srv, ua, up, files, count>>

OtherServer ==
  /\ opt.server = "other" /\ srv.state = "service" /\ count.other < MaxOther
  /\ up # <<>> /\ Head(up).type \notin ClosingTypes /\ up' = Tail(up)
  /\ \E m \in OtherReplies : down' = Append(down, m)
  /\ count' = [count EXCEPT !.other = @ + 1]
  /\ UNCHANGED <<opt, lsh, old, tr, srv, ua, files>>

(* The user starts lsh again after it has failed.                          *)
LshAgain ==
  /\ lsh.pc = "exit" /\ count.runs < 2 /\ opt.again
  /\ tr.state \in {"none", "exit"} /\ srv.state \in {"none", "closed"} /\ ua.state \in {"none", "exited"}
  /\ lsh' = NewLsh /\ tr' = NoTransport /\ srv' = [state |-> "none"] /\ ua' = NoUserauth
  /\ up' = <<>> /\ down' = <<>>
  /\ old' = [old EXCEPT !.conn = NewConnections]
  /\ count' = [count EXCEPT !.runs = @ + 1]
  /\ UNCHANGED <<opt, files>>

-----------------------------------------------------------------------------
LshStep == LshOptions \/ LshStop \/ LshStopHello \/ LshConnect \/ LshFork \/ LshHello \/ LshSetup
OldStep == (\E c \in {"stop", "use"} : OldAccepts(c)) \/ OldStops
TrStep == TrConnect \/ TrLine \/ KeyExchange \/ TrReceive \/ TrForward \/ TrEof
SrvStep == SrvReceive \/ SrvClose \/ SrvServiceDied
UaStep == UaReceive \/ UaDenies \/ UaStartService \/ UaEof

Next ==
  \/ LshOptions \/ LshStop \/ LshStopHello \/ LshConnect \/ LshFork \/ LshHello \/ LshSetup \/ LshAgain
  \/ (\E c \in {"stop", "use"} : OldAccepts(c)) \/ OldStops \/ OldDies
  \/ TrConnect \/ TrLine \/ KeyExchange \/ KeyReexchange \/ TrReceive \/ TrForward \/ TrEof
  \/ SrvReceive \/ SrvClose \/ SrvServiceDied
  \/ UaReceive \/ UaDenies \/ UaStartService \/ UaEof
  \/ OtherClient \/ OtherClientReads \/ OtherServer

(* Every process runs when it can: lsh, the gateway's event loop, the      *)
(* transport (the user answers its questions), lshd and its child.         *)
Spec == Init /\ [][Next]_vars
        /\ WF_vars(LshStep) /\ WF_vars(OldStep) /\ WF_vars(TrStep) /\ WF_vars(SrvStep) /\ WF_vars(UaStep)

-----------------------------------------------------------------------------

(* The rules for accounts that the comment before lookup_user lists, with  *)
(* the shell and the age of the password.                                  *)
AccountActive(acct) ==
  /\ acct.crypted # "empty" /\ acct.shell # "empty"
  /\ IF opt.me # 0 THEN acct.uid = opt.me
     ELSE /\ acct.uid = 0 => opt.allow_root_login
          /\ acct.crypted = "x" => /\ acct.shadow.found /\ ~acct.shadow.expired
                                   /\ ~(acct.shadow.inactive /\ acct.shadow.old)
                                   /\ acct.shadow.crypted \notin {"empty", "stars"}
          /\ acct.crypted # "stars"

(* What proves that a request comes from the user it names.                *)
Proves(req) ==
  \/ /\ req.method = "password" /\ opt.allow_password /\ ~req.change_passwd
     /\ req.password = Accounts[req.user].password
  \/ /\ req.method = "publickey" /\ opt.allow_publickey /\ req.check_key /\ req.key.signed
     /\ req.key.name \in Accounts[req.user].authorized

(* A service started by lshd-userauth runs as the account named in one     *)
(* request, that account may log in, and the same request proved it with a *)
(* method that is enabled: nothing is left over from earlier requests.     *)
LoginPermitted ==
  ua.state \in {"start_service", "service"} /\ ua.request.type = "REQUEST" =>
    LET req == ua.request
    IN /\ req.user \in DOMAIN Accounts /\ AccountActive(Accounts[req.user])
       /\ ua.user.name = req.user
       /\ ua.state = "service" => ua.uid = Accounts[req.user].uid
       /\ ua.service = req.service /\ req.service \in opt.services
       /\ Proves(req)

(* lsh-transport names the user, and forwards anything, only on a          *)
(* connection whose host key it trusts: the file lists it, or checking is  *)
(* sloppy and the user was asked or wants no questions.                    *)
HostKeyFirst ==
  tr.state \in {"service_request", "userauth", "forward"} =>
    /\ opt.hostkey \in tr.db
    /\ \/ opt.hostkey \in files["acls"] /\ opt.acls_readable
       \/ opt.sloppy /\ (opt.quiet \/ tr.asked = 1)

(* With lshd at the other end, lsh always gets its service or gives up.    *)
LoginEnds == opt.server = "lshd" /\ opt.client = "lsh" => <>(lsh.pc \in {"run", "exit"})
=============================================================================
