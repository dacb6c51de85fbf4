---------------------------- MODULE ClientOptions ----------------------------
(***************************************************************************)
(* The options of lsh, and those of lsh-transport, which lsh starts with   *)
(* the options that concern it.  Most options of lsh can be inverted by an *)
(* earlier --no.  Login.tla models what lsh then does.                     *)
(***************************************************************************)
EXTENDS Options

CONSTANTS LoginName,     \* the user name of the environment
          Numbers        \* the fragments that are port numbers

USER_NAME_FROM_ENV(env) == IF env.logname THEN LoginName ELSE Nothing

make_options(env) ==
  init_werror_config @@
  [home |-> env.home, local_user |-> USER_NAME_FROM_ENV(env), user |-> USER_NAME_FROM_ENV(env),
   not |-> FALSE, port |-> Nothing, target |-> Nothing, escape |-> Nothing,
   with_remote_peers |-> 0, with_pty |-> -1, with_x11 |-> 0, detach_end |-> 0, write_pid |-> 0,
   use_gateway |-> -1, start_gateway |-> 0, stop_gateway |-> 0, detach |-> 0,
   stdin_file |-> Nothing, stdout_file |-> Nothing, stderr_file |-> Nothing, pid_file |-> Nothing,
   start_shell |-> TRUE, inhibit_actions |-> FALSE, actions |-> <<>>, transport_args |-> <<>>]

lsh_options ==
  <<Opt(<<"p", "ort">>, "p", "required"), Opt(<<"use", "r">>, "l", "required"), Opt(<<"askpass">>, "OPT_ASKPASS", "required"),
    Opt(<<"forward-local-port">>, "L", "required"), Opt(<<"forward-socks">>, "D", "optional"),
    Opt(<<"forward-remote-port">>, "R", "required"), Opt(<<"no", "p">>, "N", "none"), Opt(<<"background">>, "B", "none"),
    Opt(<<"execute">>, "E", "required"), Opt(<<"shell">>, "S", "none"), Opt(<<"subsystem">>, "OPT_SUBSYSTEM", "required"),
    Opt(<<"no">>, "n", "none"), Opt(<<"remote-peers">>, "g", "none"), Opt(<<"no", "-remote-peers">>, "NOT g", "none"),
    Opt(<<"stdin">>, "OPT_STDIN", "required"), Opt(<<"no", "-stdin">>, "NOT OPT_STDIN", "none"),
    Opt(<<"stdout">>, "OPT_STDOUT", "required"), Opt(<<"no", "-stdout">>, "NOT OPT_STDOUT", "none"),
    Opt(<<"stderr">>, "OPT_STDERR", "required"), Opt(<<"no", "-stderr">>, "NOT OPT_STDERR", "none"),
    Opt(<<"de", "tach">>, "OPT_DETACH", "none"), Opt(<<"no", "-detach">>, "NOT OPT_DETACH", "none"),
    Opt(<<"p", "ty">>, "t", "none"), Opt(<<"no", "-pty">>, "NOT t", "none"),
    Opt(<<"x11-forward">>, "x", "none"), Opt(<<"no", "-x11-forward">>, "NOT x", "none"),
    Opt(<<"use", "-gateway">>, "OPT_USE_GATEWAY", "none"), Opt(<<"no", "-use-gateway">>, "NOT OPT_USE_GATEWAY", "none"),
    Opt(<<"gateway">>, "G", "none"), Opt(<<"start-gateway">>, "OPT_START_GATEWAY", "none"),
    Opt(<<"stop-gateway">>, "OPT_STOP_GATEWAY", "none"), Opt(<<"escape-char">>, "e", "required"),
    Opt(<<"write-pid">>, "OPT_WRITE_PID", "none"), Opt(<<"p", "id-file">>, "OPT_PID_FILE", "required"),
    Opt(<<"identity">>, "i", "required"), Opt(<<"host", "-db">>, "OPT_HOST_DB", "required"),
    Opt(<<"sloppy-host-authentication">>, "OPT_SLOPPY", "none"), Opt(<<"strict-host-authentication">>, "OPT_STRICT", "none"),
    Opt(<<"host", "-db", "-update">>, "OPT_HOST_DB_UPDATE", "required"), Opt(<<"capture-to">>, "OPT_HOST_DB_UPDATE", "required"),
    Opt(<<"c", "rypto">>, "c", "required"), Opt(<<"c", "ompression">>, "z", "optional"), Opt(<<"mac">>, "m", "required"),
    Opt(<<"host", "key-algorithm">>, "OPT_HOSTKEY_ALGORITHM", "required"),
    Opt(<<"kex-algorithm">>, "OPT_KEX_ALGORITHM", "required")>>

(* PORT:HOST:PORT, where the host may be in brackets. *)
parse_forward_arg(t) ==
  \/ Len(t) = 5 /\ t[1] \in Numbers /\ t[2] = ":" /\ t[3] # "[" /\ t[4] = ":" /\ t[5] \in Numbers
  \/ /\ Len(t) = 7 /\ t[1] \in Numbers /\ t[2] = ":" /\ t[3] = "["
     /\ t[5] = "]" /\ t[6] = ":" /\ t[7] \in Numbers

Flags == [g |-> "with_remote_peers", t |-> "with_pty", x |-> "with_x11", OPT_DETACH |-> "detach_end",
          OPT_WRITE_PID |-> "write_pid", OPT_USE_GATEWAY |-> "use_gateway"]
Files == [OPT_STDIN |-> "stdin_file", OPT_STDOUT |-> "stdout_file", OPT_STDERR |-> "stderr_file"]
DevNull == Word(<<"/dev/null">>)
NoFlags == ("NOT g" :> "with_remote_peers") @@ ("NOT t" :> "with_pty") @@ ("NOT x" :> "with_x11")
             @@ ("NOT OPT_DETACH" :> "detach_end") @@ ("NOT OPT_USE_GATEWAY" :> "use_gateway")
NoFiles == ("NOT OPT_STDIN" :> "stdin_file") @@ ("NOT OPT_STDOUT" :> "stdout_file")
             @@ ("NOT OPT_STDERR" :> "stderr_file")

(* A modifier after --no is inverted, and uses the --no up. *)
CASE_FLAG(p, flag) == Set(Set(p, "not", FALSE), flag, IF p.conf.not THEN 0 ELSE 1)
CASE_ARG(p, attr, arg) == Set(Set(p, "not", FALSE), attr, IF p.conf.not THEN DevNull ELSE arg)

add_action(p, kind, arg) ==
  Push(p, "actions", <<[kind |-> kind, arg |-> arg, peers |-> p.conf.with_remote_peers, pty |-> p.conf.with_pty]>>)

(* An invalid port makes a usage error, and still an action where errors   *)
(* do not end the program.                                                 *)
Port(p, kind, arg, valid) == add_action(IF valid THEN p ELSE argp_error(p), kind, IF valid THEN <<arg>> ELSE <<Nothing>>)

(* Mutant of PassedOn: an optional value is a word of its own. *)
PassedOnApart(key, arg) == IF key = "z" THEN <<Short(<<"z">>), arg>> ELSE <<>>

(* The options lsh passes on, and the words it passes for them. *)
PassedOn(key, arg) ==
  CASE key = "i" -> <<Long(<<"identity">>), arg>>
    [] key = "OPT_HOST_DB" -> <<Long(<<"host", "-db">>), arg>>
    [] key = "OPT_SLOPPY" -> <<Long(<<"sloppy-host-authentication">>)>>
    [] key = "OPT_STRICT" -> <<Long(<<"strict-host-authentication">>)>>
    [] key = "OPT_HOST_DB_UPDATE" -> <<Long(<<"host", "-db", "-update">>), arg>>
    [] key = "OPT_ASKPASS" -> <<Long(<<"askpass">>), arg>>
    [] key = "c" -> <<Short(<<"c">>), arg>>
    [] key = "m" -> <<Short(<<"m">>), arg>>
    [] key = "z" -> IF arg = Nothing THEN <<Short(<<"z">>)>> ELSE <<Short(<<"z">> \o arg.text)>>
    [] key = "OPT_HOSTKEY_ALGORITHM" -> <<Long(<<"host", "key-algorithm">>), arg>>
    [] key = "OPT_KEX_ALGORITHM" -> <<Long(<<"kex-algorithm">>), arg>>
    [] OTHER -> <<>>

(* A string that was part of another one. *)
Part(text) == IF text # <<>> /\ Head(text) = "-" THEN Short(Tail(text)) ELSE Word(text)

(* The first word is the host, perhaps with the user; further words are a  *)
(* command and its arguments.                                              *)
LshTarget(p, arg) ==
  LET at == {i \in 1..Len(arg.text) : arg.text[i] = "@"}
      first == CHOOSE i \in at : \A j \in at : i <= j
  IN IF p.arg_num > 0 THEN Unknown(p)
     ELSE IF at = {} THEN Set(p, "target", arg)
     ELSE Set(Set(p, "target", Part(SubSeq(arg.text, first + 1, Len(arg.text)))),
              "user", Word(SubSeq(arg.text, 1, first - 1)))

(* The name of the gateway socket is made of the names of the users and    *)
(* the host, unless they are too strange.                                  *)
Strange(name) == {"%", "/"} \cap ToSet(name.text) # {}
make_gateway_address(c) == ~(\E name \in {c.local_user, c.user, c.target} : Strange(name))

LshEnd(p) ==
  LET q == werror_init(p)
      c == q.conf
      shell == IF c.start_shell THEN add_action(q, "shell", <<>>) ELSE q
  IN IF p.conf.inhibit_actions THEN p
     ELSE IF q.exit # "none" THEN q
     ELSE IF ~c.home \/ (c.start_gateway > 0 /\ c.use_gateway > 0) THEN argp_error(q)
     ELSE IF (c.start_gateway # 0 \/ c.stop_gateway # 0 \/ c.use_gateway # 0)
               /\ (c.local_user = Nothing \/ ~make_gateway_address(c)) THEN argp_error(q)
     ELSE IF shell.conf.actions = <<>> /\ c.stop_gateway = 0 /\ c.start_gateway = 0 THEN argp_error(q)
     ELSE shell

lsh_argp_parser(p, key, arg) ==
  CASE key = "NO_ARGS" -> argp_error(p)
    [] key = "ARG" -> LshTarget(p, arg)
    [] key = "ARGS" -> Set(add_action(p, "command", SubSeq(p.argv, p.next, Len(p.argv))), "start_shell", FALSE)
    [] key = "END" -> LshEnd(p)
    [] key = "p" -> Set(p, "port", arg)
    [] key = "l" -> Set(p, "user", arg)
    [] key = "e" -> IF arg.text \in {<<"~">>, <<"none">>} THEN Set(p, "escape", arg) ELSE argp_error(p)
    [] key = "E" -> add_action(p, "command", <<arg>>)
    [] key = "S" -> add_action(p, "shell", <<>>)
    [] key = "OPT_SUBSYSTEM" -> Set(Set(add_action(p, "subsystem", <<arg>>), "start_shell", FALSE), "with_pty", 0)
    [] key = "L" -> Port(p, "local", arg, parse_forward_arg(arg.text))
    [] key = "R" -> Port(p, "remote", arg, parse_forward_arg(arg.text))
    [] key = "D" -> Port(p, "socks", arg, arg = Nothing \/ (Len(arg.text) = 1 /\ arg.text[1] \in Numbers))
    [] key = "N" -> Set(p, "start_shell", FALSE)
    [] key = "B" -> Set(Set(p, "start_shell", FALSE), "detach", 1)
    [] key \in DOMAIN Flags -> CASE_FLAG(p, Flags[key])
    [] key \in DOMAIN NoFlags -> Set(p, NoFlags[key], 0)
    [] key \in DOMAIN Files -> CASE_ARG(p, Files[key], arg)
    [] key \in DOMAIN NoFiles -> Set(p, NoFiles[key], DevNull)
    [] key = "OPT_PID_FILE" -> Set(Set(p, "pid_file", arg), "write_pid", 1)
    [] key = "G" -> Set(p, "start_gateway", -1)
    [] key = "OPT_START_GATEWAY" -> Set(Set(p, "start_gateway", 1), "stop_gateway", 1)
    [] key = "OPT_STOP_GATEWAY" -> Set(p, "stop_gateway", 1)
    [] key = "n" -> Set(p, "not", ~p.conf.not)
    [] PassedOn(key, arg) # <<>> -> Push(p, "transport_args", PassedOn(key, arg))
    [] OTHER -> Unknown(p)

(* The command line lsh-transport is started with: it ends at a NULL, the  *)
(* user where the environment has no name.                                 *)
UpToNull(argv) == SubSeq(argv, 1, Min({i \in 1..Len(argv) : argv[i] = Nothing} \cup {Len(argv) + 1}) - 1)
fork_lsh_transport(c) ==
  UpToNull(c.transport_args \o <<Short(<<"l">>), c.user>> \o VerbosityArgs(c)
             \o (IF c.port = Nothing THEN <<>> ELSE <<Short(<<"p">>), c.port>>) \o <<c.target>>)

----------------------------------------------------------------------------
(* lsh-transport *)

make_lsh_transport_config ==
  init_werror_config @@ init_algorithms_options @@
  [sloppy |-> 0, capture_file |-> Nothing, host_acls |-> Nothing, port |-> Word(<<"22">>), target |-> Nothing,
   userauth |-> 1, user |-> LoginName, identity |-> Nothing, askpass |-> Nothing,
   service |-> Word(<<"ssh-connection">>), requested_service |-> Nothing, kexinit |-> {}]

transport_options ==
  <<Opt(<<"p", "ort">>, "p", "required"), Opt(<<"host", "-db">>, "OPT_HOST_DB", "required"),
    Opt(<<"sloppy-host-authentication">>, "OPT_SLOPPY", "none"), Opt(<<"strict-host-authentication">>, "OPT_STRICT", "none"),
    Opt(<<"host", "-db", "-update">>, "OPT_HOST_DB_UPDATE", "required"), Opt(<<"user">>, "l", "required"),
    Opt(<<"user", "auth">>, "OPT_USERAUTH", "none"), Opt(<<"no-userauth">>, "NOT OPT_USERAUTH", "none"),
    Opt(<<"identity">>, "i", "required"), Opt(<<"service">>, "OPT_SERVICE", "required"),
    Opt(<<"askpass">>, "OPT_ASKPASS", "required")>>

(* The options that only store their argument. *)
Stored == [p |-> "port", OPT_HOST_DB |-> "host_acls", OPT_HOST_DB_UPDATE |-> "capture_file", l |-> "user",
           i |-> "identity", OPT_SERVICE |-> "service", OPT_ASKPASS |-> "askpass"]

TransportEnd(p) ==
  LET q == werror_init(p)
      kexinit == ToSet(q.conf.hostkey_algorithms)
  IN IF q.exit # "none" THEN q
     ELSE Set(Set(q, "kexinit", kexinit), "requested_service",
              IF q.conf.userauth = 1 THEN Word(<<"ssh-userauth">>) ELSE q.conf.service)

transport_argp_parser(p, key, arg) ==
  CASE key = "NO_ARGS" -> argp_error(p)
    [] key = "ARG" -> IF p.arg_num = 0 THEN Set(p, "target", arg) ELSE Unknown(p)
    [] key = "END" -> TransportEnd(p)
    [] key \in DOMAIN Stored -> Set(p, Stored[key], arg)
    [] key = "OPT_SLOPPY" -> Set(p, "sloppy", 1)
    [] key = "OPT_STRICT" -> Set(p, "sloppy", 0)
    [] key = "OPT_USERAUTH" -> Set(p, "userauth", 1)
    [] key = "NOT OPT_USERAUTH" -> Set(p, "userauth", 0)
    [] OTHER -> Unknown(p)
=============================================================================
