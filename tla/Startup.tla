------------------------------- MODULE Startup -------------------------------
(***************************************************************************)
(* How the programs start: lshd daemons, which share ports and pid files   *)
(* with each other, and the services they start with command lines from    *)
(* their configuration; and lsh, which starts lsh-transport with the       *)
(* options that concern it.                                                *)
(*                                                                         *)
(* scene is what is given from outside: the command lines, the             *)
(* environment, how each daemon was started, and whether there are faults  *)
(* (and signals) or clients.                                               *)
(***************************************************************************)
EXTENDS Argp

CONSTANTS Scenes,       \* the scenes to start from
          Resolve,      \* the host addresses of interface names; others do not resolve
          SessionId,    \* the word for the session id
          HelperFd,     \* the word for the descriptor of the pty helper
          MaxPid        \* a bound on process numbers

VARIABLES scene, procs, pidfiles, nextpid
vars == <<scene, procs, pidfiles, nextpid>>

Procs == DOMAIN procs

(* No child, or one that could not be executed. *)
NoChild == [prog |-> "none", conf |-> <<>>, exit |-> "none"]

Initially(s, d) ==
  [prog |-> s.start[d].prog, stage |-> "start", pid |-> 0, conf |-> <<>>, exit |-> "none", todo |-> <<>>, ports |-> {},
   pidfile |-> Nothing, hup |-> FALSE, child |-> NoChild]

Init ==
  /\ scene \in Scenes
  /\ procs = [d \in DOMAIN scene.start |-> Initially(scene, d)]
  /\ pidfiles = scene.pidfiles
  /\ nextpid = 1

Exit(d, status) == [d EXCEPT !.stage = "exit", !.exit = status, !.ports = {}, !.todo = <<>>]

----------------------------------------------------------------------------
(* main of each program, up to the end of argp_parse. *)
Configuration(prog) ==
  CASE prog = "lshd" -> make_lshd_config
    [] prog = "lshd-userauth" -> make_lshd_userauth_config
    [] prog = "lshd-connection" -> make_lshd_connection_config
    [] prog = "lsh-transport" -> make_lsh_transport_config

(* lsh first reads LSHFLAGS. *)
WithFlags(env) ==
  [env_parse("lsh", env.lshflags, [make_options(env) EXCEPT !.inhibit_actions = TRUE], env)
     EXCEPT !.inhibit_actions = FALSE]

Programs == {"lshd-userauth", "lshd-connection", "lsh-transport"}

(* A program started with a command line; the first word is its name. *)
Child(prog, p) == [prog |-> prog, conf |-> p.conf, exit |-> p.exit]
Exec(argv, env) ==
  LET prog == Head(argv).text[1]
  IN IF prog \notin Programs THEN [NoChild EXCEPT !.exit = "failure"]
     ELSE Child(prog, argp_parse(prog, Tail(argv), Configuration(prog), env, FALSE, FALSE))

Started(proc, p) ==
  IF p.exit # "none" THEN Exit(proc, p.exit)
  ELSE [proc EXCEPT !.stage = "parsed", !.conf = p.conf, !.pid = nextpid]
Parse(d) ==
  /\ procs[d].stage = "start"
  /\ LET prog == procs[d].prog
     IN procs' = [procs EXCEPT ![d] =
          Started(@, argp_parse(prog, scene.start[d].argv,
                                IF prog = "lsh" THEN WithFlags(scene.env) ELSE Configuration(prog),
                                scene.env, prog = "lsh", FALSE))]
  /\ nextpid' = nextpid + 1
  /\ UNCHANGED <<scene, pidfiles>>

----------------------------------------------------------------------------
(* Ports.  An interface without a port has all ports. *)
open_interface(i, ports) ==
  IF i.port = NoPort THEN [k \in 1..Len(ports) |-> [host |-> i.name, port |-> ports[k]]]
  ELSE <<[host |-> i.name, port |-> i.port]>>

open_all_ports(c) ==
  LET any == Host(<<"ANY">>, NoPort)
  IN IF c.interfaces = <<>> THEN open_interface(any, c.ports)
     ELSE FlattenSeq([i \in 1..Len(c.interfaces) |-> open_interface(c.interfaces[i], c.ports)])

(* An address for each host address the name of the interface resolves to. *)
open_port(a) ==
  IF a.host \notin DOMAIN Resolve THEN <<>>
  ELSE [k \in 1..Len(Resolve[a.host]) |-> [host |-> Resolve[a.host][k], port |-> a.port]]

Conflict(a, b) == a.port = b.port /\ (a.host = b.host \/ "0.0.0.0" \in {a.host, b.host})
InUse(a) == \E d \in Procs : \E b \in procs[d].ports : Conflict(a, b)

(* The randomness generator, the daemon mode, the standard descriptors and *)
(* core files; the ports to open are then known.                           *)
Setup(d) ==
  /\ procs[d].stage = "parsed" /\ procs[d].prog = "lshd"
  /\ LET c == procs[d].conf
         addresses == open_all_ports(c)
     IN \/ /\ ~(c.daemonic /\ scene.start[d].by = "inetd")
           /\ procs' = [procs EXCEPT ![d].stage = "ports",
                                     ![d].todo = FlattenSeq([i \in 1..Len(addresses) |-> open_port(addresses[i])])]
        \/ /\ scene.faults \/ (c.daemonic /\ scene.start[d].by = "inetd")
           /\ procs' = [procs EXCEPT ![d] = Exit(@, "failure")]
  /\ UNCHANGED <<scene, pidfiles, nextpid>>

make_lshd_port(d) ==
  /\ procs[d].stage = "ports" /\ procs[d].todo # <<>>
  /\ LET a == Head(procs[d].todo)
     IN procs' = [procs EXCEPT ![d].todo = Tail(@), ![d].ports = IF InUse(a) THEN @ ELSE @ \cup {a}]
  /\ UNCHANGED <<scene, pidfiles, nextpid>>

(* All ports are tried; one will do. *)
PortsOpened(d) ==
  /\ procs[d].stage = "ports" /\ procs[d].todo = <<>>
  /\ procs' = [procs EXCEPT ![d] = IF @.ports = {} THEN Exit(@, "failure") ELSE [@ EXCEPT !.stage = "daemon"]]
  /\ UNCHANGED <<scene, pidfiles, nextpid>>

(* Two forks, unless started by init: the process number changes. *)
daemon_init(d) ==
  /\ procs[d].stage = "daemon"
  /\ LET c == procs[d].conf
         stage == IF c.use_pid_file = 1 THEN "pidfile" ELSE "running"
         forks == c.daemonic /\ scene.start[d].by # "init"
     IN \/ /\ procs' = [procs EXCEPT ![d].stage = stage, ![d].pid = IF forks THEN nextpid + 1 ELSE @]
           /\ nextpid' = IF forks THEN nextpid + 2 ELSE nextpid
        \/ /\ c.daemonic /\ scene.faults
           /\ procs' = [procs EXCEPT ![d] = Exit(@, "failure")]
           /\ UNCHANGED nextpid
  /\ UNCHANGED <<scene, pidfiles>>

(* The pid file.  It is created, unless it exists, and then written. *)
Empty == 0

(* Mutant of make_pid_file_resource: an existing file is opened, too. *)
OpenPidFile(d) ==
  /\ procs[d].stage = "pidfile"
  /\ procs' = [procs EXCEPT ![d].stage = "write"]
  /\ pidfiles' = (procs[d].conf.pid_file :> Empty) @@ pidfiles
  /\ UNCHANGED <<scene, nextpid>>

make_pid_file_resource(d) ==
  /\ procs[d].stage = "pidfile"
  /\ LET file == procs[d].conf.pid_file
     IN IF file \in DOMAIN pidfiles
        THEN procs' = [procs EXCEPT ![d] = Exit(@, "failure")] /\ UNCHANGED pidfiles
        ELSE procs' = [procs EXCEPT ![d].stage = "write"] /\ pidfiles' = (file :> Empty) @@ pidfiles
  /\ UNCHANGED <<scene, nextpid>>

Without(file) == [f \in DOMAIN pidfiles \ {file} |-> pidfiles[f]]

WritePid(d) ==
  /\ procs[d].stage = "write"
  /\ LET file == procs[d].conf.pid_file
     IN \/ /\ pidfiles' = [f \in DOMAIN pidfiles |-> IF f = file THEN procs[d].pid ELSE pidfiles[f]]
           /\ procs' = [procs EXCEPT ![d].stage = "running", ![d].pidfile = file]
        \/ /\ scene.faults
           /\ pidfiles' = Without(file)
           /\ procs' = [procs EXCEPT ![d] = Exit(@, "failure")]
  /\ UNCHANGED <<scene, nextpid>>

(* SIGHUP closes the ports and removes the pid file.  The process stays,   *)
(* for the connections it has.                                             *)
do_sighup_close_callback(d) ==
  /\ scene.faults
  /\ procs[d].stage = "running" /\ ~procs[d].hup
  /\ procs' = [procs EXCEPT ![d].hup = TRUE, ![d].ports = {}, ![d].pidfile = Nothing]
  /\ pidfiles' = Without(procs[d].pidfile)
  /\ UNCHANGED <<scene, nextpid>>

(* Any other signal ends the process; SIGHUP does too, before its handler  *)
(* is installed.  The pid file stays.                                      *)
Killed(d) ==
  /\ scene.faults
  /\ procs[d].stage \notin {"start", "exit"}
  /\ procs' = [procs EXCEPT ![d] = Exit(@, "killed")]
  /\ UNCHANGED <<scene, pidfiles, nextpid>>

(* An administrator removes a pid file that names a process that is gone,  *)
(* or an empty one when no daemon runs.                                    *)
RemoveStale(file) ==
  /\ scene.faults
  /\ \A d \in Procs : procs[d].stage # "exit" => pidfiles[file] \notin {Empty, procs[d].pid}
  /\ pidfiles' = Without(file)
  /\ UNCHANGED <<scene, procs, nextpid>>

(* Restarted by init, or by hand. *)
Restart(d) ==
  /\ scene.faults
  /\ procs[d].stage = "exit" /\ nextpid + 3 <= MaxPid
  /\ procs' = [procs EXCEPT ![d] = Initially(scene, d)]
  /\ UNCHANGED <<scene, pidfiles, nextpid>>

----------------------------------------------------------------------------
(* Services: the command line of the configuration, with the session id or *)
(* the descriptor of the pty helper filled in.                             *)
Substitute(args, var, value) == [i \in 1..Len(args) |-> IF i > 1 /\ args[i] = Word(<<var>>) THEN value ELSE args[i]]

ServiceArgs(c, name, var, value) ==
  LET found == service_config_lookup(c.services, Len(name.text), name)
  IN IF found = <<>> THEN <<>> ELSE Substitute(Head(found).args, var, value)

lshd_service_request_handler(d, name) ==
  /\ scene.clients
  /\ procs[d].stage = "running" /\ procs[d].prog = "lshd" /\ procs[d].ports # {}
  /\ procs[d].child.prog = "none" /\ procs[d].child.exit = "none"
  /\ LET args == ServiceArgs(procs[d].conf, name, "$(session_id)", SessionId)
     IN procs' = [procs EXCEPT ![d].child = IF args = <<>> THEN [NoChild EXCEPT !.exit = "disconnect"]
                                            ELSE Exec(args, scene.env)]
  /\ UNCHANGED <<scene, pidfiles, nextpid>>

(* The environment is a new one, except for these variables. *)
ServiceEnv(env) ==
  [env EXCEPT !.posixly_correct = FALSE, !.files["lshd"] = Nothing, !.files["lshd-userauth"] = Nothing]

(* After a successful login the service replaces lshd-userauth. *)
start_service(d) ==
  /\ procs[d].child.prog = "lshd-userauth" /\ procs[d].child.exit = "none"
  /\ LET args == ServiceArgs(procs[d].child.conf, Word(<<"ssh-connection">>), "$(helper_fd)", HelperFd)
     IN procs' = [procs EXCEPT ![d].child = IF args = <<>> THEN [NoChild EXCEPT !.exit = "disconnect"]
                                            ELSE Exec(args, ServiceEnv(scene.env))]
  /\ UNCHANGED <<scene, pidfiles, nextpid>>

(* Where a gateway is tried first, there is none; the one asked for with   *)
(* -G is then started.  Stopping a gateway is all there is to do, unless a *)
(* new one is started.                                                     *)
ForkTransport(d) ==
  /\ procs[d].prog = "lsh" /\ procs[d].stage = "parsed"
  /\ procs[d].conf.stop_gateway = 0 \/ procs[d].conf.start_gateway # 0
  /\ procs[d].conf.use_gateway # 1
  /\ LET argv == <<Word(<<"lsh-transport">>)>> \o fork_lsh_transport(procs[d].conf)
     IN procs' = [procs EXCEPT ![d].stage = "running", ![d].child = Exec(argv, scene.env),
                               ![d].conf.start_gateway = IF @ < 0 /\ procs[d].conf.use_gateway # 0 THEN 1 ELSE @]
  /\ UNCHANGED <<scene, pidfiles, nextpid>>

Next ==
  \/ \E d \in Procs :
       \/ Parse(d) \/ Setup(d) \/ make_lshd_port(d) \/ PortsOpened(d) \/ daemon_init(d)
       \/ make_pid_file_resource(d) \/ WritePid(d) \/ do_sighup_close_callback(d) \/ Killed(d) \/ Restart(d)
       \/ lshd_service_request_handler(d, Word(<<"ssh-userauth">>)) \/ start_service(d) \/ ForkTransport(d)
  \/ \E file \in DOMAIN pidfiles : RemoveStale(file)

Spec == Init /\ [][Next]_vars

----------------------------------------------------------------------------
(* What the programs should make of their options, whatever their order    *)
(* and spelling.  An item is an option or a setting, with its value and,   *)
(* for the definition of a service, the items of its command line.         *)

Vals(items, names) == LET chosen == SelectSeq(items, LAMBDA i : i.opt \in names)
                      IN [k \in 1..Len(chosen) |-> chosen[k].val]
Given(items, name) == \E k \in 1..Len(items) : items[k].opt = name

FirstOr(seq, default) == IF seq = <<>> THEN default ELSE Head(seq)
LastOr(seq, default) == IF seq = <<>> THEN default ELSE seq[Len(seq)]

(* One of a flag and its negation: the last of the command line, else the  *)
(* first of the file.                                                      *)
FlagOr(items, settings, on, off, default) ==
  LET chosen == SelectSeq(items, LAMBDA i : i.opt \in {on, off})
  IN IF chosen # <<>> THEN IF LastOr(chosen, 0).opt = on THEN 1 ELSE 0
     ELSE FirstOr([k \in 1..Len(Vals(settings, {on})) |-> IF Vals(settings, {on})[k] = Yes THEN 1 ELSE 0], default)

(* The items of the command line of a service.  One that is defined        *)
(* nowhere is started as verbose as its parent.                            *)
ServiceItems(items, settings, name) ==
  LET Defs(seq, names) == SelectSeq(seq, LAMBDA i : i.opt \in names /\ i.val = name)
      all == Defs(items, {"service", "add-service"}) \o (IF Given(items, "service") THEN <<>> ELSE Defs(settings, {"service"}))
  IN IF all # <<>> THEN Head(all).sub
     ELSE IF FlagOr(items, settings, "verbose", "none", -1) = 1 THEN <<[opt |-> "verbose"]>> ELSE <<>>

LshdAsGiven(c, items, settings) ==
  LET ports == Vals(items, {"port", "add-port"}) \o (IF Given(items, "port") THEN <<>> ELSE Vals(settings, {"port"}))
      hosts == Vals(items, {"interface", "add-interface"})
                 \o (IF Given(items, "interface") THEN <<>> ELSE Vals(settings, {"interface"}))
      logfiles == Vals(items, {"log-file"}) \o Vals(settings, {"log-file"})
  IN /\ c.ports = IF ports = <<>> THEN <<<<"22">>>> ELSE [k \in 1..Len(ports) |-> ports[k].text]
     /\ Len(c.interfaces) = Len(hosts)
     /\ \A k \in 1..Len(hosts) : hosts[k].text \in {c.interfaces[k].name, c.interfaces[k].name \o <<":">> \o c.interfaces[k].port}
     /\ c.hostkey = FirstOr(Vals(items, {"host-key"}) \o Vals(settings, {"hostkey"}), Nothing)
     /\ c.verbose = FlagOr(items, settings, "verbose", "none", -1)
     /\ c.logfile = FirstOr(logfiles, Nothing)
     /\ c.messages = IF c.syslog = 1 THEN "syslog" ELSE IF logfiles = <<>> THEN "stderr" ELSE "logfile"
     /\ c.daemonic = Given(items, "daemonic")

UserauthAsGiven(c, items, settings) ==
  /\ c.session_id = SessionId
  /\ c.verbose = FlagOr(items, settings, "verbose", "none", -1)
  /\ c.allow_password = FlagOr(items, settings, "allow-password", "deny-password", 0)
  /\ c.allow_publickey = FlagOr(items, settings, "allow-publickey", "deny-publickey", 0)
  /\ c.allow_root_login = FlagOr(items, settings, "allow-root-login", "deny-root-login", 0)

ConnectionAsGiven(c, items, settings) ==
  /\ c.helper_fd = HelperFd
  /\ c.verbose = FlagOr(items, settings, "verbose", "none", -1)
  /\ c.allow_session = FlagOr(items, settings, "allow-session", "deny-session", 0)
  /\ c.allow_shell = FlagOr(items, settings, "allow-shell", "deny-shell", 0)
  /\ c.allow_exec = FlagOr(items, settings, "allow-exec", "deny-exec", 0)

(* EffectiveOptions: a daemon that has read its options has exactly the    *)
(* ports, interfaces, host key and messages that its command line and      *)
(* configuration file give, the command line first; and the service it     *)
(* starts, and the one that starts after the login, have the flags that    *)
(* their command lines (of the configuration of their parent) and their    *)
(* own files give.  How options are spelled and where comments and line    *)
(* ends stand in the files makes no difference.  A wrong command line ends *)
(* the program.                                                            *)
EffectiveOptions ==
  \A d \in Procs : procs[d].prog = "lshd" /\ procs[d].stage # "start" =>
    LET given == scene.start[d]
        p == procs[d]
        userauth == ServiceItems(given.items, given.settings["lshd"], Word(<<"ssh-userauth">>))
        connection == ServiceItems(userauth, given.settings["lshd-userauth"], Word(<<"ssh-connection">>))
    IN /\ given.wrong <=> p.exit = "usage"
       /\ p.stage # "exit" => LshdAsGiven(p.conf, given.items, given.settings["lshd"])
       /\ p.child.prog = "lshd-userauth" /\ p.child.exit = "none" =>
            UserauthAsGiven(p.child.conf, userauth, given.settings["lshd-userauth"])
       /\ p.child.prog = "lshd-connection" /\ p.child.exit = "none" =>
            ConnectionAsGiven(p.child.conf, connection, given.settings["lshd-connection"])

(* TransportGetsOptions: lsh-transport is started with the host, the user, *)
(* the port, the key and the algorithms of every kind that LSHFLAGS and    *)
(* the command line of lsh give, the last one counting, and with its       *)
(* messages; and the command to execute is the rest of the command line,   *)
(* even where it looks like options.  Where there is no user name, or the  *)
(* host itself looks like an option (lsh-transport takes it for one, as no *)
(* -- is passed before it), lsh-transport ends at once and connects to     *)
(* nothing, whatever the other options are.                                *)
TransportGetsOptions ==
  \A d \in Procs : procs[d].prog = "lsh" /\ procs[d].stage = "running" =>
    LET items == scene.start[d].items
        c == procs[d].child.conf
        Said(name) == IF Given(items, name) THEN 1 ELSE -1
        List(name, default) == LET v == Vals(items, {name}) IN IF v = <<>> THEN default ELSE v[Len(v)].text
        host == LastOr(Vals(items, {"host"}), Nothing)
        named == Given(items, "user") \/ scene.env.logname
    IN procs[d].child.prog = "lsh-transport" /\
       IF classify_arg(host) # "ARG_ARG" \/ ~named THEN procs[d].child.exit # "none"
       ELSE
       /\ procs[d].child.exit = "none"
       /\ c.target = host
       /\ c.user = LastOr(Vals(items, {"user"}), LoginName)
       /\ c.port = LastOr(Vals(items, {"port"}), Word(<<"22">>))
       /\ c.identity = LastOr(Vals(items, {"identity"}), Nothing)
       /\ c.sloppy = IF LastOr(SelectSeq(items, LAMBDA i : i.opt \in {"sloppy-host-authentication", "strict-host-authentication"}),
                               [opt |-> "none"]).opt = "sloppy-host-authentication" THEN 1 ELSE 0
       /\ c.crypto = List("crypto", default_crypto_algorithms)
       /\ c.mac = List("mac", default_mac_algorithms)
       /\ c.hostkey_algorithms = List("hostkey-algorithm", default_hostkey_algorithms)
       /\ c.kex = List("kex-algorithm", default_kex_algorithms)
       /\ c.compression = IF ~Given(items, "compression") THEN default_compression_algorithms
                          ELSE IF LastOr(Vals(items, {"compression"}), Nothing) = Nothing THEN prefer_compression_algorithms
                          ELSE List("compression", <<>>)
       /\ c.verbose = Said("verbose") /\ c.quiet = Said("quiet") /\ c.trace = Said("trace") /\ c.debug = Said("debug")
       /\ LET commands == SelectSeq(procs[d].conf.actions, LAMBDA a : a.kind = "command")
          IN FlattenSeq([k \in 1..Len(commands) |-> commands[k].arg]) = Vals(items, {"command"})

(* PidFileOwned: the pid file of a daemon that serves holds its process    *)
(* number, so no two of them share a file; and a pid file that names a     *)
(* living process names one that serves, never one that has given up its   *)
(* ports after SIGHUP or one that failed to start.                         *)
PidFileOwned ==
  /\ \A d \in Procs : procs[d].stage = "running" /\ procs[d].pidfile # Nothing =>
        procs[d].pidfile \in DOMAIN pidfiles /\ pidfiles[procs[d].pidfile] = procs[d].pid
  /\ \A file \in DOMAIN pidfiles : \A d \in Procs :
        procs[d].stage # "exit" /\ procs[d].pid # 0 /\ procs[d].pid = pidfiles[file] =>
          procs[d].stage = "running" /\ procs[d].ports # {} /\ procs[d].pidfile = file
=============================================================================
