---------------------------- MODULE ServerOptions ----------------------------
(***************************************************************************)
(* The options and settings of the three server programs: lshd,            *)
(* lshd-userauth and lshd-connection, with the services (or subsystems)    *)
(* each of them may start.                                                 *)
(***************************************************************************)
EXTENDS Options

(* A configuration option and the example value it has in the built-in     *)
(* example configuration.                                                  *)
ConfOpt(name, key, type) == [name |-> name, key |-> key, type |-> type, example |-> <<>>]
ConfEx(name, key, type, example) == [name |-> name, key |-> key, type |-> type, example |-> example]

Yes == Word(<<"yes">>)
No == Word(<<"no">>)

werror_config_options ==
  <<ConfOpt(<<"log-file">>, "WERROR_LOGFILE", "string"),
    ConfEx(<<"use-syslog">>, "WERROR_SYSLOG", "bool", <<No>>), ConfEx(<<"quiet">>, "q", "bool", <<No>>),
    ConfEx(<<"verbose">>, "v", "bool", <<Yes>>), ConfEx(<<"trace">>, "WERROR_TRACE", "bool", <<No>>),
    ConfEx(<<"debug">>, "WERROR_DEBUG", "bool", <<No>>)>>

----------------------------------------------------------------------------
(* Services: a name and a command line, the last one added first. *)

make_service_entry(name) == [name |-> name, args |-> <<>>]

make_service_config == [services |-> <<>>, override_config_file |-> FALSE]

(* The length is compared with that of the name of the entry. *)
service_config_lookup(services, length, name) ==
  SelectSeq(services, LAMBDA e : Len(e.name.text) = length /\ e.name = name)

(* How many braces are open after the words from..to. *)
Level(words, from, to) ==
  Cardinality({i \in from..to : words[i] = Open}) - Cardinality({i \in from..to : words[i] = Close})

(* --service NAME { COMMAND LINE }: the arguments up to the closing brace   *)
(* are taken from the command line.  Those of a second definition of a     *)
(* service are left there.                                                 *)
service_config_argp(p, name) ==
  LET ends == {i \in p.next..Len(p.argv) : Level(p.argv, p.next, i) = 0}
      end == CHOOSE i \in ends : \A j \in ends : i <= j
      entry == [make_service_entry(name) EXCEPT !.args = SubSeq(p.argv, p.next + 1, end - 1)]
  IN IF service_config_lookup(p.conf.services, Len(name.text), name) # <<>> THEN p
     ELSE IF p.next > Len(p.argv) \/ p.argv[p.next] # Open THEN argp_error(p)
     ELSE IF ends = {} \/ entry.args = <<>> THEN argp_error(p)
     ELSE [Set(p, "services", <<entry>> \o p.conf.services) EXCEPT !.next = end + 1]

(* A service of the configuration file.  The name is looked up with a      *)
(* length that counts its terminating NUL.                                 *)
service_config_option(c, list) ==
  LET name == Head(list)
      entry == [make_service_entry(name) EXCEPT !.args = Tail(list)]
  IN IF c.override_config_file THEN [conf |-> c, err |-> "ok"]
     ELSE IF Tail(list) = <<>> THEN [conf |-> c, err |-> "EINVAL"]
     ELSE IF service_config_lookup(c.services, Len(name.text) + 1, name) # <<>>
          THEN [conf |-> c, err |-> "ok"]
     ELSE [conf |-> [c EXCEPT !.services = <<entry>> \o @], err |-> "ok"]

ServiceOption(p, arg, override) ==
  service_config_argp(IF override THEN Set(p, "override_config_file", TRUE) ELSE p, arg)

Done(c) == [conf |-> c, err |-> "ok"]

init_server_config == init_werror_config @@ [config_file |-> Nothing, use_example |-> FALSE]

server_options == <<Opt(<<"config-file">>, "OPT_CONFIG_FILE", "required"),
                    Opt(<<"p", "rint-example-config">>, "OPT_PRINT_EXAMPLE", "none"),
                    Opt(<<"use-example-config">>, "OPT_USE_EXAMPLE", "none")>>

----------------------------------------------------------------------------
(* lshd *)

Host(name, port) == [name |-> name, port |-> port]
BadInterface == Host(<<>>, <<"invalid">>)
NoPort == <<"NULL">>

(* NAME, NAME:PORT, [IP] or [IP]:PORT. *)
parse_interface(text) ==
  LET colons == {i \in 1..Len(text) : text[i] = ":"}
      brackets == {i \in 1..Len(text) : text[i] = "]"}
      end == CHOOSE i \in brackets : \A j \in brackets : i <= j
      sep == CHOOSE i \in colons : \A j \in colons : i <= j
  IN IF text = <<>> THEN BadInterface
     ELSE IF text[1] = "["
     THEN IF brackets = {} \/ (end < Len(text) /\ text[end + 1] # ":") THEN BadInterface
          ELSE Host(SubSeq(text, 2, end - 1), IF end = Len(text) THEN NoPort ELSE SubSeq(text, end + 2, Len(text)))
     ELSE IF colons = {} THEN Host(text, NoPort)
     ELSE IF sep = Len(text) THEN BadInterface
     ELSE Host(SubSeq(text, 1, sep - 1), SubSeq(text, sep + 1, Len(text)))

make_lshd_config ==
  init_server_config @@ make_service_config @@ init_algorithms_options @@
  [ports |-> <<>>, ports_override |-> FALSE, interfaces |-> <<>>, interfaces_override |-> FALSE,
   hostkey |-> Nothing, keys |-> {}, kexinit |-> {}, daemonic |-> FALSE, no_setsid |-> FALSE,
   pid_file |-> Nothing, use_pid_file |-> -1, corefile |-> -1]

lshd_options ==
  <<Opt(<<"interface">>, "OPT_INTERFACE", "required"), Opt(<<"add-", "interface">>, "OPT_ADD_INTERFACE", "required"),
    Opt(<<"p", "ort">>, "p", "required"), Opt(<<"add-", "port">>, "OPT_ADD_PORT", "required"),
    Opt(<<"host", "-key">>, "h", "required"), Opt(<<"service">>, "OPT_SERVICE", "required"),
    Opt(<<"add-", "service">>, "OPT_ADD_SERVICE", "required"), Opt(<<"daemonic">>, "OPT_DAEMONIC", "none"),
    Opt(<<"p", "id-file">>, "OPT_PIDFILE", "required"), Opt(<<"no-", "pid-file">>, "OPT_NO_PIDFILE", "none"),
    Opt(<<"no-", "s", "yslog">>, "OPT_NO_SYSLOG", "none"), Opt(<<"enable-core">>, "OPT_CORE", "none"),
    Opt(<<"no-", "s", "etsid">>, "OPT_NO_SETSID", "none")>>

(* The service lshd offers when none is configured. *)
DefaultUserauth(c) ==
  [make_service_entry(Word(<<"ssh-userauth">>)) EXCEPT
     !.args = <<Word(<<"lshd-userauth">>), Long(<<"se", "ssion-id">>), Word(<<"$(session_id)">>)>> \o VerbosityArgs(c)]

AddInterface(p, arg) ==
  IF parse_interface(arg.text) = BadInterface THEN argp_error(p)
  ELSE Push(p, "interfaces", <<parse_interface(arg.text)>>)

lshd_argp_parser(p, key, arg) ==
  CASE key = "END" -> IF p.conf.services = <<>> THEN Set(p, "services", <<DefaultUserauth(p.conf)>>) ELSE p
    [] key = "OPT_INTERFACE" -> AddInterface(Set(p, "interfaces_override", TRUE), arg)
    [] key = "OPT_ADD_INTERFACE" -> AddInterface(p, arg)
    [] key = "p" -> Push(Set(p, "ports_override", TRUE), "ports", <<arg.text>>)
    [] key = "OPT_ADD_PORT" -> Push(p, "ports", <<arg.text>>)
    [] key = "h" -> IF p.conf.hostkey = Nothing THEN Set(p, "hostkey", arg) ELSE p
    [] key = "OPT_SERVICE" -> ServiceOption(p, arg, TRUE)
    [] key = "OPT_ADD_SERVICE" -> ServiceOption(p, arg, FALSE)
    [] key = "OPT_DAEMONIC" -> Set(p, "daemonic", TRUE)
    [] key = "OPT_PIDFILE" ->
         IF p.conf.pid_file = Nothing THEN Set(Set(p, "pid_file", arg), "use_pid_file", 1) ELSE p
    [] key = "OPT_NO_PIDFILE" -> Set(p, "use_pid_file", 0)
    [] key = "OPT_NO_SYSLOG" -> Set(p, "syslog", 0)
    [] key = "OPT_CORE" -> Set(p, "corefile", 1)
    [] key = "OPT_NO_SETSID" -> Set(p, "no_setsid", TRUE)
    [] OTHER -> Unknown(p)

HostKeyFile == Word(<<"host-key">>)
PidFile == Word(<<"lshd.pid">>)

lshd_config_options ==
  <<ConfEx(<<"hostkey">>, "h", "string", <<HostKeyFile>>), ConfOpt(<<"interface">>, "OPT_INTERFACE", "string"),
    ConfEx(<<"port">>, "p", "string", <<Word(<<"ssh">>)>>),
    ConfEx(<<"service">>, "OPT_SERVICE", "list",
           <<Word(<<"ssh-userauth">>), Equal, Open, Word(<<"lshd-userauth">>), Long(<<"se", "ssion-id">>),
             Word(<<"$(session_id)">>), Long(<<"use-example-config">>), Close>>),
    ConfEx(<<"enable-core-file">>, "OPT_CORE", "bool", <<No>>), ConfOpt(<<"pid-file">>, "OPT_PIDFILE", "string")>>

(* A private key of one algorithm is read from the file. *)
read_host_key(c, file) ==
  IF file \in DOMAIN GoodKeys THEN [c EXCEPT !.keys = @ \cup {GoodKeys[file]}] ELSE c

(* The defaults, and the host key and algorithms to offer.  Without a host *)
(* key there is an error, and nothing to offer.                            *)
LshdDefaults(c) ==
  LET syslog == IF c.daemonic /\ c.syslog < 0 THEN 1 ELSE c.syslog
      pid == IF c.use_pid_file >= 0 THEN c.use_pid_file ELSE IF c.daemonic THEN 1 ELSE 0
      set == [c EXCEPT !.ports = IF @ = <<>> THEN <<<<"22">>>> ELSE @,
                       !.syslog = syslog, !.use_pid_file = pid,
                       !.pid_file = IF pid = 1 /\ @ = Nothing THEN PidFile ELSE @,
                       !.corefile = IF @ < 0 THEN 1 ELSE @]
      keyed == read_host_key(set, IF c.hostkey = Nothing THEN HostKeyFile ELSE c.hostkey)
      hostkeys == filter_algorithms(keyed.keys, keyed.hostkey_algorithms)
  IN IF keyed.keys = {} THEN [conf |-> keyed, err |-> "ENOENT"]
     ELSE Done([keyed EXCEPT !.kexinit = IF hostkeys = <<>> THEN {"none"} ELSE ToSet(hostkeys)])

lshd_config_handler(c, key, v) ==
  CASE key = "END" -> LshdDefaults(c)
    [] key = "h" -> Done(IF c.hostkey = Nothing THEN [c EXCEPT !.hostkey = v.word] ELSE c)
    [] key = "OPT_INTERFACE" ->
         Done(IF c.interfaces_override \/ parse_interface(v.word.text) = BadInterface THEN c
              ELSE [c EXCEPT !.interfaces = Append(@, parse_interface(v.word.text))])
    [] key = "p" -> Done(IF c.ports_override THEN c ELSE [c EXCEPT !.ports = Append(@, v.word.text)])
    [] key = "OPT_SERVICE" -> service_config_option(c, v.list)
    [] key = "OPT_CORE" -> Done(Default(c, "corefile", v.n))
    [] key = "OPT_PIDFILE" ->
         Done(IF c.pid_file = Nothing THEN [c EXCEPT !.pid_file = v.word, !.use_pid_file = 1] ELSE c)

----------------------------------------------------------------------------
(* lshd-userauth *)

make_lshd_userauth_config ==
  init_server_config @@ make_service_config @@
  [session_id |-> Nothing, allow_password |-> -1, allow_publickey |-> -1, allow_root_login |-> -1]

userauth_options ==
  <<Opt(<<"se", "ssion-id">>, "OPT_SESSION_ID", "required"), Opt(<<"se", "rvice">>, "OPT_SERVICE", "required"),
    Opt(<<"add-service">>, "OPT_ADD_SERVICE", "required"),
    Opt(<<"allow-", "p", "assword">>, "OPT_PASSWORD", "none"), Opt(<<"deny-", "p", "assword">>, "OPT_NO_PASSWORD", "none"),
    Opt(<<"allow-", "p", "ublickey">>, "OPT_PUBLICKEY", "none"), Opt(<<"deny-", "p", "ublickey">>, "OPT_NO_PUBLICKEY", "none"),
    Opt(<<"allow-", "root-login">>, "OPT_ROOT_LOGIN", "none"), Opt(<<"deny-", "root-login">>, "OPT_NO_ROOT_LOGIN", "none")>>

(* The flags an option sets, and those it clears. *)
UserauthFlags == [OPT_PASSWORD |-> "allow_password", OPT_PUBLICKEY |-> "allow_publickey",
                  OPT_ROOT_LOGIN |-> "allow_root_login"]
NoUserauthFlags == [OPT_NO_PASSWORD |-> "allow_password", OPT_NO_PUBLICKEY |-> "allow_publickey",
                    OPT_NO_ROOT_LOGIN |-> "allow_root_login"]

DefaultConnection(c) ==
  [make_service_entry(Word(<<"ssh-connection">>)) EXCEPT
     !.args = <<Word(<<"lshd-connection">>), Long(<<"helper-fd">>), Word(<<"$(helper_fd)">>)>> \o VerbosityArgs(c)]

userauth_argp_parser(p, key, arg) ==
  CASE key = "END" ->
         IF p.conf.session_id = Nothing \/ (p.conf.allow_password = 0 /\ p.conf.allow_publickey = 0)
         THEN argp_error(p)
         ELSE IF p.conf.services = <<>> THEN Set(p, "services", <<DefaultConnection(p.conf)>>) ELSE p
    [] key = "OPT_SESSION_ID" -> IF arg \in HexWords THEN Set(p, "session_id", arg) ELSE argp_error(p)
    [] key = "OPT_SERVICE" -> ServiceOption(p, arg, TRUE)
    [] key = "OPT_ADD_SERVICE" -> ServiceOption(p, arg, FALSE)
    [] key \in DOMAIN UserauthFlags -> Set(p, UserauthFlags[key], 1)
    [] key \in DOMAIN NoUserauthFlags -> Set(p, NoUserauthFlags[key], 0)
    [] OTHER -> Unknown(p)

lshd_userauth_config_options ==
  <<ConfEx(<<"service">>, "OPT_SERVICE", "list",
           <<Word(<<"ssh-connection">>), Equal, Open, Word(<<"lshd-connection">>), Long(<<"helper-fd">>),
             Word(<<"$(helper_fd)">>), Long(<<"use-example-config">>), Close>>),
    ConfEx(<<"allow-password">>, "OPT_PASSWORD", "bool", <<No>>),
    ConfEx(<<"allow-publickey">>, "OPT_PUBLICKEY", "bool", <<Yes>>),
    ConfEx(<<"allow-root-login">>, "OPT_ROOT_LOGIN", "bool", <<No>>)>>

(* Flags set nowhere are off. *)
Deny(c, fields) == [f \in DOMAIN c |-> IF f \in fields /\ c[f] = -1 THEN 0 ELSE c[f]]

lshd_userauth_config_handler(c, key, v) ==
  CASE key = "END" -> Done(Deny(c, {"allow_password", "allow_publickey", "allow_root_login"}))
    [] key = "OPT_SERVICE" -> service_config_option(c, v.list)
    [] key \in DOMAIN UserauthFlags -> Done(Default(c, UserauthFlags[key], v.n))

----------------------------------------------------------------------------
(* lshd-connection.  TCP/IP forwarding is a set of directions: 1 is local, *)
(* 2 is remote, 3 is both.                                                 *)

make_lshd_connection_config ==
  init_server_config @@ make_service_config @@
  [helper_fd |-> Nothing, allow_tcpforward |-> -1, allow_session |-> -1, allow_shell |-> -1,
   allow_exec |-> -1, allow_pty |-> -1, allow_x11 |-> -1]

connection_options ==
  <<Opt(<<"allow-", "tcpip-forward">>, "OPT_TCPFORWARD", "optional"), Opt(<<"deny-", "tcpip-forward">>, "OPT_NO_TCPFORWARD", "none"),
    Opt(<<"helper-fd">>, "OPT_HELPER_FD", "required"),
    Opt(<<"allow-", "se", "ssion">>, "OPT_SESSION", "none"), Opt(<<"deny-", "se", "ssion">>, "OPT_NO_SESSION", "none"),
    Opt(<<"allow-", "shell">>, "OPT_SHELL", "none"), Opt(<<"deny-", "shell">>, "OPT_NO_SHELL", "none"),
    Opt(<<"allow-", "exec">>, "OPT_EXEC", "none"), Opt(<<"deny-", "exec">>, "OPT_NO_EXEC", "none"),
    Opt(<<"subsystem">>, "OPT_SUBSYSTEM", "required"), Opt(<<"add-subsystem">>, "OPT_ADD_SUBSYSTEM", "required")>>

ConnectionFlags == [OPT_SESSION |-> "allow_session", OPT_SHELL |-> "allow_shell", OPT_EXEC |-> "allow_exec",
                    OPT_PTY |-> "allow_pty", OPT_X11_FORWARD |-> "allow_x11"]
NoConnectionFlags == [OPT_NO_SESSION |-> "allow_session", OPT_NO_SHELL |-> "allow_shell",
                      OPT_NO_EXEC |-> "allow_exec"]

(* The handler reads getopt's optarg, which this argp never sets, where    *)
(* the argument of the option is meant: both directions are allowed        *)
(* whatever the argument.                                                  *)
optarg == Nothing

connection_argp_parser(p, key, arg) ==
  CASE key = "END" ->
         IF \/ p.conf.allow_tcpforward = 0 /\ p.conf.allow_session = 0
            \/ /\ p.conf.allow_session = 1 /\ p.conf.allow_shell = 0
               /\ p.conf.allow_exec = 0 /\ p.conf.services = <<>>
         THEN argp_error(p) ELSE p
    [] key = "OPT_HELPER_FD" ->
         IF p.conf.helper_fd # Nothing THEN argp_error(p)
         ELSE IF arg \in SocketWords THEN Set(p, "helper_fd", arg) ELSE argp_failure(p)
    [] key = "OPT_TCPFORWARD" ->
         CASE optarg = Nothing -> Set(p, "allow_tcpforward", 3)
           [] optarg = Word(<<"local">>) -> Set(p, "allow_tcpforward", 1)
           [] optarg = Word(<<"remote">>) -> Set(p, "allow_tcpforward", 2)
           [] OTHER -> argp_error(p)
    [] key = "OPT_NO_TCPFORWARD" -> Set(p, "allow_tcpforward", 0)
    [] key \in DOMAIN ConnectionFlags -> Set(p, ConnectionFlags[key], 1)
    [] key \in DOMAIN NoConnectionFlags -> Set(p, NoConnectionFlags[key], 0)
    [] key = "OPT_SUBSYSTEM" -> ServiceOption(p, arg, TRUE)
    [] key = "OPT_ADD_SUBSYSTEM" -> ServiceOption(p, arg, FALSE)
    [] OTHER -> Unknown(p)

lshd_connection_config_options ==
  <<ConfOpt(<<"subsystem">>, "OPT_SUBSYSTEM", "list"), ConfEx(<<"allow-session">>, "OPT_SESSION", "bool", <<Yes>>),
    ConfEx(<<"allow-shell">>, "OPT_SHELL", "bool", <<Yes>>), ConfEx(<<"allow-exec">>, "OPT_EXEC", "bool", <<Yes>>),
    ConfEx(<<"allow-pty">>, "OPT_PTY", "bool", <<Yes>>), ConfEx(<<"allow-x11">>, "OPT_X11_FORWARD", "bool", <<Yes>>),
    ConfEx(<<"allow-tcpforward">>, "OPT_TCPFORWARD", "string", <<Yes>>)>>

Directions == (No :> 0) @@ (Word(<<"local">>) :> 1) @@ (Word(<<"remote">>) :> 2) @@ (Yes :> 3)

lshd_connection_config_handler(c, key, v) ==
  CASE key = "END" -> Done(Deny(c, {"allow_tcpforward", "allow_session", "allow_shell", "allow_exec",
                                    "allow_pty", "allow_x11"}))
    [] key = "OPT_SUBSYSTEM" -> service_config_option(c, v.list)
    [] key = "OPT_TCPFORWARD" ->
         IF v.word \in DOMAIN Directions THEN Done(Default(c, "allow_tcpforward", Directions[v.word]))
         ELSE [conf |-> c, err |-> "EINVAL"]
    [] key \in DOMAIN ConnectionFlags -> Done(Default(c, ConnectionFlags[key], v.n))
=============================================================================
