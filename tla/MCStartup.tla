------------------------------ MODULE MCStartup ------------------------------
EXTENDS Startup

W(text) == Word(<<text>>)
It(opt, val) == [opt |-> opt, val |-> val, sub |-> <<>>]
Service(opt, name, sub) == [opt |-> opt, val |-> W(name), sub |-> sub]

MCHexWords == {W("0123")}
MCSessionId == W("0123")
MCHelperFd == W("4")
MCSocketWords == {W("4")}
MCGoodKeys == (HostKeyFile :> "ssh-rsa") @@ (W("key1") :> "ssh-dss") @@ (W("key2") :> "ssh-rsa")
MCUnwritable == {W("/no/log")}
MCLoginName == W("alice")
MCNumbers == {"22", "80", "443"}
MCResolve == (<<"ANY">> :> <<"0.0.0.0">>) @@ (<<"localhost">> :> <<"127.0.0.1", "::1">>) @@ (<<"eth">> :> <<"10.0.0.1">>)

----------------------------------------------------------------------------
(* The ways to write an item on the command line of a program. *)

Joined == ("port" :> <<"p", "ort">>) @@ ("add-port" :> <<"add-", "port">>) @@ ("host-key" :> <<"host", "-key">>)
            @@ ("add-interface" :> <<"add-", "interface">>) @@ ("pid-file" :> <<"p", "id-file">>)
            @@ ("no-pid-file" :> <<"no-", "pid-file">>) @@ ("user" :> <<"use", "r">>)
            @@ ("crypto" :> <<"c", "rypto">>) @@ ("compression" :> <<"c", "ompression">>)
            @@ ("add-service" :> <<"add-", "service">>) @@ ("hostkey-algorithm" :> <<"host", "key-algorithm">>)
            @@ ("deny-password" :> <<"deny-", "p", "assword">>) @@ ("allow-password" :> <<"allow-", "p", "assword">>)
            @@ ("allow-publickey" :> <<"allow-", "p", "ublickey">>)
            @@ ("deny-shell" :> <<"deny-", "shell">>) @@ ("allow-exec" :> <<"allow-", "exec">>)
NameOf(opt) == IF opt \in DOMAIN Joined THEN Joined[opt] ELSE <<opt>>

ShortKeys == {"p", "v", "q", "h", "l", "i", "c", "m", "z"}

Names(prog, name) ==
  {name} \cup {SubSeq(name, 1, k) : k \in {k \in 1..(Len(name) - 1) :
     Cardinality({i \in 1..Len(AllOptions[prog]) : IsPrefix(SubSeq(name, 1, k), AllOptions[prog][i].option.name)}) = 1}}

RECURSIVE Spellings(_, _)
(* One way to write each of a sequence of items, one after the other. *)
Plain(prog, items) ==
  FlattenSeq([k \in 1..Len(items) |-> CHOOSE words \in Spellings(prog, items[k]) : TRUE])

ServiceWords(item) ==
  IF item.val = W("ssh-userauth")
  THEN <<W("lshd-userauth")>> \o Plain("lshd-userauth", item.sub) \o <<Long(<<"se", "ssion-id">>), W("$(session_id)")>>
  ELSE <<W("lshd-connection")>> \o Plain("lshd-connection", item.sub) \o <<Long(<<"helper-fd">>), W("$(helper_fd)")>>

Spellings(prog, item) ==
  LET name == NameOf(item.opt)
      o == Head(find_long_option(prog, name)).option
      names == Names(prog, name)
      short == o.key \in ShortKeys
  IN IF item.sub # <<>>
     THEN {<<Long(n), item.val, Open>> \o ServiceWords(item) \o <<Close>> : n \in names}
     ELSE IF item.val = Nothing
     THEN {<<Long(n)>> : n \in names} \cup (IF short THEN {<<Short(<<o.key>>)>>} ELSE {})
     ELSE (IF item.val.dash = 0 THEN {<<LongWith(n, item.val.text)>> : n \in names} ELSE {})
          \cup (IF o.arg = "required" THEN {<<Long(n), item.val>> : n \in names} ELSE {})
          \cup (IF short /\ item.val.dash = 0 THEN {<<Short(<<o.key>> \o item.val.text)>>} ELSE {})
          \cup (IF short /\ o.arg = "required" THEN {<<Short(<<o.key>>), item.val>>} ELSE {})

RECURSIVE Lines(_, _)
Lines(prog, items) ==
  IF items = <<>> THEN {<<>>}
  ELSE {first \o rest : first \in Spellings(prog, Head(items)), rest \in Lines(prog, Tail(items))}

(* Two flags may share a word. *)
Bundled == {<<Short(<<"v", "q">>)>>, <<Short(<<"q", "v">>)>>, <<Short(<<"v">>), Short(<<"q">>)>>}

(* A setting in a file; the service is lshd-userauth, with its flags. *)
Setting(item) ==
  IF item.sub # <<>>
  THEN <<W(item.opt), item.val, Equal, Open, W("lshd-userauth")>>
       \o [k \in 1..Len(item.sub) |-> Long(NameOf(item.sub[k].opt))]
       \o <<Long(<<"se", "ssion-id">>), W("$(session_id)"), Close, Eol>>
  ELSE <<W(item.opt), Equal, item.val, Eol>>
File(settings) == FlattenSeq([k \in 1..Len(settings) |-> Setting(settings[k])])

----------------------------------------------------------------------------
(* Files.  Those named "quiet" say little; the others say a lot, with      *)
(* comments and empty lines.                                               *)
Passwords == Service("service", "ssh-userauth", <<It("deny-password", Nothing), It("allow-publickey", Nothing)>>)

Settings ==
  [lshd |-> <<It("port", W("80")), It("verbose", No), It("hostkey", W("key1")), It("verbose", Yes), Passwords,
              It("log-file", W("log")), It("interface", W("localhost")), It("port", W("443"))>>,
   bare |-> <<>>,
   auth |-> <<It("allow-password", Yes), It("allow-root-login", Yes), It("allow-password", No), It("verbose", Yes)>>,
   conn |-> <<It("allow-session", Yes), It("allow-exec", No), It("allow-shell", Yes)>>]

Dir(prog) == Word(<<"/etc", "/", prog, "_config">>)
MCConfigFiles ==
  (W("full") :> (<<Eol, Comment, W("port"), Equal, W("22"), Eol>> \o File(Settings.lshd)))
    @@ (W("broken") :> <<W("port"), W("80"), Eol>>)
    @@ (Dir("lshd") :> <<Comment, W("port"), Eol>>)
    @@ (Dir("lshd-userauth") :> File(Settings.auth)) @@ (Dir("lshd-connection") :> File(Settings.conn))

Env == [dir |-> "/etc", files |-> [prog \in {"lshd", "lshd-userauth", "lshd-connection"} |-> Nothing],
        posixly_correct |-> FALSE, lshflags |-> <<>>, home |-> TRUE, logname |-> TRUE]

SettingsOf(full) == [lshd |-> IF full THEN Settings.lshd ELSE <<>>] @@
                    ("lshd-userauth" :> Settings.auth) @@ ("lshd-connection" :> Settings.conn)

(* The built-in configuration. *)
Example == It("use-example-config", Nothing)
ExampleSettings ==
  [lshd |-> <<It("hostkey", HostKeyFile), It("port", W("ssh")), Service("service", "ssh-userauth", <<Example>>), It("verbose", Yes)>>] @@
  ("lshd-userauth" :> <<Service("service", "ssh-connection", <<Example>>), It("allow-password", No), It("allow-publickey", Yes),
                        It("verbose", Yes)>>) @@
  ("lshd-connection" :> <<It("allow-session", Yes), It("allow-shell", Yes), It("allow-exec", Yes), It("verbose", Yes)>>)

(* One lshd with a command line. *)
LshdScene(items, argv, full, wrong, posix) ==
  [start |-> (1 :> [prog |-> "lshd", by |-> "shell", argv |-> argv, items |-> items, settings |-> SettingsOf(full), wrong |-> wrong]),
   env |-> [Env EXCEPT !.files["lshd"] = IF full THEN W("full") ELSE Nothing, !.posixly_correct = posix],
   pidfiles |-> <<>>, faults |-> FALSE, clients |-> TRUE]

Shell == Service("service", "ssh-userauth",
                 <<It("allow-password", Nothing), Service("service", "ssh-connection", <<It("deny-shell", Nothing), It("verbose", Nothing)>>)>>)

LshdItems == {It("port", W("22")), It("add-port", W("80")), It("host-key", W("key2")), It("verbose", Nothing),
              It("interface", Word(<<"eth", ":", "22">>)), It("log-file", W("log")), Shell}
LshdSequences == {<<>>} \cup {<<a>> : a \in LshdItems} \cup {<<a, b>> : a, b \in LshdItems}
TwoServices(items) == Len(items) = 2 /\ items[1] = Shell /\ items[2] = Shell

Right == UNION {{LshdScene(items, argv, full, FALSE, posix) : argv \in Lines("lshd", items), full \in BOOLEAN, posix \in BOOLEAN}
                  : items \in {i \in LshdSequences : ~TwoServices(i)}}
Examples == {[LshdScene(<<Example>>, <<Long(<<"use-example-config">>)>>, FALSE, FALSE, FALSE) EXCEPT !.start[1].settings = ExampleSettings]}
Failing == {LshdScene(<<>>, argv, FALSE, FALSE, FALSE) :
              argv \in {<<LongWith(<<"config-file">>, <<"broken">>)>>, <<Long(<<"config-file">>), W("missing")>>,
                        <<LongWith(<<"log-file">>, <<"/no/log">>)>>, <<Short(<<"?">>)>>, <<Short(<<"V">>)>>}}
Wrong == {LshdScene(<<>>, argv, FALSE, TRUE, FALSE) :
            argv \in {<<W("word")>>, <<Short(<<"p">>)>>, <<Long(<<"p">>), W("22")>>, <<Short(<<"v", "x">>)>>,
                      <<LongWith(<<"verbose">>, <<"1">>)>>, <<Short(<<"v">>), Long(<<>>), Short(<<"v">>)>>,
                      <<LongWith(<<"interface">>, <<"eth", ":">>)>>, <<Long(<<"service">>), W("ssh-userauth"), Open, W("prog")>>,
                      <<LongWith(<<"config-file">>, <<"full">>), Long(<<"use-example-config">>)>>,
                      <<Short(<<"v">>), W("word"), Short(<<"q">>)>>}}

----------------------------------------------------------------------------
(* lsh: options before, between and after the host, perhaps some from the  *)
(* environment, and a command.                                             *)
LshScene(items, flags, argv) ==
  [start |-> (1 :> [prog |-> "lsh", by |-> "shell", argv |-> argv, items |-> items, settings |-> SettingsOf(FALSE), wrong |-> FALSE]),
   env |-> [Env EXCEPT !.lshflags = flags], pidfiles |-> <<>>, faults |-> FALSE, clients |-> TRUE]

LshItems == {It("port", W("22")), It("user", W("bob")), It("identity", Short(<<"v">>)), It("sloppy-host-authentication", Nothing),
             It("strict-host-authentication", Nothing), It("crypto", W("arcfour")), It("compression", Nothing),
             It("compression", W("none")), It("quiet", Nothing), It("debug", Nothing)}
AlgorithmItems == {It("crypto", W("3des-ctr")), It("mac", W("hmac-md5")), It("hostkey-algorithm", W("ssh-dss")),
                   It("kex-algorithm", W("diffie-hellman-group1-sha1"))}
HostItem == It("host", W("host"))
UserHost == Word(<<"carol", "@", "host">>)
Command == <<W("ls"), Short(<<"l">>), Long(<<"p", "ort">>)>>
CommandItems == [k \in 1..Len(Command) |-> It("command", Command[k])]

LshScenes ==
  UNION {{LshScene(<<a, b, HostItem>>, first, second \o <<W("host")>>),
          LshScene(<<a, HostItem, b>>, <<>>, first \o <<W("host")>> \o second),
          LshScene(<<a, b, HostItem>> \o CommandItems, <<>>, first \o second \o <<W("host")>> \o Command),
          LshScene(<<a, It("user", W("carol")), HostItem, b>> \o CommandItems, <<>>, first \o <<UserHost>> \o second \o Command),
          LshScene(<<a, b, HostItem>> \o CommandItems, first, second \o <<Long(<<>>), W("host")>> \o Command)}
           : <<a, b, first, second>> \in
               UNION {{<<x, y, f, s>> : f \in Spellings("lsh", x), s \in Spellings("lsh", y)} : <<x, y>> \in LshItems \X LshItems}}
  \cup {LshScene(<<It("verbose", Nothing), It("quiet", Nothing), HostItem>>, <<>>, words \o <<W("host")>>) : words \in Bundled}
  \cup UNION {{LshScene(<<a, b, HostItem>>, first, second \o <<W("host")>>) :
                  first \in Spellings("lsh", a), second \in Spellings("lsh", b)} :
                <<a, b>> \in AlgorithmItems \X AlgorithmItems}

(* Hosts that look like options, after -- or after a user; gateways to     *)
(* start; names the gateway cannot use; and environments without names.    *)
DashHosts == {Short(<<"v">>), Short(<<"p">>), Short(<<"V">>), Long(<<"help">>), Short(<<>>)}
Gateway == {<<>>, <<Long(<<"start-gateway">>)>>, <<Long(<<"gateway">>)>>, <<Long(<<"stop-gateway">>)>>,
            <<Long(<<"no", "-use-gateway">>)>>, <<Long(<<"start-gateway">>), Long(<<"use", "-gateway">>)>>,
            <<LongWith(<<"HANG">>, <<"1">>)>>}
OddScenes ==
  {LshScene(<<a, It("host", h)>>, <<>>, first \o <<Long(<<>>), h>>) :
     <<a, first>> \in UNION {{<<x, f>> : f \in Spellings("lsh", x)} : x \in LshItems}, h \in DashHosts}
  \cup {LshScene(<<It("user", W("carol")), It("host", Short(<<"v">>))>>, <<>>, <<Word(<<"carol", "@", "-", "v">>)>>),
        LshScene(<<It("host", Word(<<"a", "/", "b">>))>>, <<>>, <<Word(<<"a", "/", "b">>)>>)}
  \cup {[LshScene(<<HostItem>> \o user, <<>>, flags \o <<W("host")>> \o Plain("lsh", user)) EXCEPT
           !.env.home = home, !.env.logname = logname] :
          user \in {<<>>, <<It("user", W("bob"))>>}, flags \in Gateway, home \in BOOLEAN, logname \in BOOLEAN}

----------------------------------------------------------------------------
(* Two daemons that share a pid file, and perhaps a port. *)
DaemonScene(args1, args2, by, files) ==
  [start |-> [d \in {1, 2} |->
                [prog |-> "lshd", by |-> IF d = 1 THEN by ELSE "shell", wrong |-> FALSE, settings |-> SettingsOf(FALSE),
                 items |-> IF d = 1 THEN args1 ELSE args2, argv |-> Plain("lshd", IF d = 1 THEN args1 ELSE args2)]],
   env |-> Env, pidfiles |-> files, faults |-> TRUE, clients |-> FALSE]

Daemonic == It("daemonic", Nothing)
PortItem(n) == It("port", W(n))
DaemonScenes ==
  {DaemonScene(<<Daemonic, PortItem("22")>>, <<It("pid-file", PidFile), PortItem(n), It("add-port", W("443"))>>, by, files) :
     <<n, by, files>> \in {<<"22", "init", <<>>>>, <<"80", "shell", <<>>>>, <<"80", "inetd", PidFile :> 99>>}}

MCScenes == Right \cup Examples \cup Failing \cup Wrong \cup LshScenes \cup OddScenes \cup DaemonScenes
=============================================================================
