------------------------------ MODULE MCLogin ------------------------------
(***************************************************************************)
(* Login for TLC: a small account database, and scenarios that vary the    *)
(* options of lsh, the trust in the host key, and the two ends.            *)
(***************************************************************************)
EXTENDS Login

NoShadow == [found |-> FALSE, expired |-> FALSE, inactive |-> FALSE, old |-> FALSE, crypted |-> "empty"]
Shadow == [NoShadow EXCEPT !.found = TRUE, !.crypted = "hash"]
Account(uid, crypted, shadow, password, keys) ==
  [uid |-> uid, crypted |-> crypted, shell |-> "sh", home |-> "home", shadow |-> shadow,
   password |-> password, authorized |-> keys]

MCAccounts ==
  [root  |-> Account(0, "hash", NoShadow, "rootpw", {"user"}),
   alice |-> Account(1, "hash", NoShadow, "right", {"user"}),
   bob   |-> Account(2, "x", Shadow, "bobpw", {}),
   carol |-> Account(3, "x", [Shadow EXCEPT !.expired = TRUE], "right", {"user"}),
   dave  |-> Account(4, "stars", NoShadow, "right", {"user"}),
   erin  |-> Account(5, "NP", NoShadow, "right", {"user"}),
   frank |-> [Account(6, "hash", NoShadow, "right", {"user"}) EXCEPT !.shell = "empty"]]

Default ==
  [args |-> <<>>, gateway |-> "none", tty |-> TRUE, display |-> TRUE, again |-> FALSE,
   client |-> "lsh", server |-> "lshd", lines |-> {"SSH-2.0"},
   known |-> {"host"}, hostkey |-> "host", acls_readable |-> TRUE, sloppy |-> FALSE, quiet |-> FALSE,
   capture |-> "none", userauth |-> TRUE, user |-> "alice", service |-> "ssh-connection",
   identity |-> "none", lshd_services |-> {"ssh-userauth"}, services |-> {"ssh-connection"},
   me |-> 0, env_home |-> "unset", allow_password |-> TRUE, allow_publickey |-> TRUE,
   allow_root_login |-> FALSE]

(* Command lines, with and without the gateway of an earlier lsh.          *)
CommandLines ==
  { <<>>, <<"E", "S">>, <<"t", "E", "subsystem", "N">>, <<"stdin", "E", "E", "command">>,
    <<"n", "t", "x", "S">>, <<"L", "D", "R", "N">>, <<"B", "G">>, <<"N">>, <<"G">>,
    <<"start-gateway">>, <<"start-gateway", "use-gateway">>, <<"stop-gateway", "N">>,
    <<"use-gateway">>, <<"no-use-gateway">>, <<"n", "use-gateway", "G">> }
OptionScenarios ==
  {[Default EXCEPT !.args = a, !.gateway = g, !.identity = "rsa"] :
     a \in CommandLines, g \in {"none", "idle", "busy"}}

(* Trust in the host key, over two runs of lsh.                            *)
TrustScenarios ==
  {[Default EXCEPT !.known = {}, !.sloppy = s, !.quiet = q, !.tty = t, !.capture = IF s THEN c ELSE "none",
                   !.again = TRUE, !.identity = "dsa"] :
     s \in BOOLEAN, q \in BOOLEAN, t \in BOOLEAN, c \in {"acls", "other"}}

(* Users, keys and methods between lsh-transport and lshd.                 *)
AuthScenarios ==
  {[Default EXCEPT !.user = u, !.identity = i, !.allow_password = p, !.allow_publickey = k, !.me = m] :
     u \in {"alice", "erin", "nobody"}, i \in {"none", "rsa", "small", "md5"},
     p \in BOOLEAN, k \in BOOLEAN, m \in {0, 1}}
  \cup {[Default EXCEPT !.userauth = FALSE], [Default EXCEPT !.service = "other"],
        [Default EXCEPT !.userauth = FALSE, !.lshd_services = {"ssh-connection"}]}

OtherServerScenarios ==
  {[Default EXCEPT !.server = "other", !.tty = t, !.identity = i,
                   !.lines = {"banner", "SSH-2.0", "SSH-1.5", "short"}] :
     t \in BOOLEAN, i \in {"none", "rsa"}}
OtherClientScenarios ==
  {[Default EXCEPT !.client = "other", !.me = m, !.allow_root_login = r, !.allow_password = p,
                   !.env_home = IF m = 0 THEN "unset" ELSE "env"] :
     m \in {0, 2}, r \in BOOLEAN, p \in BOOLEAN}

MCScenarios ==
  OptionScenarios \cup TrustScenarios \cup AuthScenarios \cup OtherServerScenarios \cup OtherClientScenarios

-----------------------------------------------------------------------------
Asks(user, method, key, password) ==
  [type |-> "REQUEST", user |-> user, service |-> "ssh-connection", method |-> method,
   check_key |-> TRUE, key |-> key, change_passwd |-> FALSE, password |-> password]
MCOtherRequests ==
  {[type |-> "SERVICE_REQUEST", service |-> "ssh-userauth"], [type |-> "INVALID"], [type |-> "INFO_RESPONSE"],
   [type |-> "DISCONNECT"],
   [Asks("alice", "publickey", UserKey, "") EXCEPT !.check_key = FALSE],
   [Asks("alice", "password", NoKey, "right") EXCEPT !.change_passwd = TRUE],
   [Asks("alice", "password", NoKey, "right") EXCEPT !.service = "other"],
   Asks("alice", "publickey", [UserKey EXCEPT !.signed = FALSE], "")}
  \cup {Asks(u, "publickey", UserKey, "") : u \in {"root", "carol", "dave", "erin", "frank"}}
  \cup {Asks(u, "password", NoKey, "right") : u \in {"alice", "bob"}}
  \cup {Asks("bob", "password", NoKey, "bobpw"), Asks("root", "password", NoKey, "rootpw")}

MCOtherReplies ==
  {Message(t) : t \in {"SUCCESS", "BANNER", "INVALID", "PK_OK", "DISCONNECT"}}
  \cup {[Message("SERVICE_ACCEPT") EXCEPT !.service = s] : s \in {"ssh-userauth", "other"}}
  \cup {[Message("INFO_REQUEST") EXCEPT !.nprompt = n] : n \in {0, MaxPrompts, MaxPrompts + 1}}
  \cup {[Message("FAILURE") EXCEPT !.methods = m] : m \in SUBSET {"password", "keyboard-interactive"}}
=============================================================================
