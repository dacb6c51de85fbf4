------------------------------ MODULE UserAuth ------------------------------
(***************************************************************************)
(* Logging in: lsh-transport on one side, lshd and its child lshd-userauth *)
(* on the other (lsh-transport.c, lshd.c, lshd-userauth.c).  Every handler *)
(* is an operator on the record of the program it runs in.  The transport  *)
(* layer is a reliable pair of queues here; Transport.tla models it.       *)
(*                                                                         *)
(* `opt` holds what the command lines, the configuration files and the     *)
(* account database say; it does not change while the programs run.        *)
(***************************************************************************)
EXTENDS Naturals, Sequences, SequencesExt, FiniteSets

CONSTANTS
  MaxAttempts,    \* MAX_ATTEMPTS of lshd-userauth.c (10 there)
  MaxPrompts,     \* KBDINTERACT_MAX_PROMPTS of lsh-transport.c (17 there)
  Accounts        \* the account database: name -> passwd and shadow fields

ASSUME LimitsAssumption == MaxAttempts \in Nat \ {0} /\ MaxPrompts \in Nat

NoUser == [name |-> "", uid |-> 0, crypted |-> "", home |-> ""]

-----------------------------------------------------------------------------
(* lshd-userauth: accounts and methods.                                    *)

Empty(field) == field = "empty"

(* The shadow record replaces the password "x", if it may still be used.   *)
ShadowDenies(acct) ==
  \/ ~acct.shadow.found
  \/ acct.shadow.expired
  \/ acct.shadow.inactive /\ acct.shadow.old
  \/ Empty(acct.shadow.crypted)

Crypted(acct, me) ==
  IF me = 0 /\ acct.crypted = "x" THEN acct.shadow.crypted ELSE acct.crypted

(* A non-root server only looks at the uid; a root server applies the      *)
(* rules for disabled accounts.  "stars" stands for "*..." and "*" for a   *)
(* single star.                                                            *)
AccountDenied(acct, me, allow_root_login) ==
  \/ Empty(acct.crypted) \/ Empty(acct.shell)
  \/ me # 0 /\ acct.uid # me
  \/ /\ me = 0
     /\ \/ ~allow_root_login /\ acct.uid = 0
        \/ acct.crypted = "x" /\ ShadowDenies(acct)
        \/ Crypted(acct, me) = "stars"

AccountHome(acct, me, env_home) ==
  LET home == IF me # 0 /\ env_home # "unset" THEN env_home ELSE acct.home
  IN IF Empty(home) THEN "/" ELSE home

(* The user record after a successful lookup, or NoUser.                   *)
lookup_user(config, name) ==
  IF name \notin DOMAIN Accounts THEN NoUser
  ELSE LET acct == Accounts[name]
       IN IF AccountDenied(acct, config.me, config.allow_root_login) THEN NoUser
          ELSE [name |-> name, uid |-> acct.uid,
                crypted |-> Crypted(acct, config.me),
                home |-> AccountHome(acct, config.me, config.env_home)]

(* The file authorized_keys_sha1/<hash> of the account exists, and the     *)
(* algorithm is one that a verifier can be made for.                       *)
get_verifier(user, key) == key.known_type /\ key.name \in Accounts[user.name].authorized

(* 1 is success, 0 failure; 2 stands for -1, "PK_OK has been sent".        *)
handle_publickey(config, user, req) ==
  IF ~config.allow_publickey THEN 0
  ELSE IF ~get_verifier(user, req.key) THEN 0
  ELSE IF ~req.check_key THEN 2
  ELSE IF req.key.signed THEN 1 ELSE 0

(* Fields shorter than five characters ("x", "*", "NP") match nothing.     *)
handle_password(config, user, req) ==
  IF /\ config.allow_password
     /\ ~req.change_passwd
     /\ user.crypted = "hash"
     /\ req.password = Accounts[user.name].password
  THEN 1 ELSE 0

Methods(config) == (IF config.allow_password THEN {"password"} ELSE {})
                   \cup (IF config.allow_publickey THEN {"publickey"} ELSE {})

(* What one USERAUTH_REQUEST comes to.                                     *)
RequestResult(config, user, req) ==
  IF req.service \notin config.services \/ user = NoUser THEN 0
  ELSE CASE req.method = "publickey" -> handle_publickey(config, user, req)
         [] req.method = "password"  -> handle_password(config, user, req)
         [] OTHER -> 0

(* The user is looked up only for a service that is known.                 *)
RequestUser(config, req) ==
  IF req.service \in config.services THEN lookup_user(config, req.user) ELSE NoUser

Failure(config) == [type |-> "FAILURE", methods |-> Methods(config), nprompt |-> 0, service |-> ""]
Message(type) == [type |-> type, methods |-> {}, nprompt |-> 0, service |-> ""]
Disconnect == Message("DISCONNECT")

HandleNotCounting(config, ua, msg) ==
  LET user == RequestUser(config, msg)
  IN IF msg.type # "REQUEST" THEN [ua |-> ua, out |-> <<Message("UNIMPLEMENTED")>>]
     ELSE IF RequestResult(config, user, msg) = 1
     THEN [ua |-> [ua EXCEPT !.state = "start_service", !.user = user,
                             !.service = msg.service, !.request = msg],
           out |-> <<Message("SUCCESS")>>]
     ELSE [ua |-> [ua EXCEPT !.user = NoUser], out |-> <<Failure(config)>>]

(* The user of an earlier probe is used again.                             *)
HandleWithOldUser(config, ua, msg) ==
  IF msg.type # "REQUEST"
  THEN [ua |-> [ua EXCEPT !.attempt = @ + 1], out |-> <<Message("UNIMPLEMENTED")>>]
  ELSE LET user == IF ua.user = NoUser THEN RequestUser(config, msg) ELSE ua.user
           res == RequestResult(config, user, msg)
       IN IF res = 1
          THEN [ua |-> [ua EXCEPT !.state = "start_service", !.user = user,
                                  !.service = msg.service, !.request = msg],
                out |-> <<Message("SUCCESS")>>]
          ELSE [ua |-> [ua EXCEPT !.attempt = @ + 1, !.user = IF res = 0 THEN NoUser ELSE user],
                out |-> <<Failure(config)>>]

(* One turn of the loop of handle_userauth on the packet msg: the process  *)
(* and what it writes.  A probe for a public key keeps the user record.    *)
handle_userauth(config, ua, msg) ==
  IF msg.type = "INVALID"
  THEN [ua |-> [ua EXCEPT !.state = "exited"], out |-> <<Disconnect>>]
  ELSE IF msg.type # "REQUEST"
  THEN [ua |-> [ua EXCEPT !.attempt = @ + 1], out |-> <<Message("UNIMPLEMENTED")>>]
  ELSE LET user == RequestUser(config, msg)
           res == RequestResult(config, user, msg)
       IN CASE res = 0 -> [ua |-> [ua EXCEPT !.attempt = @ + 1, !.user = NoUser],
                           out |-> <<Failure(config)>>]
            [] res = 1 -> [ua |-> [ua EXCEPT !.state = "start_service", !.user = user,
                                             !.service = msg.service, !.request = msg],
                           out |-> <<Message("SUCCESS")>>]
            [] OTHER   -> [ua |-> [ua EXCEPT !.attempt = @ + 1, !.user = user],
                           out |-> <<Message("PK_OK")>>]

(* After the last attempt the process says "Access denied" and exits.      *)
AccessDenied(ua) == [ua |-> [ua EXCEPT !.state = "exited"], out |-> <<Disconnect>>]

(* The uid that a service process gets, and the directory it starts in.    *)
start_service_ua(ua, home_exists) ==
  [ua EXCEPT !.state = "service", !.uid = ua.user.uid,
             !.cwd = IF home_exists THEN ua.user.home ELSE "/"]

(* Failing to become the user or to execute the program is reported; a     *)
(* helper that cannot be started is not.                                   *)
start_service_fails(ua, reported) ==
  [ua |-> [ua EXCEPT !.state = "exited"],
   out |-> IF reported THEN <<Disconnect>> ELSE <<>>]

NewUserauth == [state |-> "running", attempt |-> 0, user |-> NoUser, service |-> "",
                request |-> [type |-> "none"], uid |-> 0, cwd |-> ""]
NoUserauth == [NewUserauth EXCEPT !.state = "none"]

(* main_argp_parser at the end of the options: a process with no enabled   *)
(* method exits at once.                                                   *)
UserauthStarts(config) ==
  IF Methods(config) = {} THEN [NewUserauth EXCEPT !.state = "exited"] ELSE NewUserauth

-----------------------------------------------------------------------------
(* lshd: from the key exchange to the service.                             *)

(* A service request that can be served starts the program and replaces    *)
(* the packet handler; `starts` is FALSE when socketpair or fork fails.    *)
lshd_service_request_handler(config, msg, starts) ==
  IF msg.service \notin config.lshd_services \/ ~starts
  THEN [state |-> "closed", ua |-> NoUserauth, out |-> <<Disconnect>>]
  ELSE [state |-> "forward",
        ua |-> IF msg.service = "ssh-userauth" THEN UserauthStarts(config)
               ELSE [NewUserauth EXCEPT !.state = "service", !.service = msg.service, !.uid = config.me],
        out |-> <<[Message("SERVICE_ACCEPT") EXCEPT !.service = msg.service]>>]

lshd_packet_handler(config, msg, starts) ==
  CASE msg.type = "SERVICE_REQUEST" -> lshd_service_request_handler(config, msg, starts)
    [] msg.type = "INVALID" -> [state |-> "closed", ua |-> NoUserauth, out |-> <<Disconnect>>]
    [] OTHER -> [state |-> "service", ua |-> NoUserauth, out |-> <<Message("UNIMPLEMENTED")>>]

-----------------------------------------------------------------------------
(* lsh-transport: the host key.                                            *)

(* interact_yes_or_no with default no: no terminal, or -q, means no.       *)
interact_yes_or_no(config, answer) == config.tty /\ ~config.quiet /\ answer

(* Is the key trusted, and is it to be remembered?  `trust` and `remember` *)
(* are what the user answers if asked.                                     *)
Authorized(db, key) == key \in db
TrustsWithoutTerminal(config, db, key, trust) ==
  Authorized(db, key) \/ (config.sloppy /\ (config.quiet \/ ~config.tty \/ trust))
Trusts(config, db, key, trust) ==
  \/ Authorized(db, key)
  \/ config.sloppy /\ (config.quiet \/ interact_yes_or_no(config, trust))
Remembers(config, db, key, remember) ==
  /\ ~Authorized(db, key)
  /\ config.capture # "none"
  /\ interact_yes_or_no(config, remember)

(* Asked about trusting the key, which needs a terminal.                   *)
AsksTrust(config, db, key) ==
  ~Authorized(db, key) /\ config.sloppy /\ config.tty /\ ~config.quiet

(* The process after the lookup: a key the user accepts goes into the      *)
(* database in memory, so that a later exchange finds it there.            *)
lsh_transport_lookup_verifier(config, tr, key, trust) ==
  LET asked == IF AsksTrust(config, tr.db, key) THEN tr.asked + 1 ELSE tr.asked
  IN IF Trusts(config, tr.db, key, trust)
     THEN [ok |-> TRUE, tr |-> [tr EXCEPT !.db = @ \cup {key}, !.asked = asked]]
     ELSE [ok |-> FALSE, tr |-> [tr EXCEPT !.asked = asked]]

(* read_host_acls: the keys the file lists, if it can be read.             *)
read_host_acls(config, files) == IF config.acls_readable THEN files["acls"] ELSE {}

(* read_user_key: a key of a type that can sign, or none.                  *)
read_user_key(config) == config.userauth /\ config.identity \in {"dsa", "rsa", "small"}

NewTransport(config, files) ==
  [state |-> "connect", tried_empty_password |-> FALSE, expect_info_request |-> FALSE,
   keypair |-> read_user_key(config), db |-> read_host_acls(config, files), asked |-> 0]
NoTransport ==
  [state |-> "none", tried_empty_password |-> FALSE, expect_info_request |-> FALSE,
   keypair |-> FALSE, db |-> {}, asked |-> 0]

(* A line from the server before its first packet: banner lines are shown, *)
(* and of the version only the first four characters are compared.         *)
lsh_transport_line_handler(tr, line) ==
  CASE line = "banner" -> tr
    [] line = "short"  -> [tr EXCEPT !.state = "exit"]
    [] OTHER           -> [tr EXCEPT !.state = "kex"]

-----------------------------------------------------------------------------
(* lsh-transport: user authentication.  An operator gives the process and  *)
(* the packets it sends.                                                   *)

RequestedService(config) == IF config.userauth THEN "ssh-userauth" ELSE config.service

NoKey == [name |-> "none", known_type |-> FALSE, signed |-> FALSE]
UserKey == [name |-> "user", known_type |-> TRUE, signed |-> TRUE]

Request(config, method, key, password) ==
  [type |-> "REQUEST", user |-> config.user, service |-> config.service, method |-> method,
   check_key |-> TRUE, key |-> key, change_passwd |-> FALSE, password |-> password]

Quits(tr) == [tr |-> [tr EXCEPT !.state = "exit"], out |-> <<[type |-> "DISCONNECT"]>>]

(* The first request: signed with the user's key if there is one and it is *)
(* large enough to sign with, otherwise "none" to learn the methods.       *)
start_userauth(config, tr) ==
  [tr |-> [tr EXCEPT !.state = "userauth"],
   out |-> IF tr.keypair /\ config.identity # "small"
           THEN <<Request(config, "publickey", UserKey, "")>>
           ELSE <<Request(config, "none", NoKey, "")>>]

(* The user types a password; "none" stands for no password at all (no     *)
(* terminal, or the askpass program failed), "empty" for an empty line.    *)
try_password_auth(config, tr, typed) ==
  IF typed = "none" \/ (typed = "empty" /\ tr.tried_empty_password)
  THEN Quits([tr EXCEPT !.tried_empty_password = @ \/ typed = "empty"])
  ELSE [tr |-> [tr EXCEPT !.tried_empty_password = @ \/ typed = "empty"],
        out |-> <<Request(config, "password", NoKey, typed)>>]

try_keyboard_interactive_auth(config, tr) ==
  [tr |-> [tr EXCEPT !.expect_info_request = TRUE],
   out |-> <<Request(config, "keyboard-interactive", NoKey, "")>>]

(* A failure ends the dialogue and tries the next method: a password       *)
(* wherever the server takes one, else keyboard-interactive.               *)
handle_failure(config, tr, msg, typed) ==
  LET reset == [tr EXCEPT !.expect_info_request = FALSE]
  IN CASE "password" \in msg.methods -> try_password_auth(config, reset, typed)
       [] "password" \notin msg.methods /\ "keyboard-interactive" \in msg.methods
            -> try_keyboard_interactive_auth(config, reset)
       [] OTHER -> Quits(reset)

(* The dialogue: too many prompts, or a user who does not answer one of    *)
(* them ("none"; an empty line counts as that), ends the connection.       *)
send_userauth_info_response(config, tr, msg, typed) ==
  IF msg.nprompt > MaxPrompts \/ ~config.tty \/ (typed = "none" /\ msg.nprompt > 0)
  THEN Quits(tr)
  ELSE [tr |-> tr, out |-> <<[type |-> "INFO_RESPONSE", nprompt |-> msg.nprompt]>>]

(* start_service of lsh-transport.c: hello to lsh, then forwarding.        *)
start_service_tr(tr) == [tr |-> [tr EXCEPT !.state = "forward"], out |-> <<>>]

handle_service_accept(config, tr, msg) ==
  IF msg.type = "SERVICE_ACCEPT" /\ msg.service = RequestedService(config)
  THEN IF config.userauth THEN start_userauth(config, tr) ELSE start_service_tr(tr)
  ELSE Quits(tr)

handle_userauth_packet(config, tr, msg, typed) ==
  CASE msg.type = "SUCCESS" -> start_service_tr(tr)
    [] msg.type = "BANNER"  -> [tr |-> tr, out |-> <<>>]
    [] msg.type = "FAILURE" -> handle_failure(config, tr, msg, typed)
    [] msg.type = "INFO_REQUEST" /\ tr.expect_info_request
                            -> send_userauth_info_response(config, tr, msg, typed)
    [] msg.type = "INVALID" \/ (msg.type = "INFO_REQUEST" /\ ~tr.expect_info_request)
                            -> Quits(tr)
    [] OTHER                -> [tr |-> tr, out |-> <<[type |-> "UNIMPLEMENTED"]>>]

(* The transport layer closes the connection on these by itself.           *)
ClosingTypes == {"DISCONNECT", "UNIMPLEMENTED"}

lsh_transport_packet_handler(config, tr, msg, typed) ==
  CASE msg.type \in ClosingTypes -> [tr |-> [tr EXCEPT !.state = "exit"], out |-> <<>>]
    [] msg.type \notin ClosingTypes /\ tr.state = "service_request"
                                 -> handle_service_accept(config, tr, msg)
    [] OTHER                     -> handle_userauth_packet(config, tr, msg, typed)
=============================================================================
