---------------------------- MODULE LoginProofs ----------------------------
(***************************************************************************)
(* Proofs about Login, for every account database, every configuration of  *)
(* lsh and lshd, and whatever other clients and servers may send: who may  *)
(* log in, and which host keys are trusted.                                *)
(***************************************************************************)
EXTENDS Login, TLAPS

-----------------------------------------------------------------------------
(* lookup_user: the record it returns, unless it is NoUser, is that of an  *)
(* account of that name that may log in.                                   *)
LEMMA LookupFindsActive ==
  ASSUME NEW name, lookup_user(opt, name) # NoUser
  PROVE  /\ name \in DOMAIN Accounts /\ AccountActive(Accounts[name])
         /\ lookup_user(opt, name).name = name
         /\ lookup_user(opt, name).uid = Accounts[name].uid
<1>1. /\ name \in DOMAIN Accounts
      /\ ~AccountDenied(Accounts[name], opt.me, opt.allow_root_login)
  BY DEF lookup_user
<1>2. AccountActive(Accounts[name])
  BY <1>1 DEF AccountDenied, AccountActive, ShadowDenies, Crypted, Empty
<1>3. QED
  BY <1>1, <1>2 DEF lookup_user

(* handle_publickey and handle_password: a request that succeeds names a   *)
(* known service and an account that may log in, and proves that it comes  *)
(* from the owner of that account.                                         *)
LEMMA SuccessProves ==
  ASSUME NEW req, RequestResult(opt, RequestUser(opt, req), req) = 1
  PROVE  LET user == RequestUser(opt, req)
         IN  /\ req.user \in DOMAIN Accounts /\ AccountActive(Accounts[req.user])
             /\ user.name = req.user /\ user.uid = Accounts[req.user].uid
             /\ req.service \in opt.services
             /\ Proves(req)
<1> DEFINE user == RequestUser(opt, req)
<1>1. req.service \in opt.services /\ user # NoUser
  BY DEF RequestResult
<1>2. user = lookup_user(opt, req.user)
  BY <1>1 DEF RequestUser
<1>3. /\ req.user \in DOMAIN Accounts /\ AccountActive(Accounts[req.user])
      /\ user.name = req.user /\ user.uid = Accounts[req.user].uid
  BY <1>1, <1>2, LookupFindsActive
<1>4. Proves(req)
  <2>1. CASE req.method = "publickey"
    BY <1>1, <1>3, <2>1 DEF RequestResult, handle_publickey, get_verifier, Proves
  <2>2. CASE req.method = "password"
    BY <1>1, <1>3, <2>2 DEF RequestResult, handle_password, Proves
  <2>3. QED
    BY <1>1, <2>1, <2>2 DEF RequestResult
<1>5. QED
  BY <1>1, <1>3, <1>4

-----------------------------------------------------------------------------
(* LoginPermitted is not inductive: the uid of the service is taken from   *)
(* the user record when the service is started, a step after the request   *)
(* has been accepted.                                                      *)
UserauthFields == {"state", "attempt", "user", "service", "request", "uid", "cwd"}

LoginInv ==
  /\ DOMAIN ua = UserauthFields
  /\ LoginPermitted
  /\ ua.state = "start_service" /\ ua.request.type = "REQUEST"
       => ua.user.uid = Accounts[ua.request.user].uid

(* The records that lshd's packet handler makes belong to no request.      *)
LEMMA ServiceStarts ==
  ASSUME NEW msg, NEW starts,
         ua' = lshd_packet_handler(opt, msg, starts).ua
  PROVE  DOMAIN ua' = UserauthFields /\ ua'.request.type = "none"
BY DEF lshd_packet_handler, lshd_service_request_handler, UserauthStarts, NoUserauth,
       NewUserauth, UserauthFields

(* One turn of handle_userauth's loop.                                     *)
LEMMA UserauthKeeps ==
  ASSUME LoginInv, NEW msg, ua.state = "running", UNCHANGED opt,
         ua' = handle_userauth(opt, ua, msg).ua
  PROVE  LoginInv'
<1> DEFINE user == RequestUser(opt, msg)
           res == RequestResult(opt, user, msg)
<1>1. CASE msg.type = "REQUEST" /\ res = 1
  <2>1. ua' = [ua EXCEPT !.state = "start_service", !.user = user,
                         !.service = msg.service, !.request = msg]
    BY <1>1 DEF handle_userauth
  <2>2. /\ msg.user \in DOMAIN Accounts /\ AccountActive(Accounts[msg.user])
        /\ user.name = msg.user /\ user.uid = Accounts[msg.user].uid
        /\ msg.service \in opt.services
        /\ Proves(msg)
    BY <1>1, SuccessProves
  <2>3. /\ DOMAIN ua' = UserauthFields
        /\ ua'.state = "start_service" /\ ua'.user = user
        /\ ua'.service = msg.service /\ ua'.request = msg
    BY <2>1 DEF LoginInv, UserauthFields
  <2>4. QED
    BY <2>2, <2>3 DEF LoginInv, LoginPermitted, AccountActive, Proves
<1>2. CASE ~(msg.type = "REQUEST" /\ res = 1)
  <2>1. DOMAIN ua' = UserauthFields /\ ua'.state \in {"running", "exited"}
    BY <1>2 DEF handle_userauth, LoginInv, UserauthFields
  <2>2. QED
    BY <2>1 DEF LoginInv, LoginPermitted
<1>3. QED
  BY <1>1, <1>2

(* Every step of every process keeps LoginInv.                             *)
LEMMA LoginStep == LoginInv /\ [Next]_vars => LoginInv'
<1> SUFFICES ASSUME LoginInv, [Next]_vars
             PROVE  LoginInv'
  OBVIOUS
<1> USE DEF LoginInv, LoginPermitted, AccountActive, Proves
<1>1. CASE UNCHANGED <<opt, ua>>
  BY <1>1
<1>2. CASE SrvReceive
  <2>1. /\ DOMAIN ua' = UserauthFields /\ ua'.request.type = "none"
    BY <1>2, ServiceStarts DEF SrvReceive
  <2>2. QED
    BY <2>1
<1>3. CASE UaReceive
  BY <1>3, UserauthKeeps DEF UaReceive, Writes
<1>4. CASE UaDenies
  BY <1>4 DEF UaDenies, Writes, AccessDenied, UserauthFields
<1>5. CASE UaStartService
  BY <1>5 DEF UaStartService, Writes, start_service_ua, start_service_fails, UserauthFields
<1>6. CASE UaEof
  BY <1>6 DEF UaEof, UserauthFields
<1>7. CASE LshAgain
  BY <1>7 DEF LshAgain, NoUserauth, NewUserauth, UserauthFields
<1>8. Next => \/ UNCHANGED <<opt, ua>> \/ SrvReceive \/ UaReceive \/ UaDenies
              \/ UaStartService \/ UaEof \/ LshAgain
  BY DEF Next, LshOptions, LshStop, LshStopHello, LshConnect, LshFork, LshHello, LshSetup,
         OldAccepts, OldStops, OldDies, TrConnect, TrLine, KeyExchange, KeyReexchange,
         TrReceive, TrForward, TrEof, SrvClose, SrvServiceDied,
         OtherClient, OtherClientReads, OtherServer
<1>9. QED
  BY <1>1, <1>2, <1>3, <1>4, <1>5, <1>6, <1>7, <1>8 DEF vars

(* lshd-userauth starts a service only as the account that one request     *)
(* named and proved to be from, whatever requests came before it           *)
(* (handle_userauth, start_service in lshd-userauth.c).                    *)
THEOREM LoginIsPermitted == Spec => []LoginPermitted
<1>1. Init => LoginInv
  BY DEF Init, NoUserauth, NewUserauth, LoginInv, LoginPermitted, UserauthFields
<1>2. LoginInv => LoginPermitted
  BY DEF LoginInv
<1>3. QED
  BY <1>1, <1>2, LoginStep, PTL DEF Spec

-----------------------------------------------------------------------------
(* HostKeyFirst is not inductive: what the user has been asked, and where  *)
(* the keys in memory come from, is settled before the key exchange.       *)
TransportFields ==
  {"state", "tried_empty_password", "expect_info_request", "keypair", "db", "asked"}

HostKeyInv ==
  /\ DOMAIN tr = TransportFields /\ "acls" \in DOMAIN files
  /\ tr.state \in {"connect", "lines", "kex"} =>
       /\ tr.asked = 0
       /\ tr.db \subseteq files["acls"] /\ (tr.db # {} => opt.acls_readable)
  /\ HostKeyFirst

(* The packet handlers of lsh-transport neither trust a key nor ask.       *)
LEMMA HandlersKeepKeys ==
  ASSUME NEW msg, NEW typed, DOMAIN tr = TransportFields,
         tr.state \in {"service_request", "userauth"},
         tr' = lsh_transport_packet_handler(opt, tr, msg, typed).tr
  PROVE  /\ DOMAIN tr' = TransportFields /\ tr'.db = tr.db /\ tr'.asked = tr.asked
         /\ tr'.state \in {"service_request", "userauth", "forward", "exit"}
<1> DEFINE Keeps(t) == /\ DOMAIN t = TransportFields /\ t.db = tr.db /\ t.asked = tr.asked
                       /\ t.state \in {"service_request", "userauth", "forward", "exit"}
<1>1. \A empty, expect : \A state \in {"userauth", "forward", "exit"} :
        /\ Keeps(tr)
        /\ Keeps([tr EXCEPT !.state = state])
        /\ Keeps([tr EXCEPT !.expect_info_request = expect])
        /\ Keeps([[tr EXCEPT !.expect_info_request = expect] EXCEPT !.state = state])
        /\ Keeps([[tr EXCEPT !.expect_info_request = FALSE] EXCEPT !.expect_info_request = expect])
        /\ Keeps([[tr EXCEPT !.expect_info_request = expect] EXCEPT !.tried_empty_password = empty])
        /\ Keeps([[[tr EXCEPT !.expect_info_request = expect] EXCEPT
                      !.tried_empty_password = empty] EXCEPT !.state = state])
  BY DEF TransportFields
<1> HIDE DEF Keeps
<1>2. Keeps(handle_service_accept(opt, tr, msg).tr)
  BY <1>1 DEF handle_service_accept, start_userauth, start_service_tr, Quits
<1>3. Keeps(handle_failure(opt, tr, msg, typed).tr)
  BY <1>1 DEF handle_failure, try_password_auth, try_keyboard_interactive_auth, Quits
<1>4. Keeps(handle_userauth_packet(opt, tr, msg, typed).tr)
  BY <1>1, <1>3 DEF handle_userauth_packet, start_service_tr, send_userauth_info_response, Quits
<1>5. Keeps(lsh_transport_packet_handler(opt, tr, msg, typed).tr)
  BY <1>1, <1>2, <1>4 DEF lsh_transport_packet_handler
<1>6. QED
  BY <1>5 DEF Keeps

(* lsh_transport_lookup_verifier: after a key exchange, the first or a     *)
(* later one, the key is trusted or the connection is closed.              *)
LEMMA HostKeyCheckKeeps ==
  ASSUME HostKeyInv, tr.state \in {"kex", "service_request", "userauth", "forward"},
         HostKeyCheck(opt.hostkey), UNCHANGED opt
  PROVE  HostKeyInv'
<1>1. PICK trust \in BOOLEAN, remember \in BOOLEAN :
        LET v == lsh_transport_lookup_verifier(opt, tr, opt.hostkey, trust)
            first == tr.state = "kex"
        IN /\ tr' = IF ~v.ok THEN [v.tr EXCEPT !.state = "exit"]
                    ELSE IF first THEN [v.tr EXCEPT !.state = "service_request"] ELSE v.tr
           /\ files' = IF v.ok /\ Remembers(opt, tr.db, opt.hostkey, remember)
                       THEN [files EXCEPT ![opt.capture] = @ \cup {opt.hostkey}] ELSE files
  BY DEF HostKeyCheck
<1> DEFINE v == lsh_transport_lookup_verifier(opt, tr, opt.hostkey, trust)
<1>2. "acls" \in DOMAIN files' /\ files["acls"] \subseteq files'["acls"]
  BY <1>1 DEF HostKeyInv
<1>3. CASE ~v.ok
  <2>1. DOMAIN tr' = TransportFields /\ tr'.state = "exit"
    BY <1>1, <1>3 DEF lsh_transport_lookup_verifier, HostKeyInv, TransportFields
  <2>2. QED
    BY <1>2, <2>1 DEF HostKeyInv, HostKeyFirst
<1>4. CASE v.ok
  <2>1. Trusts(opt, tr.db, opt.hostkey, trust)
    BY <1>4 DEF lsh_transport_lookup_verifier
  <2>2. /\ DOMAIN tr' = TransportFields
        /\ tr'.db = tr.db \cup {opt.hostkey}
        /\ tr'.asked = IF AsksTrust(opt, tr.db, opt.hostkey) THEN tr.asked + 1 ELSE tr.asked
        /\ tr'.state = IF tr.state = "kex" THEN "service_request" ELSE tr.state
    BY <1>1, <1>4, <2>1 DEF lsh_transport_lookup_verifier, HostKeyInv, TransportFields
  <2>3. CASE opt.hostkey \in tr.db
    BY <1>2, <2>2, <2>3 DEF HostKeyInv, HostKeyFirst, AsksTrust, Authorized
  <2>4. CASE opt.hostkey \notin tr.db
    BY <1>2, <2>1, <2>2, <2>4
    DEF HostKeyInv, HostKeyFirst, Trusts, AsksTrust, Authorized, interact_yes_or_no
  <2>5. QED
    BY <2>3, <2>4
<1>5. QED
  BY <1>3, <1>4

(* Every step of every process keeps HostKeyInv.                           *)
LEMMA HostKeyStep == HostKeyInv /\ [Next]_vars => HostKeyInv'
<1> SUFFICES ASSUME HostKeyInv, [Next]_vars
             PROVE  HostKeyInv'
  OBVIOUS
<1>1. CASE UNCHANGED <<opt, tr, files>>
  BY <1>1 DEF HostKeyInv, HostKeyFirst
<1>2. CASE LshFork
  BY <1>2 DEF LshFork, NewTransport, read_host_acls, HostKeyInv, HostKeyFirst, TransportFields
<1>3. CASE TrConnect \/ TrLine \/ TrForward \/ TrEof
  BY <1>3 DEF TrConnect, TrLine, TrForward, TrEof, lsh_transport_line_handler,
              HostKeyInv, HostKeyFirst, TransportFields
<1>4. CASE KeyExchange \/ KeyReexchange
  BY <1>4, HostKeyCheckKeeps DEF KeyExchange, KeyReexchange
<1>5. CASE TrReceive
  BY <1>5, HandlersKeepKeys DEF TrReceive, HostKeyInv, HostKeyFirst
<1>6. CASE LshAgain
  BY <1>6 DEF LshAgain, NoTransport, HostKeyInv, HostKeyFirst, TransportFields
<1>7. Next => \/ UNCHANGED <<opt, tr, files>> \/ LshFork
              \/ TrConnect \/ TrLine \/ TrForward \/ TrEof
              \/ KeyExchange \/ KeyReexchange \/ TrReceive \/ LshAgain
  BY DEF Next, LshOptions, LshStop, LshStopHello, LshConnect, LshHello, LshSetup,
         OldAccepts, OldStops, OldDies, SrvReceive, SrvClose, SrvServiceDied,
         UaReceive, UaDenies, UaStartService, UaEof, OtherClient, OtherClientReads, OtherServer
<1>8. QED
  BY <1>1, <1>2, <1>3, <1>4, <1>5, <1>6, <1>7 DEF vars

(* lsh-transport names the user, and forwards anything, only on a          *)
(* connection whose host key it trusts, also after key re-exchanges and    *)
(* when lsh is started again (lsh_transport_lookup_verifier).              *)
THEOREM HostKeyIsFirst == Spec => []HostKeyFirst
<1>1. Init => HostKeyInv
  BY DEF Init, NoTransport, HostKeyInv, HostKeyFirst, TransportFields
<1>2. HostKeyInv => HostKeyFirst
  BY DEF HostKeyInv
<1>3. QED
  BY <1>1, <1>2, HostKeyStep, PTL DEF Spec
=============================================================================
