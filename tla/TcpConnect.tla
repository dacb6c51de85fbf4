----------------------------- MODULE TcpConnect -----------------------------
(***************************************************************************)
(* Connecting to the target of a forwarded channel: tcpforward_connect     *)
(* tries the addresses a name resolves to, one after the other, with the   *)
(* connect operation of io.c.  Operators on the tcpforward_connect_state;  *)
(* ForwardChannel keeps one for every open request it has not answered.    *)
(*                                                                         *)
(* Every attempt ends in one of these ways: there is no socket; connect    *)
(* fails at once; or it is in progress and the event loop reports later    *)
(* that it succeeded or failed.                                            *)
(***************************************************************************)
EXTENDS Naturals, SequencesExt

CONSTANT NAddresses   \* length of the list getaddrinfo returned

ASSUME NAddressesAssumption == NAddresses \in Nat

Outcomes == [1..NAddresses -> {"no_socket", "refused", "in_progress"}]

(* next = NAddresses + 1 is NULL; fd is the address the open socket is     *)
(* for, 0 for none; watched says that oop_io_connect is installed.  stop   *)
(* says that a loop over the addresses returned, and aborted that the      *)
(* assertion of io_connect failed.                                         *)
init_io_connect_state ==
  [alive |-> TRUE, fd |-> 0, watched |-> FALSE, next |-> 1, stop |-> FALSE, aborted |-> FALSE]

(* kill_io_fd_resource: nothing is done for a resource that is dead.       *)
KILL_RESOURCE(s) ==
  IF s.alive THEN [s EXCEPT !.alive = FALSE, !.fd = 0, !.watched = FALSE] ELSE s

(* io_connect, with its assertion that the state has no open socket.       *)
io_connect(s, a, outcome) ==
  LET u == [s EXCEPT !.fd = a]
  IN  IF s.fd # 0 THEN [s EXCEPT !.aborted = TRUE, !.stop = TRUE]
      ELSE CASE outcome = "no_socket" -> s
             [] outcome = "refused" -> KILL_RESOURCE(u)
             [] outcome = "in_progress" -> [u EXCEPT !.watched = TRUE, !.stop = TRUE]

(* The addresses from next on, until an attempt is in progress.  The loop  *)
(* in tcpforward_connect_error closes the old socket before each attempt.  *)
FromNext(s) == [i \in 1 .. (NAddresses + 1 - s.next) |-> s.next + i - 1]

TryAddresses(s, outcomes, close) ==
  FoldLeft(LAMBDA t, a :
             IF t.stop THEN t
             ELSE LET u == io_connect([t EXCEPT !.fd = IF close THEN 0 ELSE @], a, outcomes[a])
                  IN  IF u.stop THEN u ELSE [u EXCEPT !.next = a + 1],
           [s EXCEPT !.stop = FALSE], FromNext(s))

(* The first round, and the one tcpforward_connect_error makes, which      *)
(* starts at next again.  The request is denied when stop is not set.      *)
tcpforward_connect(outcomes) == TryAddresses(init_io_connect_state, outcomes, FALSE)

tcpforward_connect_error(s, outcomes) ==
  TryAddresses([s EXCEPT !.watched = FALSE], outcomes, TRUE)
=============================================================================
