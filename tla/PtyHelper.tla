----------------------------- MODULE PtyHelper -----------------------------
(***************************************************************************)
(* lshd-pty-helper: the process that keeps the utmp and wtmp entries of    *)
(* the sessions of one user.  Its clients, lshd-connection and the         *)
(* processes it forks, send it requests over one socket (pty-helper.c) and *)
(* read the answers from the same socket.                                  *)
(*                                                                         *)
(*   request  [type, ref, from, tty]: from is the pid of the credentials,  *)
(*            which are always sent; tty is the name of the terminal whose *)
(*            master is passed along, or NoTty                             *)
(*   answer   [error, ref, to]                                             *)
(*   log      [utmp, wtmp]: who is logged in on each terminal, and the     *)
(*            list of logins and logouts                                   *)
(* References count from 0, as in the code.                                *)
(***************************************************************************)
EXTENDS Integers, Sequences, FiniteSets

CONSTANTS ObjectStep  \* the table grows from n to 2 * n + ObjectStep (10)

ASSUME ObjectStepAssumption == ObjectStep \in Nat \ {0}

NoTty == <<>>
Nobody == <<>>

Unused == [free |-> TRUE, active |-> FALSE, tty |-> NoTty]

(* init_pty_state; main gives up when it runs as root.                     *)
init_pty_state(root) == [alive |-> ~root, objects |-> <<>>]

pty_send_message(queue, message) == Append(queue, message)

Answer(request, error, ref) == [error |-> error, ref |-> ref, to |-> request.from]

Object(h, ref) == h.objects[ref + 1]
Refs(h) == 0 .. (Len(h.objects) - 1)
InUse(h) == {ref \in Refs(h) : ~Object(h, ref).free}

(* Mutant of pty_object_alloc: objects in use are handed out again.        *)
AllocFirst(h) ==
  [ref |-> 0, helper |-> [h EXCEPT !.objects =
                            IF Len(@) = 0 THEN [i \in 1 .. ObjectStep |-> Unused] ELSE @]]

(* The first free object, in a larger table if there is none.              *)
pty_object_alloc(h) ==
  LET n    == Len(h.objects)
      free == {ref \in Refs(h) : Object(h, ref).free}
  IN  IF free # {}
      THEN [ref |-> CHOOSE ref \in free : \A other \in free : ref <= other, helper |-> h]
      ELSE [ref |-> n,
            helper |-> [h EXCEPT !.objects = @ \o [i \in 1 .. (n + ObjectStep) |-> Unused]]]

pty_object_free(h, ref) == [h EXCEPT !.objects[ref + 1] = [@ EXCEPT !.free = TRUE]]

(* utmp has entries of terminals only; wtmp has all logins.                *)
record_login(log, tty, pid) ==
  [utmp |-> IF tty = NoTty THEN log.utmp ELSE [log.utmp EXCEPT ![tty] = pid],
   wtmp |-> Append(log.wtmp, <<"login", tty, pid>>)]

(* The entry that is dead is found by the line and id that record_login    *)
(* has set, which are empty without a terminal.                            *)
record_logout(log, tty) ==
  [utmp |-> IF tty = NoTty THEN log.utmp ELSE [log.utmp EXCEPT ![tty] = Nobody],
   wtmp |-> Append(log.wtmp, <<"logout", tty>>)]

Result(h, log, answer) == [helper |-> h, log |-> log, answer |-> answer]

Create(h, log, request, ok) ==
  LET new == pty_object_alloc(h)
  IN  IF request.ref # -1 THEN Result(h, log, Answer(request, TRUE, -1))
      ELSE IF ~ok THEN Result(new.helper, log, Answer(request, TRUE, -1))
      ELSE Result([new.helper EXCEPT !.objects[new.ref + 1] =
                     [free |-> FALSE, active |-> FALSE, tty |-> request.tty]],
                  log, Answer(request, FALSE, new.ref))

Login(h, log, request) ==
  LET ref == request.ref
  IN  IF ref = -1 \/ Object(h, ref).active THEN Result(h, log, Answer(request, TRUE, -1))
      ELSE Result([h EXCEPT !.objects[ref + 1].active = TRUE],
                  record_login(log, Object(h, ref).tty, request.from),
                  Answer(request, FALSE, ref))

Logout(h, log, request) ==
  LET ref == request.ref
  IN  IF ref = -1 THEN Result(h, log, Answer(request, TRUE, -1))
      ELSE Result(pty_object_free(h, ref),
                  IF Object(h, ref).active THEN record_logout(log, Object(h, ref).tty) ELSE log,
                  Answer(request, FALSE, -1))

Destroy(h, log, request) ==
  IF request.ref = -1 THEN Result(h, log, Answer(request, TRUE, -1))
  ELSE Result(pty_object_free(h, request.ref), log, Answer(request, FALSE, -1))

(* process_request; ok says that memory and the name of the terminal can   *)
(* be had.  PTY_REQUEST_MASTER has no sender.                              *)
process_request(h, log, request, ok) ==
  IF request.ref # -1 /\ (request.ref \notin Refs(h) \/ Object(h, request.ref).free)
  THEN Result(h, log, Answer(request, TRUE, -1))
  ELSE CASE request.type = "CREATE"  -> Create(h, log, request, ok)
         [] request.type = "LOGIN"   -> Login(h, log, request)
         [] request.type = "LOGOUT"  -> Logout(h, log, request)
         [] request.type = "DESTROY" -> Destroy(h, log, request)
         [] OTHER -> Result(h, log, Answer(request, TRUE, -1))
=============================================================================
