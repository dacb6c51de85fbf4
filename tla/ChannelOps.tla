----------------------------- MODULE ChannelOps -----------------------------
(***************************************************************************)
(* The channel operations of channel.c, as operators on the state of one   *)
(* connection endpoint.  They have no variables of their own: a module     *)
(* that describes a channel type (forwarded sockets, sessions) applies     *)
(* them and supplies the callbacks.                                        *)
(*                                                                         *)
(* An endpoint e is a record with                                          *)
(*   ch             the channel table, by local channel number             *)
(*   pending_close  connection->pending_close                              *)
(*   alive          the connection resource                                *)
(*   error          SSH_CONNECTION_ERROR was called                        *)
(*   out            packets written and not yet read by the other end      *)
(*                                                                         *)
(* A packet is [type, ch, arg, id]: ch is the recipient's channel number   *)
(* and id says which channel the sender meant.  No code reads the id; the  *)
(* properties use it.                                                      *)
(***************************************************************************)
EXTENDS Naturals, Sequences, FiniteSets

Free == [state |-> "FREE"]

Is(e, n, s) == n \in DOMAIN e.ch /\ e.ch[n].state = s

Used(e) == {n \in DOMAIN e.ch : e.ch[n].state # "FREE"}

(* Mutant: a number is free as soon as CLOSE is sent.                      *)
FreeOnceClosing(e) ==
  {n \in DOMAIN e.ch : n \notin Used(e) \/ (Is(e, n, "ACTIVE") /\ e.ch[n].sent_close)}

(* ssh_connection_alloc_channel: the lowest free number (ChannelTable      *)
(* shows that the code's scan finds it).                                   *)
FreeNumbers(e) == DOMAIN e.ch \ Used(e)
LowestFree(e) == CHOOSE n \in FreeNumbers(e) : \A k \in FreeNumbers(e) : n <= k

Packet(type, ch, arg, id) == [type |-> type, ch |-> ch, arg |-> arg, id |-> id]

SSH_CONNECTION_WRITE(e, m) == [e EXCEPT !.out = Append(@, m)]

SSH_CONNECTION_ERROR(e) == [e EXCEPT !.error = TRUE, !.alive = FALSE]

OnChannel(e, n, type, arg) ==
  SSH_CONNECTION_WRITE(e, Packet(type, e.ch[n].remote, arg, e.ch[n].id))

(* The fields every active channel has; io belongs to the channel type.    *)
InitChannel(state, remote, id, send_window, rec_window, io) ==
  [state |-> state, remote |-> remote, id |-> id,
   send_window |-> send_window, rec_window |-> rec_window,
   sent_eof |-> FALSE, received_eof |-> FALSE,
   sent_close |-> FALSE, received_close |-> FALSE, no_wait_for_eof |-> FALSE,
   sources |-> 0, sinks |-> 0, pending_requests |-> 0, io |-> io]

-----------------------------------------------------------------------------
channel_finished(e, n) ==
  LET f == [e EXCEPT !.ch[n] = Free]
  IN  [f EXCEPT !.alive = ~(e.pending_close /\ Used(f) = {})]

(* Mutant: SENT_CLOSE is not remembered, so that CLOSE can be sent twice.  *)
CloseTwice(e, n) ==
  IF e.ch[n].received_close THEN channel_finished(OnChannel(e, n, "CLOSE", 0), n)
  ELSE OnChannel(e, n, "CLOSE", 0)

channel_close(e, n) ==
  IF e.ch[n].sent_close THEN e
  ELSE LET f == OnChannel([e EXCEPT !.ch[n].sent_close = TRUE], n, "CLOSE", 0)
       IN  IF e.ch[n].received_close THEN channel_finished(f, n) ELSE f

(* Mutant: NO_WAIT_FOR_EOF is not looked at.                               *)
MaybeCloseAlwaysWaiting(e, n) ==
  LET c == e.ch[n]
  IN  IF c.sent_eof /\ c.received_eof /\ c.sinks = 0 THEN channel_close(e, n) ELSE e

channel_maybe_close(e, n) ==
  LET c == e.ch[n]
  IN  IF /\ ~c.sent_close
         /\ c.sent_eof
         /\ c.no_wait_for_eof \/ (c.received_eof /\ c.sinks = 0)
      THEN channel_close(e, n)
      ELSE e

channel_eof(e, n) ==
  LET c == e.ch[n]
  IN  IF c.sent_eof \/ c.sent_close \/ c.received_close THEN e
      ELSE channel_maybe_close(
             OnChannel([e EXCEPT !.ch[n].sent_eof = TRUE], n, "EOF", 0), n)

send_window_adjust(e, n, add) ==
  OnChannel([e EXCEPT !.ch[n].rec_window = @ + add], n, "ADJUST", add)

channel_adjust_rec_window(e, n, written) ==
  LET c == e.ch[n]
  IN  IF written = 0 \/ c.received_eof \/ c.received_close \/ c.sent_close THEN e
      ELSE send_window_adjust(e, n, written)

channel_start_receive(e, n, initial) ==
  IF e.ch[n].rec_window < initial
  THEN send_window_adjust(e, n, initial - e.ch[n].rec_window)
  ELSE e

(* Mutant: the window is not charged.                                      *)
TransmitUncharged(e, n, type, length) == OnChannel(e, n, type, length)

(* channel_transmit_data and channel_transmit_extended.                    *)
channel_transmit(e, n, type, length) ==
  OnChannel([e EXCEPT !.ch[n].send_window = @ - length], n, type, length)

-----------------------------------------------------------------------------
(* channel_open_new_type, for a channel made with the given window and io. *)
channel_open_new_type(e, id, rec_window, io) ==
  LET n == LowestFree(e)
  IN  SSH_CONNECTION_WRITE(
        [e EXCEPT !.ch[n] = InitChannel("SENT_OPEN", n, id, 0, rec_window, io)],
        [type |-> "OPEN", ch |-> n, arg |-> rec_window, id |-> id])

(* handle_channel_open up to the call of the open handler: with a free     *)
(* number, the channel_open_info is kept in the table entry; io is what    *)
(* the handler keeps until it answers the request.                         *)
OpenRefused(e) == e.pending_close \/ FreeNumbers(e) = {}

handle_channel_open(e, m) ==
  IF OpenRefused(e)
  THEN SSH_CONNECTION_WRITE(e, Packet("OPEN_FAILURE", m.ch, 0, m.id))
  ELSE [e EXCEPT !.ch[LowestFree(e)] =
          [state |-> "RECEIVED_OPEN", remote |-> m.ch, id |-> m.id,
           send_window |-> m.arg, io |-> <<>>]]

channel_open_confirm(e, n, rec_window, io) ==
  LET info == e.ch[n]
  IN  OnChannel(
        [e EXCEPT !.ch[n] = InitChannel("ACTIVE", info.remote, info.id,
                                        info.send_window, rec_window, io)],
        n, "OPEN_CONFIRMATION", <<n, rec_window>>)

channel_open_deny(e, n) ==
  LET info == e.ch[n]
  IN  SSH_CONNECTION_WRITE([e EXCEPT !.ch[n] = Free],
                           Packet("OPEN_FAILURE", info.remote, 0, info.id))

(* handle_open_confirm; Confirmed is the CHANNEL_EVENT_CONFIRM callback.   *)
handle_open_confirm(e, m, Confirmed(_, _)) ==
  IF ~Is(e, m.ch, "SENT_OPEN") THEN SSH_CONNECTION_ERROR(e)
  ELSE Confirmed([e EXCEPT !.ch[m.ch].state = "ACTIVE",
                           !.ch[m.ch].remote = m.arg[1],
                           !.ch[m.ch].send_window = m.arg[2]], m.ch)

handle_open_failure(e, m) ==
  IF Is(e, m.ch, "SENT_OPEN") THEN channel_finished(e, m.ch) ELSE e

(* handle_adjust_window; Adjusted is the send_adjust callback.             *)
handle_adjust_window(e, m, Adjusted(_, _)) ==
  IF ~Is(e, m.ch, "ACTIVE") THEN SSH_CONNECTION_ERROR(e)
  ELSE LET c == e.ch[m.ch]
       IN  IF c.received_close THEN SSH_CONNECTION_ERROR(e)
           ELSE IF c.sent_close \/ c.sent_eof THEN e
           ELSE LET f == [e EXCEPT !.ch[m.ch].send_window = @ + m.arg]
                IN  IF f.ch[m.ch].send_window = 0 THEN f ELSE Adjusted(f, m.ch)

(* handle_channel_data, handle_channel_extended_data, receive_data_common: *)
(* the number of bytes passed to the receive callback, 0 for none.         *)
Accepted(e, m) ==
  IF ~Is(e, m.ch, "ACTIVE") THEN 0
  ELSE LET c == e.ch[m.ch]
       IN  IF c.received_eof \/ c.received_close \/ c.sent_close THEN 0
           ELSE IF m.arg > c.rec_window THEN c.rec_window ELSE m.arg

TakeData(e, m) == [e EXCEPT !.ch[m.ch].rec_window = @ - Accepted(e, m)]

(* handle_channel_eof; GotEof is the CHANNEL_EVENT_EOF callback.           *)
handle_channel_eof(e, m, GotEof(_, _)) ==
  IF ~Is(e, m.ch, "ACTIVE") THEN SSH_CONNECTION_ERROR(e)
  ELSE IF e.ch[m.ch].received_eof \/ e.ch[m.ch].received_close
  THEN SSH_CONNECTION_ERROR(e)
  ELSE channel_maybe_close(GotEof([e EXCEPT !.ch[m.ch].received_eof = TRUE], m.ch), m.ch)

(* handle_channel_close.  CHANNEL_EVENT_CLOSE does nothing for sockets and *)
(* sessions.                                                               *)
handle_channel_close(e, m) ==
  IF ~Is(e, m.ch, "ACTIVE") THEN SSH_CONNECTION_ERROR(e)
  ELSE IF e.ch[m.ch].received_close THEN SSH_CONNECTION_ERROR(e)
  ELSE LET f == [e EXCEPT !.ch[m.ch].received_close = TRUE]
       IN  IF f.ch[m.ch].sent_close THEN channel_finished(f, m.ch)
           ELSE channel_close(f, m.ch)

(* channel_send_request.                                                   *)
channel_send_request(e, n, request, want_reply) ==
  IF e.ch[n].sent_close THEN e
  ELSE LET f == OnChannel(e, n, "REQUEST", <<request, want_reply>>)
       IN  IF want_reply THEN [f EXCEPT !.ch[n].pending_requests = @ + 1] ELSE f

(* channel_request_reply.                                                  *)
channel_request_reply(e, n, want_reply, result) ==
  IF want_reply
  THEN OnChannel(e, n, IF result THEN "SUCCESS" ELSE "FAILURE", 0)
  ELSE e

(* handle_channel_success and handle_channel_failure; Replied is the event *)
(* callback, called only when a reply is expected.                         *)
handle_channel_reply(e, m, Replied(_, _)) ==
  IF ~Is(e, m.ch, "ACTIVE") THEN SSH_CONNECTION_ERROR(e)
  ELSE IF e.ch[m.ch].pending_requests = 0 THEN e
  ELSE Replied([e EXCEPT !.ch[m.ch].pending_requests = @ - 1], m.ch)
=============================================================================
