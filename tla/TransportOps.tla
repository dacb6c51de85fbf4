--------------------------- MODULE TransportOps ---------------------------
(* The transport layer of one end of an ssh connection (transport.c,         *)
(* transport_write.c, keyexchange.c), as operators from the connection       *)
(* object before a call to the object after it.                              *)
(*                                                                           *)
(* A connection t is a record.  A packet is a record of its message type m,  *)
(* a serial number n that only application data uses, and the number k of    *)
(* the key exchange whose keys it was written with (0: in clear).  t.buf     *)
(* holds the packets of the write buffer, t.net the ones the kernel took     *)
(* and the peer has not read.  t.io lists the outcomes of the write calls    *)
(* the current callback will make: the number of packets the kernel takes    *)
(* (0: EWOULDBLOCK), or -1 for an error.                                     *)
EXTENDS Integers, Sequences, FiniteSets

CONSTANTS
  Threshold,      \* TRANSPORT_THRESHOLD, in units of a small packet
  BufferSize,     \* TRANSPORT_BUFFER_SIZE, in the same unit
  Margin          \* SSH_MAX_TRANSPORT_RESPONSE, in the same unit

ASSUME SizesAssumption ==
  /\ Threshold \in Nat /\ BufferSize \in Nat /\ Margin \in Nat
  /\ 1 < Threshold /\ Threshold < BufferSize /\ Margin < BufferSize

\* The messages that carry names or bignums fill a packet of the preferred size.
Large == {"KEXINIT", "KEXDH_INIT", "KEXDH_REPLY"}

Size(m) == IF m \in Large THEN Threshold ELSE 1

Length(buf) == Len(buf) + (Threshold - 1) * Cardinality({i \in DOMAIN buf : buf[i].m \in Large})

Packet(t, m, n) == [m |-> m, n |-> n, k |-> t.wkey]

-----------------------------------------------------------------------------
(* The write buffer.  Every operator returns the connection and a            *)
(* transport_write_status.                                                   *)

Status(t, st) == [t |-> t, st |-> st]

\* ssh_write_enqueue: the buffer has a fixed size.
Enqueue(t, p) ==
  IF Size(p.m) + Length(t.buf) > BufferSize
  THEN Status(t, "OVERFLOW")
  ELSE Status([t EXCEPT !.buf = Append(@, p)], "COMPLETE")

\* A write call on the buffered data: the kernel takes whole packets.
Written(t) ==
  LET done == IF Head(t.io) > Len(t.buf) THEN Len(t.buf) ELSE Head(t.io)
      rest == SubSeq(t.buf, done + 1, Len(t.buf))
      w    == [t EXCEPT !.buf = rest,
                        !.net = @ \o SubSeq(t.buf, 1, done),
                        !.io  = Tail(@)]
  IN CASE Head(t.io) < 0         -> Status([t EXCEPT !.io = Tail(@)], "IO_ERROR")
       [] Length(rest) > w.ignore \/ done = 0 -> Status(w, "PENDING")
       [] OTHER -> Status([w EXCEPT !.ignore = IF Length(rest) < @ THEN Length(rest) ELSE @],
                          "COMPLETE")

\* write_data: small unpushed data is only collected.  What a write call does
\* not take has to fit in the buffer.
write_data(t, p, push) ==
  LET i == IF p.m = "IGNORE" THEN [t EXCEPT !.ignore = @ + Size(p.m)]
                             ELSE [t EXCEPT !.ignore = 0]
      w == Written([i EXCEPT !.buf = Append(@, p)])
  IN IF ~push /\ Size(p.m) + Length(t.buf) < Threshold
     THEN Enqueue(i, p)
     ELSE IF w.st # "IO_ERROR" /\ Length(w.t.buf) > BufferSize
          THEN Status(w.t, "OVERFLOW")
          ELSE w

\* transport_write_packet: a small pushed packet is followed by padding.
transport_write_packet(t, m, n, push) ==
  LET queued == write_data(t, Packet(t, m, n), FALSE)
  IN IF push /\ t.wkey > 0 /\ Size(m) + Length(t.buf) < Threshold
     THEN IF queued.st = "OVERFLOW" THEN queued
          ELSE write_data(queued.t, Packet(t, "IGNORE", 0), TRUE)
     ELSE write_data(t, Packet(t, m, n), push)

write_flush(t) ==
  IF Length(t.buf) <= t.ignore THEN Status(t, "COMPLETE") ELSE Written(t)

transport_write_flush(t) ==
  LET padded == write_data(t, Packet(t, "IGNORE", 0), FALSE)
  IN IF t.ignore = 0 /\ t.wkey > 0 /\ Length(t.buf) < Threshold
     THEN IF padded.st \in {"OVERFLOW", "IO_ERROR"} THEN padded ELSE write_flush(padded.t)
     ELSE write_flush(t)

-----------------------------------------------------------------------------
(* Events for the layer above.  Only the forwarding state listens to all.    *)

StartApplication(t) ==
  IF t.state = "FORWARD" THEN [t EXCEPT !.service_read_active = TRUE] ELSE t

StopApplication(t) ==
  IF t.state = "FORWARD" THEN [t EXCEPT !.service_read_active = FALSE] ELSE t

EventClose(t) ==
  IF t.state = "FORWARD" THEN [t EXCEPT !.service = "closed"] ELSE t

\* The kill methods: both descriptors are closed, what is buffered is never written.
Kill(t) ==
  [t EXCEPT !.alive = FALSE, !.expire = "none", !.ssh_input = FALSE,
            !.buf = <<>>, !.ignore = 0, !.write_active = FALSE, !.reader = <<>>,
            !.service = IF @ = "open" THEN "closed" ELSE @]

\* transport_close: with flush, a buffer that is being written may drain.
transport_close(t, flush) ==
  LET c == [EventClose(t) EXCEPT !.expire = "none", !.ssh_input = FALSE]
  IN IF ~t.alive \/ t.closing THEN t
     ELSE IF flush /\ t.write_active
          THEN [c EXCEPT !.closing = TRUE, !.expire = "close"]
          ELSE Kill(c)

AlmostFull(t) == Length(t.buf) + Margin > BufferSize

transport_start_write(t) ==
  LET a == [t EXCEPT !.write_active = TRUE]
  IN IF ~t.write_state /\ AlmostFull(t) THEN StopApplication(a) ELSE a

\* Mutant: a drained buffer is not reported to the application.
StopWriteSilent(t) ==
  LET a == [t EXCEPT !.write_active = FALSE]
  IN IF t.write_active /\ t.closing THEN Kill([a EXCEPT !.closing = FALSE]) ELSE a

transport_stop_write(t) ==
  LET a == [t EXCEPT !.write_active = FALSE]
  IN IF ~t.write_active THEN t
     ELSE IF t.closing THEN Kill([a EXCEPT !.closing = FALSE])
     ELSE IF ~t.write_state /\ ~AlmostFull(t) THEN StartApplication(a)
     ELSE a

Sent(w) ==
  CASE w.st \in {"OVERFLOW", "IO_ERROR"} -> transport_close(w.t, FALSE)
    [] w.st = "PENDING"                  -> transport_start_write(w.t)
    [] w.st = "COMPLETE"                 -> transport_stop_write(w.t)

transport_send_packet(t, m, n, push) ==
  IF t.alive THEN Sent(transport_write_packet(t, m, n, push)) ELSE t

\* transport_send_packet with a NULL packet.
PushOut(t) == IF t.alive THEN Sent(transport_write_flush(t)) ELSE t

transport_disconnect(t) ==
  transport_close(transport_send_packet(t, "DISCONNECT", 0, TRUE), TRUE)

transport_protocol_error(t) == transport_disconnect([t EXCEPT !.error = TRUE])

-----------------------------------------------------------------------------
(* Key exchange.                                                             *)

\* Mutant: the application goes on sending during a re-exchange.
KexinitKeepsApplication(t) ==
  [transport_send_packet([t EXCEPT !.write_state = TRUE, !.sent_kexinit = TRUE],
                         "KEXINIT", 0, TRUE) EXCEPT !.expire = "keyexchange"]

transport_send_kexinit(t) ==
  LET w == [t EXCEPT !.write_state = TRUE, !.sent_kexinit = TRUE]
      s == IF t.session_id THEN StopApplication(w) ELSE w
  IN [transport_send_packet(s, "KEXINIT", 0, TRUE) EXCEPT !.expire = "keyexchange"]

\* transport_kexinit_handler.  agreed: handle_kexinit finds an algorithm of
\* every kind, and the server has a key for the selected signature algorithm.
transport_kexinit_handler(t, is_server, agreed) ==
  LET s == IF t.sent_kexinit THEN t ELSE transport_send_kexinit(t)
      k == [s EXCEPT !.read_state = "IN_PROGRESS", !.exchange = @ + 1]
  IN IF ~agreed THEN transport_disconnect(s)
     ELSE IF is_server THEN k
     ELSE transport_send_packet(k, "KEXDH_INIT", 0, TRUE)

\* Mutant: NEWKEYS is pushed, and its padding has the old keys.
FinishPushes(t) ==
  LET n == transport_send_packet([t EXCEPT !.new = t.exchange], "NEWKEYS", 0, TRUE)
  IN PushOut([n EXCEPT !.wkey = t.exchange])

\* keyexchange_finish: NEWKEYS is the last packet with the old keys.
keyexchange_finish(t) ==
  LET n == transport_send_packet([t EXCEPT !.new = t.exchange], "NEWKEYS", 0, FALSE)
  IN PushOut([n EXCEPT !.wkey = t.exchange])

\* What each program does at the end of the first exchange.
EventKeyexchangeComplete(t, is_server) ==
  IF is_server
  THEN [t EXCEPT !.state = "LSHD"]
  ELSE [transport_send_packet(t, "SERVICE_REQUEST", 0, TRUE) EXCEPT !.state = "SERVICE_REQUEST"]

\* transport_keyexchange_finish.  strong: the new keys are not weak ones.
transport_keyexchange_finish(t, is_server, strong) ==
  LET s == [t EXCEPT !.session_id = TRUE]
      f == [keyexchange_finish(s) EXCEPT !.read_state = "NEWKEYS", !.write_state = FALSE]
  IN IF ~strong THEN transport_disconnect(s)
     ELSE IF t.session_id THEN StartApplication(f)
     ELSE EventKeyexchangeComplete(f, is_server)

\* A key exchange packet: KEXDH_INIT for the server, KEXDH_REPLY for the client.
\* good: the packet verifies (host key, signature) or can be signed.
HandleKexdh(t, m, is_server, good, strong) ==
  IF m # (IF is_server THEN "KEXDH_INIT" ELSE "KEXDH_REPLY") \/ ~good
  THEN transport_disconnect(t)
  ELSE transport_keyexchange_finish(
         IF is_server THEN transport_send_packet(t, "KEXDH_REPLY", 0, FALSE) ELSE t,
         is_server, strong)

\* NEWKEYS from the peer: its next packet is read with the new keys.
HandleNewkeys(t) ==
  [t EXCEPT !.rkey = t.new, !.new = 0, !.read_state = "INIT", !.sent_kexinit = FALSE,
            !.expire = "reexchange"]
=============================================================================
