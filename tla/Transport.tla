----------------------------- MODULE Transport -----------------------------
(* An ssh connection between lsh-transport (the client) and lshd (the        *)
(* server), each with the process it forwards cleartext packets for: lsh on  *)
(* one side, lshd-userauth and then lshd-connection on the other.  Covers    *)
(* the handshake, key exchange and re-exchange, the start of the service,    *)
(* forwarding and closing (transport.c, transport_forward.c,                 *)
(* lsh-transport.c, lshd.c).  Every action is one callback of the event loop *)
(* of one of the processes.  A callback on the ssh socket handles every      *)
(* packet it has read; here it handles one, and the next one may follow      *)
(* without any other step between them.                                      *)
EXTENDS TransportOps, SequencesExt

CONSTANTS
  MaxUp, MaxDown, \* bounds: data packets from lsh and from lshd-connection
  MaxRekeys,      \* bound: key re-exchanges by timer
  MaxErrors       \* bound: timeouts, failing operations, rejected passwords, interrupts

VARIABLES
  t,              \* the connection object of each end
  s,              \* the process behind each end, and its socket to it
  rekeys, errors,
  early           \* history: a re-exchange timer fired before its end forwarded

vars == <<t, s, rekeys, errors, early>>

Peers == {"client", "server"}

MaxData(p) == IF p = "client" THEN MaxUp ELSE MaxDown

Other(p) == IF p = "client" THEN "server" ELSE "client"

Application == {"SERVICE_REQUEST", "SERVICE_ACCEPT", "USERAUTH_REQUEST", "USERAUTH_FAILURE",
                "USERAUTH_SUCCESS", "DATA"}

Kexdh == {"KEXDH_INIT", "KEXDH_REPLY"}

\* init_transport_connection and init_transport_forward, before transport_handshake.
NewConnection ==
  [alive |-> TRUE, closing |-> FALSE, ssh_input |-> TRUE, line_handler |-> FALSE,
   state |-> "START", read_state |-> "INIT", write_state |-> FALSE, sent_kexinit |-> FALSE,
   session_id |-> FALSE, exchange |-> 0, rkey |-> 0, wkey |-> 0, new |-> 0,
   expire |-> "none", write_active |-> FALSE, buf |-> <<>>, ignore |-> 0, net |-> <<>>,
   io |-> <<>>, service |-> "none", service_read_active |-> FALSE, reader |-> <<>>,
   read_status |-> "PUSH", error |-> FALSE, aborted |-> FALSE]

NewService ==
  [pipe |-> <<>>, sent |-> 0, got |-> 0, requests |-> 0, accepted |-> FALSE, done |-> FALSE]

Init ==
  /\ t = [p \in Peers |-> NewConnection]
  /\ s = [p \in Peers |-> NewService]
  /\ rekeys = 0 /\ errors = 0 /\ early = FALSE

-----------------------------------------------------------------------------
(* Outcomes of the write calls of a callback that makes at most n: the       *)
(* kernel takes nothing or everything, and changes its mind at most once,    *)
(* after the first or second call; taking less than everything is taking     *)
(* nothing and then a Flush.  Writing to a peer that is gone may fail, and   *)
(* then the callback writes no more.                                         *)

All == 2 * BufferSize

Outcomes(p, n) ==
  {[i \in 1..n |-> IF i < j THEN a ELSE b] : j \in 2..3 \cap 2..n, a \in {0, All},
     b \in {0, All} \cup (IF t[Other(p)].alive THEN {} ELSE {-1})}
  \cup (IF t[Other(p)].alive THEN {} ELSE {<<-1>>})

\* The end of a callback.  The kill method of lsh-transport is exit: what the
\* callback does after it does not happen.
Settled(p, e) ==
  LET r == [e EXCEPT !.io = <<>>]
  IN IF p = "client" /\ ~e.alive /\ t[p].alive THEN Kill(r) ELSE r

\* What p can be after a callback that does F, for these outcomes of its writes.
After(p, ios, F(_)) ==
  {Settled(p, e) : e \in {F(c) : c \in {[t[p] EXCEPT !.io = io] : io \in ios}}}

Becomes(p, e) == t' = [t EXCEPT ![p] = e]

Budgets == <<rekeys, errors, early>>

\* An operation of the callback fails: ok is FALSE, and the bound counts it.
MayFail(ok) ==
  /\ ok \/ errors < MaxErrors
  /\ errors' = IF ok THEN errors ELSE errors + 1

-----------------------------------------------------------------------------
(* Forwarding.                                                               *)

transport_forward_setup(e) ==
  [e EXCEPT !.state = "FORWARD", !.service = "open", !.service_read_active = TRUE]

transport_forward_packet(e, p) ==
  LET w == transport_send_packet(e, p.m, p.n, FALSE)
  IN IF p.m = "DISCONNECT" THEN transport_close(w, TRUE) ELSE w

\* Mutant: packets read after reading was stopped are dropped.
ForwardAllDrops(e, packets) ==
  FoldLeft(LAMBDA a, p : IF a.service = "open" /\ a.service_read_active
                         THEN transport_forward_packet(a, p) ELSE a,
           [e EXCEPT !.reader = <<>>], packets)

\* The loop of oop_read_service over the packets in its reader: once reading is
\* stopped or the service closed, the rest stays there.
ForwardAll(e, packets) ==
  FoldLeft(LAMBDA a, p : IF a.service = "open" /\ a.service_read_active
                         THEN transport_forward_packet(a, p)
                         ELSE IF a.alive THEN [a EXCEPT !.reader = Append(@, p)] ELSE a,
           [e EXCEPT !.reader = <<>>], packets)

\* After the packets: the status of the last read from the socket.
ForwardEnd(e) ==
  IF e.service = "open" /\ e.service_read_active /\ e.read_status = "PUSH"
  THEN PushOut(e) ELSE e

\* oop_read_service: buffered packets go first, and without reading.  A read
\* takes any number of packets and asks for more when more is there.
ServiceRead(p) ==
  /\ t[p].service = "open" /\ t[p].service_read_active
  /\ s[p].pipe # <<>>
  /\ IF t[p].reader # <<>>
     THEN /\ \E e \in After(p, Outcomes(p, 4), LAMBDA c : ForwardEnd(ForwardAll(c, t[p].reader))) :
               Becomes(p, e)
          /\ UNCHANGED s
     ELSE \E k \in 1..Len(s[p].pipe) :
            LET status == IF k = Len(s[p].pipe) THEN "PUSH" ELSE "PENDING"
                F(c) == ForwardEnd(ForwardAll([c EXCEPT !.read_status = status],
                                              SubSeq(s[p].pipe, 1, k)))
            IN /\ \E e \in After(p, Outcomes(p, 4), F) : Becomes(p, e)
               /\ s' = [s EXCEPT ![p].pipe = SubSeq(@, k + 1, Len(@))]
  /\ UNCHANGED Budgets

\* The service has exited: "Service done".
ServiceEof(p) ==
  /\ t[p].service = "open" /\ t[p].service_read_active
  /\ s[p].pipe = <<>> /\ s[p].done
  /\ LET F(c) == IF t[p].reader # <<>> THEN ForwardEnd(ForwardAll(c, t[p].reader))
                 ELSE transport_disconnect(c)
     IN \E e \in After(p, Outcomes(p, 4), F) : Becomes(p, e)
  /\ UNCHANGED <<s, Budgets>>

-----------------------------------------------------------------------------
(* The programs above the transport, until they forward.                     *)

\* lshd_packet_handler.  ok: the service exists and its process starts.
lshd_packet_handler(e, m, ok) ==
  IF m # "SERVICE_REQUEST" THEN transport_send_packet(e, "UNIMPLEMENTED", 0, TRUE)
  ELSE IF ~ok THEN transport_disconnect(e)
  ELSE transport_forward_setup(transport_send_packet(e, "SERVICE_ACCEPT", 0, TRUE))

\* lsh_transport_packet_handler.  ok: there is another method or password to try.
lsh_transport_packet_handler(e, m, ok) ==
  CASE e.state = "SERVICE_REQUEST" ->
         IF m = "SERVICE_ACCEPT"
         THEN transport_send_packet([e EXCEPT !.state = "USERAUTH"], "USERAUTH_REQUEST", 0, TRUE)
         ELSE transport_protocol_error(e)
    [] e.state = "USERAUTH" ->
         CASE m = "USERAUTH_SUCCESS" -> transport_forward_setup(e)
           [] m = "USERAUTH_FAILURE" ->
                IF ok THEN transport_send_packet(e, "USERAUTH_REQUEST", 0, TRUE)
                ELSE transport_disconnect(e)
           [] OTHER -> transport_send_packet(e, "UNIMPLEMENTED", 0, TRUE)

\* The packet is one for the process behind p.
Delivered(e, q) ==
  /\ e.state = "FORWARD" /\ e.read_state = "INIT"
  /\ q.k = e.rkey /\ q.m \in Application

PacketHandler(e, p, m, ok) ==
  CASE e.state = "HANDSHAKE" -> transport_send_packet(e, "UNIMPLEMENTED", 0, TRUE)
    [] e.state = "FORWARD"   -> e
    [] e.state = "LSHD"      -> lshd_packet_handler(e, m, ok)
    [] OTHER                 -> lsh_transport_packet_handler(e, m, ok)

\* transport_process_packet; a packet read with other keys than it was written
\* with does not get through decode_packet.
transport_process_packet(e, p, q, ok, strong) ==
  CASE q.k # e.rkey      -> transport_protocol_error(e)
    [] q.m = "IGNORE"    -> e
    [] q.m \in {"UNIMPLEMENTED", "DISCONNECT"} -> transport_close(e, FALSE)
    [] OTHER ->
         CASE e.read_state = "IN_PROGRESS" ->
                IF q.m \in Kexdh THEN HandleKexdh(e, q.m, p = "server", ok, strong)
                ELSE transport_protocol_error(e)
           [] e.read_state = "NEWKEYS" ->
                IF q.m = "NEWKEYS" THEN HandleNewkeys(e) ELSE transport_protocol_error(e)
           [] e.read_state = "INIT" ->
                IF q.m = "KEXINIT" THEN transport_kexinit_handler(e, p = "server", ok)
                ELSE IF q.m \in Application THEN PacketHandler(e, p, q.m, ok)
                ELSE transport_send_packet(e, "UNIMPLEMENTED", 0, TRUE)

-----------------------------------------------------------------------------
(* Callbacks of the event loop.                                              *)

\* transport_handshake: the version line, then KEXINIT.
transport_handshake(p) ==
  /\ t[p].alive /\ t[p].state = "START"
  /\ LET Line(c) == write_data(c, Packet(c, "VERSION", 0), TRUE)
         Closed(w) == IF w.st \in {"OVERFLOW", "IO_ERROR"} THEN transport_close(w.t, FALSE)
                      ELSE w.t
         F(c) == [transport_send_kexinit(Closed(Line(c))) EXCEPT !.state = "HANDSHAKE",
                                                                 !.line_handler = TRUE]
     IN \E e \in After(p, Outcomes(p, 4), F) : Becomes(p, e)
  /\ UNCHANGED <<s, Budgets>>

Incoming(p) == t[Other(p)].net

\* The peer's packet leaves the network, and e is what p becomes.
Reads(p, e) ==
  t' = [t EXCEPT ![p] = e, ![Other(p)].net = Tail(@)]

\* oop_read_ssh, while a line handler is installed.
ReadLine(p) ==
  /\ t[p].ssh_input /\ t[p].line_handler /\ Incoming(p) # <<>>
  /\ Reads(p, [t[p] EXCEPT !.line_handler = FALSE])
  /\ UNCHANGED <<s, Budgets>>

\* The handler of this packet calls something that may fail: finding common
\* algorithms, verifying or signing, starting the service, asking the user.
CanFail(q) ==
  q.m \in Kexdh \cup {"KEXINIT", "SERVICE_REQUEST", "USERAUTH_FAILURE"}

\* oop_read_ssh, one packet.
ReadPacket(p) ==
  /\ t[p].ssh_input /\ t[p].state # "START" /\ ~t[p].line_handler /\ Incoming(p) # <<>>
  /\ \E ok, strong \in BOOLEAN :
       LET q == Head(Incoming(p))
       IN /\ ok \/ CanFail(q)
          /\ strong \/ (ok /\ q.m \in Kexdh)
          /\ MayFail(ok /\ strong)
          /\ \E e \in After(p, Outcomes(p, 4),
                           LAMBDA c : transport_process_packet(c, p, q, ok, strong)) :
               Reads(p, e)
          /\ s' = IF ~Delivered(t[p], q) THEN s
                  ELSE IF q.m = "DATA" THEN [s EXCEPT ![p].got = IF q.n = @ + 1 THEN q.n ELSE -1]
                  ELSE [s EXCEPT ![p].requests = @ + 1]
  /\ UNCHANGED <<rekeys, early>>

\* oop_read_ssh: the peer has closed the connection.
ReadEof(p) ==
  /\ t[p].ssh_input /\ t[p].state # "START"
  /\ ~t[Other(p)].alive /\ Incoming(p) = <<>>
  /\ Becomes(p, Settled(p, transport_close(t[p], FALSE)))
  /\ UNCHANGED <<s, Budgets>>

\* oop_read_ssh on a connection that waits for its write buffer to drain.  The
\* one descriptor is open and its read callback still installed, but ssh_input
\* is -1: the assertion at the start of oop_read_ssh fails.
ReadWhileClosing(p) ==
  /\ t[p].alive /\ t[p].closing
  /\ Incoming(p) # <<>> \/ ~t[Other(p)].alive
  /\ Becomes(p, [Kill(t[p]) EXCEPT !.closing = FALSE, !.aborted = TRUE])
  /\ UNCHANGED <<s, Budgets>>

\* oop_write_ssh.
oop_write_ssh(c) ==
  LET w == transport_write_flush(c)
  IN CASE w.st = "PENDING"  -> w.t
       [] w.st = "COMPLETE" -> transport_stop_write(w.t)
       [] OTHER             -> transport_close(w.t, FALSE)

\* The first of its two write calls may take a part of the buffer.
Flush(p) ==
  /\ t[p].alive /\ t[p].write_active
  /\ \E e \in After(p, Outcomes(p, 2) \cup {<<1, 0>>}, LAMBDA c : oop_write_ssh(c)) :
       Becomes(p, e)
  /\ UNCHANGED <<s, Budgets>>

\* The timers: transport_timeout_reexchange, _keyexchange and _close.
TimeoutReexchange(p) ==
  /\ t[p].alive /\ t[p].expire = "reexchange"
  /\ rekeys < MaxRekeys /\ rekeys' = rekeys + 1
  /\ \E e \in After(p, Outcomes(p, 2), LAMBDA c : transport_send_kexinit(c)) : Becomes(p, e)
  /\ early' = (early \/ t[p].state # "FORWARD")
  /\ UNCHANGED <<s, errors>>

TimeoutKeyexchange(p) ==
  /\ t[p].alive /\ t[p].expire = "keyexchange"
  /\ MayFail(FALSE)
  /\ \E e \in After(p, Outcomes(p, 2), LAMBDA c : transport_disconnect(c)) : Becomes(p, e)
  /\ UNCHANGED <<s, rekeys, early>>

TimeoutClose(p) ==
  /\ t[p].alive /\ t[p].expire = "close"
  /\ Becomes(p, [Kill(t[p]) EXCEPT !.closing = FALSE])
  /\ UNCHANGED <<s, Budgets>>

-----------------------------------------------------------------------------
(* The processes behind the two ends: lsh, which writes when the transport   *)
(* has started it, and the services of lshd.                                 *)

Serving(p) == t[p].service = "open" /\ ~s[p].done

Cleartext(m, n) == [m |-> m, n |-> n, k |-> 0]

ServiceData(p) ==
  /\ Serving(p) /\ (p = "client" \/ s[p].accepted)
  /\ s[p].sent < MaxData(p)
  /\ s' = [s EXCEPT ![p].sent = @ + 1,
                    ![p].pipe = Append(@, Cleartext("DATA", s[p].sent + 1))]
  /\ UNCHANGED <<t, Budgets>>

\* lshd-userauth answers a request; when it accepts, lshd-connection takes over.
Authenticate(accept) ==
  /\ Serving("server") /\ s["server"].requests > 0 /\ ~s["server"].accepted
  /\ MayFail(accept)
  /\ s' = [s EXCEPT !["server"].requests = @ - 1, !["server"].accepted = accept,
                    !["server"].pipe = Append(@,
                      Cleartext(IF accept THEN "USERAUTH_SUCCESS" ELSE "USERAUTH_FAILURE", 0))]
  /\ UNCHANGED <<t, rekeys, early>>

\* A process ends, with or without a DISCONNECT for the other side.
ServiceDone(p) ==
  /\ Serving(p) /\ MayFail(FALSE)
  /\ \E last \in {<<>>, <<Cleartext("DISCONNECT", 0)>>} :
       s' = [s EXCEPT ![p].done = TRUE, ![p].pipe = @ \o last]
  /\ UNCHANGED <<t, rekeys, early>>

\* The user interrupts lsh-transport.
Interrupt ==
  /\ t["client"].alive /\ MayFail(FALSE)
  /\ Becomes("client", [Kill(t["client"]) EXCEPT !.closing = FALSE])
  /\ UNCHANGED <<s, rekeys, early>>

Next ==
  \/ \E p \in Peers :
       \/ transport_handshake(p) \/ ReadLine(p) \/ ReadPacket(p) \/ ReadEof(p)
       \/ ReadWhileClosing(p) \/ Flush(p) \/ ServiceRead(p) \/ ServiceEof(p)
       \/ TimeoutReexchange(p) \/ TimeoutKeyexchange(p) \/ TimeoutClose(p)
       \/ ServiceData(p) \/ ServiceDone(p)
  \/ \E accept \in BOOLEAN : Authenticate(accept)
  \/ Interrupt

Spec == Init /\ [][Next]_vars

-----------------------------------------------------------------------------
(* Properties.                                                               *)

\* The next packet an end reads was written with the keys it reads with:
\* keyexchange_finish switches the writer between NEWKEYS and the packet after
\* it, padding included, and transport_process_packet the reader at NEWKEYS.
KeysAgree ==
  \A p \in Peers : t[p].ssh_input /\ Incoming(p) # <<>> => Head(Incoming(p)).k = t[p].rkey

\* Two such ends never see a protocol error in each other (a message that the
\* state of the key exchange does not allow, a packet that does not decrypt),
\* whichever of them starts the re-exchange and whatever is under way then,
\* provided that no end's timer fires before that end forwards.
NoProtocolError == \A p \in Peers : t[p].error => early

DataOf(q) == SelectSeq(q, LAMBDA x : x.m = "DATA")

\* While both ends are open, every packet a service has written is on its way
\* to the other service exactly once and in order: in the service's socket, in
\* the reader where a key exchange stopped it, in the write buffer or under way.
NothingLost ==
  \A p \in Peers :
    t[Other(p)].alive /\ t[p].ssh_input =>
      LET q == DataOf(Incoming(p) \o t[Other(p)].buf \o t[Other(p)].reader \o s[Other(p)].pipe)
      IN /\ Len(q) = s[Other(p)].sent - s[p].got
         /\ \A i \in DOMAIN q : q[i].n = s[p].got + i

\* Nothing is left to read, to write or to forward, and no connection is being
\* closed: until a timer fires or a service speaks, the two ends wait.
AtRest ==
  \A p \in Peers :
    /\ t[p].alive => t[p].state # "START" /\ ~t[p].closing /\ ~t[p].write_active
    /\ t[p].ssh_input => Incoming(p) = <<>> /\ t[Other(p)].alive
    /\ t[p].service = "open" /\ t[p].service_read_active => s[p].pipe = <<>> /\ ~s[p].done

\* Nothing waits for ever: at rest no key exchange is begun (the two ends do not
\* wait for each other inside one), the services that an exchange or a full
\* buffer stopped are read again, and only padding is left in a write buffer,
\* although packets from a service are collected there without a write callback
\* (write_data reports them as written).  The timer, unless it is set for a
\* running exchange, finds none begun (the assertion in transport_send_kexinit).
NothingWaits ==
  /\ AtRest => \A p \in Peers :
       t[p].alive => /\ ~t[p].sent_kexinit /\ t[p].read_state = "INIT"
                     /\ t[p].service = "open" => t[p].service_read_active
                     /\ Length(t[p].buf) <= t[p].ignore
  /\ \A p \in Peers : t[p].expire = "reexchange" =>
       t[p].read_state = "INIT" /\ ~t[p].write_state /\ ~t[p].sent_kexinit
=============================================================================
