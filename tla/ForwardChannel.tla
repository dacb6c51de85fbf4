--------------------------- MODULE ForwardChannel ---------------------------
(***************************************************************************)
(* Forwarded sockets: two connection endpoints that open channels for the  *)
(* sockets they accept, copy bytes between socket and channel, and close   *)
(* the channels (channel_forward.c, channel_io.c and tcpforward.c on top   *)
(* of channel.c).  The transport is a lossless FIFO each way: that is what *)
(* an ssh connection gives, and it is the only assumption on it.           *)
(*                                                                         *)
(* The io record of a channel is the socket and its buffer:                *)
(*   reading   read.active            writing  write.active                *)
(*   wlen      write.state->length    shut     shutdown(SHUT_WR) was done  *)
(*   broken    a read has failed: the socket has no more data              *)
(***************************************************************************)
EXTENDS ChannelOps, TcpConnect

CONSTANTS Peers,              \* the two endpoints
          MaxChannels,        \* max_channels
          TCPIP_WINDOW_SIZE,  \* receive window and write buffer of a channel
          MaxPacket,          \* send_max_packet
          MaxOpens,           \* bound: channels ever opened
          MaxBytes,           \* bound: bytes a source delivers
          MaxErrors           \* bound: failing reads and writes

VARIABLES ep,      \* the endpoints, see ChannelOps
          opened,  \* channels opened so far; their ids are 1..opened
          errors,  \* socket errors so far
          sent,    \* sent[p][id]: bytes read from p's socket of channel id
          got      \* got[p][id]: bytes written to p's socket of channel id

vars == <<ep, opened, errors, sent, got>>

ASSUME PeersAssumption == \E p, q \in Peers : p # q /\ Peers = {p, q}
ASSUME ChannelsAssumption == MaxChannels \in Nat
ASSUME WindowAssumption == TCPIP_WINDOW_SIZE \in Nat \ {0} /\ MaxPacket \in Nat \ {0}

Ids == 1..MaxOpens
Numbers == 0 .. MaxChannels - 1
Other(p) == CHOOSE q \in Peers : q # p

NewSocket == [reading |-> FALSE, writing |-> FALSE, wlen |-> 0,
              shut |-> FALSE, broken |-> FALSE]

Init ==
  /\ ep = [p \in Peers |-> [ch |-> [n \in Numbers |-> Free], pending_close |-> FALSE,
                            alive |-> TRUE, error |-> FALSE, out |-> <<>>]]
  /\ opened = 0
  /\ errors = 0
  /\ sent = [p \in Peers |-> [id \in Ids |-> 0]]
  /\ got = [p \in Peers |-> [id \in Ids |-> 0]]

-----------------------------------------------------------------------------
(* Callbacks of channel_forward.c and the primitives of channel_io.c.      *)

channel_io_start_read(e, n) == [e EXCEPT !.ch[n].io.reading = TRUE]
channel_io_stop_read(e, n) == [e EXCEPT !.ch[n].io.reading = FALSE]

channel_forward_start_read(e, n) ==
  IF e.ch[n].send_window > 0 THEN channel_io_start_read(e, n) ELSE e

channel_forward_start_io(e, n) ==
  channel_forward_start_read([e EXCEPT !.ch[n].sources = @ + 1,
                                       !.ch[n].sinks = @ + 1], n)

(* Mutant: the channel is not closed with its last sink.                   *)
ShutdownForgetsClose(e, n) ==
  [e EXCEPT !.ch[n].io.shut = TRUE, !.ch[n].sinks = @ - 1]

channel_forward_shutdown(e, n) ==
  channel_maybe_close([e EXCEPT !.ch[n].io.shut = TRUE,
                                !.ch[n].sinks = @ - 1], n)

(* Mutant: the socket is shut down although data is still buffered.        *)
EofShutsDownAtOnce(e, n) == channel_forward_shutdown(e, n)

(* CHANNEL_EVENT_EOF in do_channel_forward_event.                          *)
EventEof(e, n) ==
  IF e.ch[n].io.wlen = 0 THEN channel_forward_shutdown(e, n) ELSE e

(* Mutant: the read callback is not installed again.                       *)
SendAdjustForgets(e, n) == e

do_channel_forward_send_adjust(e, n) == channel_io_start_read(e, n)

(* channel_io_stop_write; EOF there makes the caller shut the socket down. *)
StopWrite(e, n) ==
  LET f == [e EXCEPT !.ch[n].io.writing = FALSE]
  IN  IF e.ch[n].received_eof THEN channel_forward_shutdown(f, n) ELSE f

(* ssh_write_data and channel_io_write: length new bytes, done of all the  *)
(* bytes accepted by the socket.  The rest must fit in the write buffer.   *)
channel_forward_write(e, n, length, done) ==
  LET left == e.ch[n].io.wlen + length - done
      f    == channel_adjust_rec_window([e EXCEPT !.ch[n].io.wlen = left], n, done)
  IN  IF left > TCPIP_WINDOW_SIZE THEN channel_close(e, n)
      ELSE IF left > 0 THEN [f EXCEPT !.ch[n].io.writing = TRUE]
      ELSE StopWrite(f, n)

(* channel_io_flush, called by oop_write_socket.                           *)
channel_io_flush(e, n, done) ==
  LET left == e.ch[n].io.wlen - done
      f    == channel_adjust_rec_window([e EXCEPT !.ch[n].io.wlen = left], n, done)
  IN  IF left = 0 THEN StopWrite(f, n) ELSE f

(* End of file in channel_io_read.                                         *)
ReadEof(e, n) ==
  LET f == [e EXCEPT !.ch[n].sources = @ - 1]
      g == IF f.ch[n].sources = 0 THEN channel_eof(f, n) ELSE f
  IN  channel_io_stop_read(g, n)

-----------------------------------------------------------------------------
(* do_tcpforward_listen_port_accept.  With all numbers in use the accepted *)
(* socket is closed at once.                                               *)
Accept(p) ==
  /\ ep[p].alive
  /\ opened < MaxOpens
  /\ FreeNumbers(ep[p]) # {}
  /\ opened' = opened + 1
  /\ ep' = [ep EXCEPT ![p] =
       channel_open_new_type(@, opened + 1, TCPIP_WINDOW_SIZE, NewSocket)]
  /\ UNCHANGED <<errors, sent, got>>

(* p takes the next packet q has written; e is p's state afterwards.       *)
Incoming(p, type) ==
  /\ ep[p].alive
  /\ ep[Other(p)].out # <<>>
  /\ Head(ep[Other(p)].out).type = type

Packet1(p) == Head(ep[Other(p)].out)

Take(p, e) == ep' = [ep EXCEPT ![p] = e, ![Other(p)].out = Tail(@)]

Simple(p, type, e) ==
  Incoming(p, type) /\ Take(p, e) /\ UNCHANGED <<opened, errors, sent, got>>

(* The endpoints after a round of attempts for channel n of p: the request *)
(* is denied when none is in progress.  A failed assertion ends the        *)
(* process, and with it the connection.                                    *)
Tried(eps, p, n, s) ==
  IF s.aborted THEN [q \in Peers |-> [eps[q] EXCEPT !.alive = FALSE]]
  ELSE IF s.stop THEN [eps EXCEPT ![p].ch[n].io = s]
  ELSE [eps EXCEPT ![p] = channel_open_deny(@, n)]

(* A channel open request starts a connection to the target; it is denied  *)
(* at once when the name does not resolve.                                 *)
ReceiveOpen(p) ==
  LET e   == handle_channel_open(ep[p], Packet1(p))
      n   == LowestFree(ep[p])
      eps == [ep EXCEPT ![p] = e, ![Other(p)].out = Tail(@)]
  IN  /\ Incoming(p, "OPEN")
      /\ \/ OpenRefused(ep[p]) /\ Take(p, e)
         \/ ~OpenRefused(ep[p]) /\ Take(p, channel_open_deny(e, n))
         \/ /\ ~OpenRefused(ep[p])
            /\ \E outcomes \in Outcomes : ep' = Tried(eps, p, n, tcpforward_connect(outcomes))
      /\ UNCHANGED <<opened, errors, sent, got>>

ReceiveConfirm(p) ==
  Simple(p, "OPEN_CONFIRMATION",
         handle_open_confirm(ep[p], Packet1(p), channel_forward_start_io))

ReceiveFailure(p) == Simple(p, "OPEN_FAILURE", handle_open_failure(ep[p], Packet1(p)))

ReceiveAdjust(p) ==
  Simple(p, "ADJUST",
         handle_adjust_window(ep[p], Packet1(p), do_channel_forward_send_adjust))

ReceiveEof(p) == Simple(p, "EOF", handle_channel_eof(ep[p], Packet1(p), EventEof))

ReceiveClose(p) == Simple(p, "CLOSE", handle_channel_close(ep[p], Packet1(p)))

(* Data goes to the socket, which accepts any part of what is pending, or  *)
(* fails.  Data that is not accepted is dropped.                           *)
ReceiveData(p) ==
  LET m == Packet1(p)
      k == Accepted(ep[p], m)
      e == TakeData(ep[p], m)
      c == ep[p].ch[m.ch]
  IN  /\ Incoming(p, "DATA")
      /\ UNCHANGED <<opened, sent>>
      /\ \/ /\ k = 0
            /\ Take(p, ep[p])
            /\ UNCHANGED <<errors, got>>
         \/ /\ k > 0
            /\ \E done \in 0 .. (c.io.wlen + k) :
                 /\ Take(p, channel_forward_write(e, m.ch, k, done))
                 /\ got' = [got EXCEPT ![p][c.id] = @ + done]
            /\ UNCHANGED errors
         \/ /\ k > 0
            /\ errors < MaxErrors
            /\ errors' = errors + 1
            /\ Take(p, channel_close(e, m.ch))
            /\ UNCHANGED got

(* oop_io_connect without an error: tcpforward_connect_done.               *)
Connecting(p, n) ==
  ep[p].alive /\ Is(ep[p], n, "RECEIVED_OPEN") /\ ep[p].ch[n].io.watched

ConnectDone(p, n) ==
  /\ Connecting(p, n)
  /\ ep' = [ep EXCEPT ![p] =
       channel_forward_start_io(
         channel_open_confirm(@, n, TCPIP_WINDOW_SIZE, NewSocket), n)]
  /\ UNCHANGED <<opened, errors, sent, got>>

(* oop_io_connect with an error.  The unconditional KILL_RESOURCE at its   *)
(* end closes the socket of an attempt that tcpforward_connect_error has   *)
(* started, unless the state was dead already: the request is then never   *)
(* answered.                                                               *)
ConnectError(p, n) ==
  /\ Connecting(p, n)
  /\ \E outcomes \in Outcomes :
       ep' = Tried(ep, p, n, KILL_RESOURCE(tcpforward_connect_error(ep[p].ch[n].io, outcomes)))
  /\ UNCHANGED <<opened, errors, sent, got>>

(* oop_read_socket: data, the end of the file, or an error.                *)
Readable(p, n) == ep[p].alive /\ Is(ep[p], n, "ACTIVE") /\ ep[p].ch[n].io.reading

ToRead(c) == Min({c.send_window, MaxPacket})

ReadNothing(p, n) ==
  /\ Readable(p, n)
  /\ ToRead(ep[p].ch[n]) = 0
  /\ ep' = [ep EXCEPT ![p] = channel_io_stop_read(@, n)]
  /\ UNCHANGED <<opened, errors, sent, got>>

ReadData(p, n) ==
  LET c == ep[p].ch[n]
  IN  /\ Readable(p, n)
      /\ ~c.io.broken
      /\ \E k \in 1 .. ToRead(c) :
           /\ sent[p][c.id] + k <= MaxBytes
           /\ ep' = [ep EXCEPT ![p] = channel_transmit(@, n, "DATA", k)]
           /\ sent' = [sent EXCEPT ![p][c.id] = @ + k]
      /\ UNCHANGED <<opened, errors, got>>

ReadEnd(p, n) ==
  /\ Readable(p, n)
  /\ ToRead(ep[p].ch[n]) > 0
  /\ ep' = [ep EXCEPT ![p] = ReadEof(@, n)]
  /\ UNCHANGED <<opened, errors, sent, got>>

ReadError(p, n) ==
  /\ Readable(p, n)
  /\ ToRead(ep[p].ch[n]) > 0
  /\ errors < MaxErrors
  /\ errors' = errors + 1
  /\ ep' = [ep EXCEPT ![p] = channel_close([@ EXCEPT !.ch[n].io.broken = TRUE], n)]
  /\ UNCHANGED <<opened, sent, got>>

(* oop_write_socket.                                                       *)
Writable(p, n) == ep[p].alive /\ Is(ep[p], n, "ACTIVE") /\ ep[p].ch[n].io.writing

Flush(p, n) ==
  /\ Writable(p, n)
  /\ \E done \in 1 .. ep[p].ch[n].io.wlen :
       /\ ep' = [ep EXCEPT ![p] = channel_io_flush(@, n, done)]
       /\ got' = [got EXCEPT ![p][ep[p].ch[n].id] = @ + done]
  /\ UNCHANGED <<opened, errors, sent>>

FlushError(p, n) ==
  /\ Writable(p, n)
  /\ errors < MaxErrors
  /\ errors' = errors + 1
  /\ ep' = [ep EXCEPT ![p] = channel_close(@, n)]
  /\ UNCHANGED <<opened, sent, got>>

Receive(p) ==
  \/ ReceiveOpen(p) \/ ReceiveConfirm(p) \/ ReceiveFailure(p)
  \/ ReceiveAdjust(p) \/ ReceiveData(p) \/ ReceiveEof(p) \/ ReceiveClose(p)

Connect(p, n) == ConnectDone(p, n) \/ ConnectError(p, n)

Read(p, n) == ReadNothing(p, n) \/ ReadData(p, n) \/ ReadEnd(p, n) \/ ReadError(p, n)

Next ==
  \E p \in Peers :
    \/ Accept(p)
    \/ Receive(p)
    \/ \E n \in Numbers :
         Connect(p, n) \/ Read(p, n) \/ Flush(p, n) \/ FlushError(p, n)

(* The event loop serves every descriptor that stays ready, the transport  *)
(* delivers, connections succeed or fail, and a socket's other end reads   *)
(* what it is sent.  Nothing makes a source reach its end.                 *)
Fairness ==
  \A p \in Peers :
    /\ WF_vars(Receive(p))
    /\ \A n \in Numbers : WF_vars(Connect(p, n)) /\ WF_vars(Flush(p, n))

Spec == Init /\ [][Next]_vars

(* The two endpoints run the same code.                                    *)
PeerSymmetry == Permutations(Peers)
LiveSpec == Spec /\ Fairness

-----------------------------------------------------------------------------
Chan(p, n) == ep[p].ch[n]
Active(p, n) == ep[p].alive /\ Is(ep[p], n, "ACTIVE")

(* The packets of one type that p has under way for channel id, and the    *)
(* sum of their arguments.                                                 *)
UnderWay(p, type, id) ==
  SelectSeq(ep[p].out, LAMBDA m : m.type = type /\ m.id = id)
BytesUnderWay(p, type, id) ==
  FoldSeq(LAMBDA m, sum : m.arg + sum, 0, UnderWay(p, type, id))

(* Two endpoints that run this code never make each other call             *)
(* SSH_CONNECTION_ERROR, however opening, EOF and CLOSE of the two ends    *)
(* cross, socket errors included: no packet arrives for a channel that is  *)
(* closed, not confirmed, or at end of file already.                       *)
NoProtocolError == \A p \in Peers : ~ep[p].error

(* What is buffered and what the other end may still send fit in the write *)
(* buffer, whose size is the initial window: ssh_write_data never fails    *)
(* with EOVERFLOW.                                                         *)
BufferFits ==
  \A p \in Peers : \A n \in Numbers :
    Active(p, n) => Chan(p, n).io.wlen + Chan(p, n).rec_window <= TCPIP_WINDOW_SIZE

(* Flow control is exact: while a direction is open, the sender's          *)
(* send_window_size, the data under way and the window adjusts under way   *)
(* the other way add up to the receiver's rec_window_size.  (A failing     *)
(* write can put the data of one channel in another, see                   *)
(* PacketsStayInChannel.)  And the receiver has room for its window.       *)
WindowsAgree ==
  /\ BufferFits
  /\ \A p \in Peers : \A n, k \in Numbers :
       LET q == Other(p)
           c == Chan(p, n)
           d == Chan(q, k)
       IN  (/\ errors = 0
            /\ Active(p, n) /\ Active(q, k)
            /\ c.id = d.id
            /\ ~c.sent_eof /\ ~c.sent_close /\ ~d.sent_close /\ ~d.received_eof)
           => c.send_window + BytesUnderWay(p, "DATA", c.id)
             + BytesUnderWay(q, "ADJUST", c.id) = d.rec_window

(* A channel number is reused only when no packet for its old channel can  *)
(* be taken for one of the new channel: the next packet, when its handler  *)
(* finds a channel for it, is for the channel the sender meant.  The one   *)
(* exception is data, after a failing write: channel_io_write then sends   *)
(* CLOSE, and oop_read_socket goes on sending what it reads.               *)
PacketsStayInChannel ==
  \A p \in Peers :
    LET q == Other(p)
        m == Head(ep[q].out)
        s == IF m.type \in {"OPEN_CONFIRMATION", "OPEN_FAILURE"} THEN "SENT_OPEN"
             ELSE "ACTIVE"
    IN  (/\ ep[q].out # <<>>
         /\ m.type # "OPEN"
         /\ m.type = "DATA" => errors = 0
         /\ Is(ep[p], m.ch, s))
        => Chan(p, m.ch).id = m.id

(* A socket is not read after its end of file: assert(channel->sources) in *)
(* channel_io_read holds, and no data follows EOF.                         *)
ReadsBeforeEof ==
  \A p \in Peers : \A n \in Numbers :
    Readable(p, n) => Chan(p, n).sources > 0 /\ ~Chan(p, n).sent_eof

(* End of file arrives after the data: a socket is shut down for writing   *)
(* only once every byte the other end read has been written to it, unless  *)
(* a socket failed; and a socket is not read after its end of file.        *)
EofAfterData ==
  /\ ReadsBeforeEof
  /\ \A p \in Peers : \A n \in Numbers :
       (Active(p, n) /\ Chan(p, n).io.shut /\ errors = 0)
         => got[p][Chan(p, n).id] = sent[Other(p)][Chan(p, n).id]

(* No lost wakeup: an open socket is read again after the window was used  *)
(* up, because the other end's writes open it.                             *)
ReadingResumes ==
  \A p \in Peers, n \in Numbers :
    Active(p, n) ~> \/ ~Active(p, n)
                    \/ Chan(p, n).io.reading /\ Chan(p, n).send_window > 0
                    \/ Chan(p, n).sent_eof \/ Chan(p, n).sent_close

(* Rule 2 of doc/NOTES: a channel whose sources have both ended, and one   *)
(* for which CLOSE was sent, is closed and its number is free again, while *)
(* the connection lives.                                                   *)
ClosesInTheEnd ==
  \A p \in Peers, n \in Numbers :
    (/\ Active(p, n)
     /\ \/ Chan(p, n).sent_close
        \/ Chan(p, n).sent_eof /\ Chan(p, n).received_eof)
      ~> Chan(p, n).state = "FREE" \/ ~ep[p].alive
=============================================================================
