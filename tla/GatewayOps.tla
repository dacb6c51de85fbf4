----------------------------- MODULE GatewayOps -----------------------------
(***************************************************************************)
(* The gateway of lsh (gateway.c, gateway_channel.c, gateway_x11.c): lsh   *)
(* has one shared connection to the server, and other lsh processes, the   *)
(* gateway clients, open channels through it.  Every such channel is a     *)
(* pair of channels of lsh, one on the shared connection and one on the    *)
(* connection of the gateway client, and what arrives on one is passed on  *)
(* over the other.                                                         *)
(*                                                                         *)
(* x is a function from connection ends to endpoints (ChannelOps).  The    *)
(* ends of lsh are Shared and Gateway(i); they face Server and Client(i).  *)
(* The two channels of a pair have the same id, which is how the model     *)
(* follows the pointer chain.                                              *)
(***************************************************************************)
EXTENDS ChannelOps, Integers

CONSTANT Gateways   \* the connections to the gateway socket, one after the other or at once

Server == <<"server", 0>>
Shared == <<"shared", 0>>
Gateway(i) == <<"gateway", i>>
Client(i) == <<"client", i>>

LshEnds == {Shared} \cup {Gateway(i) : i \in Gateways}
FarEnds == {Server} \cup {Client(i) : i \in Gateways}

Peer(p) ==
  CASE p = Shared -> Server
    [] p = Server -> Shared
    [] p[1] = "gateway" -> Client(p[2])
    [] OTHER -> Gateway(p[2])

(* The io of a gateway channel: info says that the target still has to     *)
(* answer the request of the originating channel; pending is               *)
(* x11->pending, and -1 when there is no x11 handler; single is            *)
(* x11->single_connection; late, for the properties, says that the channel *)
(* was confirmed when its connection was dead.                             *)
GatewayIo(info) == [info |-> info, pending |-> -1, single |-> FALSE, late |-> FALSE]

(* chain: the table entry of the other channel of the pair.                *)
Chain(x, p, n) ==
  {c \in (LshEnds \ {p}) \X DOMAIN x[p].ch :
     x[c[1]].ch[c[2]].state # "FREE" /\ x[c[1]].ch[c[2]].id = x[p].ch[n].id}

HasChain(x, p, n) == Chain(x, p, n) # {}
ChainEnd(x, p, n) == (CHOOSE c \in Chain(x, p, n) : TRUE)[1]
ChainNumber(x, p, n) == (CHOOSE c \in Chain(x, p, n) : TRUE)[2]

(* chain->super.super.alive.  The originating channel gets into the table, *)
(* and among the resources that die with the connection, when it is        *)
(* confirmed; until then nothing kills it.                                 *)
ChainAlive(x, p, n) ==
  /\ HasChain(x, p, n)
  /\ \/ x[ChainEnd(x, p, n)].ch[ChainNumber(x, p, n)].state = "RECEIVED_OPEN"
     \/ x[ChainEnd(x, p, n)].alive

-----------------------------------------------------------------------------
(* channel_close when the channel is one of a pair.  If that finishes it,  *)
(* do_kill_gateway_channel closes the other one, and that one's kill finds *)
(* the first one dead.                                                     *)
CloseOne(x, p, n) == [x EXCEPT ![p] = channel_close(@, n)]

(* Mutant: a channel is done with when CLOSE is sent, before the answer.   *)
CloseAndForget(x, p, n) ==
  LET y == CloseOne(x, p, n)
  IN  IF Is(y[p], n, "ACTIVE") THEN [y EXCEPT ![p] = channel_finished(@, n)] ELSE y

ClosePair(x, p, n) ==
  LET y == CloseOne(x, p, n)
  IN  IF y[p].ch[n].state = "FREE" /\ x[p].ch[n].state # "FREE" /\ HasChain(x, p, n)
      THEN LET q == ChainEnd(x, p, n)
               m == ChainNumber(x, p, n)
           IN  IF x[q].alive /\ Is(x[q], m, "ACTIVE") THEN CloseOne(y, q, m) ELSE y
      ELSE y

(* Mutant: an active channel is left to the server.                        *)
KillKeepsActive(x, p, n) ==
  IF ~HasChain(x, p, n) \/ ~ChainAlive(x, p, n) THEN x
  ELSE LET q == ChainEnd(x, p, n)
           m == ChainNumber(x, p, n)
       IN  IF x[p].ch[n].state = "SENT_OPEN" /\ x[p].ch[n].io.info
           THEN [x EXCEPT ![q] = channel_open_deny(@, m)] ELSE x

(* do_kill_gateway_channel for the channel n of a gateway connection that  *)
(* is killed: its cases 1, 2 and 3.                                        *)
do_kill_gateway_channel(x, p, n) ==
  IF ~HasChain(x, p, n) \/ ~ChainAlive(x, p, n) THEN x
  ELSE LET q == ChainEnd(x, p, n)
           m == ChainNumber(x, p, n)
       IN  CASE x[p].ch[n].state = "ACTIVE" -> CloseOne(x, q, m)
             [] x[p].ch[n].state = "SENT_OPEN" /\ x[p].ch[n].io.info ->
                  [x EXCEPT ![q] = channel_open_deny(@, m)]
             [] OTHER -> x

(* kill_gateway_connection: the channels in the table are killed one after *)
(* the other; what is in the write buffer is lost.                         *)
kill_channels(x, p) ==
  LET Registered == {n \in DOMAIN x[p].ch : x[p].ch[n].state \in {"ACTIVE", "SENT_OPEN"}}
      kill[n \in 0 .. Len(x[p].ch)] ==
        IF n = 0 THEN x
        ELSE IF n \in Registered THEN do_kill_gateway_channel(kill[n - 1], p, n) ELSE kill[n - 1]
  IN  IF x[p].alive
      THEN [kill[Len(x[p].ch)] EXCEPT ![p].alive = FALSE, ![p].out = <<>>]
      ELSE x

(* gateway_disconnect: the DISCONNECT message is of no interest here.      *)
gateway_error(x, p) ==
  IF p = Shared THEN [x EXCEPT ![p] = SSH_CONNECTION_ERROR(@)]
  ELSE [kill_channels(x, p) EXCEPT ![p].error = TRUE]

-----------------------------------------------------------------------------

(* gateway_forward_channel_open: the target is opened with the window of   *)
(* the request that was received.                                          *)
ForwardOpen(x, origin, n, target, window) ==
  [x EXCEPT ![target] = channel_open_new_type(@, x[origin].ch[n].id, window, GatewayIo(TRUE))]

gateway_forward_channel_open(x, origin, n, target) ==
  IF FreeNumbers(x[target]) = {}
  THEN [x EXCEPT ![origin] = channel_open_deny(@, n)]
  ELSE ForwardOpen(x, origin, n, target, x[origin].ch[n].send_window)

(* gateway_channel_open.                                                   *)
gateway_channel_open(x, p, n) ==
  IF x[Shared].pending_close THEN [x EXCEPT ![p] = channel_open_deny(@, n)]
  ELSE gateway_forward_channel_open(x, p, n, Shared)

(* CHANNEL_EVENT_CONFIRM: the originating channel is confirmed with the    *)
(* target's window.  The channel of a connection that is dead is killed    *)
(* when it is registered, which is before it becomes active, so that       *)
(* do_kill_gateway_channel takes its second case.                          *)
EventConfirm(x, p, n) ==
  IF ~ChainAlive(x, p, n) THEN CloseOne(x, p, n)
  ELSE LET q == ChainEnd(x, p, n)
           m == ChainNumber(x, p, n)
           y == [x EXCEPT ![p].ch[n].io.info = FALSE, ![p].ch[n].sinks = 1,
                          ![q] = channel_open_confirm(@, m, x[p].ch[n].send_window,
                                                      GatewayIo(FALSE))]
       IN  [y EXCEPT ![q].ch[m].sinks = 1, ![q].ch[m].io.late = ~y[q].alive, ![q].out = IF y[q].alive THEN @ ELSE <<>>]

handle_open_confirm_gw(x, p, m) ==
  IF ~Is(x[p], m.ch, "SENT_OPEN") THEN gateway_error(x, p)
  ELSE EventConfirm([x EXCEPT ![p].ch[m.ch].state = "ACTIVE",
                              ![p].ch[m.ch].remote = m.arg[1],
                              ![p].ch[m.ch].send_window = m.arg[2]], p, m.ch)

(* CHANNEL_EVENT_DENY and channel_finished.                                *)
handle_open_failure_gw(x, p, m) ==
  IF ~Is(x[p], m.ch, "SENT_OPEN") THEN x
  ELSE LET y == IF ChainAlive(x, p, m.ch)
                THEN [x EXCEPT ![ChainEnd(x, p, m.ch)] =
                        channel_open_deny(@, ChainNumber(x, p, m.ch))]
                ELSE x
       IN  [y EXCEPT ![p] = channel_finished(@, m.ch)]

(* Mutant: data is dropped when the other side has sent EOF.               *)
ReceiveNotAfterEof(x, p, m) ==
  LET k == Accepted(x[p], m)
      y == [x EXCEPT ![p] = TakeData(@, m)]
  IN  IF k = 0 \/ ~HasChain(x, p, m.ch) THEN x
      ELSE IF x[ChainEnd(x, p, m.ch)].ch[ChainNumber(x, p, m.ch)].received_eof THEN y
      ELSE [y EXCEPT ![ChainEnd(x, p, m.ch)] =
                 channel_transmit(@, ChainNumber(x, p, m.ch), "DATA", k)]

(* do_receive: what is accepted goes out on the other channel.             *)
do_receive(x, p, m) ==
  LET k == Accepted(x[p], m)
      y == [x EXCEPT ![p] = TakeData(@, m)]
  IN  IF k = 0 \/ ~HasChain(x, p, m.ch) THEN x
      ELSE [y EXCEPT ![ChainEnd(x, p, m.ch)] =
                 channel_transmit(@, ChainNumber(x, p, m.ch), "DATA", k)]

(* handle_adjust_window with do_send_adjust.                               *)
handle_adjust_window_gw(x, p, m) ==
  IF ~Is(x[p], m.ch, "ACTIVE") \/ x[p].ch[m.ch].received_close THEN gateway_error(x, p)
  ELSE IF x[p].ch[m.ch].sent_close \/ x[p].ch[m.ch].sent_eof THEN x
  ELSE LET y == [x EXCEPT ![p].ch[m.ch].send_window = @ + m.arg]
       IN  IF ~HasChain(x, p, m.ch) THEN y
           ELSE [y EXCEPT ![ChainEnd(x, p, m.ch)] =
                      channel_adjust_rec_window(@, ChainNumber(x, p, m.ch), m.arg)]

(* CHANNEL_EVENT_EOF.  Both channels have a sink that is never removed, so *)
(* that EOFs alone do not close them.                                      *)
handle_channel_eof_gw(x, p, m) ==
  IF ~Is(x[p], m.ch, "ACTIVE") \/ x[p].ch[m.ch].received_eof \/ x[p].ch[m.ch].received_close
  THEN gateway_error(x, p)
  ELSE LET y == [x EXCEPT ![p].ch[m.ch].received_eof = TRUE]
           z == IF ChainAlive(y, p, m.ch)
                THEN [y EXCEPT ![ChainEnd(y, p, m.ch)] = channel_eof(@, ChainNumber(y, p, m.ch))]
                ELSE y
       IN  [z EXCEPT ![p] = channel_maybe_close(@, m.ch)]

(* CHANNEL_EVENT_CLOSE, and the rest of handle_channel_close: the channel  *)
(* may have been finished by closing the other one.                        *)
handle_channel_close_gw(x, p, m) ==
  IF ~Is(x[p], m.ch, "ACTIVE") \/ x[p].ch[m.ch].received_close THEN gateway_error(x, p)
  ELSE LET y == [x EXCEPT ![p].ch[m.ch].received_close = TRUE]
           z == IF ChainAlive(y, p, m.ch)
                THEN ClosePair(y, ChainEnd(y, p, m.ch), ChainNumber(y, p, m.ch))
                ELSE y
       IN  IF z[p].ch[m.ch].state = "FREE" THEN z
           ELSE IF z[p].ch[m.ch].sent_close
           THEN [z EXCEPT ![p] = channel_finished(@, m.ch)]
           ELSE ClosePair(z, p, m.ch)

(* gateway_forward_channel_request, and gateway_x11_request_handler on the *)
(* originating side: a second x11 request on a channel is refused here.    *)
handle_channel_request_gw(x, p, m) ==
  IF ~Is(x[p], m.ch, "ACTIVE") THEN gateway_error(x, p)
  ELSE IF ~HasChain(x, p, m.ch) THEN x
  ELSE LET q == ChainEnd(x, p, m.ch)
           n == ChainNumber(x, p, m.ch)
           x11 == m.arg[1] \in {"x11", "x11 single"} /\ p # Shared
           y == [x EXCEPT ![q] = channel_send_request(@, n, m.arg[1], m.arg[2])]
       IN  IF x11 /\ (x[q].ch[n].io.pending >= 0 \/ ~m.arg[2])
           THEN [x EXCEPT ![p] = channel_request_reply(@, m.ch, m.arg[2], FALSE)]
           ELSE IF x11
           THEN [y EXCEPT ![q].ch[n].io.pending = y[q].ch[n].pending_requests,
                          ![q].ch[n].io.single = m.arg[1] = "x11 single"]
           ELSE y

(* CHANNEL_EVENT_SUCCESS and CHANNEL_EVENT_FAILURE: x11->pending counts    *)
(* down to the reply to the x11 request.  AddsDisplay says that it has     *)
(* succeeded, and the handler is added to x11_displays.                    *)
AddsDisplay(x, p, m) ==
  /\ m.type = "SUCCESS"
  /\ Is(x[p], m.ch, "ACTIVE") /\ x[p].ch[m.ch].pending_requests > 0
  /\ ChainAlive(x, p, m.ch)
  /\ x[p].ch[m.ch].io.pending = 1

handle_channel_reply_gw(x, p, m) ==
  IF ~Is(x[p], m.ch, "ACTIVE") THEN gateway_error(x, p)
  ELSE IF x[p].ch[m.ch].pending_requests = 0 THEN x
  ELSE LET y == [x EXCEPT ![p].ch[m.ch].pending_requests = @ - 1]
           k == y[p].ch[m.ch].io.pending
           z == [y EXCEPT ![p].ch[m.ch].io.pending =
                   IF k < 1 THEN k ELSE IF k = 1 /\ m.type = "FAILURE" THEN -1 ELSE k - 1]
       IN  IF ~ChainAlive(x, p, m.ch) THEN y
           ELSE [z EXCEPT ![ChainEnd(x, p, m.ch)] =
                      OnChannel(@, ChainNumber(x, p, m.ch), m.type, 0)]
=============================================================================
