------------------------------ MODULE Gateway ------------------------------
(***************************************************************************)
(* lsh with its gateway, between gateway clients (other lsh processes) and *)
(* a server: channels through the gateway (GatewayOps), ports forwarded    *)
(* for the clients (gateway_tcpforward.c) with the global requests of      *)
(* client_tcpforward.c and server_tcpforward.c, x11 displays, requests for *)
(* random data, and the flow control of client.c.  A client may come, ask, *)
(* and go at any moment.                                                   *)
(*                                                                         *)
(* The packets of a connection are in order.  Server stands for            *)
(* lsh-transport and the server: lsh-transport answers random requests.    *)
(***************************************************************************)
EXTENDS GatewayOps, SequencesExt

CONSTANTS Ports,        \* remote ports that can be forwarded
          WINDOW,       \* window of the far ends of a channel
          NumChannels,  \* bound: channel numbers of a connection
          STOP, START,  \* CONNECTION_WRITE_BUFFER_STOP_THRESHOLD and _START_, in packets
          Scenarios     \* bounds: how often each thing may happen, see left

VARIABLES ep,      \* the endpoints, see GatewayOps
          lsh,     \* what lsh keeps besides its channels
          far,     \* what the server and the clients keep besides their channels
          opened,  \* opened[id]: kind and port of the channel with that id
          tally,   \* tally[id]: data sent and got by the far ends of a channel
          left     \* how often each thing may still happen

vars == <<ep, lsh, far, opened, tally, left>>

GatewayAssumption == Gateways \subseteq Nat /\ START < STOP
ASSUME GatewayAssumption

NewEnd(alive) ==
  [ch |-> [n \in 1..NumChannels |-> Free], pending_close |-> FALSE, alive |-> alive,
   error |-> FALSE, out |-> <<>>]

(* forwarded: forwarded_ports of the shared connection, handlers [port,    *)
(* gw, active]; own: forwarded_ports of a gateway connection; cancels: the *)
(* gateway_forward_resources of a connection; pending:                     *)
(* pending_global_requests; random: pending_random; displays:              *)
(* x11_displays, the latest first, as [gw, id, single] with the id of the  *)
(* session that asked; reading: read_active; listening: the gateway port.  *)
Init ==
  /\ ep = [p \in LshEnds \cup FarEnds |-> NewEnd(p \in {Server, Shared})]
  /\ lsh = [forwarded |-> <<>>, own |-> [i \in Gateways |-> {}],
            cancels |-> [i \in Gateways |-> <<>>], pending |-> <<>>, random |-> <<>>,
            displays |-> <<>>, reading |-> [i \in Gateways |-> FALSE],
            blocked |-> FALSE, listening |-> TRUE]
  /\ far = [served |-> 0, listen |-> {}, refused |-> FALSE, crossed |-> FALSE,
            asked |-> [i \in Gateways |-> <<>>], active |-> [i \in Gateways |-> {}],
            randoms |-> [i \in Gateways |-> 0]]
  /\ opened = <<>>
  /\ tally = <<>>
  /\ left \in Scenarios

Spend(what) == left[what] > 0 /\ left' = [left EXCEPT ![what] = @ - 1]

Number(x) == Len(x)
Side(p) == p[1]
NoData == [sent |-> [s \in {"client", "server"} |-> 0], got |-> [s \in {"client", "server"} |-> 0]]

Global(type, port) == Packet(type, 0, port, 0)

-----------------------------------------------------------------------------
(* Flow control.                                                           *)

Reading(l, x, value) ==
  [l EXCEPT !.reading = [i \in Gateways |-> IF x[Gateway(i)].alive THEN value ELSE FALSE]]

(* service_start_write, after lsh has written: when the buffer fills up    *)
(* the gateways are no longer read.                                        *)
service_start_write(l, x) ==
  IF ~l.blocked /\ Len(x[Shared].out) >= STOP
  THEN Reading([l EXCEPT !.blocked = TRUE], x, FALSE)
  ELSE l

(* oop_write_service, after the transport has read: the channels and the   *)
(* gateways are restarted.                                                 *)
oop_write_service(l, x) ==
  IF l.blocked /\ Len(x[Shared].out) <= START THEN Reading(l, x, TRUE) ELSE l

-----------------------------------------------------------------------------
(* Forwarded ports.                                                        *)

tcpforward_lookup(q, port) == \E k \in DOMAIN q : q[k].port = port
tcpforward_remove_port(q, port, gw) == SelectSeq(q, LAMBDA h : h.port # port \/ h.gw # gw)

(* Mutant: the port is not given back to the server.                       *)
KillForwardSilently(x, l, i) ==
  [x |-> x, l |-> [l EXCEPT !.forwarded = SelectSeq(@, LAMBDA h : h.gw # i), !.cancels[i] = <<>>]]

(* do_kill_gateway_forward for the forwards of a gateway connection:       *)
(* cancel-tcpip-forward, with no reply asked for.                          *)
do_kill_gateway_forward(x, l, i) ==
  LET Mine(h) == h.gw = i /\ \E k \in DOMAIN l.cancels[i] : l.cancels[i][k] = h.port
      ports == Reverse(l.cancels[i])
  IN  [x |-> [x EXCEPT ![Shared].out =
                 @ \o [k \in DOMAIN ports |-> Global("CANCEL_FORWARD", ports[k])]],
       l |-> [l EXCEPT !.forwarded = SelectSeq(@, LAMBDA h : ~Mine(h)),
                       !.cancels[i] = <<>>]]

(* kill_gateway_connection: channels, forwards and x11 handlers go.        *)
kill_gateway_connection(x, l, i) ==
  IF ~x[Gateway(i)].alive THEN [x |-> x, l |-> l]
  ELSE LET r == do_kill_gateway_forward(kill_channels(x, Gateway(i)), l, i)
       IN  [r EXCEPT !.l.displays = SelectSeq(@, LAMBDA d : d.gw # i),
                     !.l.reading[i] = FALSE]

(* do_gateway_tcpip_forward_handler: a port that is known already is       *)
(* refused at once.                                                        *)
Known(l, i, port) == port \in l.own[i] \/ tcpforward_lookup(l.forwarded, port)

gateway_forward_request(x, l, i, port) ==
  IF Known(l, i, port)
  THEN [x |-> [x EXCEPT ![Gateway(i)].out = Append(@, Global("REQUEST_FAILURE", port))], l |-> l]
  ELSE [x |-> [x EXCEPT ![Shared].out = Append(@, Global("TCPIP_FORWARD", port))],
        l |-> [l EXCEPT !.forwarded = Append(@, [port |-> port, gw |-> i, active |-> FALSE]),
                        !.own[i] = @ \cup {port},
                        !.pending = Append(@, [port |-> port, gw |-> i]),
                        !.cancels[i] = Append(@, port)]]

(* object_queue_remove_head of pending_global_requests.                    *)
NextPending(l) == [state |-> Head(l.pending), rest |-> Tail(l.pending)]

(* handle_global_success, handle_global_failure and                        *)
(* do_gateway_tcpforward_state_done.                                       *)
handle_global_reply(x, l, type) ==
  IF l.pending = <<>> THEN [x |-> x, l |-> l]
  ELSE LET s == NextPending(l).state
           ok == type = "REQUEST_SUCCESS"
           f == IF ok THEN [k \in DOMAIN l.forwarded |->
                              [l.forwarded[k] EXCEPT !.active =
                                 @ \/ (l.forwarded[k].port = s.port /\ l.forwarded[k].gw = s.gw)]]
                ELSE tcpforward_remove_port(l.forwarded, s.port, s.gw)
       IN  [x |-> IF x[Gateway(s.gw)].alive
                  THEN [x EXCEPT ![Gateway(s.gw)].out = Append(@, Global(type, s.port))] ELSE x,
            l |-> [l EXCEPT !.pending = NextPending(l).rest, !.forwarded = f]]

(* channel_open_forwarded_tcpip and channel_open_x11 on the shared         *)
(* connection: where the channel opened by the server goes, 0 for nowhere. *)
OpenGoesTo(l, kind, port) ==
  IF kind = "x11" THEN IF l.displays = <<>> THEN 0 ELSE Head(l.displays).gw
  ELSE LET H == {k \in DOMAIN l.forwarded : l.forwarded[k].port = port}
       IN  IF H # {} /\ l.forwarded[Min(H)].active THEN l.forwarded[Min(H)].gw ELSE 0

(* A display for a single connection is gone when it is used.              *)
AfterOpen(l, kind) ==
  IF kind = "x11" /\ l.displays # <<>> /\ Head(l.displays).single
  THEN [l EXCEPT !.displays = Tail(@)] ELSE l

HandleOpenAtShared(x, l, m) ==
  LET y == [x EXCEPT ![Shared] = handle_channel_open(@, m)]
      n == LowestFree(x[Shared])
      kind == opened[m.id].kind
      g == OpenGoesTo(l, kind, opened[m.id].port)
  IN  IF OpenRefused(x[Shared]) THEN [x |-> y, l |-> l]
      ELSE [x |-> IF g = 0 THEN [y EXCEPT ![Shared] = channel_open_deny(@, n)]
                  ELSE gateway_forward_channel_open(y, Shared, n, Gateway(g)),
            l |-> AfterOpen(l, kind)]

HandleOpenAtGateway(x, p, m) ==
  LET y == [x EXCEPT ![p] = handle_channel_open(@, m)]
  IN  IF OpenRefused(x[p]) THEN y ELSE gateway_channel_open(y, p, LowestFree(x[p]))

-----------------------------------------------------------------------------
(* channel_packet_handler of lsh, and the messages gateway_packet_handler  *)
(* and oop_read_service take out before it.                                *)
ChannelPacket(x, p, m) ==
  CASE m.type = "OPEN_CONFIRMATION" -> handle_open_confirm_gw(x, p, m)
    [] m.type = "OPEN_FAILURE" -> handle_open_failure_gw(x, p, m)
    [] m.type = "DATA" -> do_receive(x, p, m)
    [] m.type = "ADJUST" -> handle_adjust_window_gw(x, p, m)
    [] m.type = "EOF" -> handle_channel_eof_gw(x, p, m)
    [] m.type = "CLOSE" -> handle_channel_close_gw(x, p, m)
    [] m.type = "REQUEST" -> handle_channel_request_gw(x, p, m)
    [] m.type \in {"SUCCESS", "FAILURE"} -> handle_channel_reply_gw(x, p, m)

(* handle_random_reply with do_gateway_random_handler.                     *)
handle_random_reply(x, l, m) ==
  LET i == Head(l.random)
  IN  [x |-> IF x[Gateway(i)].alive THEN [x EXCEPT ![Gateway(i)].out = Append(@, m)] ELSE x,
       l |-> [l EXCEPT !.random = Tail(@)]]

SharedPacket(x, l, m) ==
  CASE m.type = "OPEN" -> HandleOpenAtShared(x, l, m)
    [] m.type \in {"REQUEST_SUCCESS", "REQUEST_FAILURE"} -> handle_global_reply(x, l, m.type)
    [] m.type = "RANDOM_REPLY" -> handle_random_reply(x, l, m)
    [] OTHER ->
         [x |-> ChannelPacket(x, Shared, m),
          l |-> IF m.type = "SUCCESS" /\ AddsDisplay(x, Shared, m)
                THEN [l EXCEPT !.displays =
                        <<[gw |-> ChainEnd(x, Shared, m.ch)[2], id |-> x[Shared].ch[m.ch].id,
                           single |-> x[Shared].ch[m.ch].io.single]>> \o @] ELSE l]

GatewayPacket(x, l, i, m) ==
  CASE m.type = "OPEN" -> [x |-> HandleOpenAtGateway(x, Gateway(i), m), l |-> l]
    [] m.type = "TCPIP_FORWARD" -> gateway_forward_request(x, l, i, m.arg)
    [] m.type = "RANDOM_REQUEST" ->
         [x |-> [x EXCEPT ![Shared].out = Append(@, m)], l |-> [l EXCEPT !.random = Append(@, i)]]
    [] m.type = "GATEWAY_STOP" ->
         [x |-> [x EXCEPT ![Shared].pending_close = TRUE,
                          ![Shared].alive = Used(x[Shared]) # {}],
          l |-> [l EXCEPT !.listening = FALSE]]
    [] OTHER -> [x |-> ChannelPacket(x, Gateway(i), m), l |-> l]

LshAlive == ep[Shared].alive

(* The end of every handler of lsh: an end that has failed is gone with    *)
(* its ports and displays, a display is gone with the session that asked   *)
(* for it, and the write buffer is looked at.                              *)
Settle(r) ==
  LET Gone == {i \in Gateways : ~r.x[Gateway(i)].alive /\ r.l.cancels[i] # <<>>}
      s == IF Gone = {} THEN r
           ELSE do_kill_gateway_forward(r.x, r.l, CHOOSE i \in Gone : TRUE)
      Kept(d) == s.x[Gateway(d.gw)].alive
                 /\ \E n \in Used(s.x[Shared]) : s.x[Shared].ch[n].id = d.id
      l == [s.l EXCEPT !.displays = SelectSeq(@, Kept)]
  IN  ep' = s.x /\ lsh' = service_start_write(l, s.x)

Taken(p) == [ep EXCEPT ![Peer(p)].out = Tail(@)]

(* oop_read_service.                                                       *)
ReadShared ==
  /\ LshAlive /\ ep[Server].out # <<>>
  /\ Settle(SharedPacket(Taken(Shared), lsh, Head(ep[Server].out)))
  /\ UNCHANGED <<far, opened, tally, left>>

(* oop_read_gateway: a packet.                                             *)
ReadGateway(i) ==
  /\ LshAlive /\ ep[Gateway(i)].alive /\ lsh.reading[i] /\ ep[Client(i)].out # <<>>
  /\ LET m == Head(ep[Client(i)].out)
     IN  /\ Settle(GatewayPacket(Taken(Gateway(i)), lsh, i, m))
         /\ far' = [far EXCEPT !.crossed =
              @ \/ (/\ m.type = "TCPIP_FORWARD" /\ Known(lsh, i, m.arg)
                    /\ \E k \in DOMAIN lsh.pending : lsh.pending[k].gw = i)]
  /\ UNCHANGED <<opened, tally, left>>

(* oop_read_gateway: end of file, or a failing read; also a failing write  *)
(* (gateway_write_packet, oop_write_gateway).                              *)
LoseGateway(i) ==
  /\ LshAlive /\ ep[Gateway(i)].alive /\ ~ep[Client(i)].alive
  /\ \/ lsh.reading[i] /\ ep[Client(i)].out = <<>>
     \/ ep[Gateway(i)].out # <<>>
  /\ Settle(kill_gateway_connection([ep EXCEPT ![Client(i)].out = <<>>], lsh, i))
  /\ UNCHANGED <<far, opened, tally, left>>

(* do_gateway_port_accept.                                                 *)
Connect(i) ==
  /\ LshAlive /\ lsh.listening
  /\ i = far.served + 1
  /\ Spend("clients")
  /\ ep' = [ep EXCEPT ![Client(i)].alive = TRUE, ![Gateway(i)].alive = TRUE]
  /\ lsh' = [lsh EXCEPT !.reading[i] = ~lsh.blocked]
  /\ far' = [far EXCEPT !.served = i]
  /\ UNCHANGED <<opened, tally>>

-----------------------------------------------------------------------------
(* The far ends.                                                           *)

Opener(p) == IF p = Server THEN {"tcpip", "x11"} ELSE {"session"}

(* The server opens a channel for a connection to a port it listens on, or *)
(* to an x11 display (do_tcpforward_listen_port_accept,                    *)
(* do_x11_listen_port_accept); a client opens a session.                   *)
OpenChannel(p) ==
  /\ ep[p].alive /\ LshAlive /\ FreeNumbers(ep[p]) # {}
  /\ Spend(IF p = Server THEN "server_opens" ELSE "client_opens")
  /\ \E kind \in Opener(p), port \in Ports :
       /\ kind = "tcpip" => port \in far.listen
       /\ kind # "tcpip" => port = CHOOSE q \in Ports : TRUE
       /\ opened' = Append(opened, [kind |-> kind, port |-> port])
  /\ ep' = [ep EXCEPT ![p] = channel_open_new_type(@, Number(opened) + 1, WINDOW, GatewayIo(FALSE))]
  /\ tally' = Append(tally, NoData)
  /\ UNCHANGED <<lsh, far>>

FarIs(p, n, closing) ==
  ep[p].alive /\ LshAlive /\ Is(ep[p], n, "ACTIVE") /\ ep[p].ch[n].sent_close = closing

(* A server sends and closes on a session once it has started a process,   *)
(* which it does for the last of the client's requests with a reply        *)
(* (new_session, do_exit_shell).  At the far ends, io.info says that this  *)
(* request has been sent or received.                                      *)
Running(p, n) ==
  p = Server /\ opened[ep[p].ch[n].id].kind = "session" => ep[p].ch[n].io.info

SendData(p, n) ==
  /\ FarIs(p, n, FALSE) /\ Running(p, n) /\ ~ep[p].ch[n].sent_eof /\ ep[p].ch[n].send_window > 0
  /\ Spend("data")
  /\ ep' = [ep EXCEPT ![p] = channel_transmit(@, n, "DATA", 1)]
  /\ tally' = [tally EXCEPT ![ep[p].ch[n].id].sent[Side(p)] = @ + 1]
  /\ UNCHANGED <<lsh, far, opened>>

SendEof(p, n) ==
  /\ FarIs(p, n, FALSE) /\ Running(p, n) /\ ~ep[p].ch[n].sent_eof /\ ~ep[p].ch[n].received_close
  /\ Spend("eofs")
  /\ ep' = [ep EXCEPT ![p] = channel_eof(@, n)]
  /\ UNCHANGED <<lsh, far, opened, tally>>

SendClose(p, n) ==
  /\ FarIs(p, n, FALSE) /\ Running(p, n)
  /\ Spend("closes")
  /\ ep' = [ep EXCEPT ![p] = channel_close(@, n)]
  /\ UNCHANGED <<lsh, far, opened, tally>>

(* A client asks for something on its session, with a reply; the last      *)
(* request starts a process.                                               *)
SendRequest(i, n) ==
  /\ FarIs(Client(i), n, FALSE)
  /\ opened[ep[Client(i)].ch[n].id].kind = "session" /\ ~ep[Client(i)].ch[n].io.info
  /\ Spend("requests")
  /\ \E request \in {"x11", "x11 single", "shell"} :
       ep' = [ep EXCEPT ![Client(i)] =
                [channel_send_request(@, n, request, TRUE) EXCEPT
                   !.ch[n].io.info = request = "shell"]]
  /\ UNCHANGED <<lsh, far, opened, tally>>

(* do_request_tcpip_forward of a client.                                   *)
AskForward(i) ==
  /\ ep[Client(i)].alive /\ LshAlive
  /\ Spend("forwards")
  /\ \E port \in Ports :
       /\ ep' = [ep EXCEPT ![Client(i)].out = Append(@, Global("TCPIP_FORWARD", port))]
       /\ far' = [far EXCEPT !.asked[i] = Append(@, port)]
  /\ UNCHANGED <<lsh, opened, tally>>

(* client_random_request of a client.                                      *)
AskRandom(i) ==
  /\ ep[Client(i)].alive /\ LshAlive
  /\ Spend("randoms")
  /\ ep' = [ep EXCEPT ![Client(i)].out = Append(@, Global("RANDOM_REQUEST", i))]
  /\ far' = [far EXCEPT !.randoms[i] = @ + 1]
  /\ UNCHANGED <<lsh, opened, tally>>

(* lsh --stop-gateway.                                                     *)
AskStop(i) ==
  /\ ep[Client(i)].alive /\ LshAlive
  /\ Spend("stops")
  /\ ep' = [ep EXCEPT ![Client(i)].out = Append(@, Global("GATEWAY_STOP", 0))]
  /\ UNCHANGED <<lsh, far, opened, tally>>

(* A gateway client exits or dies.                                         *)
Quit(i) ==
  /\ ep[Client(i)].alive
  /\ Spend("quits")
  /\ ep' = [ep EXCEPT ![Client(i)].alive = FALSE,
                      ![Client(i)].ch = [n \in 1..NumChannels |-> Free]]
  /\ UNCHANGED <<lsh, far, opened, tally>>

Nothing(e, n) == e

(* channel_packet_handler of a far end; a channel open request is answered *)
(* at once.                                                                *)
FarPacket(e, m) ==
  CASE m.type = "OPEN" ->
         IF OpenRefused(e) THEN {handle_channel_open(e, m)}
         ELSE LET f == handle_channel_open(e, m)
                  n == LowestFree(e)
              IN  {channel_open_confirm(f, n, WINDOW, GatewayIo(FALSE)), channel_open_deny(f, n)}
    [] m.type = "OPEN_CONFIRMATION" -> {handle_open_confirm(e, m, Nothing)}
    [] m.type = "OPEN_FAILURE" -> {handle_open_failure(e, m)}
    [] m.type = "ADJUST" -> {handle_adjust_window(e, m, Nothing)}
    [] m.type = "EOF" -> {handle_channel_eof(e, m, Nothing)}
    [] m.type = "CLOSE" -> {handle_channel_close(e, m)}
    [] m.type = "DATA" ->
         IF Accepted(e, m) = 0 THEN {e}
         ELSE {TakeData(e, m), channel_adjust_rec_window(TakeData(e, m), m.ch, Accepted(e, m))}
    [] m.type = "REQUEST" ->
         IF Is(e, m.ch, "ACTIVE")
         THEN {channel_request_reply([e EXCEPT !.ch[m.ch].io.info = @ \/ m.arg[1] = "shell"],
                                     m.ch, m.arg[2], ok) : ok \in BOOLEAN}
         ELSE {SSH_CONNECTION_ERROR(e)}
    [] m.type \in {"SUCCESS", "FAILURE"} -> {handle_channel_reply(e, m, Nothing)}
    [] OTHER -> {e}

(* do_tcpip_forward_handler, do_tcpip_cancel_forward and the random        *)
(* replies of lsh-transport.                                               *)
ServerGlobal(m) ==
  \/ /\ m.type = "TCPIP_FORWARD"
     /\ \E ok \in (IF m.arg \in far.listen THEN {FALSE} ELSE BOOLEAN) :
          /\ far' = [far EXCEPT !.listen = IF ok THEN @ \cup {m.arg} ELSE @,
                                !.refused = @ \/ ~ok]
          /\ ep' = [Taken(Server) EXCEPT ![Server].out = Append(@,
               Global(IF ok THEN "REQUEST_SUCCESS" ELSE "REQUEST_FAILURE", m.arg))]
  \/ /\ m.type = "CANCEL_FORWARD"
     /\ far' = [far EXCEPT !.listen = @ \ {m.arg}]
     /\ ep' = Taken(Server)
  \/ /\ m.type = "RANDOM_REQUEST"
     /\ ep' = [Taken(Server) EXCEPT ![Server].out = Append(@, Global("RANDOM_REPLY", m.arg))]
     /\ UNCHANGED far

GlobalTypes == {"TCPIP_FORWARD", "CANCEL_FORWARD", "RANDOM_REQUEST",
                "REQUEST_SUCCESS", "REQUEST_FAILURE", "RANDOM_REPLY"}

(* do_remote_port_state_done of a client, and handle_random_reply.         *)
ClientGlobal(i, m) ==
  /\ ep' = Taken(Client(i))
  /\ far' = IF m.type = "RANDOM_REPLY" THEN [far EXCEPT !.randoms[i] = @ - 1]
            ELSE [far EXCEPT !.asked[i] = Tail(@),
                             !.active[i] = IF m.type = "REQUEST_SUCCESS"
                                           THEN @ \cup {Head(far.asked[i])} ELSE @]

FarReceive(p) ==
  /\ ep[p].alive /\ ep[Peer(p)].out # <<>>
  /\ LET m == Head(ep[Peer(p)].out)
     IN  \/ /\ m.type \in GlobalTypes
            /\ IF p = Server THEN ServerGlobal(m) ELSE ClientGlobal(p[2], m)
            /\ UNCHANGED tally
         \/ /\ m.type \notin GlobalTypes
            /\ \E e \in FarPacket(ep[p], m) : ep' = [Taken(p) EXCEPT ![p] = e]
            /\ tally' = IF m.type = "DATA" /\ Accepted(ep[p], m) > 0
                        THEN [tally EXCEPT ![m.id].got[Side(p)] = @ + Accepted(ep[p], m)]
                        ELSE tally
            /\ UNCHANGED far
  /\ lsh' = IF p = Server THEN oop_write_service(lsh, Taken(p)) ELSE lsh
  /\ UNCHANGED <<opened, left>>

Next ==
  \/ ReadShared
  \/ \E i \in Gateways :
       \/ ReadGateway(i) \/ LoseGateway(i) \/ Connect(i)
       \/ AskForward(i) \/ AskRandom(i) \/ AskStop(i) \/ Quit(i)
       \/ \E n \in 1..NumChannels : SendRequest(i, n)
  \/ \E p \in FarEnds :
       \/ FarReceive(p) \/ OpenChannel(p)
       \/ \E n \in 1..NumChannels : SendData(p, n) \/ SendEof(p, n) \/ SendClose(p, n)

Spec == Init /\ [][Next]_vars

-----------------------------------------------------------------------------

(* No channel through the gateway makes lsh, a client or the server call   *)
(* SSH_CONNECTION_ERROR, however opens, EOFs, CLOSEs and the death of      *)
(* clients cross.                                                          *)
NoProtocolError == \A p \in LshEnds \cup FarEnds : ~ep[p].error

(* EOF passes the gateway after the data: a far end that receives EOF has  *)
(* received all that the other one sent.                                   *)
EofAfterAllData ==
  [][ \A p \in FarEnds : \A n \in 1..NumChannels :
        (Is(ep[p], n, "ACTIVE") /\ ~ep[p].ch[n].received_eof /\ ~ep[p].ch[n].sent_close
         /\ Is(ep'[p], n, "ACTIVE") /\ ep'[p].ch[n].received_eof) =>
          LET t == tally[ep[p].ch[n].id]
          IN  t.got[Side(p)] = t.sent[IF Side(p) = "client" THEN "server" ELSE "client"] ]_vars

AtRest ==
  /\ LshAlive /\ ep[Shared].out = <<>> /\ ep[Server].out = <<>>
  /\ \A i \in Gateways : /\ ep[Client(i)].out = <<>> /\ ep[Gateway(i)].out = <<>>
                         /\ ep[Gateway(i)].alive = ep[Client(i)].alive

Ids(p) == {ep[p].ch[n].id : n \in Used(ep[p])}

(* When nothing is under way, lsh and the server have the same channels    *)
(* open, none of them half open or half closed, and so do lsh and each     *)
(* client that is there.  A channel to the server belongs to such a        *)
(* client: the channels of one that died have been closed at the server    *)
(* too (do_kill_gateway_channel), but for those that the server confirmed  *)
(* after its death, which stay open.  No client waits for random data: a   *)
(* reply for one that has died is not given to the next.                   *)
ChannelsMatch ==
  AtRest =>
    /\ Ids(Server) = Ids(Shared)
    /\ \A n \in Used(ep[Shared]) :
         /\ ep[Shared].ch[n].state = "ACTIVE" /\ ~ep[Shared].ch[n].sent_close
         /\ HasChain(ep, Shared, n)
         /\ LET g == ChainEnd(ep, Shared, n)
            IN  ep[g].alive \/ ep[g].ch[ChainNumber(ep, Shared, n)].io.late
    /\ \A i \in Gateways : ep[Client(i)].alive =>
         /\ Ids(Client(i)) = Ids(Gateway(i)) /\ Ids(Gateway(i)) \subseteq Ids(Shared)
         /\ far.randoms[i] = 0

(* When nothing is under way, the server listens on exactly the ports that *)
(* are forwarded for a client that is still there, and the client knows    *)
(* which of its requests was granted.  That needs a server that refuses no *)
(* port, and no request refused by lsh while an earlier one waits.         *)
PortsAgree ==
  (AtRest /\ ~far.refused /\ ~far.crossed) =>
    /\ far.listen = {lsh.forwarded[k].port : k \in DOMAIN lsh.forwarded}
    /\ \A k \in DOMAIN lsh.forwarded : ep[Gateway(lsh.forwarded[k].gw)].alive
    /\ \A i \in Gateways : ep[Client(i)].alive =>
         far.active[i] = {h \in far.listen : \E k \in DOMAIN lsh.forwarded :
                                               lsh.forwarded[k] = [port |-> h, gw |-> i, active |-> TRUE]}
=============================================================================
