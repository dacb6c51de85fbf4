----------------------------- MODULE MCGateway -----------------------------
(***************************************************************************)
(* Gateway for TLC.  A scenario bounds how often each thing may happen;    *)
(* together they cover channels opened from either side, requests on them, *)
(* and forwarded ports with clients that come and go.                      *)
(***************************************************************************)
EXTENDS Gateway

None == [clients |-> 0, client_opens |-> 0, server_opens |-> 0, data |-> 0, eofs |-> 0,
         closes |-> 0, requests |-> 0, forwards |-> 0, randoms |-> 0, stops |-> 0, quits |-> 0]

(* A session with data both ways, and a client that may die.               *)
SessionScenario ==
  [None EXCEPT !.clients = 1, !.client_opens = 1, !.requests = 1, !.data = 2, !.eofs = 2, !.closes = 2, !.quits = 1]

(* Two sessions one after the other or at once, and a stop message.        *)
StopScenario ==
  [None EXCEPT !.clients = 2, !.client_opens = 2, !.requests = 1, !.closes = 1, !.stops = 1, !.quits = 1]

(* Ports, and channels that the server opens for them.                     *)
PortScenario ==
  [None EXCEPT !.clients = 2, !.forwards = 3, !.server_opens = 1, !.quits = 1]

(* Requests on a session, and an x11 channel.                              *)
RequestScenario ==
  [None EXCEPT !.clients = 1, !.client_opens = 1, !.requests = 2, !.server_opens = 1,
               !.closes = 1, !.quits = 1]

RandomScenario ==
  [None EXCEPT !.clients = 2, !.randoms = 3, !.quits = 2]

MCScenarios == {SessionScenario, StopScenario, PortScenario, RequestScenario, RandomScenario}
=============================================================================
