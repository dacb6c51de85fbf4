----------------------------- MODULE NumberPool -----------------------------
(***************************************************************************)
(* What the channel table of connection.c promises: local channel numbers  *)
(* are handed out "using the same method as is traditionally used for      *)
(* allocation of unix file descriptors" (connection.h), that is, an        *)
(* allocation always returns the lowest number that is not in use, and it  *)
(* fails only when every number is in use.                                 *)
(***************************************************************************)
EXTENDS Naturals

CONSTANT Numbers            \* the local channel numbers

VARIABLE inUse              \* the numbers allocated at the moment

Init == inUse = {}

Take(i) ==
  /\ i \in Numbers \ inUse
  /\ \A j \in Numbers \ inUse : i <= j
  /\ inUse' = inUse \cup {i}

Release(i) ==
  /\ i \in inUse
  /\ inUse' = inUse \ {i}

Next == \E i \in Numbers : Take(i) \/ Release(i)

Spec == Init /\ [][Next]_inUse
=============================================================================
