------------------------- MODULE ChannelTableProofs -------------------------
(***************************************************************************)
(* Proofs about ChannelTable, for every MaxChannels and InitialChannels.   *)
(***************************************************************************)
EXTENDS ChannelTable, FiniteSetTheorems, TLAPS

-----------------------------------------------------------------------------
(* The numbers in use form a finite set, so that channel_count can be      *)
(* compared with its cardinality.                                          *)
LEMMA InUseFinite == IsFiniteSet(InUse)
<1>1. IsFiniteSet(Numbers)
  BY SizesAssumption, FS_Interval DEF Numbers
<1>2. InUse \in SUBSET Numbers
  BY DEF InUse
<1>3. QED
  BY <1>1, <1>2, FS_Subset

(* ssh_connection_alloc_channel: the number returned was not in use, every *)
(* lower number is, and it becomes the only new number in use.             *)
LEMMA AllocTakesLowest ==
  ASSUME IndInv, NEW i \in Numbers, NEW type \in {"SENT_OPEN", "RECEIVED_OPEN"},
         NEW obj, alloc_channel(i, type, obj)
  PROVE  /\ i \notin InUse
         /\ \A j \in Numbers \ InUse : i <= j
         /\ InUse' = InUse \cup {i}
<1> USE DEF IndInv, TypeOK, Numbers, InUse
<1>1. i \in next_channel .. used_channels
  BY DEF alloc_channel, ScanStop
<1>2. i \notin InUse
  BY <1>1 DEF alloc_channel, ScanStop, EntriesInitialized
<1>3. ASSUME NEW j \in Numbers, j < i
      PROVE  j \in InUse
  <2>1. CASE j < next_channel
    BY <2>1 DEF HintBelowFree
  <2>2. CASE j >= next_channel
    <3>1. j \in next_channel .. i - 1 /\ j < used_channels
      BY <2>2, <1>1, <1>3, SizesAssumption
    <3>2. alloc_state[j] # "FREE" /\ alloc_state[j] # "GARBAGE"
      BY <3>1 DEF alloc_channel, ScanStop, EntriesInitialized
    <3>3. QED
      BY <3>2 DEF AllocStates
  <2>3. QED
    BY <2>1, <2>2, SizesAssumption
<1>4. \A j \in Numbers \ InUse : i <= j
  BY <1>3, SizesAssumption
<1>5. InUse' = InUse \cup {i}
  BY DEF alloc_channel
<1>6. QED
  BY <1>2, <1>4, <1>5

(* ssh_connection_alloc_channel keeps the table well formed.               *)
LEMMA AllocPreserves ==
  ASSUME IndInv, NEW i \in Numbers, alive, UNCHANGED <<pending_close, alive>>,
         \/ alloc_channel(i, "SENT_OPEN", "CHANNEL") /\ UNCHANGED infos
         \/ alloc_channel(i, "RECEIVED_OPEN", "NULL") /\ infos' = infos \cup {i}
  PROVE  IndInv'
<1> USE DEF IndInv
<1>0. PICK type \in {"SENT_OPEN", "RECEIVED_OPEN"}, obj \in {"CHANNEL", "NULL"} :
        /\ alloc_channel(i, type, obj)
        /\ type = "SENT_OPEN" <=> obj = "CHANNEL"
        /\ infos' = IF type = "SENT_OPEN" THEN infos ELSE infos \cup {i}
  OBVIOUS
<1>1. i \in next_channel .. used_channels /\ i < MaxChannels /\ i \in Nat
  BY <1>0, SizesAssumption DEF alloc_channel, ScanStop, TypeOK, Numbers
<1>2. /\ i \notin InUse
      /\ \A j \in Numbers \ InUse : i <= j
      /\ InUse' = InUse \cup {i}
  BY <1>0, AllocTakesLowest
<1>3. TypeOK'
  <2>1. allocated_channels' \in Nat \ {0}
    BY <1>0, SizesAssumption DEF alloc_channel, TypeOK, Grow
  <2>2. used_channels' \in 0 .. MaxChannels /\ next_channel' \in 0 .. MaxChannels
    BY <1>0, <1>1, SizesAssumption DEF alloc_channel, TypeOK
  <2>3. /\ channels' \in [Numbers -> {"GARBAGE", "NULL", "CHANNEL"}]
        /\ alloc_state' \in [Numbers -> AllocStates]
        /\ channel_count' \in Nat
        /\ infos' \subseteq Numbers
    BY <1>0 DEF alloc_channel, TypeOK, AllocStates
  <2>4. QED
    BY <2>1, <2>2, <2>3 DEF TypeOK
<1>4. EntriesInitialized'
  BY <1>0, <1>1, SizesAssumption
  DEF alloc_channel, EntriesInitialized, TypeOK, Numbers, Grow
<1>5. HintBelowFree'
  BY <1>0, <1>1, <1>2, SizesAssumption DEF alloc_channel, HintBelowFree, TypeOK, Numbers
<1>6. ObjectsMatchState'
  BY <1>0, <1>2 DEF alloc_channel, ObjectsMatchState, TypeOK, InUse
<1>7. CountExact'
  BY <1>0, <1>2, InUseFinite, FS_AddElement DEF alloc_channel, CountExact
<1>8. NoChannelCutOff'
  BY DEF NoChannelCutOff
<1>9. QED
  BY <1>3, <1>4, <1>5, <1>6, <1>7, <1>8

(* ssh_connection_dealloc_channel of a number in use: exactly that number  *)
(* is released and the table stays well formed.                            *)
LEMMA DeallocPreserves ==
  ASSUME IndInv, NEW i \in InUse, dealloc_channel(i), infos' = infos \ {i}
  PROVE  /\ InUse' = InUse \ {i}
         /\ EntriesInitialized' /\ HintBelowFree' /\ ObjectsMatchState' /\ CountExact'
         /\ channels' \in [Numbers -> {"GARBAGE", "NULL", "CHANNEL"}]
         /\ alloc_state' \in [Numbers -> AllocStates]
         /\ allocated_channels' \in Nat \ {0}
         /\ used_channels' \in 0 .. MaxChannels
         /\ next_channel' \in 0 .. MaxChannels
         /\ channel_count' \in Nat
         /\ infos' \subseteq Numbers
<1> USE DEF IndInv
<1>1. i \in Numbers /\ i \in Nat /\ alloc_state[i] \notin {"GARBAGE", "FREE"}
  BY SizesAssumption DEF InUse, Numbers
<1>2. InUse' = InUse \ {i}
  BY <1>1 DEF dealloc_channel, InUse, TypeOK
<1>3. EntriesInitialized' /\ HintBelowFree'
  BY <1>1, <1>2, SizesAssumption
  DEF dealloc_channel, HintAfterDealloc, EntriesInitialized, HintBelowFree, TypeOK, Numbers
<1>4. ObjectsMatchState'
  BY <1>1 DEF dealloc_channel, ObjectsMatchState, TypeOK
<1>5. channel_count \in Nat \ {0} /\ CountExact'
  <2>1. Cardinality(InUse) \in Nat /\ Cardinality(InUse) # 0
    BY InUseFinite, FS_CardinalityType, FS_EmptySet
  <2>2. Cardinality(InUse \ {i}) = Cardinality(InUse) - 1
    BY InUseFinite, FS_RemoveElement
  <2>3. QED
    BY <1>2, <2>1, <2>2 DEF dealloc_channel, CountExact
<1>6. /\ channels' \in [Numbers -> {"GARBAGE", "NULL", "CHANNEL"}]
      /\ alloc_state' \in [Numbers -> AllocStates]
      /\ allocated_channels' \in Nat \ {0}
      /\ used_channels' \in 0 .. MaxChannels
      /\ infos' \subseteq Numbers
  BY DEF dealloc_channel, TypeOK, AllocStates
<1>7. next_channel' \in 0 .. MaxChannels /\ channel_count' \in Nat
  BY <1>1, <1>5, SizesAssumption DEF dealloc_channel, HintAfterDealloc, TypeOK, Numbers
<1>8. QED
  BY <1>2, <1>3, <1>4, <1>5, <1>6, <1>7

(* ssh_connection_activate_channel keeps the set of numbers in use, and so *)
(* all that is said about the hint and the count.                          *)
LEMMA ActivatePreserves ==
  ASSUME IndInv, NEW i \in InUse, activate_channel(i), UNCHANGED <<pending_close, alive>>,
         channels' = [channels EXCEPT ![i] = "CHANNEL"], infos' = infos \ {i}
  PROVE  IndInv' /\ InUse' = InUse
<1> USE DEF IndInv
<1>1. i \in Numbers /\ alloc_state[i] \notin {"GARBAGE", "FREE"}
  BY DEF InUse
<1>2. InUse' = InUse
  BY <1>1 DEF activate_channel, InUse, TypeOK
<1>3. TypeOK' /\ ObjectsMatchState'
  BY <1>1 DEF activate_channel, TypeOK, AllocStates, ObjectsMatchState
<1>4. EntriesInitialized' /\ HintBelowFree' /\ CountExact' /\ NoChannelCutOff'
  BY <1>1, <1>2
  DEF activate_channel, TypeOK, EntriesInitialized, HintBelowFree, CountExact, NoChannelCutOff
<1>5. QED
  BY <1>2, <1>3, <1>4

-----------------------------------------------------------------------------
(* The initial table (init_ssh_connection) satisfies the invariant.        *)
LEMMA InitEstablishes == Init => IndInv
<1> SUFFICES ASSUME Init PROVE IndInv
  OBVIOUS
<1>1. InUse = {}
  BY DEF Init, InUse
<1>2. CountExact
  BY <1>1, FS_EmptySet DEF Init, CountExact
<1>3. TypeOK
  <2>1. /\ allocated_channels \in Nat \ {0} /\ channel_count \in Nat
        /\ used_channels \in 0 .. MaxChannels /\ next_channel \in 0 .. MaxChannels
    BY SizesAssumption DEF Init
  <2>2. /\ channels \in [Numbers -> {"GARBAGE", "NULL", "CHANNEL"}]
        /\ alloc_state \in [Numbers -> AllocStates]
        /\ infos \subseteq Numbers
    BY DEF Init, AllocStates
  <2>3. pending_close \in BOOLEAN /\ alive \in BOOLEAN
    BY DEF Init
  <2>4. QED
    BY <2>1, <2>2, <2>3 DEF TypeOK
<1>4. EntriesInitialized /\ HintBelowFree /\ ObjectsMatchState /\ NoChannelCutOff
  BY SizesAssumption
  DEF Init, EntriesInitialized, HintBelowFree, ObjectsMatchState, NoChannelCutOff, Numbers
<1>5. QED
  BY <1>2, <1>3, <1>4 DEF IndInv

(* Each operation on the table preserves the invariant and either takes    *)
(* the lowest free number, releases one number, or leaves the set alone.   *)
LEMMA StepPreserves ==
  ASSUME IndInv, [Next]_vars
  PROVE  IndInv' /\ [NP!Next]_InUse
<1> USE DEF IndInv
<1>1. CASE OpenNewType
  <2>1. PICK i \in Numbers : alloc_channel(i, "SENT_OPEN", "CHANNEL")
    BY <1>1 DEF OpenNewType
  <2>2. IndInv'
    BY <1>1, <2>1, AllocPreserves DEF OpenNewType
  <2>3. NP!Take(i)
    BY <2>1, AllocTakesLowest DEF NP!Take
  <2>4. QED
    BY <2>2, <2>3 DEF NP!Next
<1>2. CASE HandleChannelOpen
  <2>1. PICK i \in Numbers : /\ alloc_channel(i, "RECEIVED_OPEN", "NULL")
                             /\ infos' = infos \cup {i}
    BY <1>2 DEF HandleChannelOpen
  <2>2. IndInv'
    BY <1>2, <2>1, AllocPreserves DEF HandleChannelOpen
  <2>3. NP!Take(i)
    BY <2>1, AllocTakesLowest DEF NP!Take
  <2>4. QED
    BY <2>2, <2>3 DEF NP!Next
<1>3. CASE PendingClose
  <2>1. InUse' = InUse
    BY <1>3 DEF PendingClose, InUse
  <2>2. ~alive' => InUse = {}
    BY <1>3, InUseFinite, FS_EmptySet DEF PendingClose, Drained, CountExact
  <2>3. NoChannelCutOff'
    BY <1>3, <2>1, <2>2 DEF PendingClose, NoChannelCutOff
  <2>4. IndInv'
    BY <1>3, <2>1, <2>3
    DEF PendingClose, TypeOK, EntriesInitialized, HintBelowFree, ObjectsMatchState, CountExact
  <2>5. QED
    BY <2>1, <2>4
<1>4. ASSUME NEW i \in Numbers, ChannelOpenConfirm(i)
      PROVE  IndInv' /\ [NP!Next]_InUse
  <2>1. i \in InUse
    BY <1>4 DEF ChannelOpenConfirm, ObjectsMatchState, InUse
  <2>2. QED
    BY <1>4, <2>1, ActivatePreserves DEF ChannelOpenConfirm
<1>5. ASSUME NEW i \in Numbers, ChannelOpenDeny(i)
      PROVE  IndInv' /\ [NP!Next]_InUse
  <2>1. i \in InUse
    BY <1>5 DEF ChannelOpenDeny, ObjectsMatchState, InUse
  <2>2. /\ dealloc_channel(i)
        /\ infos' = infos \ {i}
        /\ UNCHANGED <<pending_close, alive>>
        /\ alive
    BY <1>5 DEF ChannelOpenDeny
  <2>3. IndInv' /\ InUse' = InUse \ {i}
    BY <2>1, <2>2, DeallocPreserves DEF TypeOK, NoChannelCutOff
  <2>4. QED
    BY <2>1, <2>3 DEF NP!Next, NP!Release
<1>6. ASSUME NEW i \in Numbers, HandleOpenConfirm(i)
      PROVE  IndInv' /\ [NP!Next]_InUse
  <2>1. i \in InUse /\ alloc_state[i] = "SENT_OPEN"
    BY <1>6 DEF HandleOpenConfirm, Lookup, InUse
  <2>2. channels' = [channels EXCEPT ![i] = "CHANNEL"] /\ infos' = infos \ {i}
    BY <1>6, <2>1 DEF HandleOpenConfirm, ObjectsMatchState, TypeOK
  <2>3. QED
    BY <1>6, <2>1, <2>2, ActivatePreserves DEF HandleOpenConfirm
<1>7. ASSUME NEW i \in Numbers, NEW session \in BOOLEAN, ChannelFinished(i, session)
      PROVE  IndInv' /\ [NP!Next]_InUse
  <2>1. i \in InUse /\ i \notin infos
    BY <1>7 DEF ChannelFinished, Lookup, InUse, ObjectsMatchState
  <2>2. dealloc_channel(i) /\ infos' = infos \ {i}
    BY <1>7, <2>1 DEF ChannelFinished
  <2>3. /\ InUse' = InUse \ {i}
        /\ EntriesInitialized' /\ HintBelowFree' /\ ObjectsMatchState' /\ CountExact'
    BY <2>1, <2>2, DeallocPreserves
  <2>4. pending_close' \in BOOLEAN /\ alive' \in BOOLEAN
    BY <1>7 DEF ChannelFinished, TypeOK
  <2>5. TypeOK'
    BY <2>1, <2>2, <2>4, DeallocPreserves DEF TypeOK
  <2>6. NoChannelCutOff'
    <3>1. IsFiniteSet(InUse')
      BY <2>3, InUseFinite, FS_RemoveElement
    <3>2. ~alive' => pending_close' /\ channel_count' = 0
      BY <1>7 DEF ChannelFinished, Drained
    <3>3. QED
      BY <2>3, <3>1, <3>2, FS_EmptySet DEF NoChannelCutOff, CountExact
  <2>7. QED
    BY <2>1, <2>3, <2>5, <2>6 DEF NP!Next, NP!Release, InUse
<1>8. CASE UNCHANGED vars
  BY <1>8
  DEF vars, TypeOK, EntriesInitialized, HintBelowFree, ObjectsMatchState, CountExact,
      NoChannelCutOff, InUse
<1>9. QED
  BY <1>1, <1>2, <1>3, <1>4, <1>5, <1>6, <1>7, <1>8 DEF Next

(* The table is always well formed: the assertions of connection.c hold,   *)
(* no uninitialized or out-of-bounds entry is read, the count is exact and *)
(* a pending close never cuts off a channel, whatever the table sizes are. *)
THEOREM TableInvariant == Spec => []IndInv
<1>1. IndInv /\ [Next]_vars => IndInv'
  BY StepPreserves
<1>2. QED
  BY InitEstablishes, <1>1, PTL DEF Spec

(* channel_count equals the number of numbers in use.                      *)
THEOREM CountIsExact == Spec => []CountExact
<1>1. IndInv => CountExact
  BY DEF IndInv
<1>2. QED
  BY TableInvariant, <1>1, PTL

(* The hint of ssh_connection_alloc_channel never passes a free number.    *)
THEOREM HintIsSafe == Spec => []HintBelowFree
<1>1. IndInv => HintBelowFree
  BY DEF IndInv
<1>2. QED
  BY TableInvariant, <1>1, PTL

(* No channel is cut off by a pending close.                               *)
THEOREM PendingCloseWaits == Spec => []NoChannelCutOff
<1>1. IndInv => NoChannelCutOff
  BY DEF IndInv
<1>2. QED
  BY TableInvariant, <1>1, PTL

(* An allocation fails only when all MaxChannels numbers are in use,       *)
(* although the code only looks at the end of the used part of the table.  *)
THEOREM ShortageIsAlwaysReal == Spec => []ShortageIsReal
<1>1. ASSUME IndInv, NEW i \in 0 .. MaxChannels, ScanStop(i), AllocFails(i),
             NEW k \in Numbers
      PROVE  k \in InUse
  <2> USE DEF IndInv, TypeOK
  <2>1. used_channels = MaxChannels /\ i = MaxChannels
    BY <1>1 DEF AllocFails
  <2>2. CASE k < next_channel
    BY <1>1, <2>2 DEF HintBelowFree
  <2>3. CASE k >= next_channel
    <3>1. k \in next_channel .. i - 1 /\ k < used_channels
      BY <2>1, <2>3, <1>1, SizesAssumption DEF Numbers
    <3>2. alloc_state[k] # "FREE" /\ alloc_state[k] # "GARBAGE"
      BY <3>1, <1>1 DEF ScanStop, EntriesInitialized
    <3>3. QED
      BY <3>2, <1>1 DEF InUse, AllocStates
  <2>4. QED
    BY <2>2, <2>3, <1>1, SizesAssumption DEF Numbers
<1>2. IndInv => ShortageIsReal
  BY <1>1 DEF ShortageIsReal, InUse
<1>3. QED
  BY TableInvariant, <1>2, PTL

(* Channel numbers behave like unix file descriptors (connection.h): the   *)
(* table implements the pool that always hands out the lowest free number. *)
THEOREM RefinesNumberPool == Spec => NumberPoolSpec
<1>1. Init => NP!Init
  BY DEF Init, NP!Init, InUse
<1>2. IndInv /\ [Next]_vars => [NP!Next]_InUse
  BY StepPreserves
<1>3. QED
  BY <1>1, <1>2, TableInvariant, PTL DEF Spec, NumberPoolSpec, NP!Spec
=============================================================================
