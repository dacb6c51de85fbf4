---------------------------- MODULE ChannelTable ----------------------------
(***************************************************************************)
(* The channel table of one ssh_connection: allocation of local channel    *)
(* numbers (connection.c) and the operations of channel.c that allocate,   *)
(* register, activate and release a number.  Every operation runs to       *)
(* completion in one callback of the event loop, so each is one action.    *)
(*                                                                         *)
(* The two arrays channels[] and alloc_state[] are malloc'ed and grown by  *)
(* realloc; an entry that was never written holds "GARBAGE".               *)
(***************************************************************************)
EXTENDS Naturals, FiniteSets

CONSTANTS MaxChannels,      \* MAX_CHANNELS
          InitialChannels   \* INITIAL_CHANNELS

ASSUME SizesAssumption ==
  /\ InitialChannels \in Nat \ {0}
  /\ MaxChannels \in Nat \ {0}

VARIABLES
  channels,            \* channels[i]: is a channel object registered?
  alloc_state,         \* alloc_state[i]
  allocated_channels,  \* size of the two arrays
  used_channels,       \* all entries in use are below this one
  next_channel,        \* the smallest number that is likely to be free
  channel_count,       \* number of numbers in use
  pending_close,       \* close the connection once the channels are gone
  infos,               \* numbers for which a channel_open_info is pending
  alive                \* the connection resource

vars == <<channels, alloc_state, allocated_channels, used_channels,
          next_channel, channel_count, pending_close, infos, alive>>

Numbers == 0 .. MaxChannels - 1

AllocStates == {"GARBAGE", "FREE", "SENT_OPEN", "RECEIVED_OPEN", "ACTIVE"}

InUse == {i \in Numbers : alloc_state[i] \in {"SENT_OPEN", "RECEIVED_OPEN", "ACTIVE"}}

Init ==
  /\ channels = [i \in Numbers |-> "GARBAGE"]
  /\ alloc_state = [i \in Numbers |-> "GARBAGE"]
  /\ allocated_channels = InitialChannels
  /\ used_channels = 0
  /\ next_channel = 0
  /\ channel_count = 0
  /\ pending_close = FALSE
  /\ infos = {}
  /\ alive = TRUE

-----------------------------------------------------------------------------
(* The loop of ssh_connection_alloc_channel: it starts at next_channel and *)
(* stops at the first free entry, or at used_channels.                     *)
ScanStop(i) ==
  /\ i \in next_channel .. used_channels
  /\ i < used_channels => alloc_state[i] = "FREE"
  /\ \A j \in next_channel .. i - 1 : alloc_state[j] # "FREE"

(* Mutant: a full array counts as a shortage.                              *)
AllocFailsAtCapacity(i) == i = used_channels /\ i = allocated_channels

AllocFails(i) == i = used_channels /\ i = MaxChannels

Grow(i) ==
  IF i = allocated_channels THEN 2 * allocated_channels ELSE allocated_channels

(* ssh_connection_alloc_channel returning i; obj is what the caller leaves *)
(* in channels[i] (ssh_connection_register_channel, or NULL).              *)
alloc_channel(i, type, obj) ==
  /\ ScanStop(i)
  /\ ~AllocFails(i)
  /\ next_channel' = i + 1
  /\ used_channels' = IF i = used_channels THEN i + 1 ELSE used_channels
  /\ allocated_channels' = IF i = used_channels THEN Grow(i) ELSE allocated_channels
  /\ channels' = [channels EXCEPT ![i] = obj]
  /\ alloc_state' = [alloc_state EXCEPT ![i] = type]
  /\ channel_count' = channel_count + 1

(* Mutant: the hint is left alone when a lower number is released.         *)
HintAfterDeallocStale(i) == next_channel

HintAfterDealloc(i) == IF i < next_channel THEN i ELSE next_channel

dealloc_channel(i) ==
  /\ channels' = [channels EXCEPT ![i] = "NULL"]
  /\ alloc_state' = [alloc_state EXCEPT ![i] = "FREE"]
  /\ channel_count' = channel_count - 1
  /\ next_channel' = HintAfterDealloc(i)
  /\ UNCHANGED <<allocated_channels, used_channels>>

activate_channel(i) ==
  /\ alloc_state' = [alloc_state EXCEPT ![i] = "ACTIVE"]
  /\ UNCHANGED <<allocated_channels, used_channels, next_channel, channel_count>>

(* ssh_connection_lookup_channel with the given flag finds channel i.      *)
Lookup(i, flag) == i < used_channels /\ alloc_state[i] = flag

-----------------------------------------------------------------------------
(* channel_open_new_type: a channel object is made before the request is   *)
(* sent.  When no number is left the call returns 0 and changes nothing.   *)
OpenNewType ==
  /\ alive
  /\ \E i \in Numbers : alloc_channel(i, "SENT_OPEN", "CHANNEL")
  /\ UNCHANGED <<pending_close, infos, alive>>

(* handle_channel_open, for a type that has a handler and a free number:   *)
(* the number is reserved and the handler gets a channel_open_info.        *)
HandleChannelOpen ==
  /\ alive
  /\ ~pending_close
  /\ \E i \in Numbers :
       /\ alloc_channel(i, "RECEIVED_OPEN", "NULL")
       /\ infos' = infos \cup {i}
  /\ UNCHANGED <<pending_close, alive>>

(* channel_open_confirm, called by the channel's open handler, at once or  *)
(* from a later callback (a tcp connect that completes).                   *)
ChannelOpenConfirm(i) ==
  /\ alive
  /\ i \in infos
  /\ channels' = [channels EXCEPT ![i] = "CHANNEL"]
  /\ activate_channel(i)
  /\ infos' = infos \ {i}
  /\ UNCHANGED <<pending_close, alive>>

(* channel_open_deny: likewise.                                            *)
ChannelOpenDeny(i) ==
  /\ alive
  /\ i \in infos
  /\ dealloc_channel(i)
  /\ infos' = infos \ {i}
  /\ UNCHANGED <<pending_close, alive>>

(* handle_open_confirm.                                                    *)
HandleOpenConfirm(i) ==
  /\ alive
  /\ Lookup(i, "SENT_OPEN")
  /\ activate_channel(i)
  /\ UNCHANGED <<channels, pending_close, infos, alive>>

(* Mutant: the connection is killed while one channel is left.             *)
DrainedTooEarly(count) == count <= 1

Drained(count) == count = 0

(* channel_finished, after the close handshake of an active channel or a   *)
(* CHANNEL_OPEN_FAILURE.  The kill method of a client session also calls   *)
(* ssh_connection_pending_close; the dying channel is still counted then.  *)
ChannelFinished(i, session) ==
  /\ alive
  /\ Lookup(i, "ACTIVE") \/ Lookup(i, "SENT_OPEN")
  /\ dealloc_channel(i)
  /\ pending_close' = (pending_close \/ session)
  /\ alive' = ~(pending_close' /\ Drained(channel_count'))
  /\ UNCHANGED infos

(* ssh_connection_pending_close, called for SSH_LSH_GATEWAY_STOP.          *)
PendingClose ==
  /\ alive
  /\ pending_close' = TRUE
  /\ alive' = ~Drained(channel_count)
  /\ UNCHANGED <<channels, alloc_state, allocated_channels, used_channels,
                 next_channel, channel_count, infos>>

Next ==
  \/ OpenNewType
  \/ HandleChannelOpen
  \/ PendingClose
  \/ \E i \in Numbers :
       \/ ChannelOpenConfirm(i)
       \/ ChannelOpenDeny(i)
       \/ HandleOpenConfirm(i)
       \/ \E session \in BOOLEAN : ChannelFinished(i, session)

Spec == Init /\ [][Next]_vars

-----------------------------------------------------------------------------
(* The counters of the table stay within the bounds max_channels sets.     *)
TypeOK ==
  /\ channels \in [Numbers -> {"GARBAGE", "NULL", "CHANNEL"}]
  /\ alloc_state \in [Numbers -> AllocStates]
  /\ allocated_channels \in Nat \ {0}
  /\ used_channels \in 0 .. MaxChannels
  /\ next_channel \in 0 .. MaxChannels
  /\ channel_count \in Nat
  /\ pending_close \in BOOLEAN
  /\ infos \subseteq Numbers
  /\ alive \in BOOLEAN

(* Only entries below used_channels are ever read, those entries have been *)
(* written, and they lie inside the allocated arrays.                      *)
EntriesInitialized ==
  /\ next_channel <= used_channels
  /\ used_channels <= allocated_channels
  /\ \A i \in Numbers :
       i < used_channels <=> alloc_state[i] # "GARBAGE"

(* The hint next_channel never passes a free entry: all numbers below it   *)
(* are in use.  The loop of ssh_connection_alloc_channel relies on this.   *)
HintBelowFree == \A i \in Numbers : i < next_channel => i \in InUse

(* An entry holds a channel object exactly when its number is waiting for  *)
(* a confirmation or active, and a channel_open_info exists exactly for    *)
(* the reserved numbers: what the assertions in alloc, register, activate, *)
(* lookup, channel_open_confirm and channel_open_deny rely on.             *)
ObjectsMatchState ==
  \A i \in Numbers :
    /\ channels[i] = "CHANNEL" <=> alloc_state[i] \in {"SENT_OPEN", "ACTIVE"}
    /\ channels[i] = "NULL" <=> alloc_state[i] \in {"FREE", "RECEIVED_OPEN"}
    /\ i \in infos <=> alloc_state[i] = "RECEIVED_OPEN"

(* channel_count is the number of numbers in use.                          *)
CountExact == channel_count = Cardinality(InUse)

(* The connection is closed by a pending close only once no channel number *)
(* is in use: no open channel is cut off by pending_close.                 *)
NoChannelCutOff == ~alive => pending_close /\ InUse = {}

(* The channel table is consistent after every operation: the facts above  *)
(* together, which are inductive.  The hint and the count are only right   *)
(* together with the facts on which entries are initialized and which      *)
(* numbers hold a channel_open_info, and a pending close relies on all.    *)
IndInv ==
  /\ TypeOK
  /\ EntriesInitialized
  /\ HintBelowFree
  /\ ObjectsMatchState
  /\ CountExact
  /\ NoChannelCutOff

(* The table implements a pool of numbers from which ssh_connection_alloc_ *)
(* channel takes the lowest free number, as unix does for descriptors.     *)
NP == INSTANCE NumberPool WITH inUse <- InUse
NumberPoolSpec == NP!Spec

(* ssh_connection_alloc_channel fails only when every number is in use     *)
(* (the limit is compared with the end of the used part of the arrays, not *)
(* with channel_count).                                                    *)
ShortageIsReal ==
  \A i \in 0 .. MaxChannels : ScanStop(i) /\ AllocFails(i) => InUse = Numbers
=============================================================================
