--------------------------- MODULE ThreadsProofs ---------------------------
(* Proofs about the modules of threads, Channel and RunnerV2.                *)
(*                                                                           *)
(* Channel, for any sets of senders, receivers and values: the inductive     *)
(* invariant, what follows from it, and the refinement of the buffer of one  *)
(* place.                                                                    *)
EXTENDS Channel, RunnerV2, FiniteSetTheorems, TLAPS

\* A sender's steps keep the invariant: the CAS lets in one sender, and only
\* when nobody else is inside.
LEMMA SenderKeepsInv ==
    ASSUME ChannelInv, NEW s \in Senders, SendStep(s) \/ \E val \in Values : CallSend(s, val)
    PROVE  ChannelInv'
<1> USE ChannelAssumption DEF ChannelInv, ChannelTypeOK, OneInside, Phases, Sending, Receiving,
        sendVars, recvVars
<1>1. CASE \E val \in Values : CallSend(s, val)
  BY <1>1 DEF CallSend
<1>2. CASE Acquire(s)
  BY <1>2 DEF Acquire
<1>3. CASE Assign(s)
  BY <1>3 DEF Assign
<1>4. CASE AssignThrows(s)
  BY <1>4 DEF AssignThrows
<1>5. CASE Publish(s)
  BY <1>5 DEF Publish
<1>6. CASE Unlock(s)
  BY <1>6 DEF Unlock
<1> QED
  BY <1>1, <1>2, <1>3, <1>4, <1>5, <1>6 DEF SendStep

\* A receiver's steps keep the invariant: the lock lets in one receiver, and
\* only after the unlock of a sender.
LEMMA ReceiverKeepsInv ==
    ASSUME ChannelInv, NEW r \in Receivers, ReceiveStep(r) \/ CallReceive(r)
    PROVE  ChannelInv'
<1> USE ChannelAssumption DEF ChannelInv, ChannelTypeOK, OneInside, Phases, Sending, Receiving,
        sendVars, recvVars
<1>1. CASE CallReceive(r)
  BY <1>1 DEF CallReceive
<1>2. CASE Lock(r)
  BY <1>2 DEF Lock
<1>3. CASE Move(r)
  BY <1>3 DEF Move
<1>4. CASE MoveThrows(r)
  BY <1>4 DEF MoveThrows
<1>5. CASE Empty(r)
  BY <1>5 DEF Empty
<1> QED
  BY <1>1, <1>2, <1>3, <1>4, <1>5 DEF ReceiveStep

\* The inductive invariant holds in every behaviour of the channel.
THEOREM ChannelInvariance == SafeChannel => []ChannelInv
<1>1. ChannelInit => ChannelInv
  BY ChannelAssumption
  DEF ChannelInit, ChannelInv, ChannelTypeOK, OneInside, Phases, Sending, Receiving
<1>2. ChannelInv /\ [ChannelNext]_channelVars => ChannelInv'
  <2> SUFFICES ASSUME ChannelInv, [ChannelNext]_channelVars PROVE ChannelInv'
    OBVIOUS
  <2>1. CASE UNCHANGED channelVars
    BY <2>1 DEF channelVars, ChannelInv, ChannelTypeOK, OneInside, Phases, Sending, Receiving
  <2>2. CASE ChannelNext
    BY <2>2, SenderKeepsInv, ReceiverKeepsInv DEF ChannelNext
  <2> QED
    BY <2>1, <2>2
<1> QED
  BY <1>1, <1>2, PTL DEF SafeChannel

\* No two threads ever access _v at the same time.
THEOREM NoRace == SafeChannel => []NoDataRace
<1>1. ChannelInv => NoDataRace
  BY ChannelAssumption
  DEF ChannelInv, OneInside, Sending, Receiving, NoDataRace, AccessingV
<1> QED
  BY <1>1, ChannelInvariance, PTL

\* The assertion of receive() never fails and what it returns is a value.
THEOREM AssertionHolds == SafeChannel => []AssertHolds
<1>1. ChannelInv => AssertHolds
  BY DEF ChannelInv, Phases, Receiving, AssertHolds
<1> QED
  BY <1>1, ChannelInvariance, PTL

\* send() only unlocks a locked mutex.
THEOREM UnlockIsLegal == SafeChannel => []UnlocksLocked
<1>1. ChannelInv => UnlocksLocked
  BY DEF ChannelInv, Phases, UnlocksLocked
<1> QED
  BY <1>1, ChannelInvariance, PTL

-----------------------------------------------------------------------------
(* The refinement *)

\* Under the invariant, a step of a sender is a step of the buffer or a stutter.
LEMMA SenderRefines ==
    ASSUME ChannelInv, NEW s \in Senders, SendStep(s) \/ \E val \in Values : CallSend(s, val)
    PROVE  [Buffer!Next]_(Buffer!absVars)
<1> USE ChannelAssumption DEF ChannelInv, ChannelTypeOK, OneInside, Phases, Sending, Receiving,
        sendVars, recvVars
<1>1. ASSUME NEW val \in Values, CallSend(s, val) PROVE Buffer!Offer(s, val)
  BY <1>1 DEF CallSend, Buffer!Offer, Stored, Wedged
<1>2. CASE Acquire(s)
  BY <1>2 DEF Acquire, Buffer!absVars, Stored, Wedged
<1>3. CASE Assign(s)
  <2>1. ~Stored /\ Stored' /\ Wedged = FALSE /\ Wedged' = FALSE
    BY <1>3 DEF Assign, Stored, Wedged
  <2>2. /\ arg[s] # NoValue /\ v' = arg[s] /\ arg' = [arg EXCEPT ![s] = NoValue]
        /\ UNCHANGED <<rpc, tmp>>
    BY <1>3 DEF Assign
  <2>3. Buffer!Put(s)
    BY <2>1, <2>2 DEF Buffer!Put
  <2> QED
    BY <2>3 DEF Buffer!Next
<1>4. CASE AssignThrows(s)
  <2>1. ~Stored /\ ~Stored' /\ Wedged = FALSE /\ Wedged' = FALSE
    BY <1>4 DEF AssignThrows, Stored, Wedged
  <2>2. /\ arg[s] # NoValue /\ arg' = [arg EXCEPT ![s] = NoValue]
        /\ UNCHANGED <<rpc, tmp>>
    BY <1>4 DEF AssignThrows
  <2>3. Buffer!Refuse(s)
    BY <2>1, <2>2 DEF Buffer!Refuse
  <2> QED
    BY <2>3 DEF Buffer!Next
<1>5. CASE Publish(s)
  <2>1. Stored /\ Stored' /\ Wedged = FALSE /\ Wedged' = FALSE
    BY <1>5 DEF Publish, Stored, Wedged
  <2> QED
    BY <1>5, <2>1 DEF Publish, Buffer!absVars
<1>6. CASE Unlock(s)
  <2>1. Stored /\ Stored' /\ Wedged = FALSE /\ Wedged' = FALSE
    BY <1>6 DEF Unlock, Stored, Wedged
  <2> QED
    BY <1>6, <2>1 DEF Unlock, Buffer!absVars
<1> QED
  BY <1>1, <1>2, <1>3, <1>4, <1>5, <1>6 DEF SendStep, Buffer!Next

\* Under the invariant, a step of a receiver is a step of the buffer or a
\* stutter: a move that throws breaks the buffer.
LEMMA ReceiverRefines ==
    ASSUME ChannelInv, NEW r \in Receivers, ReceiveStep(r) \/ CallReceive(r)
    PROVE  [Buffer!Next]_(Buffer!absVars)
<1> USE ChannelAssumption DEF ChannelInv, ChannelTypeOK, OneInside, Phases, Sending, Receiving,
        sendVars, recvVars
<1>1. CASE CallReceive(r)
  BY <1>1 DEF CallReceive, Buffer!Ask, Buffer!Next, Stored, Wedged
<1>2. CASE Lock(r)
  <2>1. Stored /\ Stored' /\ Wedged = FALSE /\ Wedged' = FALSE
    BY <1>2 DEF Lock, Stored, Wedged
  <2> QED
    BY <1>2, <2>1 DEF Lock, Buffer!absVars
<1>3. CASE Move(r)
  <2>1. Stored /\ ~Stored' /\ Wedged = FALSE /\ Wedged' = FALSE
    BY <1>3 DEF Move, Stored, Wedged
  <2>2. /\ v # NoValue /\ tmp' = [tmp EXCEPT ![r] = v] /\ rpc[r] = "move"
        /\ rpc' = [rpc EXCEPT ![r] = "assert"] /\ UNCHANGED <<spc, arg>>
    BY <1>3 DEF Move
  <2>3. Buffer!Take(r)
    BY <2>1, <2>2 DEF Buffer!Take
  <2> QED
    BY <2>3 DEF Buffer!Next
<1>4. CASE MoveThrows(r)
  <2>1. Stored /\ Wedged = FALSE /\ Wedged' = TRUE
    BY <1>4 DEF MoveThrows, Stored, Wedged
  <2> QED
    BY <1>4, <2>1 DEF MoveThrows, Buffer!Fail, Buffer!Next
<1>5. CASE Empty(r)
  <2>1. ~Stored /\ ~Stored' /\ Wedged = FALSE /\ Wedged' = FALSE
    BY <1>5 DEF Empty, Stored, Wedged
  <2> QED
    BY <1>5, <2>1 DEF Empty, Buffer!absVars
<1> QED
  BY <1>1, <1>2, <1>3, <1>4, <1>5 DEF ReceiveStep

\* The channel is a buffer of one place: every value sent is received exactly
\* once, in the order the sends succeed, until a receive fails.
THEOREM ChannelIsABuffer == SafeChannel => BufferSpec
<1>1. ChannelInit => Buffer!Init
  BY DEF ChannelInit, Buffer!Init, Stored, Wedged
<1>2. ChannelInv /\ [ChannelNext]_channelVars => [Buffer!Next]_(Buffer!absVars)
  <2> SUFFICES ASSUME ChannelInv, [ChannelNext]_channelVars PROVE [Buffer!Next]_(Buffer!absVars)
    OBVIOUS
  <2>1. CASE UNCHANGED channelVars
    BY <2>1 DEF channelVars, Stored, Wedged, Buffer!absVars
  <2>2. CASE ChannelNext
    BY <2>2, SenderRefines, ReceiverRefines DEF ChannelNext
  <2> QED
    BY <2>1, <2>2
<1> QED
  BY <1>1, <1>2, ChannelInvariance, PTL DEF SafeChannel, BufferSpec, Buffer!Spec

-----------------------------------------------------------------------------
(* RunnerV2, for any number of clients and handles and any capacity of the   *)
(* queue: _references counts the holders, and so the object outlives every   *)
(* pointer to it; a listener outlives its handle's transfer.                 *)

\* What the steps of the invariant's proof say of one client's pc.
LEMMA HoldersFinite == IsFiniteSet(Holders) /\ Cardinality(Holders) \in Nat
  BY RunnerAssumption, FS_Subset, FS_CardinalityType DEF Holders

\* The count of holders grows by one when a client becomes one ...
LEMMA HolderAdded ==
    ASSUME TypeOK, NEW c \in Clients, c \notin Holders,
           cpc' = [cpc EXCEPT ![c] = "holds"]
    PROVE  /\ Holders' = Holders \cup {c}
           /\ Cardinality(Holders') = Cardinality(Holders) + 1
<1>1. Holders' = Holders \cup {c}
  BY DEF Holders, TypeOK
<1> QED
  BY <1>1, HoldersFinite, FS_AddElement

\* ... and shrinks by one when it stops to be one.
LEMMA HolderRemoved ==
    ASSUME TypeOK, NEW c \in Holders, NEW pc \in {"out", "last"},
           cpc' = [cpc EXCEPT ![c] = pc]
    PROVE  /\ Holders' = Holders \ {c}
           /\ Cardinality(Holders') = Cardinality(Holders) - 1
<1>1. Holders' = Holders \ {c}
  BY DEF Holders, TypeOK
<1> QED
  BY <1>1, HoldersFinite, FS_RemoveElement

\* A count of zero means that there is no holder, of one that there is one.
LEMMA NoHolders == Holders = {} <=> Cardinality(Holders) = 0
  BY HoldersFinite, FS_EmptySet

\* Steps that leave the clients' pcs and the count alone, and delete nothing
\* or delete what nobody refers to, keep the invariant.
LEMMA ThreadKeepsInv ==
    ASSUME IInv, ThreadStep
    PROVE  IInv'
<1>1. UNCHANGED <<references, cpc>> /\ Holders' = Holders
  BY DEF ThreadStep, Thread, Check, SetRunning, InitMulti, Loop, Reset1, Pop, Perform, Info,
         Reset2, Wait, Tail, Clear, Undefined, Holders
<1>2. CountsHolders'
  BY <1>1 DEF IInv, CountsHolders
<1>3. TypeOK'
  <2> USE DEF IInv, TypeOK, Thread, handleVars
  <2>1. CASE Perform
    BY <2>1 DEF Perform
  <2>2. CASE Info
    BY <2>2 DEF Info, Informed
  <2>3. CASE Pop
    BY <2>3 DEF Pop
  <2>4. CASE Check \/ SetRunning \/ InitMulti \/ Loop \/ Reset1
    BY <2>4 DEF Check, SetRunning, InitMulti, Loop, Reset1
  <2>5. CASE Reset2 \/ Wait \/ Tail \/ Clear \/ Undefined
    BY <2>5 DEF Reset2, Wait, Tail, Clear, Undefined
  <2> QED
    BY <2>1, <2>2, <2>3, <2>4, <2>5 DEF ThreadStep
<1>4. Alone'
  <2>1. CASE Tail
    <3>1. running /\ references = 0 => Holders = {} /\ \A c \in Clients : cpc[c] # "made"
      BY NoHolders DEF IInv, CountsHolders, Alone
    <3> QED
      BY <1>1, <2>1, <3>1 DEF Tail, Thread, IInv, TypeOK, Alone
  <2>2. CASE Check
    BY <1>1, <2>2, NoHolders, HoldersFinite DEF Check, Thread, IInv, TypeOK, CountsHolders, Alone
  <2>3. CASE Undefined
    BY <1>1, <2>3 DEF Undefined, IInv, TypeOK, Alone
  <2>4. CASE SetRunning \/ InitMulti \/ Loop \/ Clear
    BY <1>1, <2>4 DEF SetRunning, InitMulti, Loop, Clear, Thread, IInv, TypeOK, Alone
  <2>5. CASE Reset1 \/ Pop \/ Perform \/ Info \/ Reset2 \/ Wait
    BY <1>1, <2>5 DEF Reset1, Pop, Perform, Info, Reset2, Wait, Thread, IInv, TypeOK, Alone
  <2> QED
    BY <2>1, <2>2, <2>3, <2>4, <2>5 DEF ThreadStep
<1> QED
  BY <1>2, <1>3, <1>4 DEF IInv

\* So do the steps of the clients: the count follows the holders.
LEMMA ClientKeepsInv ==
    ASSUME IInv, NEW c \in Clients, ClientStep(c) \/ ClientCall(c)
    PROVE  IInv'
<1> USE RunnerAssumption DEF IInv, handleVars
<1>1. CASE Create(c)
  <2>1. Holders = {} /\ Holders' = {}
    BY <1>1 DEF Create, Holders, Alone, TypeOK
  <2> QED
    BY <1>1, <2>1 DEF Create, TypeOK, CountsHolders, Alone
<1>2. CASE AddRef(c)
  <2>1. c \notin Holders /\ Holders' = Holders \cup {c}
        /\ Cardinality(Holders') = Cardinality(Holders) + 1
    BY <1>2, HolderAdded DEF AddRef, Holders
  <2> QED
    BY <1>2, <2>1 DEF AddRef, TypeOK, CountsHolders, Alone
<1>3. ASSUME NEW d \in Clients, Copy(c, d) PROVE IInv'
  <2>1. c \in Holders /\ Holders' = Holders \cup {d}
        /\ Cardinality(Holders') = Cardinality(Holders) + 1
    BY <1>3, HolderAdded DEF Copy, Holders
  <2> QED
    BY <1>3, <2>1 DEF Copy, TypeOK, CountsHolders, Alone
<1>4. ASSUME NEW h \in Handles, AddToCURLM(c, h) PROVE IInv'
  <2>1. c \in Holders /\ Holders' = Holders
    BY <1>4 DEF AddToCURLM, Holders, TypeOK
  <2> QED
    BY <1>4, <2>1 DEF AddToCURLM, TypeOK, CountsHolders, Alone
<1>5. CASE Wake(c)
  <2>1. c \in Holders /\ Holders' = Holders
    BY <1>5 DEF Wake, Holders, TypeOK
  <2> QED
    BY <1>5, <2>1 DEF Wake, TypeOK, CountsHolders, Alone
<1>6. CASE Release(c)
  <2>1. c \in Holders /\ Holders' = Holders \ {c}
        /\ Cardinality(Holders') = Cardinality(Holders) - 1
    BY <1>6, HolderRemoved DEF Release, Holders
  <2>2. CountsHolders' /\ TypeOK'
    BY <1>6, <2>1, HoldersFinite DEF Release, TypeOK, CountsHolders
  <2>3. references = 1 => Holders' = {}
    BY <2>1, <2>2, <1>6, HoldersFinite, FS_Subset, FS_EmptySet DEF Release, CountsHolders
  <2>4. Alone'
    <3>1. \A d \in Clients : cpc[d] \notin {"made", "last"}
      BY <2>1 DEF Alone
    <3>2. \A d \in Clients \ {c} : cpc'[d] = cpc[d]
      BY <1>6 DEF Release, TypeOK
    <3>3. cpc'[c] \in {"last", "out"} /\ (cpc'[c] = "last" => Holders' = {})
      BY <1>6, <2>3 DEF Release, TypeOK
    <3>4. Holders' = {} => \A d \in Clients : cpc'[d] \notin {"holds", "wake"}
      BY DEF Holders
    <3>5. obj = "live" /\ UNCHANGED <<obj, running, tpc>>
      BY <1>6, <2>1 DEF Release, Alone
    <3> QED
      BY <2>2, <3>1, <3>2, <3>3, <3>4, <3>5 DEF TypeOK, Alone
  <2> QED
    BY <2>2, <2>4
<1>7. CASE LastRelease(c)
  <2>1. Holders = {} /\ Holders' = {}
    BY <1>7 DEF LastRelease, Holders, Alone, TypeOK
  <2> QED
    BY <1>7, <2>1 DEF LastRelease, TypeOK, CountsHolders, Alone
<1> QED
  BY <1>1, <1>2, <1>3, <1>4, <1>5, <1>6, <1>7 DEF ClientStep, ClientCall

\* The inductive invariant holds in every behaviour of RunnerV2.
THEOREM Invariance == Spec => []IInv
<1>1. Init => IInv
  <2> SUFFICES ASSUME Init PROVE IInv
    OBVIOUS
  <2>1. Holders = {}
    BY DEF Init, Holders
  <2>2. CountsHolders
    BY <2>1, NoHolders DEF Init, CountsHolders
  <2>3. TypeOK
    <3>1. /\ cpc \in [Clients -> {"out", "made", "holds", "wake", "last", "ub"}]
          /\ at \in [Handles -> {"user", "queue", "active", "done", "kept", "cleaned"}]
          /\ listener \in [Handles -> {"none", "alive", "deleted"}]
      BY DEF Init
    <3>2. references \in Int
      BY DEF Init
    <3> QED
      BY <3>1, <3>2, Zenon DEF Init, TypeOK
  <2>4. Alone
    BY <2>1 DEF Init, Alone
  <2> QED
    BY <2>2, <2>3, <2>4 DEF IInv
<1>2. IInv /\ [Next]_vars => IInv'
  <2> SUFFICES ASSUME IInv, [Next]_vars PROVE IInv'
    OBVIOUS
  <2>1. CASE UNCHANGED vars
    BY <2>1 DEF vars, IInv, TypeOK, CountsHolders, Alone, Holders
  <2>2. CASE Next
    BY <2>2, ThreadKeepsInv, ClientKeepsInv DEF Next
  <2> QED
    BY <2>1, <2>2
<1> QED
  BY <1>1, <1>2, PTL DEF Spec

\* Nobody who has the object ever finds it deleted, whatever the interleaving
\* of the thread's start and end with the clients' copies and releases.
THEOREM HoldersAreSafe == Spec => []HeldAlive
<1>1. IInv => HeldAlive
  BY DEF IInv, Alone, Holders, HeldAlive
<1> QED
  BY <1>1, Invariance, PTL

\* information() is never called on a deleted listener.
THEOREM ListenersAreSafe == Spec => []ListenerAlive
<1>1. Init => ListenerAlive
  BY DEF Init, ListenerAlive
<1>2. TypeOK /\ ListenerAlive /\ [Next]_vars => ListenerAlive'
  <2> SUFFICES ASSUME TypeOK, ListenerAlive, [Next]_vars PROVE ListenerAlive'
    OBVIOUS
  <2> USE DEF TypeOK, ListenerAlive, handleVars
  <2>1. ASSUME NEW c \in Clients, NEW h \in Handles, AddToCURLM(c, h) PROVE ListenerAlive'
    BY <2>1 DEF AddToCURLM
  <2>2. CASE Pop
    BY <2>2 DEF Pop, Queued
  <2>3. CASE Perform
    BY <2>3 DEF Perform
  <2>4. CASE Info
    <3>1. CASE UNCHANGED handleVars
      BY <3>1
    <3>2. ASSUME NEW h \in Handles, NEW fop \in FreeOptions, Informed(h, fop)
          PROVE  ListenerAlive'
      BY <3>2 DEF Informed
    <3>3. ASSUME NEW h \in Handles, at' = [at EXCEPT ![h] = "kept"], UNCHANGED listener
          PROVE  ListenerAlive'
      BY <3>3
    <3> QED
      BY <2>4, <3>1, <3>2, <3>3 DEF Info
  <2>5. CASE UNCHANGED vars
    BY <2>5 DEF vars
  <2>6. CASE UNCHANGED handleVars
    BY <2>6
  <2> QED
    BY <2>1, <2>2, <2>3, <2>4, <2>5, <2>6
    DEF Next, ThreadStep, ClientStep, ClientCall, Check, SetRunning, InitMulti, Loop, Reset1,
        Reset2, Wait, Tail, Clear, Undefined, Create, AddRef, Copy, Wake, Release, LastRelease
<1>3. Spec => []TypeOK
  BY Invariance, PTL DEF IInv
<1> QED
  BY <1>1, <1>2, <1>3, PTL DEF Spec
=============================================================================
