------------------------------ MODULE Channel ------------------------------
(* glim::Channel (channel.hpp): threads hand values of type V over through   *)
(* the member _v.  The atomic _state elects one sender (EMPTY -> WRITING),   *)
(* and _mutex is used as a binary semaphore: it is locked whenever there is  *)
(* nothing to receive, a sender unlocks it (it was locked by another thread) *)
(* and the receiver that gets it leaves it locked.                           *)
CONSTANTS
    Senders, Receivers,   \* the threads calling send() and receive()
    Values, NoValue,      \* the values of V; NoValue is a moved-from V
    AssignMayThrow,       \* V's assignment may throw (the catch of send)
    MoveMayThrow          \* V's move constructor may throw (in receive)

ASSUME ChannelAssumption ==
    /\ Senders \cap Receivers = {}
    /\ NoValue \notin Values
    /\ AssignMayThrow \in BOOLEAN /\ MoveMayThrow \in BOOLEAN

VARIABLES
    state,    \* _state
    locked,   \* _mutex, as the build implements it: locked or not, no owner
    v,        \* _v
    spc, arg, \* per sender: where it is, and the argument of its send()
    rpc, tmp  \* per receiver: where it is, and tmp of its last receive()

channelVars == <<state, locked, v, spc, arg, rpc, tmp>>
sendVars == <<spc, arg>>
recvVars == <<rpc, tmp>>

ChannelInit ==
    /\ state = "EMPTY" /\ locked = TRUE /\ v = NoValue
    /\ spc = [s \in Senders |-> "idle"] /\ arg = [s \in Senders |-> NoValue]
    /\ rpc = [r \in Receivers |-> "idle"] /\ tmp = [r \in Receivers |-> NoValue]

-----------------------------------------------------------------------------
(* send *)

CallSend(s, val) ==
    /\ spc[s] = "idle"
    /\ spc' = [spc EXCEPT ![s] = "cas"]
    /\ arg' = [arg EXCEPT ![s] = val]
    /\ UNCHANGED <<state, locked, v, recvVars>>

\* Mutation: the sender waits for a writer but not for a reader.
Acquire_OverFull(s) ==
    /\ spc[s] = "cas" /\ state # "WRITING"
    /\ state' = "WRITING"
    /\ spc' = [spc EXCEPT ![s] = "assign"]
    /\ UNCHANGED <<locked, v, arg, recvVars>>

\* The compare_exchange_weak that succeeds; one that fails (_state is not
\* EMPTY, or spuriously) only sleeps and tries again, which is a stutter.
Acquire(s) ==
    /\ spc[s] = "cas" /\ state = "EMPTY"
    /\ state' = "WRITING"
    /\ spc' = [spc EXCEPT ![s] = "assign"]
    /\ UNCHANGED <<locked, v, arg, recvVars>>

\* _v = std::forward<V> (v) moves the argument into the channel.
Assign(s) ==
    /\ spc[s] = "assign"
    /\ v' = arg[s]
    /\ arg' = [arg EXCEPT ![s] = NoValue]
    /\ spc' = [spc EXCEPT ![s] = "publish"]
    /\ UNCHANGED <<state, locked, recvVars>>

\* Mutation: the catch forgets to reset _state.
AssignThrows_NoReset(s) ==
    /\ AssignMayThrow
    /\ spc[s] = "assign"
    /\ v' \in Values \cup {NoValue}
    /\ arg' = [arg EXCEPT ![s] = NoValue]
    /\ spc' = [spc EXCEPT ![s] = "idle"]
    /\ UNCHANGED <<state, locked, recvVars>>

\* The assignment throws, leaving _v in some valid state; the catch resets
\* _state and rethrows.
AssignThrows(s) ==
    /\ AssignMayThrow
    /\ spc[s] = "assign"
    /\ v' \in Values \cup {NoValue}
    /\ state' = "EMPTY"
    /\ arg' = [arg EXCEPT ![s] = NoValue]
    /\ spc' = [spc EXCEPT ![s] = "idle"]
    /\ UNCHANGED <<locked, recvVars>>

Publish(s) ==
    /\ spc[s] = "publish"
    /\ state' = "FULL"
    /\ spc' = [spc EXCEPT ![s] = "unlock"]
    /\ UNCHANGED <<locked, v, arg, recvVars>>

Unlock(s) ==
    /\ spc[s] = "unlock"
    /\ locked' = FALSE
    /\ spc' = [spc EXCEPT ![s] = "idle"]
    /\ UNCHANGED <<state, v, arg, recvVars>>

-----------------------------------------------------------------------------
(* receive *)

CallReceive(r) ==
    /\ rpc[r] = "idle"
    /\ rpc' = [rpc EXCEPT ![r] = "lock"]
    /\ UNCHANGED <<state, locked, v, tmp, sendVars>>

Lock(r) ==
    /\ rpc[r] = "lock" /\ ~locked
    /\ locked' = TRUE
    /\ rpc' = [rpc EXCEPT ![r] = "move"]
    /\ UNCHANGED <<state, v, tmp, sendVars>>

Move(r) ==
    /\ rpc[r] = "move"
    /\ tmp' = [tmp EXCEPT ![r] = v]
    /\ v' = NoValue
    /\ rpc' = [rpc EXCEPT ![r] = "assert"]
    /\ UNCHANGED <<state, locked, sendVars>>

\* The move throws out of receive(): nothing restores _mutex or _state.
MoveThrows(r) ==
    /\ MoveMayThrow
    /\ rpc[r] = "move"
    /\ v' \in Values \cup {NoValue}
    /\ rpc' = [rpc EXCEPT ![r] = "idle"]
    /\ UNCHANGED <<state, locked, tmp, sendVars>>

\* Mutation: receive() holds _mutex with a lock_guard.
Empty_Guard(r) ==
    /\ rpc[r] = "assert"
    /\ state' = "EMPTY" /\ locked' = FALSE
    /\ rpc' = [rpc EXCEPT ![r] = "idle"]
    /\ UNCHANGED <<v, tmp, sendVars>>

\* assert (_state == FULL) (AssertHolds below), then _state = EMPTY.
Empty(r) ==
    /\ rpc[r] = "assert"
    /\ state' = "EMPTY"
    /\ rpc' = [rpc EXCEPT ![r] = "idle"]
    /\ UNCHANGED <<locked, v, tmp, sendVars>>

-----------------------------------------------------------------------------
SendStep(s) == Acquire(s) \/ Assign(s) \/ AssignThrows(s) \/ Publish(s) \/ Unlock(s)
ReceiveStep(r) == Lock(r) \/ Move(r) \/ MoveThrows(r) \/ Empty(r)

ChannelNext ==
    \/ \E s \in Senders : SendStep(s) \/ \E val \in Values : CallSend(s, val)
    \/ \E r \in Receivers : ReceiveStep(r) \/ CallReceive(r)

SafeChannel == ChannelInit /\ [][ChannelNext]_channelVars

\* A thread inside send() or receive() is scheduled by the OS; nothing makes
\* a thread call them.
ChannelFairness ==
    /\ \A s \in Senders : WF_channelVars(SendStep(s))
    /\ \A r \in Receivers : WF_channelVars(ReceiveStep(r))

FairChannel == SafeChannel /\ ChannelFairness

-----------------------------------------------------------------------------
(* Properties *)

\* Every variable keeps its type (the members of channel.hpp:13-16).
ChannelTypeOK ==
    /\ state \in {"EMPTY", "WRITING", "FULL"}
    /\ locked \in BOOLEAN
    /\ v \in Values \cup {NoValue}
    /\ spc \in [Senders -> {"idle", "cas", "assign", "publish", "unlock"}]
    /\ arg \in [Senders -> Values \cup {NoValue}]
    /\ rpc \in [Receivers -> {"idle", "lock", "move", "assert"}]
    /\ tmp \in [Receivers -> Values \cup {NoValue}]

\* No two threads are about to access the plain member _v: the writes of
\* send() and the move of receive() never race.
AccessingV == {s \in Senders : spc[s] = "assign"} \cup {r \in Receivers : rpc[r] = "move"}
NoDataRace == \A p, q \in AccessingV : p = q

\* assert (_state == FULL) of receive() never fails, and what it moved out of
\* _v is a value, not a moved-from or half-assigned one.
AssertHolds ==
    \A r \in Receivers : rpc[r] = "assert" => state = "FULL" /\ tmp[r] # NoValue

\* send() never unlocks a mutex that is not locked (undefined for std::mutex),
\* which would also let two receivers in for one value.
UnlocksLocked == \A s \in Senders : spc[s] = "unlock" => locked

\* V's move threw out of receive(): _mutex, "Locked when there is no value"
\* (channel.hpp:15), is locked with _state FULL, and nobody will unlock it.
Wedged ==
    /\ locked /\ state = "FULL"
    /\ \A s \in Senders : spc[s] # "unlock"
    /\ \A r \in Receivers : rpc[r] \notin {"move", "assert"}

\* A sender and a receiver never wait for each other: when both are inside
\* their calls, a value is received or V's move throws, unless every send fails
\* (or sends keep failing) with an exception: the catch of send() must let
\* others in again.
Handover ==
    <>[][\A s \in Senders : ~AssignThrows(s)]_channelVars =>
        ((\E s \in Senders : spc[s] = "cas") /\ (\E r \in Receivers : rpc[r] = "lock")
            ~> \/ \E r \in Receivers : rpc[r] = "assert"
               \/ state = "EMPTY" /\ \A s \in Senders : spc[s] = "idle"
               \/ Wedged)

\* The strengthening that is inductive: at most one thread is between the CAS
\* and the unlock of a send or between the lock and the end of a receive, and
\* _state and _mutex tell which of them it may be.
Sending(s) == spc[s] \in {"assign", "publish", "unlock"}
Receiving(r) == rpc[r] \in {"move", "assert"}
OneInside ==
    /\ \A s, t \in Senders : Sending(s) /\ Sending(t) => s = t
    /\ \A r, q \in Receivers : Receiving(r) /\ Receiving(q) => r = q
    /\ \A s \in Senders, r \in Receivers : ~(Sending(s) /\ Receiving(r))
Phases ==
    /\ \A s \in Senders :
         /\ spc[s] \in {"assign", "publish"} => state = "WRITING" /\ locked
         /\ spc[s] \in {"publish", "unlock"} => v # NoValue
         /\ spc[s] = "unlock" => state = "FULL" /\ locked
         /\ spc[s] \in {"cas", "assign"} <=> arg[s] # NoValue
    /\ \A r \in Receivers :
         /\ Receiving(r) => state = "FULL" /\ locked
         /\ rpc[r] = "move" => v # NoValue
         /\ rpc[r] = "assert" => tmp[r] # NoValue
    /\ ~locked => state = "FULL" /\ v # NoValue /\ \A s \in Senders : ~Sending(s)
    /\ ~locked => \A r \in Receivers : ~Receiving(r)
ChannelInv == ChannelTypeOK /\ OneInside /\ Phases

\* The channel implements the buffer of one place: each value sent is received
\* exactly once, a send that throws delivers nothing, and a receive that throws
\* is the last thing that happens.
Stored ==
    \/ \E s \in Senders : spc[s] = "publish"
    \/ state = "FULL" /\ \A r \in Receivers : rpc[r] # "assert"
Buffer == INSTANCE ChannelSpec WITH
    offered <- arg,
    slot <- IF Stored /\ ~Wedged THEN v ELSE NoValue,
    asking <- {r \in Receivers : rpc[r] \in {"lock", "move"}},
    taken <- tmp,
    broken <- Wedged
BufferSpec == Buffer!Spec
=============================================================================
