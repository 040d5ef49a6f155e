---------------------------- MODULE ChannelSpec ----------------------------
(* What glim::Channel promises its callers: a buffer of one place.  A value  *)
(* offered by a sender is put when the place is empty, stays in the place    *)
(* until one receiver takes it, and is taken exactly once; a receive that    *)
(* fails loses the value and breaks the channel for good.  Nothing is said   *)
(* here of mutexes, atomics or program counters: Channel.tla implements it.  *)
CONSTANTS Senders, Receivers, Values, NoValue

VARIABLES
    offered,   \* offered[s]: the argument of the send that s is in, if any
    slot,      \* the value sent and not yet received, if any
    asking,    \* the receivers inside a call of receive()
    taken,     \* taken[r]: what the last completed receive() of r returned
    broken     \* a receive() failed

absVars == <<offered, slot, asking, taken, broken>>

Init ==
    /\ offered = [s \in Senders |-> NoValue]
    /\ slot = NoValue
    /\ asking = {}
    /\ taken = [r \in Receivers |-> NoValue]
    /\ broken = FALSE

\* s calls send(val).
Offer(s, val) ==
    /\ offered[s] = NoValue
    /\ offered' = [offered EXCEPT ![s] = val]
    /\ UNCHANGED <<slot, asking, taken, broken>>

\* The value of s is stored: only into an empty place.
Put(s) ==
    /\ offered[s] # NoValue /\ slot = NoValue /\ ~broken
    /\ slot' = offered[s]
    /\ offered' = [offered EXCEPT ![s] = NoValue]
    /\ UNCHANGED <<asking, taken, broken>>

\* The send of s fails with an exception and leaves the place empty.
Refuse(s) ==
    /\ offered[s] # NoValue /\ slot = NoValue /\ ~broken
    /\ offered' = [offered EXCEPT ![s] = NoValue]
    /\ UNCHANGED <<slot, asking, taken, broken>>

\* r calls receive().
Ask(r) ==
    /\ r \notin asking
    /\ asking' = asking \cup {r}
    /\ UNCHANGED <<offered, slot, taken, broken>>

\* r takes the value out of the place.
Take(r) ==
    /\ r \in asking /\ slot # NoValue
    /\ taken' = [taken EXCEPT ![r] = slot]
    /\ slot' = NoValue
    /\ asking' = asking \ {r}
    /\ UNCHANGED <<offered, broken>>

\* The receive of r fails with an exception.
Fail(r) ==
    /\ r \in asking /\ slot # NoValue
    /\ slot' = NoValue
    /\ asking' = asking \ {r}
    /\ broken' = TRUE
    /\ UNCHANGED <<offered, taken>>

Next ==
    \/ \E s \in Senders : Put(s) \/ Refuse(s) \/ \E val \in Values : Offer(s, val)
    \/ \E r \in Receivers : Ask(r) \/ Take(r) \/ Fail(r)

Spec == Init /\ [][Next]_absVars
=============================================================================
