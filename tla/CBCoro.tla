------------------------------- MODULE CBCoro ------------------------------
(* glim::CBCoro (cbcoro.hpp): a coroutine that turns callbacks into normal   *)
(* control flow.  The body runs on its own stack, on the thread that started *)
(* it or that lends itself in invokeFromCallback; yieldForCallback gives the *)
(* thread back.  This module is one coroutine, the threads that run its      *)
(* callbacks, and the CBCoroPtrs that decide when it is deleted.             *)
(*                                                                           *)
(* The functor given to yieldForCallback keeps its contract: it calls        *)
(* invokeFromCallback once, directly or from a callback that it arranges, or *)
(* it throws.  The two constants let callers do what the documentation lets  *)
(* them do besides.                                                          *)
EXTENDS Integers, FiniteSets

CONSTANTS
    Threads, NoThread,
    InvokeThenThrow,   \* a functor may throw after it called invokeFromCallback
    CopyPtr            \* a CBCoroPtr that is kept is a copy of the one returned

ASSUME CBCoroAssumption ==
    /\ IsFiniteSet(Threads) /\ NoThread \notin Threads
    /\ InvokeThenThrow \in BOOLEAN /\ CopyPtr \in BOOLEAN

VARIABLES
    freed,            \* the object was deleted
    users,            \* _users
    returnTo,         \* _returnTo: the thread whose stack it points into
    owner,            \* the thread that owns _mutex
    invokeFromYield, yieldFromInvoke,
    body,             \* where the body is
    on,               \* the thread that executes the body
    tpc,              \* where each thread is on its own stack
    pending,          \* a callback was arranged and has not run yet
    held              \* somebody keeps a CBCoroPtr that start() or
                      \* invokeFromCallback() returned

vars == <<freed, users, returnTo, owner, invokeFromYield, yieldFromInvoke,
          body, on, tpc, pending, held>>
flags == <<invokeFromYield, yieldFromInvoke>>

Init ==
    /\ freed = FALSE /\ users = 0 /\ returnTo = NoThread /\ owner = NoThread
    /\ invokeFromYield = FALSE /\ yieldFromInvoke = FALSE
    /\ body = "new" /\ on = NoThread
    /\ tpc = [t \in Threads |-> "out"]
    /\ pending = FALSE /\ held = FALSE

-----------------------------------------------------------------------------
\* ~CBCoroPtr: if (--_users <= 0 && _delete) delete, _delete being true.
DropPtr ==
    /\ users' = users - 1
    /\ freed' = (freed \/ users - 1 <= 0)

(* The body, on its own stack *)

\* cbcReturn(): the thread goes back to its own stack, after its swapcontext.
CbcReturn ==
    /\ returnTo # NoThread
    /\ returnTo' = NoThread /\ on' = NoThread
    /\ tpc' = [tpc EXCEPT ![returnTo] = "back"]

\* start(): nobody else knows the object until the body runs.
Start(t) ==
    /\ body = "new" /\ tpc[t] = "out"
    /\ users' = users + 1
    /\ returnTo' = t /\ owner' = t
    /\ body' = "run" /\ on' = t
    /\ tpc' = [tpc EXCEPT ![t] = "lent"]
    /\ UNCHANGED <<freed, flags, pending, held>>

\* run() returns or throws, which is logged.
Finish ==
    /\ body = "run"
    /\ body' = "finished" /\ CbcReturn
    /\ UNCHANGED <<freed, users, owner, flags, pending, held>>

\* yieldForCallback() up to the call of the functor.
Yield ==
    /\ body = "run"
    /\ users' = users + 1
    /\ yieldFromInvoke' = FALSE
    /\ body' = "fun"
    /\ UNCHANGED <<freed, returnTo, owner, invokeFromYield, on, tpc, pending, held>>

\* The functor arranges a callback.
Arrange ==
    /\ body = "fun"
    /\ pending' = TRUE /\ body' = "funDone"
    /\ UNCHANGED <<freed, users, returnTo, owner, flags, on, tpc, held>>

\* The functor calls invokeFromCallback() itself, on the body's stack: the
\* recursive mutex lets its thread in and _returnTo is not null.
InvokeDirectly ==
    /\ body = "fun" /\ returnTo # NoThread /\ owner = on
    /\ invokeFromYield' = TRUE /\ body' = "invoked"
    /\ UNCHANGED <<freed, users, returnTo, owner, yieldFromInvoke, on, tpc, pending, held>>

\* The functor throws: the exception leaves yieldForCallback(), destroying
\* its CBCoroPtr, and is caught in the body or by cbcRun.
FunThrows ==
    /\ body = "fun" \/ (InvokeThenThrow /\ body = "invoked")
    /\ DropPtr
    /\ body' = "run"
    /\ UNCHANGED <<returnTo, owner, flags, on, tpc, pending, held>>

\* The rest of yieldForCallback() once the functor returned: return at once
\* when it called invokeFromCallback(), or suspend the body.
FunReturns ==
    /\ body \in {"funDone", "invoked"}
    /\ IF invokeFromYield
       THEN /\ invokeFromYield' = FALSE
            /\ DropPtr /\ body' = "run"
            /\ UNCHANGED <<returnTo, on, tpc>>
       ELSE CbcReturn /\ body' = "suspended" /\ UNCHANGED <<freed, users, invokeFromYield>>
    /\ UNCHANGED <<owner, yieldFromInvoke, pending, held>>

\* The captured context is running again: yieldForCallback() returns (and its
\* CBCoroPtr is dropped) or, had nobody set the flag, calls the functor again.
Resumed ==
    /\ body = "resumed"
    /\ IF yieldFromInvoke THEN body' = "run" /\ DropPtr
                          ELSE body' = "fun" /\ UNCHANGED <<freed, users>>
    /\ UNCHANGED <<returnTo, owner, flags, on, tpc, pending, held>>

-----------------------------------------------------------------------------
(* The threads, on their own stacks *)

\* A thread runs the callback that was arranged: invokeFromCallback() first
\* makes its CBCoroPtr.
Callback(t) ==
    /\ pending /\ tpc[t] = "out"
    /\ pending' = FALSE
    /\ users' = users + 1
    /\ tpc' = [tpc EXCEPT ![t] = "lock"]
    /\ UNCHANGED <<freed, returnTo, owner, flags, body, on, held>>

\* Mutation: invokeFromCallback() does not wait for the mutex.
Lock_NoWait(t) ==
    /\ tpc[t] = "lock"
    /\ owner' = t
    /\ tpc' = [tpc EXCEPT ![t] = "check"]
    /\ UNCHANGED <<freed, users, returnTo, flags, body, on, pending, held>>

\* _mutex.lock() waits for the yieldForCallback() of another thread.
Lock(t) ==
    /\ tpc[t] = "lock" /\ owner = NoThread
    /\ owner' = t
    /\ tpc' = [tpc EXCEPT ![t] = "check"]
    /\ UNCHANGED <<freed, users, returnTo, flags, body, on, pending, held>>

\* Not yet returned from yieldForCallback(): do nothing.  Otherwise lend this
\* thread to the body, where it was captured.
Resume(t) ==
    /\ tpc[t] = "check"
    /\ IF returnTo # NoThread
       THEN /\ invokeFromYield' = TRUE
            /\ tpc' = [tpc EXCEPT ![t] = "back"]
            /\ UNCHANGED <<returnTo, yieldFromInvoke, body, on>>
       ELSE /\ returnTo' = t /\ yieldFromInvoke' = TRUE
            /\ tpc' = [tpc EXCEPT ![t] = "lent"]
            /\ body' = "resumed" /\ on' = t
            /\ UNCHANGED invokeFromYield
    /\ UNCHANGED <<freed, users, owner, pending, held>>

\* Mutation: the mutex is left locked.
Unlock_Never(t) ==
    /\ tpc[t] = "back"
    /\ returnTo' = IF returnTo = t THEN NoThread ELSE returnTo
    /\ tpc' = [tpc EXCEPT ![t] = "drop"]
    /\ UNCHANGED <<freed, users, owner, flags, body, on, pending, held>>

\* The end of start() and invokeFromCallback().
Unlock(t) ==
    /\ tpc[t] = "back"
    /\ returnTo' = IF returnTo = t THEN NoThread ELSE returnTo
    /\ owner' = NoThread
    /\ tpc' = [tpc EXCEPT ![t] = "drop"]
    /\ UNCHANGED <<freed, users, flags, body, on, pending, held>>

\* Mutation: the object is deleted when one user is left.
Drop_Early(t) ==
    /\ tpc[t] = "drop"
    /\ tpc' = [tpc EXCEPT ![t] = "out"]
    /\ users' = users - 1
    /\ freed' = (freed \/ users - 1 <= 1)
    /\ UNCHANGED <<returnTo, owner, flags, body, on, pending, held>>

\* The caller of start() or invokeFromCallback() ignores what it returned ...
Drop(t) ==
    /\ tpc[t] = "drop" /\ DropPtr
    /\ tpc' = [tpc EXCEPT ![t] = "out"]
    /\ UNCHANGED <<returnTo, owner, flags, body, on, pending, held>>

\* ... or keeps it: constructed in place or, with CopyPtr, by the implicit copy
\* constructor, which does not count, while the original is dropped.
Hold(t) ==
    /\ tpc[t] = "drop" /\ ~held
    /\ held' = TRUE
    /\ IF CopyPtr THEN DropPtr ELSE UNCHANGED <<users, freed>>
    /\ tpc' = [tpc EXCEPT ![t] = "out"]
    /\ UNCHANGED <<returnTo, owner, flags, body, on, pending>>

\* Mutation: a CBCoroPtr that was kept does not delete.
DropHeld_NoDelete ==
    /\ held /\ held' = FALSE
    /\ users' = users - 1
    /\ UNCHANGED <<freed, returnTo, owner, flags, body, on, tpc, pending>>

DropHeld ==
    /\ held /\ held' = FALSE /\ DropPtr
    /\ UNCHANGED <<returnTo, owner, flags, body, on, tpc, pending>>

-----------------------------------------------------------------------------
BodyStep ==
    \/ Finish \/ Yield \/ Arrange \/ InvokeDirectly \/ FunThrows \/ FunReturns \/ Resumed
ThreadStep(t) == Lock(t) \/ Resume(t) \/ Unlock(t) \/ Drop(t) \/ Hold(t)

Next ==
    \/ BodyStep \/ DropHeld
    \/ \E t \in Threads : Start(t) \/ Callback(t) \/ ThreadStep(t)

Spec == Init /\ [][Next]_vars

\* The OS schedules every thread, on whichever stack it is; a callback that
\* was arranged is called and a CBCoroPtr that was kept is dropped, which the
\* application has to see to ("the fun MUST call invokeFromCallback").
Fairness ==
    /\ WF_vars(BodyStep) /\ WF_vars(DropHeld)
    /\ WF_vars(\E t \in Threads : Callback(t))
    /\ \A t \in Threads : WF_vars(ThreadStep(t))
FairSpec == Spec /\ Fairness

-----------------------------------------------------------------------------
(* Properties *)

Running == body \in {"run", "fun", "funDone", "invoked", "resumed"}
Inside == {t \in Threads : tpc[t] # "out"}

\* Every variable keeps its type (the members of cbcoro.hpp:46-51).
TypeOK ==
    /\ freed \in BOOLEAN /\ users \in Int
    /\ returnTo \in Threads \cup {NoThread} /\ owner \in Threads \cup {NoThread}
    /\ invokeFromYield \in BOOLEAN /\ yieldFromInvoke \in BOOLEAN
    /\ body \in {"new", "run", "fun", "funDone", "invoked", "suspended", "resumed", "finished"}
    /\ on \in Threads \cup {NoThread}
    /\ tpc \in [Threads -> {"out", "lock", "check", "lent", "back", "drop"}]
    /\ pending \in BOOLEAN /\ held \in BOOLEAN

\* The body runs on at most one thread, which lent itself, owns _mutex and is
\* the one that _returnTo will give the control back to.
Placement ==
    IF Running THEN on # NoThread /\ returnTo = on /\ owner = on /\ tpc[on] = "lent"
               ELSE on = NoThread /\ returnTo = NoThread /\ \A t \in Threads : tpc[t] # "lent"

\* A thread that got the mutex in invokeFromCallback() resumes a body that is
\* suspended: the context captured by yieldForCallback() is never entered while
\* another thread executes the body, twice, or after the body finished.
ResumesSuspended ==
    \A t \in Threads : tpc[t] = "check" => body = "suspended" /\ returnTo = NoThread

\* _users counts the CBCoroPtrs that there are: one per thread inside start()
\* or invokeFromCallback(), one in yieldForCallback(), one that is kept.
InYield == body \in {"fun", "funDone", "invoked", "suspended", "resumed"}
CountsUsers ==
    users = Cardinality(Inside) + (IF InYield THEN 1 ELSE 0) + (IF held THEN 1 ELSE 0)

\* The object is deleted only when its body has finished and no thread, no
\* callback and no CBCoroPtr can reach it any more (so never on its own stack).
DeletedLast ==
    freed => body = "finished" /\ Inside = {} /\ ~pending /\ ~held

\* The inductive strengthening: who owns _mutex, and what is known of the
\* callback while it is pending or waits for _mutex.  It holds when functors do
\* not throw after invokeFromCallback() and CBCoroPtrs are not copied.
Calling == {t \in Threads : tpc[t] \in {"lock", "check"}}
Ownership == \A t \in Threads : owner = t <=> tpc[t] \in {"check", "lent", "back"}
Flags ==
    /\ invokeFromYield <=> body = "invoked"
    /\ body = "resumed" => yieldFromInvoke
OneCallback ==
    /\ pending \/ Calling # {} => body \in {"funDone", "suspended"}
    /\ pending => Calling = {}
    /\ \A t, u \in Calling : t = u
    /\ body = "new" => Inside = {} /\ ~held /\ ~freed
IInv ==
    /\ TypeOK /\ Placement /\ ResumesSuspended /\ CountsUsers /\ DeletedLast
    /\ Ownership /\ Flags /\ OneCallback

\* yieldForCallback() "will never return by itself, in order for it to return
\* the fun MUST call invokeFromCallback" (cbcoro.hpp:143-144): it does not go on
\* while the callback its functor arranged has not been called.
ReturnsWhenInvoked ==
    [][body = "funDone" => body' # "run"]_vars

\* A CBCoroPtr "might be held somewhere in order to delay the deletion"
\* (cbcoro.hpp:198): while it is, the object is not deleted.
HeldIsAlive == held => ~freed

\* A callback that is called resumes the body: it is not blocked for ever by
\* the thread that is still in yieldForCallback() or by other callbacks.
Resumption == pending ~> body = "resumed"

\* A finished coroutine is deleted.
Deletion == body = "finished" ~> freed
=============================================================================
