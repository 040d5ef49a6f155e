----------------------------- MODULE RunnerV2 ------------------------------
(* glim::RunnerV2 (runner.hpp:51-150): one thread drives the cURL handles    *)
(* that clients queue.  The object is counted by intrusive pointers, is      *)
(* created with a count of zero by a constructor that has already started    *)
(* the thread, and is deleted either by the client that drops the last       *)
(* reference or, when the thread is running, by the thread itself.           *)
(*                                                                           *)
(* A thread or client that touches the object after it was deleted is in     *)
(* undefined behaviour: it goes to "ub", where nothing more is said of it.   *)
EXTENDS Integers, FiniteSets

CONSTANTS
    Clients,         \* the threads that hold a boost::intrusive_ptr<RunnerV2>
    Handles,         \* cURL easy handles
    QueueCapacity,   \* boost::lockfree::capacity<64>
    InitMayFail      \* curl_multi_init or eventfd may fail

ASSUME RunnerAssumption ==
    /\ IsFiniteSet(Clients) /\ IsFiniteSet(Handles)
    /\ QueueCapacity \in Nat \ {0} /\ InitMayFail \in BOOLEAN

VARIABLES
    obj,        \* the allocation: "none", "live", "freed"
    references, \* _references
    running,    \* _running
    eventFd,    \* _eventFd > 0
    signalled,  \* the eventfd's counter is not zero
    tpc,        \* where the thread is in run()
    cpc,        \* per client: where it is
    at,         \* per handle: who has it
    listener    \* per handle: the FunCurlmLisneter of its CURLOPT_PRIVATE

vars == <<obj, references, running, eventFd, signalled, tpc, cpc, at, listener>>
handleVars == <<at, listener>>

Holders == {c \in Clients : cpc[c] \in {"holds", "wake"}}
Queued == {h \in Handles : at[h] = "queue"}

Init ==
    /\ obj = "none" /\ references = 0 /\ running = FALSE
    /\ eventFd = FALSE /\ signalled = FALSE /\ tpc = "unborn"
    /\ cpc = [c \in Clients |-> "out"]
    /\ at = [h \in Handles |-> "user"]
    /\ listener = [h \in Handles |-> "none"]

-----------------------------------------------------------------------------
(* The clients *)

\* new RunnerV2(): the constructor starts the thread.
Create(c) ==
    /\ obj = "none"
    /\ obj' = "live" /\ tpc' = "check"
    /\ cpc' = [cpc EXCEPT ![c] = "made"]
    /\ UNCHANGED <<references, running, eventFd, signalled, handleVars>>

\* intrusive_ptr_add_ref by the intrusive_ptr built from the new object.
AddRef(c) ==
    /\ cpc[c] = "made"
    /\ references' = references + 1
    /\ cpc' = [cpc EXCEPT ![c] = "holds"]
    /\ UNCHANGED <<obj, running, eventFd, signalled, tpc, handleVars>>

\* c copies its pointer for d (instance() returns the pointer to copy).
Copy(c, d) ==
    /\ cpc[c] = "holds" /\ cpc[d] = "out"
    /\ references' = references + 1
    /\ cpc' = [cpc EXCEPT ![d] = "holds"]
    /\ UNCHANGED <<obj, running, eventFd, signalled, tpc, handleVars>>

\* Mutation: CURLOPT_PRIVATE is set on the first call only.
AddToCURLM_Once(c, h) ==
    /\ cpc[c] = "holds" /\ at[h] = "user"
    /\ listener' = [listener EXCEPT ![h] = IF @ = "none" THEN "alive" ELSE @]
    /\ IF Cardinality(Queued) < QueueCapacity
       THEN /\ at' = [at EXCEPT ![h] = "queue"]
            /\ cpc' = [cpc EXCEPT ![c] = "wake"]
       ELSE UNCHANGED <<at, cpc>>
    /\ UNCHANGED <<obj, references, running, eventFd, signalled, tpc>>

\* addToCURLM with a listener: CURLOPT_PRIVATE points to a new listener, then
\* the handle is pushed; on a full queue the push fails and the call throws.
AddToCURLM(c, h) ==
    /\ cpc[c] = "holds" /\ at[h] = "user"
    /\ listener' = [listener EXCEPT ![h] = "alive"]
    /\ IF Cardinality(Queued) < QueueCapacity
       THEN /\ at' = [at EXCEPT ![h] = "queue"]
            /\ cpc' = [cpc EXCEPT ![c] = "wake"]
       ELSE UNCHANGED <<at, cpc>>
    /\ UNCHANGED <<obj, references, running, eventFd, signalled, tpc>>

\* The eventfd_write of addToCURLM, if the thread has made the eventfd.
Wake(c) ==
    /\ cpc[c] = "wake"
    /\ signalled' = (signalled \/ eventFd)
    /\ cpc' = [cpc EXCEPT ![c] = "holds"]
    /\ UNCHANGED <<obj, references, running, eventFd, tpc, handleVars>>

\* intrusive_ptr_release: the decrement; the client that reaches zero goes on
\* to read _running.
Release(c) ==
    /\ cpc[c] = "holds"
    /\ references' = references - 1
    /\ cpc' = [cpc EXCEPT ![c] = IF references = 1 THEN "last" ELSE "out"]
    /\ UNCHANGED <<obj, running, eventFd, signalled, tpc, handleVars>>

\* ... and deletes the object if the thread is not running.
LastRelease(c) ==
    /\ cpc[c] = "last"
    /\ IF obj = "freed"
       THEN obj' = obj /\ cpc' = [cpc EXCEPT ![c] = "ub"]
       ELSE /\ obj' = IF running THEN obj ELSE "freed"
            /\ cpc' = [cpc EXCEPT ![c] = "out"]
    /\ UNCHANGED <<references, running, eventFd, signalled, tpc, handleVars>>

-----------------------------------------------------------------------------
(* The thread: run() *)

\* The thread is at pc and the object is still there.
Thread(pc) == tpc = pc /\ obj = "live"

\* if (_references <= 0) GTHROW: caught at the end of run().
Check ==
    /\ Thread("check")
    /\ tpc' = IF references <= 0 THEN "tail" ELSE "setRunning"
    /\ UNCHANGED <<obj, references, running, eventFd, signalled, cpc, handleVars>>

SetRunning ==
    /\ Thread("setRunning")
    /\ running' = TRUE /\ tpc' = "init"
    /\ UNCHANGED <<obj, references, eventFd, signalled, cpc, handleVars>>

\* curl_multi_init and eventfd; either failure is thrown to the end of run().
InitMulti ==
    /\ Thread("init")
    /\ \/ eventFd' = TRUE /\ tpc' = "loop"
       \/ InitMayFail /\ eventFd' = FALSE /\ tpc' = "tail"
    /\ UNCHANGED <<obj, references, running, signalled, cpc, handleVars>>

Loop ==
    /\ Thread("loop")
    /\ tpc' = IF references > 0 THEN "reset1" ELSE "tail"
    /\ UNCHANGED <<obj, references, running, eventFd, signalled, cpc, handleVars>>

\* The two eventfd_reads of an iteration: before the queue is emptied ...
Reset1 ==
    /\ Thread("reset1")
    /\ signalled' = FALSE /\ tpc' = "pop"
    /\ UNCHANGED <<obj, references, running, eventFd, cpc, handleVars>>

\* while (_queue.pop (easy)) curl_multi_add_handle, one handle at a time.
Pop ==
    /\ Thread("pop")
    /\ \/ \E h \in Queued : at' = [at EXCEPT ![h] = "active"] /\ tpc' = tpc
       \/ Queued = {} /\ tpc' = "perform" /\ at' = at
    /\ UNCHANGED <<obj, references, running, eventFd, signalled, cpc, listener>>

\* curl_multi_perform: any of the active transfers finish.
Perform ==
    /\ Thread("perform")
    /\ \E F \in SUBSET {h \in Handles : at[h] = "active"} :
         at' = [h \in Handles |-> IF h \in F THEN "done" ELSE at[h]]
    /\ tpc' = "info"
    /\ UNCHANGED <<obj, references, running, eventFd, signalled, cpc, listener>>

\* What information() asks for (a set of FreeOptions) when it does not throw.
FreeOptions == SUBSET {"REMOVE_CURL_FROM_CURLM", "CURL_CLEANUP", "DELETE_LISTENER"}

Informed(h, fop) ==
    /\ at' = [at EXCEPT ![h] =
                  IF "CURL_CLEANUP" \in fop THEN "cleaned"
                  ELSE IF "REMOVE_CURL_FROM_CURLM" \in fop THEN "user" ELSE "kept"]
    /\ listener' = [listener EXCEPT ![h] = IF "DELETE_LISTENER" \in fop THEN "deleted" ELSE @]

\* One message of curl_multi_info_read: information() returns its options or
\* throws, which is logged; the loop ends with the last message.
Info ==
    /\ Thread("info")
    /\ LET msgs == {h \in Handles : at[h] = "done"}
       IN  \/ /\ msgs = {} /\ UNCHANGED handleVars
              /\ tpc' = "reset2"
           \/ \E h \in msgs :
                /\ \/ \E fop \in FreeOptions : Informed(h, fop)
                   \/ at' = [at EXCEPT ![h] = "kept"] /\ UNCHANGED listener
                /\ tpc' = IF msgs = {h} THEN "reset2" ELSE "info"
    /\ UNCHANGED <<obj, references, running, eventFd, signalled, cpc>>

\* ... and again after it, just before the wait.
Reset2 ==
    /\ Thread("reset2")
    /\ signalled' = FALSE /\ tpc' = "wait"
    /\ UNCHANGED <<obj, references, running, eventFd, cpc, handleVars>>

\* Mutation: curl_multi_wait without a timeout.
Wait_Forever ==
    /\ Thread("wait") /\ signalled
    /\ tpc' = "loop"
    /\ UNCHANGED <<obj, references, running, eventFd, signalled, cpc, handleVars>>

\* curl_multi_wait returns for the eventfd, for cURL's own descriptors or
\* after 100 ms: the timeout makes it enabled whatever happens.
Wait ==
    /\ Thread("wait")
    /\ tpc' = "loop"
    /\ UNCHANGED <<obj, references, running, eventFd, signalled, cpc, handleVars>>

\* Mutation: a thread that fails deletes the object under its holders.
Tail_Always ==
    /\ Thread("tail")
    /\ IF running
       THEN obj' = "freed" /\ tpc' = "exited"
       ELSE obj' = obj /\ tpc' = "clear"
    /\ UNCHANGED <<references, running, eventFd, signalled, cpc, handleVars>>

\* Mutation: the thread leaves the deletion to the clients.
Tail_Never ==
    /\ Thread("tail")
    /\ tpc' = IF running THEN "exited" ELSE "clear"
    /\ UNCHANGED <<obj, references, running, eventFd, signalled, cpc, handleVars>>

\* if (_running && _references == 0) delete this; else _running = false.
Tail ==
    /\ Thread("tail")
    /\ IF running /\ references = 0
       THEN obj' = "freed" /\ tpc' = "exited"
       ELSE obj' = obj /\ tpc' = "clear"
    /\ UNCHANGED <<references, running, eventFd, signalled, cpc, handleVars>>

Clear ==
    /\ Thread("clear")
    /\ running' = FALSE /\ tpc' = "exited"
    /\ UNCHANGED <<obj, references, eventFd, signalled, cpc, handleVars>>

\* The thread goes on after a client deleted the object.
Undefined ==
    /\ obj = "freed" /\ tpc \notin {"exited", "ub"}
    /\ tpc' = "ub"
    /\ UNCHANGED <<obj, references, running, eventFd, signalled, cpc, handleVars>>

-----------------------------------------------------------------------------
ThreadStep ==
    \/ Check \/ SetRunning \/ InitMulti \/ Loop \/ Reset1 \/ Pop \/ Perform
    \/ Info \/ Reset2 \/ Wait \/ Tail \/ Clear \/ Undefined
\* The steps a client completes once it has begun an operation.
ClientStep(c) == AddRef(c) \/ Wake(c) \/ LastRelease(c)
ClientCall(c) ==
    \/ Create(c) \/ Release(c)
    \/ \E d \in Clients : Copy(c, d)
    \/ \E h \in Handles : AddToCURLM(c, h)

Next == ThreadStep \/ \E c \in Clients : ClientStep(c) \/ ClientCall(c)

Spec == Init /\ [][Next]_vars

\* The OS schedules the thread and whoever is inside an operation.
Fairness == WF_vars(ThreadStep) /\ \A c \in Clients : WF_vars(ClientStep(c))
FairSpec == Spec /\ Fairness

-----------------------------------------------------------------------------
(* Properties *)

\* Every variable keeps its type (the members of runner.hpp:53-59).
TypeOK ==
    /\ obj \in {"none", "live", "freed"}
    /\ references \in Int
    /\ running \in BOOLEAN /\ eventFd \in BOOLEAN /\ signalled \in BOOLEAN
    /\ tpc \in {"unborn", "check", "setRunning", "init", "loop", "reset1", "pop", "perform",
                "info", "reset2", "wait", "tail", "clear", "exited", "ub"}
    /\ cpc \in [Clients -> {"out", "made", "holds", "wake", "last", "ub"}]
    /\ at \in [Handles -> {"user", "queue", "active", "done", "kept", "cleaned"}]
    /\ listener \in [Handles -> {"none", "alive", "deleted"}]

\* A client that has the object, also before its first reference and while it
\* is in addToCURLM, never finds it deleted: not by another client's release,
\* not by the thread (runner.hpp:113), not when run() gives up.
HeldAlive == \A c \in Clients : cpc[c] \in {"made", "holds", "wake"} => obj = "live"

\* The inductive strengthening: _references counts the holders; the creator
\* is alone until its first reference, during which the thread cannot have
\* got past its check; the client that dropped the last reference is alone.
CountsHolders == references = Cardinality(Holders)
Alone ==
    /\ \A c \in Clients : cpc[c] \in {"made", "last"} =>
         Holders = {} /\ \A d \in Clients \ {c} : cpc[d] \in {"out", "ub"}
    /\ (\E c \in Clients : cpc[c] = "made") =>
         obj = "live" /\ ~running /\ tpc \in {"check", "tail", "clear", "exited"}
    /\ Holders # {} => obj = "live"
    /\ obj = "none" => tpc = "unborn" /\ ~running /\ \A c \in Clients : cpc[c] = "out"
IInv == TypeOK /\ CountsHolders /\ Alone

\* Until information() is called for a handle, the listener that its
\* CURLOPT_PRIVATE points to has not been deleted (runner.hpp:90-95, 143-144).
ListenerAlive ==
    \A h \in Handles : at[h] \in {"queue", "active", "done"} => listener[h] = "alive"

\* A queued handle is given to cURL, although the second reset of the eventfd
\* may have eaten its wake-up, unless the thread has ended.
Served ==
    \A h \in Handles : at[h] = "queue" ~> at[h] # "queue" \/ tpc \in {"exited", "ub"}

\* "Delayed destruction" (runner.hpp:112): the object is deleted after its
\* last reference is gone, by whoever finds out last, unless cURL could not be
\* initialized (when each may leave it to the other).
InitFailed == tpc = "tail" /\ running /\ ~eventFd
Disposal == []~InitFailed => ((\E c \in Clients : cpc[c] = "last") ~> obj = "freed")

\* RunnerV2 "must be allocated with boost::intrusive_ptr" (runner.hpp:52,68):
\* when it is, and cURL could be initialized, its thread runs for its holders.
ServesHolders == Holders # {} => tpc \notin {"tail", "clear", "exited"}

\* "_running only becomes true if we're in the intrusive_ptr" (runner.hpp:69).
RunningMeansHeld == [][running' /\ ~running => Holders # {}]_vars

\* "Delayed destruction" (runner.hpp:112): the thread deletes the object only
\* when the client that dropped the last reference is through with it.
LastReleaseSafe == \A c \in Clients : cpc[c] # "ub"

\* eventfd_write "will wake the curl_multi_wait up" (runner.hpp:136): the
\* thread does not wait with a handle in the queue and the eventfd reset, but
\* for a client that is still to write it.
WakesUp ==
    tpc = "wait" /\ Queued # {} =>
        signalled \/ \E c \in Clients : cpc[c] = "wake"

\* The new listener "will be deleted by the Runner" (runner.hpp:143): a call
\* of addToCURLM always hands it over, with the handle.
ListenerHandedOver ==
    [][\A c \in Clients, h \in Handles : AddToCURLM(c, h) => at'[h] = "queue"]_vars
=============================================================================
