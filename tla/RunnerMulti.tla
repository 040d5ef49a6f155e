---------------------------- MODULE RunnerMulti ----------------------------
(* The cURL side of glim::Runner (runner.hpp:153-164, 188-200, 212-347,      *)
(* 376-393): handles given to multi() are added to the CURLM by the loop     *)
(* thread, driven by socket and timer events, and once finished their        *)
(* handler is called and they are freed.  cURL and libevent are external:    *)
(* a socket action may finish transfers and calls curlSocketCB and           *)
(* curlTimerCB as it likes; events of doInEv run in the order they were made.*)
(* The destructor is called by an owner that waited for the sockets and the  *)
(* events of doInEv, which all point to the Runner.                          *)
EXTENDS Naturals, Sequences, FiniteSets

CONSTANT Handles

ASSUME MultiAssumption == "init" \notin Handles /\ "cleanup" \notin Handles

VARIABLES
    runner,    \* "new", "live", "destroyed"
    curlm,     \* _curlm: the CURLM exists
    inbox,     \* the doInEv events that the loop has not run
    handlers,  \* the keys of _handlers
    closure,   \* the handlers that the destructor moved into its last event
    events,    \* the handles with a libevent event for their socket
    inMulti,   \* the handles in the CURLM
    msgs,      \* those that finished and were not yet read
    timer,     \* how far away _timer is: a member of DOMAIN Rank
    pc,        \* the loop thread: "idle", or in run(): "check", "restart"
    calls,     \* calls[h]: how often the handler of h was called
    frees      \* frees[h]: how often h was freed

vars == <<runner, curlm, inbox, handlers, closure, events, inMulti, msgs, timer, pc, calls, frees>>
counts == <<calls, frees>>

Rank == [off |-> 3, now |-> 0, short |-> 1, long |-> 2]

Init ==
    /\ runner = "new" /\ curlm = FALSE /\ inbox = <<>>
    /\ handlers = {} /\ closure = {} /\ events = {} /\ inMulti = {} /\ msgs = {}
    /\ timer = "off" /\ pc = "idle"
    /\ calls = [h \in Handles |-> 0] /\ frees = [h \in Handles |-> 0]

-----------------------------------------------------------------------------
(* Other threads *)

\* The constructor.
Construct ==
    /\ runner = "new"
    /\ runner' = "live" /\ inbox' = <<"init">>
    /\ UNCHANGED <<curlm, handlers, closure, events, inMulti, msgs, timer, pc, counts>>

Multi(h) ==
    /\ runner = "live" /\ h \notin handlers /\ frees[h] = 0
    /\ handlers' = handlers \cup {h}
    /\ inbox' = Append(inbox, h)
    /\ UNCHANGED <<runner, curlm, closure, events, inMulti, msgs, timer, pc, counts>>

\* ~Runner: the handlers are freed later, by the loop thread.
Destroy ==
    /\ runner = "live" /\ pc = "idle" /\ inbox = <<>> /\ events = {}
    /\ runner' = "destroyed" /\ timer' = "off"
    /\ closure' = handlers /\ handlers' = {}
    /\ inbox' = Append(inbox, "cleanup")
    /\ UNCHANGED <<curlm, events, inMulti, msgs, pc, counts>>

-----------------------------------------------------------------------------
(* The loop thread *)

DoInit ==
    /\ pc = "idle" /\ inbox # <<>> /\ Head(inbox) = "init"
    /\ curlm' = TRUE /\ timer' = "long"
    /\ inbox' = Tail(inbox)
    /\ UNCHANGED <<runner, handlers, closure, events, inMulti, msgs, pc, counts>>

\* curl_multi_socket_action: the handles of fin finish; curlSocketCB drops the
\* events of gone and restarts the timer with 0, and those of watch get an
\* event; curlTimerCB may restart the timer before or after that.  restartTimer
\* always sets the timer anew: event_pending gives the absolute time of the
\* timeout, whose tv_sec is never 0.  t is the timer as it is when the action
\* begins and multi the handles in the CURLM.
SocketAction(t, multi) ==
    \E fin \in SUBSET (multi \ msgs), gone \in SUBSET events, watch \in SUBSET multi :
        /\ fin \cap events \subseteq gone /\ watch \cap (msgs \cup fin) = {}
        /\ msgs' = msgs \cup fin
        /\ events' = (events \ gone) \cup (watch \cap handlers)
        /\ timer' \in {"short", "long", IF gone = {} THEN t ELSE "now"}

\* curl_multi_add_handle asks for the timer; with 0, curlTimerCB acts at once.
DoAdd(h) ==
    /\ pc = "idle" /\ inbox # <<>> /\ Head(inbox) = h
    /\ inMulti' = inMulti \cup {h}
    /\ SocketAction(timer, inMulti')
    /\ inbox' = Tail(inbox)
    /\ UNCHANGED <<runner, curlm, handlers, closure, pc, counts>>

\* Mutation: the handles are left in the CURLM that is cleaned up.
DoCleanup_Leaks ==
    /\ pc = "idle" /\ inbox # <<>> /\ Head(inbox) = "cleanup"
    /\ closure' = {} /\ curlm' = FALSE
    /\ inbox' = Tail(inbox)
    /\ UNCHANGED <<runner, handlers, events, inMulti, msgs, timer, pc, counts>>

\* The event of ~Runner.
DoCleanup ==
    /\ pc = "idle" /\ inbox # <<>> /\ Head(inbox) = "cleanup"
    /\ frees' = [h \in Handles |-> frees[h] + (IF h \in closure THEN 1 ELSE 0)]
    /\ closure' = {} /\ inMulti' = {} /\ msgs' = {} /\ curlm' = FALSE
    /\ inbox' = Tail(inbox)
    /\ UNCHANGED <<runner, handlers, events, timer, pc, calls>>

\* evSocketCB.
SocketFires ==
    /\ pc = "idle" /\ events # {}
    /\ SocketAction(timer, inMulti)
    /\ UNCHANGED <<runner, curlm, inbox, handlers, closure, inMulti, pc, counts>>

\* evTimerCB up to run(): the timer is not pending while it runs.
TimerFires ==
    /\ pc = "idle" /\ timer # "off"
    /\ SocketAction("off", inMulti)
    /\ pc' = "check"
    /\ UNCHANGED <<runner, curlm, inbox, handlers, closure, inMulti, counts>>

\* ~FreeCurl, when the handler of h returned or threw.
FreeCurl(h) ==
    /\ handlers' = handlers \ {h} /\ events' = events \ {h}
    /\ inMulti' = inMulti \ {h} /\ msgs' = msgs \ {h}
    /\ frees' = [frees EXCEPT ![h] = @ + 1]

\* Mutation: the handle of a handler that throws is kept.
Check_Keeps ==
    /\ pc = "check"
    /\ \/ /\ msgs = {} /\ pc' = "restart"
          /\ UNCHANGED <<handlers, events, inMulti, msgs, counts>>
       \/ \E h \in msgs :
            /\ calls' = [calls EXCEPT ![h] = @ + IF h \in handlers THEN 1 ELSE 0]
            /\ \/ FreeCurl(h) /\ pc' = (IF msgs = {h} THEN "restart" ELSE "check")
               \/ pc' = "restart" /\ UNCHANGED <<handlers, events, inMulti, msgs, frees>>
    /\ timer' \in {timer, "now"}
    /\ UNCHANGED <<runner, curlm, inbox, closure>>

\* checkForFinishedCurlJobs: the handler of each finished handle is called;
\* one that throws leaves the remaining messages to the next call of run().
\* curl_multi_remove_handle may call curlSocketCB, which restarts the timer.
Check ==
    /\ pc = "check"
    /\ \/ /\ msgs = {} /\ pc' = "restart"
          /\ UNCHANGED <<handlers, events, inMulti, msgs, counts>>
       \/ \E h \in msgs :
            /\ calls' = [calls EXCEPT ![h] = @ + IF h \in handlers THEN 1 ELSE 0]
            /\ FreeCurl(h)
            /\ pc' \in {"restart"} \cup (IF msgs = {h} THEN {} ELSE {"check"})
    /\ timer' \in {timer, "now"}
    /\ UNCHANGED <<runner, curlm, inbox, closure>>

\* Mutation: run() restarts the timer only if nothing is left to do.
Restart_Idle ==
    /\ pc = "restart"
    /\ timer' = IF msgs = {} THEN "long" ELSE "off"
    /\ pc' = "idle"
    /\ UNCHANGED <<runner, curlm, inbox, handlers, closure, events, inMulti, msgs, counts>>

\* The end of run(), after the jobs.
Restart ==
    /\ pc = "restart"
    /\ timer' = "long"
    /\ pc' = "idle"
    /\ UNCHANGED <<runner, curlm, inbox, handlers, closure, events, inMulti, msgs, counts>>

-----------------------------------------------------------------------------
Inbox == DoInit \/ DoCleanup \/ \E h \in Handles : DoAdd(h)
TimerCB == TimerFires \/ Check \/ Restart

Next ==
    \/ Construct \/ Destroy \/ (\E h \in Handles : Multi(h))
    \/ Inbox \/ SocketFires \/ TimerCB

Spec == Init /\ [][Next]_vars
\* The event loop is dispatched: it runs the events of doInEv and the timer.
FairSpec == Spec /\ WF_vars(Inbox) /\ WF_vars(TimerCB)

-----------------------------------------------------------------------------
(* Properties *)

Events == Handles \cup {"init", "cleanup"}

\* Every variable keeps its type, and the loop thread's sets their order: what
\* finished is in the CURLM, what is in the CURLM has its handler (in the
\* destructor's event, once it ran) and a socket event belongs to a handler.
TypeOK ==
    /\ runner \in {"new", "live", "destroyed"} /\ curlm \in BOOLEAN
    /\ timer \in DOMAIN Rank /\ pc \in {"idle", "check", "restart"}
    /\ msgs \subseteq inMulti /\ inMulti \subseteq handlers \cup closure
    /\ events \subseteq handlers /\ handlers \cup closure \subseteq Handles
    /\ inbox \in Seq(Events)
    /\ calls \in [Handles -> Nat] /\ frees \in [Handles -> Nat]

\* A handle is added to a CURLM that exists.
AddedToMulti == inMulti # {} => curlm

\* "Wait for the operation to complete, then call the handler, then free the
\* curl" (runner.hpp:340): the handler is called once, before the handle is
\* freed, which happens once; only the destructor frees without the call.
CalledThenFreed ==
    \A h \in Handles :
        /\ calls[h] <= 1 /\ frees[h] <= 1
        /\ frees[h] = 1 /\ runner = "live" => calls[h] = 1
        /\ h \in handlers => calls[h] = 0 /\ frees[h] = 0

\* While the Runner lives its timer is set, whatever handlers throw, so that
\* run() goes on being called.
TimerRuns == runner = "live" /\ curlm /\ pc = "idle" => timer # "off"

\* The inductive strengthening: a handle whose event is still to run is neither
\* in the CURLM nor freed, only the event of the constructor comes before the
\* CURLM, and after the destructor its own event is all that is left.
Waiting ==
    /\ \A j, k \in 1 .. Len(inbox) : inbox[j] = inbox[k] => j = k
    /\ runner = "live" =>
        /\ closure = {}
        /\ \A k \in 1 .. Len(inbox) :
            \/ inbox[k] \in handlers \ inMulti
            \/ k = 1 /\ inbox[k] = "init" /\ curlm = FALSE
        /\ curlm = FALSE => inbox # <<>> /\ Head(inbox) = "init"
Ended ==
    /\ runner # "live" =>
        /\ timer = "off" /\ pc = "idle" /\ events = {} /\ handlers = {}
        /\ inbox \in {<<>>, <<"cleanup">>}
        /\ curlm = TRUE <=> inbox = <<"cleanup">>
        /\ curlm = FALSE => closure = {}
    /\ runner = "new" => inbox = <<>> /\ \A h \in Handles : frees[h] = 0
    /\ \A h \in closure : frees[h] = 0
Started ==
    /\ curlm = FALSE => timer = "off" /\ pc = "idle" /\ events = {}
    /\ \A h \in Handles : calls[h] <= frees[h]
IInv == TypeOK /\ AddedToMulti /\ CalledThenFreed /\ TimerRuns /\ Waiting /\ Ended /\ Started

\* A transfer that finished, also one whose message was left because another
\* handler threw, is freed in the end; and so is everything a Runner that is
\* destroyed had been given.
Freed ==
    /\ \A h \in Handles : h \in msgs ~> frees[h] = 1
    /\ \A h \in Handles : runner = "destroyed" /\ h \in closure ~> frees[h] = 1

\* "Will reset the timer unless there is a shorter timer already set"
\* (runner.hpp:242): no step but the timer's own makes the timer longer.
ShorterTimerStays ==
    [][pc = "idle" /\ pc' = "idle" /\ runner' = "live" => Rank[timer'] <= Rank[timer]]_vars
=============================================================================
