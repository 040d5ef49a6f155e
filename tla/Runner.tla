------------------------------- MODULE Runner -------------------------------
(* glim::Runner as a whole (runner.hpp:153-394): the transfers of            *)
(* RunnerMulti and the jobs of RunnerJobs share one timer, one mutex and one *)
(* thread. evTimerCB calls run(), which calls the handlers of the finished   *)
(* transfers and copies the jobs that are due while it has _mutex, runs the  *)
(* copies without it, and restarts the timer at the end. Nothing else gets   *)
(* the jobs run, and neither part may keep the timer from the other.         *)
EXTENDS RunnerMulti

CONSTANTS Names, RandNames, Jobs, Empty, NoJob, EventLoop, Schedulers   \* of RunnerJobs

\* The callers do not use the names that are made up.
ASSUME RunnerAssumption ==
    Names \cap RandNames = {} /\ NoJob \notin Jobs /\ Empty \notin Jobs /\ Empty # NoJob

VARIABLES
    jobs, due, handed, copied, current, chosen, refused,    \* of RunnerJobs
    hasCopied   \* run() has copied the jobs

jobVars == <<jobs, due, handed, copied, current, chosen, refused>>
runnerVars == <<vars, jobVars, hasCopied>>

J == INSTANCE RunnerJobs WITH Loopers <- {EventLoop}

\* What RunnerMulti does but for run().
KeepJobs == UNCHANGED <<jobVars, hasCopied>>

\* The mutex is held from the first handler to the last copy. It is recursive:
\* the handlers may give the Runner more to do.
Unlocked == pc # "restart" \/ hasCopied

\* What other threads, handlers and jobs ask of the Runner.
Asked ==
    /\ runner = "live" /\ Unlocked
    /\ \/ \E n \in Names : \/ J!RemoveJob(n) \/ J!Job(n)
                          \/ \E j \in J!Fresh : J!Schedule(n, j)
       \/ \E s \in Schedulers, j \in J!Fresh : J!ScheduleChosen(s, j)
    /\ UNCHANGED <<vars, hasCopied>>

\* What they do without the mutex: the caller of job() fills in the entry, and
\* schedule() looks for a free name.
AskedUnlocked ==
    /\ runner = "live"
    /\ \/ \E n \in Names, j \in J!Fresh : J!FillIn(n, j)
       \/ \E s \in Schedulers, n \in RandNames : J!ChooseName(s, n)
    /\ UNCHANGED <<vars, hasCopied>>

Elapse(n) == J!Elapse(n) /\ UNCHANGED <<vars, hasCopied>>

\* run() after the handlers: the copies of the jobs that are due, ...
CopyJobs ==
    /\ pc = "restart" /\ ~hasCopied
    /\ IF J!ShouldRun = {} THEN UNCHANGED jobVars ELSE J!Copy(EventLoop)
    /\ hasCopied' = TRUE
    /\ UNCHANGED vars

\* ... the copies one by one, ...
RunJob ==
    /\ pc = "restart" /\ hasCopied
    /\ \/ \E c \in copied[EventLoop] : J!Start(EventLoop, c)
       \/ \E c \in current[EventLoop] : J!Return(EventLoop, c)
    /\ UNCHANGED <<vars, hasCopied>>

\* ... and the timer.
End ==
    /\ hasCopied /\ copied[EventLoop] = {} /\ current[EventLoop] = {}
    /\ Restart
    /\ hasCopied' = FALSE
    /\ UNCHANGED jobVars

Run ==
    \/ (TimerFires \/ Check) /\ KeepJobs
    \/ CopyJobs \/ RunJob \/ End

RunnerInit == Init /\ J!Init /\ hasCopied = FALSE

RunnerNext ==
    \/ (Construct \/ Destroy \/ Inbox \/ SocketFires) /\ KeepJobs
    \/ (\E h \in Handles : Unlocked /\ Multi(h)) /\ KeepJobs
    \/ Asked \/ AskedUnlocked \/ (\E n \in J!AllNames : Elapse(n))
    \/ Run

\* The event loop is dispatched, the handlers and jobs that it calls return,
\* and time passes.
RunnerSpec ==
    /\ RunnerInit /\ [][RunnerNext]_runnerVars
    /\ WF_runnerVars(Inbox /\ KeepJobs) /\ WF_runnerVars(Run)
    /\ \A n \in J!AllNames : WF_runnerVars(Elapse(n))
-----------------------------------------------------------------------------
(* Properties. CalledThenFreed, TimerRuns and Freed are RunnerMulti's.       *)

\* "The job must return true if Runner is to continue invoking it"
\* (runner.hpp:167): a job that returned false is not invoked again, unless it
\* is registered again, whoever removed, replaced or rewrote the jobs that the
\* loop had copied meanwhile.
NotAfterFalse == J!NotAfterFalse

\* A job that was registered without a name stays as long as it does not return
\* false itself, and one with a name until it does or a caller removes or
\* replaces it by name; but when it took the name of a job that run() had
\* copied, the false of that one removes it (runner.hpp:387).
KeptUnlessFalse == J!KeptUnlessFalse

\* A scheduled job is run by the loop, or it is removed or replaced or the
\* Runner is destroyed, whatever the handlers and the other jobs do: run() is
\* called again because each run() sets the timer.
Invoked ==
    \A n \in J!AllNames, j \in Jobs :
        jobs[n] = j ~> \/ jobs[n] # j \/ <<n, j>> \in current[EventLoop]
                       \/ runner = "destroyed"

\* The inductive strengthening: a job is in one place, which is its name or a
\* copy of what was there, and in none when it returned false. Copies have the
\* names of different entries.
Copies == copied[EventLoop] \cup current[EventLoop]
Functors == Jobs \cup {Empty}
JobsOK ==
    /\ jobs \in [J!AllNames -> Functors \cup {NoJob}]
    /\ copied \in [{EventLoop} -> SUBSET (J!AllNames \X Functors)]
    /\ current \in [{EventLoop} -> SUBSET (J!AllNames \X Functors)]
    /\ chosen \in [Schedulers -> RandNames \cup {NoJob}]
    /\ refused \subseteq Jobs
OneJob ==
    /\ \A m, n \in J!AllNames : jobs[m] = jobs[n] /\ jobs[m] \in Jobs => m = n
    /\ \A c \in Copies, n \in J!AllNames : jobs[n] = c[2] /\ c[2] \in Jobs => n = c[1]
    /\ \A c, d \in Copies : c[1] = d[1] \/ (c[2] = d[2] /\ c[2] \in Jobs) => c = d
    /\ copied[EventLoop] \cap current[EventLoop] = {}
    /\ \A c, d \in current[EventLoop] : c = d
Refused ==
    /\ \A n \in J!AllNames : jobs[n] \notin refused
    /\ \A c \in Copies : c[2] \notin refused
JobsInv == JobsOK /\ OneJob /\ Refused

\* With one caller of the schedule() that makes up names: nobody else takes the
\* name while it looks, and what has the made-up name of a copy is the job copied.
NamesKept ==
    /\ \A c \in Copies : c[1] \in RandNames => jobs[c[1]] = c[2]
    /\ \A s \in Schedulers : chosen[s] # NoJob =>
            jobs[chosen[s]] = NoJob /\ \A c \in Copies : c[1] # chosen[s]
=============================================================================
