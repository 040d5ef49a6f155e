----------------------------- MODULE RunnerJobs ----------------------------
(* The periodic jobs of glim::Runner (runner.hpp:166-210, 348-394): a map    *)
(* from names to jobs, changed under _mutex by any thread.  run() copies the *)
(* jobs that are due under the mutex, runs the copies without it, and        *)
(* removes by name those that return false.  The libevent timer calls run()  *)
(* for ever; it "can also be invoked manually", from other threads.          *)
(* Any name may be used again at any time, also while its job is being run.  *)
(* job() only makes the entry, under the mutex: its caller fills it in later *)
(* through the reference, without the mutex.  That is one step here, so that *)
(* no copy is made of a half written entry, and what is written through the  *)
(* reference to an erased entry is lost (in the code, both are undefined).   *)
EXTENDS Naturals, FiniteSets

CONSTANTS
    Names,        \* names given by the callers of schedule(), job(), removeJob()
    RandNames,    \* names made up by the schedule() without a name
    Jobs,         \* job functors; one is registered once at a time
    Empty,        \* the functor of an entry that job() made
    NoJob,        \* no entry
    Loopers,      \* the threads that call run()
    Schedulers    \* the threads that call the schedule() without a name

AllNames == Names \cup RandNames

VARIABLES
    jobs,      \* _jobs: the functor registered under each name
    due,       \* the names whose job is to be run (shouldRun)
    handed,    \* the names whose entry a caller of job() may still fill in
    copied,    \* per looper: the <<name, job>> copied and not yet run
    current,   \* per looper: the one that it is running, as a set
    chosen,    \* per scheduler: the name that was free when it looked
    refused    \* the jobs that returned false since they were registered (history)

vars == <<jobs, due, handed, copied, current, chosen, refused>>
copyVars == <<copied, current>>
mapVars == <<jobs, due, handed>>

\* Neither registered nor copied.
Fresh == {j \in Jobs :
            /\ \A n \in AllNames : jobs[n] # j
            /\ \A l \in Loopers : \A c \in copied[l] \cup current[l] : c[2] # j}

Init ==
    /\ jobs = [n \in AllNames |-> NoJob] /\ due = {} /\ handed = {}
    /\ copied = [l \in Loopers |-> {}] /\ current = [l \in Loopers |-> {}]
    /\ chosen = [s \in Schedulers |-> NoJob] /\ refused = {}

\* The locked part of schedule(): with a pause the job was "ran" just now, and
\* without one it is due.
Register(n, j) ==
    /\ jobs' = [jobs EXCEPT ![n] = j] /\ refused' = refused \ {j}
    /\ due' \in {due \ {n}, due \cup {n}}
    /\ UNCHANGED <<handed, copyVars>>

Schedule(n, j) == Register(n, j) /\ UNCHANGED chosen

\* job(): the entry is made, unless there is one, and the caller gets it.
Job(n) ==
    /\ n \notin handed
    /\ \/ jobs[n] = NoJob /\ jobs' = [jobs EXCEPT ![n] = Empty] /\ due' = due \cup {n}
       \/ jobs[n] # NoJob /\ UNCHANGED <<jobs, due>>
    /\ handed' = handed \cup {n}
    /\ UNCHANGED <<copyVars, chosen, refused>>

\* The caller of job() sets the functor and pauseSec, without the mutex; whether
\* the new pause is over depends on when the job ran last.
FillIn(n, j) ==
    /\ n \in handed /\ handed' = handed \ {n}
    /\ jobs' = [jobs EXCEPT ![n] = j] /\ refused' = refused \ {j}
    /\ due' \in {due \ {n}, due \cup {n}}
    /\ UNCHANGED <<copyVars, chosen>>

\* schedule() without a name: it looks the name up without _mutex ...
ChooseName(s, n) ==
    /\ chosen[s] = NoJob /\ jobs[n] = NoJob
    /\ chosen' = [chosen EXCEPT ![s] = n]
    /\ UNCHANGED <<mapVars, copyVars, refused>>

\* ... and then schedules under it.
ScheduleChosen(s, j) ==
    /\ chosen[s] # NoJob
    /\ Register(chosen[s], j)
    /\ chosen' = [chosen EXCEPT ![s] = NoJob]

\* _jobs.erase; the reference that job() returned is dangling.
Erase(n) ==
    /\ jobs' = [jobs EXCEPT ![n] = NoJob]
    /\ due' = due \ {n} /\ handed' = handed \ {n}

RemoveJob(n) == jobs[n] # NoJob /\ Erase(n) /\ UNCHANGED <<copyVars, chosen, refused>>

\* pauseSec has passed since jobInfo.ran: at once, when it is not positive.
Elapse(n) ==
    /\ jobs[n] # NoJob /\ n \notin due
    /\ due' = due \cup {n}
    /\ UNCHANGED <<jobs, handed, copyVars, chosen, refused>>

\* shouldRun.
ShouldRun == {n \in AllNames : jobs[n] # NoJob /\ n \in due}

\* The locked part of run(): copy the jobs that shouldRun(), which sets ran.
Copy(l) ==
    /\ copied[l] = {} /\ current[l] = {}
    /\ ShouldRun # {}
    /\ copied' = [copied EXCEPT ![l] = {<<n, jobs[n]>> : n \in ShouldRun}]
    /\ due' = due \ ShouldRun
    /\ UNCHANGED <<jobs, handed, current, chosen, refused>>

Start(l, c) ==
    /\ current[l] = {} /\ c \in copied[l]
    /\ current' = [current EXCEPT ![l] = {c}]
    /\ copied' = [copied EXCEPT ![l] = @ \ {c}]
    /\ UNCHANGED <<mapVars, chosen, refused>>

\* The functor returned false.
False(c) == c[2] # Empty /\ refused' = refused \cup {c[2]}

\* Mutation: a job that throws is removed too.
Return_Careless(l, c) ==
    /\ c \in current[l]
    /\ current' = [current EXCEPT ![l] = {}]
    /\ False(c) \/ UNCHANGED refused
    /\ Erase(c[1])
    /\ UNCHANGED <<copied, chosen>>

\* Mutation: the job is kept although it returned false.
Return_Keep(l, c) ==
    /\ c \in current[l]
    /\ current' = [current EXCEPT ![l] = {}]
    /\ False(c) \/ UNCHANGED refused
    /\ UNCHANGED <<mapVars, copied, chosen>>

\* Mutation: the catch is around the loop, so the remaining copies are lost.
Return_CatchOutside(l, c) ==
    /\ c \in current[l]
    /\ current' = [current EXCEPT ![l] = {}]
    /\ \/ UNCHANGED <<mapVars, refused>> /\ copied' \in {copied, [copied EXCEPT ![l] = {}]}
       \/ False(c) /\ Erase(c[1]) /\ UNCHANGED copied
    /\ UNCHANGED chosen

\* The job returns true or throws (which is logged), as an empty functor does,
\* and stays, or returns false and whatever has its name now is removed.
Return(l, c) ==
    /\ c \in current[l]
    /\ current' = [current EXCEPT ![l] = {}]
    /\ \/ UNCHANGED <<mapVars, refused>>
       \/ False(c) /\ Erase(c[1])
    /\ UNCHANGED <<copied, chosen>>

Loop(l) ==
    \/ Copy(l)
    \/ \E c \in copied[l] : Start(l, c)
    \/ \E c \in current[l] : Return(l, c)

\* What the callers that know the name n do with its job.
Named(n) == RemoveJob(n) \/ Job(n) \/ \E j \in Fresh : Schedule(n, j) \/ FillIn(n, j)

Next ==
    \/ \E n \in Names : Named(n)
    \/ \E s \in Schedulers : \/ \E n \in RandNames : ChooseName(s, n)
                             \/ \E j \in Fresh : ScheduleChosen(s, j)
    \/ \E n \in AllNames : Elapse(n)
    \/ \E l \in Loopers : Loop(l)

Spec == Init /\ [][Next]_vars

\* run() is called again and again (every call of it ends with restartTimer),
\* jobs return, and time passes.
Fairness ==
    /\ \A l \in Loopers : WF_vars(Loop(l))
    /\ \A n \in AllNames : WF_vars(Elapse(n))
FairSpec == Spec /\ Fairness

-----------------------------------------------------------------------------
(* Properties *)

\* "The job must return true if Runner is to continue invoking it"
\* (runner.hpp:167): a job that returned false is not invoked again, unless it
\* is registered again, whoever removed, replaced or rewrote the jobs that were
\* copied meanwhile. (Not so when two threads call run().)
NotAfterFalse == \A l \in Loopers : \A c \in current[l] : c[2] \notin refused

\* A job that was registered without a name stays as long as it does not return
\* false itself, whatever the others do and return. (Not so when two threads
\* find the same name free.) A job with a name stays until it returns false or a
\* caller removes or replaces it by its name, with this exception: when it took
\* the name of a job that run() had copied, the false of that one removes it.
FalseOfAnother(n) ==
    \E l \in Loopers : \E c \in current[l] : c[1] = n /\ c[2] # jobs[n] /\ c[2] \in refused'
Kept(n) ==
    jobs[n] \notin {NoJob, jobs'[n]} =>
        jobs[n] \in refused' \/ (n \in Names /\ (Named(n) \/ FalseOfAnother(n)))
KeptUnlessFalse == [][\A n \in AllNames : Kept(n)]_vars

\* KeptUnlessFalse without its exception.
RemovedByOwnFalse ==
    [][\A n \in AllNames : jobs[n] # NoJob /\ jobs'[n] = NoJob =>
         jobs[n] \in refused' \/ RemoveJob(n)]_vars

\* "Find a unique job name" (runner.hpp:364): a job scheduled without a name
\* does not take the place of another job.
UniqueName ==
    [][\A n \in RandNames : jobs[n] # NoJob => jobs'[n] \in {jobs[n], NoJob}]_vars

\* A scheduled job is run, or else it is removed or replaced, whatever the
\* other jobs do and return.
Invoked ==
    \A n \in AllNames, j \in Jobs :
        jobs[n] = j ~> jobs[n] # j \/ \E l \in Loopers : <<n, j>> \in current[l]
=============================================================================
