----------------------------- MODULE LoopProofs ----------------------------
(* Proofs about what works on an event loop: Runner for any sets of handles, *)
(* names, jobs and callers (its transfers, RunnerMulti, its jobs, RunnerJobs *)
(* with the one loop, and the two together, each of which leaves the other   *)
(* as it would be alone), and Hget for any number of URLs and requests.      *)
EXTENDS Runner, Hget, FiniteSetTheorems, TLAPS

\* What a socket action leaves of the invariant, for the handles in the CURLM.
LEMMA SocketKeeps ==
    ASSUME TypeOK, NEW t, NEW multi \in SUBSET (handlers \cup closure), msgs \subseteq multi,
           t \in DOMAIN Rank, SocketAction(t, multi)
    PROVE  /\ msgs' \subseteq multi /\ events' \subseteq handlers
           /\ timer' \in DOMAIN Rank /\ (t # "off" => timer' # "off")
           /\ t = "off" => timer' \in DOMAIN Rank
BY DEF SocketAction, TypeOK, Rank

\* An event made last follows the others.
LEMMA Appended ==
    ASSUME NEW S, NEW q \in Seq(S), NEW e \in S
    PROVE  /\ Append(q, e) \in Seq(S) /\ Len(Append(q, e)) = Len(q) + 1 /\ Len(q) \in Nat
           /\ \A k \in 1 .. Len(q) : Append(q, e)[k] = q[k]
           /\ Append(q, e)[Len(q) + 1] = e
           /\ Append(q, e) # <<>> /\ (q # <<>> => Head(Append(q, e)) = Head(q))
<1>1. /\ Append(q, e) \in Seq(S) /\ Len(Append(q, e)) = Len(q) + 1 /\ Len(q) \in Nat
      /\ \A k \in 1 .. Len(q) : Append(q, e)[k] = q[k]
      /\ Append(q, e)[Len(q) + 1] = e
  OBVIOUS
<1>2. Append(q, e) # <<>>
  BY <1>1
<1>3. q # <<>> => Head(Append(q, e)) = Head(q)
  BY <1>1
<1> QED
  BY <1>1, <1>2, <1>3

\* The events after the first one.
LEMMA Dequeued ==
    ASSUME NEW S, NEW q \in Seq(S), q # <<>>
    PROVE  /\ Tail(q) \in Seq(S) /\ Len(Tail(q)) = Len(q) - 1 /\ Len(q) \in Nat /\ Len(q) >= 1
           /\ \A k \in 1 .. Len(Tail(q)) : k + 1 \in 1 .. Len(q) /\ Tail(q)[k] = q[k + 1]
           /\ Head(q) = q[1] /\ Head(q) \in S
OBVIOUS

\* The steps of the owner and of the threads that call multi().
LEMMA CallKeepsInv ==
    ASSUME IInv, Construct \/ Destroy \/ \E h \in Handles : Multi(h)
    PROVE  IInv'
<1> USE DEF IInv, TypeOK, AddedToMulti, CalledThenFreed, TimerRuns, Waiting, Ended, Started, counts
<1>1. CASE Construct
  <2>1. /\ inbox' = <<"init">> /\ Len(inbox') = 1 /\ inbox'[1] = "init" /\ Head(inbox') = "init"
        /\ inbox' \in Seq(Events)
    BY <1>1 DEF Construct, Events
  <2>2. curlm = FALSE /\ closure = {}
    BY <1>1 DEF Construct
  <2> QED
    BY <1>1, <2>1, <2>2 DEF Construct, Rank
<1>2. ASSUME NEW h \in Handles, Multi(h) PROVE IInv'
  <2>1. inbox \in Seq(Events) /\ h \in Events /\ inbox' = Append(inbox, h)
    BY <1>2 DEF Multi, Events
  <2>2. /\ inbox' \in Seq(Events) /\ Len(inbox') = Len(inbox) + 1 /\ Len(inbox) \in Nat
        /\ \A k \in 1 .. Len(inbox) : inbox'[k] = inbox[k]
        /\ inbox'[Len(inbox) + 1] = h
        /\ inbox' # <<>> /\ (inbox # <<>> => Head(inbox') = Head(inbox))
    BY <2>1, Appended
  <2>3. h \notin handlers /\ h \notin inMulti /\ runner = "live" /\ frees[h] = 0 /\ closure = {}
    BY <1>2 DEF Multi
  <2>4. \A k \in 1 .. Len(inbox) : inbox[k] # h
    BY <2>3, MultiAssumption
  <2>5. TypeOK'
    BY <1>2, <2>2 DEF Multi
  <2>6. calls[h] = 0
    BY <2>3
  <2>7. CalledThenFreed'
    BY <1>2, <2>3, <2>6 DEF Multi
  <2>8. Waiting'
    <3>1. ASSUME NEW j \in 1 .. Len(inbox'), NEW k \in 1 .. Len(inbox'), inbox'[j] = inbox'[k]
          PROVE  j = k
      <4>1. j \in 1 .. Len(inbox) \/ j = Len(inbox) + 1
        BY <2>2
      <4>2. k \in 1 .. Len(inbox) \/ k = Len(inbox) + 1
        BY <2>2
      <4>3. CASE j \in 1 .. Len(inbox) /\ k \in 1 .. Len(inbox)
        <5>1. inbox[j] = inbox[k]
          BY <2>2, <3>1, <4>3
        <5> QED
          BY <4>3, <5>1
      <4>4. CASE j = Len(inbox) + 1 /\ k \in 1 .. Len(inbox)
        BY <2>2, <2>4, <3>1, <4>4
      <4>5. CASE j \in 1 .. Len(inbox) /\ k = Len(inbox) + 1
        BY <2>2, <2>4, <3>1, <4>5
      <4> QED
        BY <4>1, <4>2, <4>3, <4>4, <4>5
    <3> QED
      BY <1>2, <2>2, <2>3, <3>1 DEF Multi
  <2> QED
    BY <1>2, <2>3, <2>5, <2>7, <2>8 DEF Multi
<1>3. CASE Destroy
  <2>1. /\ inbox' = <<"cleanup">> /\ Len(inbox') = 1
        /\ inbox' \in Seq(Events)
    BY <1>3 DEF Destroy, Events
  <2>2. curlm = TRUE /\ events = {} /\ pc = "idle"
    BY <1>3 DEF Destroy
  <2> QED
    BY <1>3, <2>1, <2>2 DEF Destroy, Rank
<1> QED
  BY <1>1, <1>2, <1>3

\* The events of doInEv.
LEMMA InboxKeepsInv ==
    ASSUME IInv, Inbox
    PROVE  IInv'
<1> USE DEF IInv, TypeOK, AddedToMulti, CalledThenFreed, TimerRuns, Waiting, Ended, Started, counts
<1>1. inbox \in Seq(Events) /\ inbox # <<>> /\ inbox' = Tail(inbox)
  BY DEF Inbox, DoInit, DoCleanup, DoAdd
<1>2. /\ inbox' \in Seq(Events) /\ Len(inbox') = Len(inbox) - 1 /\ Len(inbox) \in Nat /\ Len(inbox) >= 1
      /\ \A k \in 1 .. Len(inbox') : k + 1 \in 1 .. Len(inbox) /\ inbox'[k] = inbox[k + 1]
      /\ Head(inbox) = inbox[1] /\ 1 \in 1 .. Len(inbox)
  BY <1>1, Dequeued
<1>3. ASSUME NEW j \in 1 .. Len(inbox'), NEW k \in 1 .. Len(inbox'), inbox'[j] = inbox'[k]
      PROVE  j = k
  <2>1. inbox[j + 1] = inbox[k + 1] /\ j + 1 \in 1 .. Len(inbox) /\ k + 1 \in 1 .. Len(inbox)
    BY <1>2, <1>3
  <2>2. j + 1 = k + 1
    BY <2>1
  <2> QED
    BY <2>2
<1>4. ASSUME NEW k \in 1 .. Len(inbox') PROVE inbox'[k] # inbox[1]
  <2>1. inbox'[k] = inbox[k + 1] /\ k + 1 \in 1 .. Len(inbox) /\ k + 1 # 1
    BY <1>2
  <2> QED
    BY <1>2, <2>1
<1>5. ASSUME runner = "live", NEW k \in 1 .. Len(inbox') PROVE inbox'[k] \in handlers \ inMulti
  <2>1. inbox'[k] = inbox[k + 1] /\ k + 1 \in 1 .. Len(inbox) /\ k + 1 # 1
    BY <1>2
  <2> QED
    BY <1>5, <2>1
<1>6. CASE DoInit
  <2>1. runner = "live" /\ curlm = FALSE /\ closure = {}
    BY <1>2, <1>6, MultiAssumption DEF DoInit
  <2>2. TypeOK'
    BY <1>2, <1>6 DEF DoInit, Rank
  <2> QED
    BY <1>3, <1>5, <1>6, <2>1, <2>2 DEF DoInit
<1>7. CASE DoCleanup
  <2>1. runner = "destroyed" /\ inbox = <<"cleanup">>
    BY <1>2, <1>7, MultiAssumption DEF DoCleanup
  <2>2. inbox' = <<>>
    BY <1>1, <2>1
  <2>3. frees' \in [Handles -> Nat] /\ \A h \in Handles : frees'[h] <= 1
    BY <1>7 DEF DoCleanup
  <2>4. TypeOK'
    BY <1>2, <1>7, <2>3 DEF DoCleanup
  <2> QED
    BY <1>3, <1>7, <2>1, <2>2, <2>3, <2>4 DEF DoCleanup
<1>8. ASSUME NEW h \in Handles, DoAdd(h) PROVE IInv'
  <2>1. runner = "live" /\ curlm = TRUE /\ h \in handlers /\ inbox[1] = h
    BY <1>2, <1>8, MultiAssumption DEF DoAdd
  <2>2. inMulti' = inMulti \cup {h} /\ SocketAction(timer, inMulti') /\ pc = "idle"
    BY <1>8 DEF DoAdd
  <2>3. /\ msgs' \subseteq inMulti' /\ events' \subseteq handlers
        /\ timer' \in DOMAIN Rank /\ (timer # "off" => timer' # "off")
    BY <2>1, <2>2, SocketKeeps
  <2>4. TypeOK'
    BY <1>2, <1>8, <2>1, <2>2, <2>3 DEF DoAdd
  <2> QED
    BY <1>3, <1>4, <1>5, <1>8, <2>1, <2>2, <2>3, <2>4 DEF DoAdd
<1> QED
  BY <1>6, <1>7, <1>8 DEF Inbox

\* The timer's callback, with the handlers it calls, and the socket events.
LEMMA LoopKeepsInv ==
    ASSUME IInv, SocketFires \/ TimerCB
    PROVE  IInv'
<1> USE DEF IInv, TypeOK, AddedToMulti, CalledThenFreed, TimerRuns, Waiting, Ended, Started, counts
<1>1. runner = "live" /\ curlm = TRUE /\ closure = {}
  BY DEF SocketFires, TimerCB, TimerFires, Check, Restart
<1>2. CASE SocketFires
  <2>1. /\ msgs' \subseteq inMulti /\ events' \subseteq handlers
        /\ timer' \in DOMAIN Rank /\ (timer # "off" => timer' # "off")
    BY <1>2, SocketKeeps DEF SocketFires
  <2> QED
    BY <1>1, <1>2, <2>1 DEF SocketFires
<1>3. CASE TimerFires
  <2>1. /\ msgs' \subseteq inMulti /\ events' \subseteq handlers /\ timer' \in DOMAIN Rank
    BY <1>3, SocketKeeps DEF TimerFires, Rank
  <2> QED
    BY <1>1, <1>3, <2>1 DEF TimerFires
<1>4. CASE Check
  <2>1. timer' \in DOMAIN Rank /\ pc' \in {"check", "restart"} /\ inbox' = inbox
        /\ runner' = runner /\ curlm' = curlm /\ closure' = closure
    BY <1>4 DEF Check, Rank
  <2>2. CASE UNCHANGED <<handlers, events, inMulti, msgs, counts>>
    BY <1>1, <2>1, <2>2 DEF counts
  <2>3. ASSUME NEW h \in msgs, FreeCurl(h),
               calls' = [calls EXCEPT ![h] = @ + IF h \in handlers THEN 1 ELSE 0]
        PROVE  IInv'
    <3>1. h \in handlers /\ calls[h] = 0 /\ frees[h] = 0 /\ h \in inMulti
      BY <1>1
    <3>2. /\ calls' = [calls EXCEPT ![h] = 1] /\ frees' = [frees EXCEPT ![h] = 1]
      BY <2>3, <3>1 DEF FreeCurl
    <3>3. TypeOK'
      BY <2>1, <2>3, <3>2 DEF FreeCurl
    <3>4. CalledThenFreed'
      BY <2>1, <2>3, <3>2 DEF FreeCurl
    <3>5. Waiting'
      BY <1>1, <2>1, <2>3, <3>1 DEF FreeCurl
    <3> QED
      BY <1>1, <2>1, <2>3, <3>3, <3>4, <3>5 DEF FreeCurl
  <2> QED
    BY <1>4, <2>2, <2>3 DEF Check
<1>5. CASE Restart
  BY <1>1, <1>5 DEF Restart, counts, Rank
<1> QED
  BY <1>2, <1>3, <1>4, <1>5 DEF TimerCB

\* The inductive invariant holds in every behaviour.
THEOREM Invariance == Spec => []IInv
<1>1. Init => IInv
  <2> SUFFICES ASSUME Init PROVE IInv
    OBVIOUS
  <2>1. inbox = <<>> /\ inbox \in Seq(Events) /\ Len(inbox) = 0
    BY DEF Init
  <2>2. TypeOK
    BY <2>1 DEF Init, TypeOK, Rank
  <2> QED
    BY <2>1, <2>2 DEF Init, IInv, AddedToMulti, CalledThenFreed, TimerRuns, Waiting, Ended, Started
<1>2. IInv /\ [Next]_vars => IInv'
  <2> SUFFICES ASSUME IInv, [Next]_vars PROVE IInv'
    OBVIOUS
  <2>1. CASE UNCHANGED vars
    BY <2>1 DEF vars, counts, IInv, TypeOK, AddedToMulti, CalledThenFreed, TimerRuns, Waiting,
        Ended, Started
  <2> QED
    BY <2>1, CallKeepsInv, InboxKeepsInv, LoopKeepsInv DEF Next
<1> QED
  BY <1>1, <1>2, PTL DEF Spec

\* Every handler is called once and its handle then freed once.
THEOREM HandlersAreCalledOnce == Spec => []CalledThenFreed
<1>1. IInv => CalledThenFreed
  BY DEF IInv
<1> QED
  BY <1>1, Invariance, PTL

\* The timer of a Runner that lives is never lost.
THEOREM TimerIsSet == Spec => []TimerRuns
<1>1. IInv => TimerRuns
  BY DEF IInv
<1> QED
  BY <1>1, Invariance, PTL
-----------------------------------------------------------------------------
(* The jobs *)

\* The two parts of the Runner: each step is one of RunnerMulti, and one of
\* RunnerJobs, or leaves their variables alone.
LEMMA RunnerStep == [RunnerNext]_runnerVars => [Next]_vars /\ [J!Next]_(J!vars)
<1> SUFFICES ASSUME [RunnerNext]_runnerVars PROVE [Next]_vars /\ [J!Next]_(J!vars)
  OBVIOUS
<1> USE DEF jobVars, J!vars
<1>1. CASE UNCHANGED runnerVars
  BY <1>1 DEF runnerVars
<1>2. CASE (Construct \/ Destroy \/ Inbox \/ SocketFires) /\ KeepJobs
  BY <1>2 DEF Next, KeepJobs
<1>3. CASE (\E h \in Handles : Unlocked /\ Multi(h)) /\ KeepJobs
  BY <1>3 DEF Next, KeepJobs
<1>4. CASE Asked \/ AskedUnlocked \/ (\E n \in J!AllNames : Elapse(n))
  BY <1>4 DEF Asked, AskedUnlocked, Elapse, J!Next, J!Named
<1>5. CASE (TimerFires \/ Check) /\ KeepJobs
  BY <1>5 DEF Next, TimerCB, KeepJobs
<1>6. CASE CopyJobs
  BY <1>6 DEF CopyJobs, J!Next, J!Loop
<1>7. CASE RunJob
  BY <1>7 DEF RunJob, J!Next, J!Loop
<1>8. CASE End
  BY <1>8 DEF End, Next, TimerCB
<1> QED
  BY <1>1, <1>2, <1>3, <1>4, <1>5, <1>6, <1>7, <1>8 DEF RunnerNext, Run

\* The transfers of the Runner are those of RunnerMulti, its jobs are those of
\* RunnerJobs with one loop: what is proved of the parts holds in the whole.
THEOREM RunnerImplementsMulti == RunnerSpec => Spec
<1>1. RunnerInit => Init
  BY DEF RunnerInit
<1>2. [RunnerNext]_runnerVars => [Next]_vars
  BY RunnerStep
<1> QED
  BY <1>1, <1>2, PTL DEF RunnerSpec, Spec

THEOREM RunnerImplementsJobs == RunnerSpec => J!Spec
<1>1. RunnerInit => J!Init
  BY DEF RunnerInit
<1>2. [RunnerNext]_runnerVars => [J!Next]_(J!vars)
  BY RunnerStep
<1> QED
  BY <1>1, <1>2, PTL DEF RunnerSpec, J!Spec

\* A job that is registered, whatever had the name.
LEMMA RegisterKeeps ==
    ASSUME JobsInv, NEW n \in J!AllNames, NEW j \in J!Fresh,
           jobs' = [jobs EXCEPT ![n] = j], refused' = refused \ {j}, UNCHANGED <<copied, current>>
    PROVE  /\ jobs' \in [J!AllNames -> Functors \cup {NoJob}] /\ refused' \subseteq Jobs
           /\ OneJob' /\ Refused'
<1>1. /\ j \in Jobs /\ \A m \in J!AllNames : jobs[m] # j
      /\ \A c \in Copies : c[2] # j
  BY DEF J!Fresh, Copies
<1>2. Copies' = Copies
  BY DEF Copies
<1>3. \A m \in J!AllNames : jobs'[m] = IF m = n THEN j ELSE jobs[m]
  BY DEF JobsInv, JobsOK
<1>4. jobs' \in [J!AllNames -> Functors \cup {NoJob}]
  BY <1>1 DEF JobsInv, JobsOK, Functors
<1> QED
  BY <1>1, <1>2, <1>3, <1>4 DEF JobsInv, JobsOK, OneJob, Refused

\* A job that is erased.
LEMMA EraseKeeps ==
    ASSUME JobsInv, NEW n \in J!AllNames, J!Erase(n)
    PROVE  /\ jobs' \in [J!AllNames -> Functors \cup {NoJob}]
           /\ \A m \in J!AllNames : jobs'[m] = IF m = n THEN NoJob ELSE jobs[m]
BY DEF JobsInv, JobsOK, J!Erase

\* What callers ask for by name.
LEMMA NamedKeepsInv ==
    ASSUME JobsInv, NEW n \in Names, J!Named(n)
    PROVE  JobsInv'
<1> USE RunnerAssumption
<1>1. n \in J!AllNames
  BY DEF J!AllNames
<1>2. NoJob \notin refused /\ Empty \notin refused /\ \A c \in Copies : c[2] # NoJob
  BY DEF JobsInv, JobsOK, Copies, Functors
<1>3. CASE J!RemoveJob(n)
  <2>1. J!Erase(n) /\ UNCHANGED <<copied, current, refused, chosen>>
    BY <1>3 DEF J!RemoveJob, J!copyVars
  <2>2. Copies' = Copies
    BY <2>1 DEF Copies
  <2>3. /\ jobs' \in [J!AllNames -> Functors \cup {NoJob}]
        /\ \A m \in J!AllNames : jobs'[m] = IF m = n THEN NoJob ELSE jobs[m]
    BY <1>1, <2>1, EraseKeeps
  <2> QED
    BY <1>2, <2>1, <2>2, <2>3 DEF JobsInv, JobsOK, OneJob, Refused
<1>4. CASE J!Job(n)
  <2>1. /\ \/ jobs[n] = NoJob /\ jobs' = [jobs EXCEPT ![n] = Empty]
           \/ UNCHANGED jobs
        /\ UNCHANGED <<copied, current, refused, chosen>>
    BY <1>4 DEF J!Job, J!copyVars
  <2>2. Copies' = Copies
    BY <2>1 DEF Copies
  <2>3. CASE UNCHANGED jobs
    BY <2>1, <2>2, <2>3 DEF JobsInv, JobsOK, OneJob, Refused
  <2>4. CASE jobs' = [jobs EXCEPT ![n] = Empty]
    <3>1. /\ jobs' \in [J!AllNames -> Functors \cup {NoJob}]
          /\ \A m \in J!AllNames : jobs'[m] = IF m = n THEN Empty ELSE jobs[m]
      BY <1>1, <2>4 DEF JobsInv, JobsOK, Functors
    <3>2. JobsOK'
      BY <2>1, <3>1 DEF JobsInv, JobsOK
    <3>3. OneJob'
      BY <2>1, <2>2, <3>1 DEF JobsInv, OneJob
    <3>4. Refused'
      BY <1>2, <2>1, <2>2, <3>1 DEF JobsInv, Refused
    <3> QED
      BY <3>2, <3>3, <3>4 DEF JobsInv
  <2> QED
    BY <2>1, <2>3, <2>4
<1>5. ASSUME NEW j \in J!Fresh, J!Schedule(n, j) \/ J!FillIn(n, j) PROVE JobsInv'
  <2>1. /\ jobs' = [jobs EXCEPT ![n] = j] /\ refused' = refused \ {j}
        /\ UNCHANGED <<copied, current, chosen>>
    BY <1>5 DEF J!Schedule, J!FillIn, J!Register, J!copyVars
  <2> QED
    BY <1>1, <2>1, RegisterKeeps DEF JobsInv, JobsOK
<1> QED
  BY <1>3, <1>4, <1>5 DEF J!Named

\* What run() does.
LEMMA LoopKeepsJobsInv ==
    ASSUME JobsInv, J!Loop(EventLoop)
    PROVE  JobsInv'
<1> USE RunnerAssumption
<1>1. CASE J!Copy(EventLoop)
  <2>1. /\ copied[EventLoop] = {} /\ current[EventLoop] = {}
        /\ copied' = [copied EXCEPT ![EventLoop] = {<<n, jobs[n]>> : n \in J!ShouldRun}]
        /\ UNCHANGED <<jobs, current, refused, chosen>>
    BY <1>1 DEF J!Copy
  <2>2. \A n \in J!ShouldRun : n \in J!AllNames /\ jobs[n] \in Functors
    BY DEF J!ShouldRun, JobsInv, JobsOK
  <2>3. copied'[EventLoop] = {<<n, jobs[n]>> : n \in J!ShouldRun} /\ current'[EventLoop] = {}
    BY <2>1 DEF JobsInv, JobsOK
  <2>4. Copies' = {<<n, jobs[n]>> : n \in J!ShouldRun}
    BY <2>3 DEF Copies
  <2>5. \A c \in Copies' : c[1] \in J!AllNames /\ c[2] = jobs[c[1]] /\ c[2] \in Functors
                           /\ c = <<c[1], c[2]>>
    BY <2>2, <2>4
  <2>6. copied' \in [{EventLoop} -> SUBSET (J!AllNames \X Functors)]
    BY <2>1, <2>2 DEF JobsInv, JobsOK
  <2>7. OneJob'
    BY <2>1, <2>3, <2>5 DEF JobsInv, OneJob
  <2> QED
    BY <2>1, <2>5, <2>6, <2>7 DEF JobsInv, JobsOK, Refused
<1>2. ASSUME NEW c \in copied[EventLoop], J!Start(EventLoop, c) PROVE JobsInv'
  <2>1. /\ current[EventLoop] = {}
        /\ current' = [current EXCEPT ![EventLoop] = {c}]
        /\ copied' = [copied EXCEPT ![EventLoop] = @ \ {c}]
        /\ UNCHANGED <<jobs, refused, chosen>>
    BY <1>2 DEF J!Start, J!mapVars
  <2>2. current'[EventLoop] = {c} /\ copied'[EventLoop] = copied[EventLoop] \ {c}
    BY <2>1 DEF JobsInv, JobsOK
  <2>3. Copies' = Copies
    BY <2>1, <2>2 DEF Copies
  <2>4. JobsOK'
    BY <2>1 DEF JobsInv, JobsOK
  <2> QED
    BY <2>1, <2>2, <2>3, <2>4 DEF JobsInv, OneJob, Refused
<1>3. ASSUME NEW c \in current[EventLoop], J!Return(EventLoop, c) PROVE JobsInv'
  <2>1. /\ current' = [current EXCEPT ![EventLoop] = {}] /\ UNCHANGED <<copied, chosen>>
        /\ \/ UNCHANGED <<jobs, refused>>
           \/ c[2] # Empty /\ refused' = refused \cup {c[2]} /\ J!Erase(c[1])
    BY <1>3 DEF J!Return, J!False, J!mapVars
  <2>2. current'[EventLoop] = {} /\ c \in Copies /\ c[1] \in J!AllNames /\ c[2] \in Functors
    BY <2>1 DEF JobsInv, JobsOK, Copies
  <2>3. Copies' = Copies \ {c}
    BY <2>1, <2>2 DEF Copies, JobsInv, OneJob
  <2>4. current' \in [{EventLoop} -> SUBSET (J!AllNames \X Functors)]
    BY <2>1 DEF JobsInv, JobsOK
  <2>5. CASE UNCHANGED <<jobs, refused>>
    BY <2>1, <2>2, <2>3, <2>4, <2>5 DEF JobsInv, JobsOK, OneJob, Refused
  <2>6. CASE c[2] # Empty /\ refused' = refused \cup {c[2]} /\ J!Erase(c[1])
    <3>1. /\ jobs' \in [J!AllNames -> Functors \cup {NoJob}]
          /\ \A m \in J!AllNames : jobs'[m] = IF m = c[1] THEN NoJob ELSE jobs[m]
      BY <2>2, <2>6, EraseKeeps
    <3>2. c[2] \in Jobs
      BY <2>2, <2>6 DEF Functors
    <3>3. JobsOK'
      BY <2>1, <2>2, <2>4, <2>6, <3>1, <3>2 DEF JobsInv, JobsOK
    <3>4. NoJob \notin refused' /\ \A d \in Copies : d[2] # NoJob
      BY <2>2, <2>6, <3>2 DEF JobsInv, JobsOK, Copies, Functors
    <3>5. OneJob'
      BY <2>1, <2>2, <2>3, <3>1, <3>4 DEF JobsInv, OneJob
    <3>6. Refused'
      BY <2>2, <2>3, <2>6, <3>1, <3>2, <3>4 DEF JobsInv, OneJob, Refused
    <3> QED
      BY <3>3, <3>5, <3>6 DEF JobsInv
  <2> QED
    BY <2>1, <2>5, <2>6
<1> QED
  BY <1>1, <1>2, <1>3 DEF J!Loop

\* Every step of the jobs keeps each job in one place.
LEMMA JobsKeepInv ==
    ASSUME JobsInv, [J!Next]_(J!vars)
    PROVE  JobsInv'
<1>1. CASE UNCHANGED J!vars
  BY <1>1 DEF J!vars, JobsInv, JobsOK, OneJob, Refused, Copies
<1>2. ASSUME NEW s \in Schedulers, NEW n \in RandNames, J!ChooseName(s, n) PROVE JobsInv'
  <2>1. /\ chosen' = [chosen EXCEPT ![s] = n] /\ UNCHANGED <<jobs, copied, current, refused>>
    BY <1>2 DEF J!ChooseName, J!copyVars, J!mapVars
  <2> QED
    BY <2>1 DEF JobsInv, JobsOK, OneJob, Refused, Copies
<1>3. ASSUME NEW s \in Schedulers, NEW j \in J!Fresh, J!ScheduleChosen(s, j) PROVE JobsInv'
  <2>1. /\ jobs' = [jobs EXCEPT ![chosen[s]] = j] /\ chosen[s] # NoJob
        /\ chosen' = [chosen EXCEPT ![s] = NoJob] /\ refused' = refused \ {j}
        /\ UNCHANGED <<copied, current>>
    BY <1>3 DEF J!ScheduleChosen, J!Register, J!copyVars
  <2>2. chosen[s] \in J!AllNames
    BY <2>1 DEF JobsInv, JobsOK, J!AllNames
  <2> QED
    BY <2>1, <2>2, RegisterKeeps DEF JobsInv, JobsOK
<1>4. ASSUME NEW n \in J!AllNames, J!Elapse(n) PROVE JobsInv'
  BY <1>4 DEF J!Elapse, J!copyVars, JobsInv, JobsOK, OneJob, Refused, Copies
<1> QED
  BY <1>1, <1>2, <1>3, <1>4, NamedKeepsInv, LoopKeepsJobsInv DEF J!Next

\* What callers do by name leaves the other names alone, and the copies.
LEMMA NamedIsLocal ==
    ASSUME JobsInv, NEW n \in Names, J!Named(n)
    PROVE  /\ \A m \in J!AllNames : m # n => jobs'[m] = jobs[m]
           /\ UNCHANGED <<copied, current, chosen>>
BY DEF J!Named, J!RemoveJob, J!Erase, J!Job, J!Schedule, J!Register, J!FillIn, J!copyVars,
       JobsInv, JobsOK

\* A job that returns changes nothing but, when it is false, what has its name.
LEMMA ReturnIsLocal ==
    ASSUME JobsInv, NEW c \in current[EventLoop], J!Return(EventLoop, c)
    PROVE  /\ c \in Copies /\ c[1] \in J!AllNames
           /\ Copies' = Copies \ {c} /\ UNCHANGED chosen
           /\ \/ UNCHANGED <<jobs, refused>>
              \/ /\ refused' = refused \cup {c[2]}
                 /\ \A m \in J!AllNames : jobs'[m] = IF m = c[1] THEN NoJob ELSE jobs[m]
<1>1. /\ current' = [current EXCEPT ![EventLoop] = {}] /\ UNCHANGED <<copied, chosen>>
      /\ \/ UNCHANGED <<jobs, refused>>
         \/ refused' = refused \cup {c[2]} /\ J!Erase(c[1])
  BY DEF J!Return, J!False, J!mapVars
<1>2. c \in Copies /\ c[1] \in J!AllNames
  BY DEF JobsInv, JobsOK, Copies
<1>3. Copies' = Copies \ {c}
  BY <1>1 DEF Copies, JobsInv, JobsOK, OneJob
<1> QED
  BY <1>1, <1>2, <1>3, EraseKeeps

\* With one caller that has names made up, the steps of the jobs keep the
\* made-up names of the copies for the jobs that were copied, ...
LEMMA NamesAreKept ==
    ASSUME JobsInv, NamesKept, \A s, t \in Schedulers : s = t, [J!Next]_(J!vars)
    PROVE  NamesKept'
<1> USE RunnerAssumption
<1>1. /\ \A c \in Copies : c[1] \in J!AllNames /\ c[2] # NoJob
      /\ \A s \in Schedulers : chosen[s] # NoJob => chosen[s] \in RandNames
      /\ RandNames \subseteq J!AllNames
  BY DEF JobsInv, JobsOK, J!AllNames, Copies, Functors
<1>2. CASE UNCHANGED J!vars
  BY <1>2 DEF J!vars, NamesKept, Copies
<1>3. ASSUME NEW n \in Names, J!Named(n) PROVE NamesKept'
  <2>1. Copies' = Copies /\ chosen' = chosen
    BY <1>3, NamedIsLocal DEF Copies
  <2>2. \A m \in RandNames : jobs'[m] = jobs[m]
    BY <1>1, <1>3, NamedIsLocal
  <2> QED
    BY <1>1, <2>1, <2>2 DEF NamesKept
<1>4. ASSUME NEW s \in Schedulers, NEW n \in RandNames, J!ChooseName(s, n) PROVE NamesKept'
  <2>1. /\ chosen' = [chosen EXCEPT ![s] = n] /\ jobs[n] = NoJob
        /\ UNCHANGED <<jobs, copied, current>>
    BY <1>4 DEF J!ChooseName, J!copyVars, J!mapVars
  <2>2. Copies' = Copies
    BY <2>1 DEF Copies
  <2>3. \A t \in Schedulers : chosen'[t] = n
    BY <2>1 DEF JobsInv, JobsOK
  <2> QED
    BY <1>1, <2>1, <2>2, <2>3 DEF NamesKept
<1>5. ASSUME NEW s \in Schedulers, NEW j \in J!Fresh, J!ScheduleChosen(s, j) PROVE NamesKept'
  <2>1. /\ jobs' = [jobs EXCEPT ![chosen[s]] = j] /\ chosen[s] # NoJob
        /\ chosen' = [chosen EXCEPT ![s] = NoJob] /\ UNCHANGED <<copied, current>>
    BY <1>5 DEF J!ScheduleChosen, J!Register, J!copyVars
  <2>2. Copies' = Copies
    BY <2>1 DEF Copies
  <2>3. \A t \in Schedulers : chosen'[t] = NoJob
    BY <2>1 DEF JobsInv, JobsOK
  <2>4. \A c \in Copies : c[1] # chosen[s]
    BY <2>1 DEF NamesKept
  <2>5. \A c \in Copies : jobs'[c[1]] = jobs[c[1]]
    BY <1>1, <2>1, <2>4 DEF JobsInv, JobsOK
  <2> QED
    BY <2>2, <2>3, <2>5 DEF NamesKept
<1>6. ASSUME NEW n \in J!AllNames, J!Elapse(n) PROVE NamesKept'
  BY <1>6 DEF J!Elapse, J!copyVars, NamesKept, Copies
<1>7. CASE J!Copy(EventLoop)
  <2>1. /\ copied' = [copied EXCEPT ![EventLoop] = {<<n, jobs[n]>> : n \in J!ShouldRun}]
        /\ current[EventLoop] = {} /\ UNCHANGED <<jobs, current, chosen>>
    BY <1>7 DEF J!Copy
  <2>2. Copies' = {<<n, jobs[n]>> : n \in J!ShouldRun}
    BY <2>1 DEF Copies, JobsInv, JobsOK
  <2>3. \A c \in Copies' : jobs[c[1]] = c[2] /\ c[2] # NoJob
    BY <2>2 DEF J!ShouldRun
  <2> QED
    BY <2>1, <2>3 DEF NamesKept
<1>8. ASSUME NEW c \in copied[EventLoop], J!Start(EventLoop, c) PROVE NamesKept'
  <2>1. /\ current[EventLoop] = {}
        /\ current' = [current EXCEPT ![EventLoop] = {c}]
        /\ copied' = [copied EXCEPT ![EventLoop] = @ \ {c}]
        /\ UNCHANGED <<jobs, chosen>>
    BY <1>8 DEF J!Start, J!mapVars
  <2>2. Copies' = Copies
    BY <2>1 DEF Copies, JobsInv, JobsOK
  <2> QED
    BY <2>1, <2>2 DEF NamesKept
<1>9. ASSUME NEW c \in current[EventLoop], J!Return(EventLoop, c) PROVE NamesKept'
  <2>1. /\ c \in Copies /\ Copies' = Copies \ {c} /\ chosen' = chosen
        /\ \A m \in J!AllNames : jobs'[m] = jobs[m] \/ (m = c[1] /\ jobs'[m] = NoJob)
    BY <1>9, ReturnIsLocal
  <2>2. \A d \in Copies' : d[1] # c[1]
    BY <2>1 DEF JobsInv, OneJob
  <2> QED
    BY <1>1, <2>1, <2>2 DEF NamesKept
<1> QED
  BY <1>2, <1>3, <1>4, <1>5, <1>6, <1>7, <1>8, <1>9 DEF J!Next, J!Loop

\* ... so that a job that goes away returned false, or had a name by which a
\* caller, or the false of the job that had it before, removed it.
LEMMA GoneOnPurpose ==
    ASSUME JobsInv, NamesKept, J!Next, NEW n \in J!AllNames
    PROVE  J!Kept(n)
<1> SUFFICES ASSUME jobs[n] \notin {NoJob, jobs'[n]}
             PROVE  jobs[n] \in refused' \/ (n \in Names /\ (J!Named(n) \/ J!FalseOfAnother(n)))
  BY DEF J!Kept
<1> USE RunnerAssumption
<1>1. jobs' # jobs
  OBVIOUS
<1>2. ASSUME NEW m \in Names, J!Named(m) PROVE m = n
  <2>1. m \in J!AllNames
    BY DEF J!AllNames
  <2> QED
    BY <1>2, <2>1, NamedIsLocal
<1>3. ASSUME NEW s \in Schedulers, NEW j \in J!Fresh, J!ScheduleChosen(s, j) PROVE FALSE
  <2>1. chosen[s] # NoJob /\ jobs' = [jobs EXCEPT ![chosen[s]] = j]
    BY <1>3 DEF J!ScheduleChosen, J!Register
  <2>2. chosen[s] = n
    BY <2>1 DEF JobsInv, JobsOK
  <2> QED
    BY <2>1, <2>2 DEF NamesKept
<1>4. ASSUME NEW c \in current[EventLoop], J!Return(EventLoop, c)
      PROVE  jobs[n] \in refused' \/ (n \in Names /\ J!FalseOfAnother(n))
  <2>1. c \in Copies /\ n = c[1] /\ refused' = refused \cup {c[2]}
    BY <1>1, <1>4, ReturnIsLocal
  <2>2. CASE n \in RandNames
    BY <2>1, <2>2 DEF NamesKept
  <2>3. CASE n \in Names
    BY <2>1, <2>3 DEF J!FalseOfAnother
  <2> QED
    BY <2>2, <2>3 DEF J!AllNames
<1>5. ASSUME NEW s \in Schedulers, NEW m \in RandNames, J!ChooseName(s, m) PROVE FALSE
  BY <1>1, <1>5 DEF J!ChooseName, J!mapVars
<1>6. ASSUME NEW m \in J!AllNames, J!Elapse(m) PROVE FALSE
  BY <1>1, <1>6 DEF J!Elapse
<1>7. ASSUME J!Copy(EventLoop) \/ \E c \in copied[EventLoop] : J!Start(EventLoop, c) PROVE FALSE
  BY <1>1, <1>7 DEF J!Copy, J!Start, J!mapVars
<1> QED
  BY <1>2, <1>3, <1>4, <1>5, <1>6, <1>7 DEF J!Next, J!Loop

\* Each job is in one place in every behaviour of the Runner.
THEOREM JobsInvariance == RunnerSpec => []JobsInv
<1>1. J!Init => JobsInv
  BY RunnerAssumption DEF J!Init, JobsInv, JobsOK, OneJob, Refused, Copies
<1>2. JobsInv /\ [J!Next]_(J!vars) => JobsInv'
  BY JobsKeepInv
<1>3. J!Spec => []JobsInv
  BY <1>1, <1>2, PTL DEF J!Spec
<1> QED
  BY <1>3, RunnerImplementsJobs, PTL

\* A job that returned false is not invoked again, unless it is registered
\* again: for any names, also when they are used again while their jobs are
\* run, and for the one thread of the loop.
THEOREM FalseIsFinal == RunnerSpec => []NotAfterFalse
<1>1. JobsInv => NotAfterFalse
  BY DEF JobsInv, Refused, Copies, NotAfterFalse, J!NotAfterFalse
<1> QED
  BY <1>1, JobsInvariance, PTL

\* When not two callers at once have names made up for their jobs: a job that
\* was registered without a name stays until it returns false; one with a name
\* until it does, or a caller of schedule(), job() or removeJob() gives its
\* name, or the job that had the name before, and was copied, returns false.
THEOREM JobsAreKept ==
    (\A s, t \in Schedulers : s = t) => (RunnerSpec => KeptUnlessFalse)
<1> SUFFICES ASSUME \A s, t \in Schedulers : s = t PROVE RunnerSpec => KeptUnlessFalse
  OBVIOUS
<1>1. J!Init => NamesKept
  BY DEF J!Init, NamesKept, Copies
<1>2. JobsInv /\ NamesKept /\ [J!Next]_(J!vars) => NamesKept'
  BY NamesAreKept
<1>3. JobsInv /\ NamesKept /\ [J!Next]_(J!vars) =>
        [\A n \in J!AllNames : J!Kept(n)]_(J!vars)
  BY GoneOnPurpose
<1>4. J!Spec /\ []JobsInv => J!KeptUnlessFalse
  BY <1>1, <1>2, <1>3, PTL DEF J!Spec, J!KeptUnlessFalse
<1> QED
  BY <1>4, JobsInvariance, RunnerImplementsJobs, PTL DEF KeptUnlessFalse

\* In the whole Runner too, every handler is called once and its handle then
\* freed once, and the timer is never lost, whatever the jobs do.
THEOREM RunnerCallsOnce == RunnerSpec => [](CalledThenFreed /\ TimerRuns)
<1>1. IInv => CalledThenFreed /\ TimerRuns
  BY DEF IInv
<1> QED
  BY <1>1, Invariance, RunnerImplementsMulti, PTL

-----------------------------------------------------------------------------
(* goUntil of Hget.                                                          *)

\* Taking a URL keeps the functor in range and moves it to the URL after, for
\* as many URLs as a uint8_t can count.
LEMMA AdvanceFollows ==
    ASSUME HgetTypeOK, NEW f \in Functor, f.nextUrl < urls
    PROVE  /\ Advance(f) \in Functor /\ Advance(f).nextUrl < urls
           /\ Advance(f).requestNum = f.requestNum + 1
           /\ urls <= UintMod => Advance(f).nextUrl = After(f.nextUrl)
<1>1. urls \in Nat \ {0} /\ UintMod \in Nat \ {0}
  BY HgetAssumption DEF HgetTypeOK
<1> QED
  BY <1>1 DEF Functor, Advance, Increment, After

\* urls - 1 fits in a uint8_t when it can count the URLs.
LEMMA NoTruncation ==
    ASSUME HgetTypeOK, urls <= UintMod
    PROVE  (urls - 1) % UintMod = urls - 1
<1>1. urls \in Nat \ {0} /\ UintMod \in Nat \ {0}
  BY HgetAssumption DEF HgetTypeOK
<1>2. \A a, m \in Nat : a < m => a % m = a
  OBVIOUS
<1> QED
  BY <1>1, <1>2

\* There is at most one request.
LEMMA AtMostOne ==
    ASSUME NEW S, \A r, q \in S : r = q
    PROVE  Cardinality(S) = IF S = {} THEN 0 ELSE 1
<1>1. CASE S = {}
  BY <1>1, FS_EmptySet
<1>2. CASE S # {}
  <2>1. PICK r : S = {r}
    BY <1>2
  <2> QED
    BY <2>1, FS_Singleton
<1> QED
  BY <1>1, <1>2

\* The first request, and the one of a timer, begin or continue the chain.
LEMMA RetryKeepsInv ==
    ASSUME HgetInv, requests = {}, NEW f \in Functor, f.nextUrl < urls, Retry(f),
           timers' = {}, UNCHANGED <<urls, told>>,
           urls <= UintMod => /\ f.requestNum = told.num
                           /\ f.nextUrl = IF told.num = 0 THEN 0 ELSE After(told.asked)
    PROVE  HgetInv'
<1> USE DEF HgetInv, HgetTypeOK, ToldUrl, OneChain, ConnsOfRequests, RoundRobin, FunctorsAgree, Requests
<1>1. Cardinality({}) = 0 /\ Cardinality({Request(f)}) = 1
  BY FS_EmptySet, FS_Singleton
<1>2. /\ Advance(f) \in Functor /\ Advance(f).nextUrl < urls
      /\ Advance(f).requestNum = f.requestNum + 1
      /\ urls <= UintMod => Advance(f).nextUrl = After(f.nextUrl)
  BY AdvanceFollows
<1>3. urls \in Nat \ {0} /\ f.nextUrl \in 0 .. urls - 1 /\ After(f.nextUrl) = After(f.nextUrl)'
  BY HgetAssumption DEF Functor, After
<1>6. Request(f) \in Requests' /\ Request(f).functor.nextUrl < urls' /\ urls' \in UrlCounts
  BY <1>2, <1>3 DEF Request, Functor
<1>7. conns + 1 \in Int /\ leaked + 1 \in Nat /\ told' \in [url : Int, num : Nat, asked : Int]
  OBVIOUS
<1>4. CASE requests' = {Request(f)} /\ phase' = "running" /\ conns' = conns + 1 /\ UNCHANGED leaked
  <2>1. HgetTypeOK'
    BY <1>4, <1>6, <1>7
  <2>2. OneChain'
    BY <1>4
  <2>4. ConnsOfRequests'
    <3>1. conns = 0 + leaked
      BY <1>1
    <3>2. conns' = 1 + leaked'
      BY <1>4, <3>1
    <3> QED
      BY <1>1, <1>4, <3>2
  <2>5. ToldUrl'
    BY <1>4
  <2>3. RoundRobin' /\ FunctorsAgree'
    BY <1>2, <1>3, <1>4 DEF Request, After
  <2> QED
    BY <2>1, <2>2, <2>3, <2>4, <2>5
<1>5. CASE requests' = {} /\ phase' = "threw" /\ conns' = conns + 1 /\ leaked' = leaked + 1
  BY <1>1, <1>5, <1>7
<1> QED
  BY <1>4, <1>5 DEF Retry

\* The handler is told what was asked.
LEMMA HandlerTells ==
    ASSUME HgetInv, NEW r \in requests, Handler(r)
    PROVE  /\ told' \in [url : Int, num : Nat, asked : Int]
           /\ told'.num = r.functor.requestNum /\ told'.asked = r.url
           /\ urls <= UintMod => told'.url = told'.asked /\ told'.num > 0
<1> USE DEF HgetInv, HgetTypeOK, Requests, Functor
<1>1. urls \in Nat \ {0} /\ UintMod \in Nat \ {0}
  BY HgetAssumption
<1>2. (urls - 1) % UintMod \in Int
  BY <1>1
<1>3. urls <= UintMod => (urls - 1) % UintMod = urls - 1
  BY NoTruncation
<1>4. /\ told'.num = r.functor.requestNum /\ told'.asked = r.url
      /\ told'.url = IF r.functor.nextUrl # 0 THEN r.functor.nextUrl - 1 ELSE (urls - 1) % UintMod
      /\ told' \in [url : Int, num : Nat, asked : Int]
  <2> DEFINE u == IF r.functor.nextUrl # 0 THEN r.functor.nextUrl - 1 ELSE (urls - 1) % UintMod
  <2>1. told' = [url |-> u, num |-> r.functor.requestNum, asked |-> r.url]
    BY DEF Handler
  <2>2. r.functor \in Functor /\ r.url \in Int /\ r.functor.nextUrl \in Int /\ r.functor.requestNum \in Nat
    BY <1>1
  <2>3. u \in Int
    BY <1>2, <2>2
  <2> HIDE DEF u
  <2>4. told' \in [url : Int, num : Nat, asked : Int]
    BY <2>1, <2>2, <2>3
  <2>5. told'.url = u /\ told'.num = r.functor.requestNum /\ told'.asked = r.url
    BY <2>1
  <2> QED
    BY <2>4, <2>5 DEF u
<1>5. urls <= UintMod => r.functor.nextUrl = After(r.url) /\ r.functor.requestNum = told.num + 1
  BY DEF FunctorsAgree, RoundRobin
<1>6. r.url \in 0 .. urls - 1 /\ told.num \in Nat
  BY <1>1
<1>7. ASSUME urls <= UintMod PROVE told'.url = told'.asked /\ told'.num > 0
  BY <1>1, <1>3, <1>4, <1>5, <1>6, <1>7 DEF After
<1> QED
  BY <1>4, <1>7

\* An answer keeps the invariant, whatever the handler returns.
LEMMA AnswerKeepsInv ==
    ASSUME HgetInv, NEW r \in requests, Answer(r)
    PROVE  HgetInv'
<1> USE DEF HgetInv, HgetTypeOK, ToldUrl, OneChain, ConnsOfRequests, RoundRobin, FunctorsAgree, Requests
<1>1. /\ requests = {r} /\ timers = {} /\ phase = "running" /\ requests \ {r} = {}
      /\ r.functor \in Functor /\ r.functor.nextUrl < urls /\ urls \in Nat \ {0}
  BY HgetAssumption
<1>2. /\ told' \in [url : Int, num : Nat, asked : Int]
      /\ told'.num = r.functor.requestNum /\ told'.asked = r.url
      /\ urls <= UintMod => told'.url = told'.asked /\ told'.num > 0
  BY HandlerTells DEF Answer, AnswerNow, AnswerLater, AnswerLast
<1>3. urls' = urls
  BY DEF Answer, AnswerNow, AnswerLater, AnswerLast
<1>4. Cardinality({}) = 0 /\ Cardinality({r}) = 1 /\ Cardinality({Request(r.functor)}) = 1
  BY FS_EmptySet, FS_Singleton
<1>5. /\ Advance(r.functor) \in Functor /\ Advance(r.functor).nextUrl < urls
      /\ Advance(r.functor).requestNum = r.functor.requestNum + 1
      /\ urls <= UintMod => Advance(r.functor).nextUrl = After(r.functor.nextUrl)
  BY <1>1, AdvanceFollows
<1>6. /\ urls' \in UrlCounts /\ urls' \in Nat \ {0} /\ conns \in Int /\ leaked \in Nat
      /\ conns = 1 + leaked
  BY <1>1, <1>3, <1>4
<1>7. told'.num \in Nat /\ (urls' <= UintMod => told'.url = told'.asked /\ told'.num > 0)
  BY <1>2, <1>3
<1>8. CASE AnswerNow(r) /\ requests' = {Request(r.functor)} /\ UNCHANGED <<phase, conns, leaked>>
  <2>1. timers' = {}
    BY <1>1, <1>8 DEF AnswerNow
  <2>2. /\ Request(r.functor) \in Requests' /\ Request(r.functor).functor = Advance(r.functor)
        /\ Request(r.functor).url = r.functor.nextUrl
    BY <1>1, <1>3, <1>5 DEF Request, Functor
  <2>3. HgetTypeOK'
    BY <1>1, <1>2, <1>3, <1>5, <1>6, <1>8, <2>1, <2>2
  <2>4. ToldUrl'
    BY <1>7
  <2>5. OneChain'
    BY <1>1, <1>8, <2>1
  <2>6. ConnsOfRequests'
    BY <1>4, <1>6, <1>8
  <2>7. RoundRobin' /\ FunctorsAgree'
    BY <1>1, <1>2, <1>3, <1>5, <1>8, <2>1 DEF Request, After
  <2> QED
    BY <2>3, <2>4, <2>5, <2>6, <2>7
<1>9. CASE /\ requests' = {} /\ timers' = {} /\ phase' = "ended"
           /\ conns' = 0 + leaked' /\ conns' \in Int /\ leaked' \in Nat
  <2>1. HgetTypeOK'
    BY <1>2, <1>6, <1>9
  <2>2. ToldUrl' /\ OneChain'
    BY <1>7, <1>9
  <2>3. ConnsOfRequests'
    BY <1>4, <1>9
  <2>4. RoundRobin' /\ FunctorsAgree'
    BY <1>9
  <2> QED
    BY <2>1, <2>2, <2>3, <2>4
<1>10. CASE AnswerLater(r) /\ timers' = {r.functor} /\ UNCHANGED phase
  <2>1. /\ requests' = {} /\ conns' = 0 + leaked' /\ leaked' = leaked
        /\ conns' \in Int /\ phase' = "running"
    BY <1>1, <1>6, <1>10 DEF AnswerLater
  <2>2. HgetTypeOK'
    BY <1>1, <1>2, <1>3, <1>6, <1>10, <2>1
  <2>3. ToldUrl' /\ OneChain'
    BY <1>7, <1>10, <2>1
  <2>4. ConnsOfRequests'
    BY <1>4, <2>1
  <2>5. ASSUME urls <= UintMod PROVE r.functor.nextUrl = After(r.url)
    BY <1>1, <2>5
  <2>6. RoundRobin' /\ FunctorsAgree'
    BY <1>2, <1>3, <1>7, <1>10, <2>1, <2>5 DEF After
  <2> QED
    BY <2>2, <2>3, <2>4, <2>6
<1> QED
  <2>1. CASE AnswerNow(r)
    BY <1>1, <1>6, <1>8, <1>9, <2>1 DEF AnswerNow
  <2>2. CASE AnswerLater(r)
    BY <1>1, <1>6, <1>9, <1>10, <2>2 DEF AnswerLater
  <2>3. CASE AnswerLast(r)
    BY <1>1, <1>6, <1>9, <2>3 DEF AnswerLast
  <2> QED
    BY <2>1, <2>2, <2>3 DEF Answer

\* The inductive invariant holds in every behaviour.
THEOREM HgetInvariance == HgetSpec => []HgetInv
<1>1. HgetInit => HgetInv
  <2> SUFFICES ASSUME HgetInit PROVE HgetInv
    OBVIOUS
  <2> QED
    BY HgetAssumption, FS_EmptySet
    DEF HgetInit, ToldNothing, HgetInv, HgetTypeOK, ToldUrl, OneChain, ConnsOfRequests, RoundRobin, FunctorsAgree
<1>2. HgetInv /\ [HgetNext]_hgetVars => HgetInv'
  <2> SUFFICES ASSUME HgetInv, [HgetNext]_hgetVars PROVE HgetInv'
    OBVIOUS
  <2>1. CASE UNCHANGED hgetVars
    BY <2>1 DEF hgetVars, HgetInv, HgetTypeOK, ToldUrl, OneChain, ConnsOfRequests, RoundRobin, FunctorsAgree,
        Requests, After
  <2>2. CASE GoUntil
    <3>1. requests = {} /\ timers = {} /\ (urls <= UintMod => told.num = 0) /\ urls > 0
      BY <2>2, HgetAssumption DEF GoUntil, HgetInv, HgetTypeOK, OneChain, FunctorsAgree
    <3>2. CASE Retry([nextUrl |-> 0, requestNum |-> 0])
      <4>1. [nextUrl |-> 0, requestNum |-> 0] \in Functor
        BY HgetAssumption DEF Functor
      <4> QED
        BY <2>2, <3>1, <3>2, <4>1, RetryKeepsInv DEF GoUntil
    <3>3. CASE phase' = "threw" /\ UNCHANGED <<requests, conns, leaked>>
      BY <2>2, <3>1, <3>3 DEF GoUntil, HgetInv, HgetTypeOK, ToldUrl, OneChain, ConnsOfRequests,
          RoundRobin, FunctorsAgree, Requests, After
    <3> QED
      BY <2>2, <3>2, <3>3 DEF GoUntil
  <2>3. ASSUME NEW f \in timers, Fire(f) PROVE HgetInv'
    <3>1. f \in Functor /\ f.nextUrl < urls /\ requests = {} /\ timers \ {f} = {}
      BY DEF HgetInv, HgetTypeOK, OneChain
    <3>2. urls <= UintMod => /\ f.requestNum = told.num
                          /\ f.nextUrl = IF told.num = 0 THEN 0 ELSE After(told.asked)
      BY DEF HgetInv, FunctorsAgree
    <3> QED
      BY <2>3, <3>1, <3>2, RetryKeepsInv DEF Fire
  <2> QED
    BY <2>1, <2>2, <2>3, AnswerKeepsInv DEF HgetNext
<1> QED
  BY <1>1, <1>2, PTL DEF HgetSpec

\* The handler is told the URL that was asked, for any number of URLs that
\* _nextUrl can count.
THEOREM HandlerIsToldTheUrl == HgetSpec => []ToldUrl
<1>1. HgetInv => ToldUrl
  BY DEF HgetInv
<1> QED
  BY <1>1, HgetInvariance, PTL

\* goUntil is one chain of requests and timers, which never branches.
THEOREM ChainDoesNotBranch == HgetSpec => []OneChain
<1>1. HgetInv => OneChain
  BY DEF HgetInv
<1> QED
  BY <1>1, HgetInvariance, PTL

\* Only a go() that fails leaves a connection behind.
THEOREM ConnectionsAreFreed == HgetSpec => []ConnsOfRequests
<1>1. HgetInv => ConnsOfRequests
  BY DEF HgetInv
<1> QED
  BY <1>1, HgetInvariance, PTL

\* The URLs are asked in turn.
THEOREM UrlsInTurn == HgetSpec => []RoundRobin
<1>1. HgetInv => RoundRobin
  BY DEF HgetInv
<1> QED
  BY <1>1, HgetInvariance, PTL
=============================================================================
