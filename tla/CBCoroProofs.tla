--------------------------- MODULE CBCoroProofs ----------------------------
(* Proofs about CBCoro and its stacks for any number of threads, coroutines  *)
(* and stacks, when functors do not throw after invokeFromCallback() and     *)
(* CBCoroPtrs are not copied: the body is on one thread at a time, is resumed*)
(* only when suspended, its object is deleted only when nothing can reach it *)
(* any more, and its stack is its own until then.                            *)
EXTENDS CBCoroStacks, FiniteSetTheorems, TLAPS

LEMMA InsideFinite == IsFiniteSet(Inside) /\ Cardinality(Inside) \in Nat
  BY CBCoroAssumption, FS_Subset, FS_CardinalityType DEF Inside

\* The number of threads inside changes with the one that enters or leaves,
LEMMA Enters ==
    ASSUME NEW t \in Threads, t \notin Inside, Inside' = Inside \cup {t}
    PROVE  Cardinality(Inside') = Cardinality(Inside) + 1
  BY InsideFinite, FS_AddElement

LEMMA Leaves ==
    ASSUME NEW t \in Inside, Inside' = Inside \ {t}
    PROVE  Cardinality(Inside') = Cardinality(Inside) - 1
  BY InsideFinite, FS_RemoveElement

\* and nobody is inside when it is zero.
LEMMA NobodyInside == Inside = {} <=> Cardinality(Inside) = 0
  BY InsideFinite, FS_EmptySet

\* A step of the body keeps the invariant: the thread it runs on stays lent,
\* or goes back to its own stack.
LEMMA BodyKeepsInv ==
    ASSUME IInv, ~InvokeThenThrow, BodyStep
    PROVE  IInv'
<1> USE CBCoroAssumption DEF IInv, flags
<1>1. Inside' = Inside
  BY DEF BodyStep, Finish, Yield, Arrange, InvokeDirectly, FunThrows, FunReturns, Resumed,
         CbcReturn, Inside, TypeOK, Placement, Running
<1>2. Cardinality(Inside') = Cardinality(Inside) /\ Cardinality(Inside) \in Nat
  BY <1>1, InsideFinite
<1>11. Running => Cardinality(Inside) # 0
  BY NobodyInside DEF Inside, TypeOK, Placement
<1> HIDE DEF Inside
<1> USE DEF TypeOK, Placement, Running, ResumesSuspended, CountsUsers, InYield, DeletedLast,
            Ownership, Flags, OneCallback, Calling
<1>3. CASE Finish
  BY <1>1, <1>2, <1>3 DEF Finish, CbcReturn
<1>4. CASE Yield
  <2>1. TypeOK'
    <3>1. users' \in Int
      BY <1>4 DEF Yield
    <3> QED
      BY <1>4, <3>1, Zenon DEF Yield
  <2>2. Placement' /\ ResumesSuspended' /\ CountsUsers' /\ DeletedLast'
    BY <1>1, <1>2, <1>4 DEF Yield
  <2>3. Ownership' /\ Flags' /\ OneCallback'
    BY <1>1, <1>2, <1>4 DEF Yield
  <2> QED
    BY <2>1, <2>2, <2>3
<1>5. CASE Arrange
  BY <1>1, <1>2, <1>5 DEF Arrange
<1>6. CASE InvokeDirectly
  BY <1>1, <1>2, <1>6 DEF InvokeDirectly
<1>12. ASSUME DropPtr, InYield, Running PROVE freed' = FALSE /\ users' = users - 1 /\ users' \in Int
  BY <1>2, <1>11, <1>12 DEF DropPtr
<1>7. CASE FunThrows
  <2>1. freed' = FALSE /\ users' = users - 1 /\ users' \in Int
    BY <1>7, <1>12 DEF FunThrows
  <2>2. TypeOK'
    BY <1>7, <2>1, Zenon DEF FunThrows
  <2>3. Placement' /\ ResumesSuspended' /\ CountsUsers' /\ DeletedLast'
    BY <1>1, <1>2, <1>7, <2>1 DEF FunThrows
  <2>4. Ownership' /\ Flags' /\ OneCallback'
    BY <1>1, <1>2, <1>7, <2>1 DEF FunThrows
  <2> QED
    BY <2>2, <2>3, <2>4
<1>8. CASE FunReturns /\ body = "invoked"
  <2>4. freed' = FALSE /\ users' = users - 1 /\ users' \in Int
    BY <1>8, <1>12 DEF FunReturns
  <2>1. TypeOK'
    BY <1>8, <2>4, Zenon DEF FunReturns
  <2>2. Placement' /\ ResumesSuspended' /\ CountsUsers' /\ DeletedLast'
    BY <1>1, <1>2, <1>8, <2>4 DEF FunReturns
  <2>3. Ownership' /\ Flags' /\ OneCallback'
    BY <1>1, <1>2, <1>8, <2>4 DEF FunReturns
  <2> QED
    BY <2>1, <2>2, <2>3
<1>9. CASE FunReturns /\ body = "funDone"
  BY <1>1, <1>2, <1>9 DEF FunReturns, CbcReturn
<1>10. CASE Resumed
  <2>1. freed' = FALSE /\ users' = users - 1 /\ users' \in Int
    BY <1>10, <1>12 DEF Resumed
  <2>2. TypeOK'
    BY <1>10, <2>1, Zenon DEF Resumed
  <2>3. Placement' /\ ResumesSuspended' /\ CountsUsers' /\ DeletedLast'
    BY <1>1, <1>2, <1>10, <2>1 DEF Resumed
  <2>4. Ownership' /\ Flags' /\ OneCallback'
    BY <1>1, <1>2, <1>10, <2>1 DEF Resumed
  <2> QED
    BY <2>2, <2>3, <2>4
<1> QED
  BY <1>3, <1>4, <1>5, <1>6, <1>7, <1>8, <1>9, <1>10 DEF BodyStep, FunReturns

\* A CBCoroPtr that deletes is the last one, and the body has finished.
LEMMA LastPtr ==
    ASSUME IInv, users = 1, body # "new",
           (\E t \in Inside : tpc[t] = "drop") \/ held
    PROVE  body = "finished" /\ ~pending /\ Cardinality(Inside) = (IF held THEN 0 ELSE 1)
<1>1. Cardinality(Inside) = 1 => \A t, u \in Inside : t = u
  BY InsideFinite, FS_Singleton
<1>2. Inside = {} <=> Cardinality(Inside) = 0
  BY NobodyInside
<1>3. ~InYield /\ Cardinality(Inside) = (IF held THEN 0 ELSE 1)
  BY <1>2, InsideFinite DEF IInv, CountsUsers
<1>4. Running => on \in Inside /\ tpc[on] = "lent"
  BY CBCoroAssumption DEF IInv, TypeOK, Placement, Inside
<1> QED
  BY <1>1, <1>2, <1>3, <1>4 DEF IInv, TypeOK, OneCallback, InYield, Running

\* A step of a thread on its own stack keeps the invariant.
LEMMA ThreadKeepsInv ==
    ASSUME IInv, ~CopyPtr, NEW t \in Threads, Start(t) \/ Callback(t) \/ ThreadStep(t)
    PROVE  IInv'
<1> USE CBCoroAssumption DEF IInv, flags, TypeOK, Placement, Running, ResumesSuspended,
        CountsUsers, InYield, DeletedLast, Ownership, Flags, OneCallback, Calling
<1>1. CASE Start(t)
  <2>1. t \notin Inside /\ Inside' = Inside \cup {t}
    BY <1>1 DEF Start, Inside
  <2>2. Cardinality(Inside') = Cardinality(Inside) + 1 /\ Cardinality(Inside) \in Nat
    BY <2>1, Enters, InsideFinite
  <2> QED
    <3>1. TypeOK'
      <4>1. users' \in Int
        BY <1>1 DEF Start
      <4> QED
        BY <1>1, <4>1, Zenon DEF Start
    <3>2. Placement' /\ ResumesSuspended' /\ CountsUsers' /\ DeletedLast'
      BY <1>1, <2>1, <2>2 DEF Start
    <3>3. Ownership' /\ Flags' /\ OneCallback'
      BY <1>1, <2>1, <2>2 DEF Start, Inside
    <3> QED
      BY <3>1, <3>2, <3>3
<1>2. CASE Callback(t)
  <2>1. t \notin Inside /\ Inside' = Inside \cup {t}
    BY <1>2 DEF Callback, Inside
  <2>2. Cardinality(Inside') = Cardinality(Inside) + 1 /\ Cardinality(Inside) \in Nat
    BY <2>1, Enters, InsideFinite
  <2> QED
    <3>1. TypeOK'
      <4>1. users' \in Int
        BY <1>2 DEF Callback
      <4> QED
        BY <1>2, <4>1, Zenon DEF Callback
    <3>2. Placement' /\ ResumesSuspended' /\ CountsUsers' /\ DeletedLast'
      BY <1>2, <2>1, <2>2 DEF Callback
    <3>3. Ownership' /\ Flags' /\ OneCallback'
      BY <1>2, <2>1, <2>2 DEF Callback
    <3> QED
      BY <3>1, <3>2, <3>3
<1>3. CASE Lock(t) \/ Resume(t) \/ Unlock(t)
  <2>1. t \in Inside /\ Inside' = Inside
    BY <1>3 DEF Lock, Resume, Unlock, Inside
  <2>2. Cardinality(Inside') = Cardinality(Inside) /\ Cardinality(Inside) \in Nat
    BY <2>1, InsideFinite
  <2>3. CASE Lock(t)
    BY <2>1, <2>2, <2>3 DEF Lock
  <2>4. CASE Resume(t)
    <3>1. TypeOK'
      BY <2>1, <2>2, <2>4 DEF Resume
    <3>2. Placement' /\ ResumesSuspended' /\ CountsUsers' /\ DeletedLast'
      BY <2>1, <2>2, <2>4 DEF Resume
    <3>3. Ownership' /\ Flags' /\ OneCallback'
      BY <2>1, <2>2, <2>4 DEF Resume
    <3> QED
      BY <3>1, <3>2, <3>3
  <2>5. CASE Unlock(t)
    BY <2>1, <2>2, <2>5 DEF Unlock
  <2> QED
    BY <1>3, <2>3, <2>4, <2>5
<1>4. CASE Drop(t) \/ Hold(t)
  <2>1. t \in Inside /\ Inside' = Inside \ {t} /\ body # "new"
    BY <1>4 DEF Drop, Hold, Inside
  <2>2. Cardinality(Inside') = Cardinality(Inside) - 1
        /\ Cardinality(Inside) \in Nat /\ Cardinality(Inside') \in Nat
    BY <2>1, Leaves, InsideFinite, FS_RemoveElement, FS_CardinalityType
  <2>3. CASE Drop(t)
    <3>1. users >= 1 /\ users \in Nat
      BY <2>1, <2>2
    <3>2. freed' => users = 1 \/ freed
      BY <2>3, <3>1 DEF Drop, DropPtr
    <3>3. ~freed
      BY <2>1
    <3>4. freed' => body = "finished" /\ ~pending /\ ~held /\ Inside' = {}
      BY <2>1, <2>2, <2>3, <3>2, <3>3, LastPtr, FS_Singleton, InsideFinite DEF Drop
    <3> QED
      BY <2>1, <2>2, <2>3, <3>3, <3>4 DEF Drop, DropPtr
  <2>4. CASE Hold(t)
    BY <2>1, <2>2, <2>4 DEF Hold
  <2> QED
    BY <1>4, <2>3, <2>4
<1> QED
  BY <1>1, <1>2, <1>3, <1>4 DEF ThreadStep

\* So does dropping a CBCoroPtr that was kept.
LEMMA DropHeldKeepsInv ==
    ASSUME IInv, DropHeld
    PROVE  IInv'
<1> USE CBCoroAssumption DEF IInv, flags, TypeOK, Placement, Running, ResumesSuspended,
        CountsUsers, InYield, DeletedLast, Ownership, Flags, OneCallback, Calling
<1>1. held /\ Inside' = Inside /\ body # "new" /\ ~freed
  BY DEF DropHeld, Inside
<1>2. Cardinality(Inside') = Cardinality(Inside) /\ Cardinality(Inside) \in Nat
  BY <1>1, InsideFinite
<1>3. freed' => users = 1
  BY <1>1, <1>2 DEF DropHeld, DropPtr
<1>4. freed' => body = "finished" /\ ~pending /\ Inside = {}
  BY <1>1, <1>3, LastPtr, NobodyInside
<1> QED
  <2>1. TypeOK'
    <3>1. users' \in Int
      BY DEF DropHeld, DropPtr
    <3> QED
      BY <3>1, Zenon DEF DropHeld, DropPtr
  <2>2. Placement' /\ ResumesSuspended' /\ CountsUsers' /\ DeletedLast'
    BY <1>1, <1>2, <1>4 DEF DropHeld, DropPtr
  <2>3. Ownership' /\ Flags' /\ OneCallback'
    BY <1>1, <1>2, <1>4 DEF DropHeld, DropPtr
  <2> QED
    BY <2>1, <2>2, <2>3

\* The inductive invariant holds in every behaviour of the coroutine.
THEOREM Invariance == ~InvokeThenThrow /\ ~CopyPtr => (Spec => []IInv)
<1> SUFFICES ASSUME ~InvokeThenThrow, ~CopyPtr PROVE Spec => []IInv
  OBVIOUS
<1>1. Init => IInv
  <2> SUFFICES ASSUME Init PROVE IInv
    OBVIOUS
  <2>1. Inside = {} /\ Cardinality(Inside) = 0
    BY NobodyInside DEF Init, Inside
  <2>2. TypeOK
    <3>1. users \in Int /\ tpc \in [Threads -> {"out", "lock", "check", "lent", "back", "drop"}]
      BY DEF Init
    <3> QED
      BY <3>1, Zenon DEF Init, TypeOK
  <2>3. Placement /\ ResumesSuspended /\ CountsUsers /\ DeletedLast
    BY <2>1 DEF Init, Placement, Running, ResumesSuspended, CountsUsers, InYield, DeletedLast
  <2>4. Ownership /\ Flags /\ OneCallback
    BY <2>1, CBCoroAssumption DEF Init, Ownership, Flags, OneCallback, Calling
  <2> QED
    BY <2>2, <2>3, <2>4 DEF IInv
<1>2. IInv /\ [Next]_vars => IInv'
  <2> SUFFICES ASSUME IInv, [Next]_vars PROVE IInv'
    OBVIOUS
  <2>1. CASE UNCHANGED vars
    BY <2>1 DEF vars, IInv, TypeOK, Placement, Running, ResumesSuspended, CountsUsers, InYield,
        DeletedLast, Ownership, Flags, OneCallback, Calling, Inside
  <2>2. CASE Next
    BY <2>2, BodyKeepsInv, ThreadKeepsInv, DropHeldKeepsInv DEF Next
  <2> QED
    BY <2>1, <2>2
<1> QED
  BY <1>1, <1>2, PTL DEF Spec

\* The body runs on one thread at a time: the one that lent itself and that
\* holds _mutex.
THEOREM BodyIsPlaced == ~InvokeThenThrow /\ ~CopyPtr => (Spec => []Placement)
<1>1. IInv => Placement
  BY DEF IInv
<1> QED
  BY <1>1, Invariance, PTL

\* The captured context is only ever entered while the body is suspended.
THEOREM ResumptionIsSafe == ~InvokeThenThrow /\ ~CopyPtr => (Spec => []ResumesSuspended)
<1>1. IInv => ResumesSuspended
  BY DEF IInv
<1> QED
  BY <1>1, Invariance, PTL

\* The object is deleted last: no thread, callback or pointer reaches it.
THEOREM DeletionIsSafe == ~InvokeThenThrow /\ ~CopyPtr => (Spec => []DeletedLast)
<1>1. IInv => DeletedLast
  BY DEF IInv
<1> QED
  BY <1>1, Invariance, PTL
\* A CBCoroPtr that is kept keeps the object.
THEOREM HeldIsSafe == ~InvokeThenThrow /\ ~CopyPtr => (Spec => []HeldIsAlive)
<1>1. IInv => HeldIsAlive
  BY DEF IInv, DeletedLast, HeldIsAlive
<1> QED
  BY <1>1, Invariance, PTL

\* yieldForCallback() does not return by itself.
THEOREM YieldReturnsWhenInvoked == ~InvokeThenThrow /\ ~CopyPtr => (Spec => ReturnsWhenInvoked)
<1>1. IInv /\ [Next]_vars => [body = "funDone" => body' # "run"]_vars
  <2> SUFFICES ASSUME IInv, Next, body = "funDone" PROVE body' # "run"
    BY DEF vars
  <2>1. ~invokeFromYield
    BY DEF IInv, Flags
  <2> QED
    BY <2>1 DEF Next, BodyStep, Finish, Yield, Arrange, InvokeDirectly, FunThrows, FunReturns,
        Resumed, DropHeld, Start, Callback, ThreadStep, Lock, Resume, Unlock, Drop, Hold
<1> QED
  BY <1>1, Invariance, PTL DEF Spec, ReturnsWhenInvoked
-----------------------------------------------------------------------------
(* The stacks *)

\* The coroutine on its stack is a coroutine: each step is one of CBCoro, or
\* leaves its variables alone.
LEMMA StacksStep == [StacksNext]_allVars => [Next]_vars
<1> SUFFICES ASSUME [StacksNext]_allVars PROVE [Next]_vars
  OBVIOUS
<1>1. CASE UNCHANGED allVars
  BY <1>1 DEF allVars
<1>2. CASE \/ \E c \in Coros : Construct(c)
           \/ \E c \in Others : DeleteOther(c)
  BY <1>2 DEF Construct, DeleteOther
<1>3. CASE BodyRuns \/ PtrDropped
  BY <1>3 DEF BodyRuns, PtrDropped, Next
<1>4. CASE Called
  BY <1>4 DEF Called, Next
<1>5. CASE \E t \in Threads : Started(t) \/ ThreadRuns(t)
  BY <1>5 DEF Started, ThreadRuns, Next
<1> QED
  BY <1>1, <1>2, <1>3, <1>4, <1>5 DEF StacksNext

\* What is true of the coroutine alone is true of it on its stack.
THEOREM StacksImplementCoro == StacksSpec => Spec
<1>1. StacksInit => Init
  BY DEF StacksInit
<1> QED
  BY <1>1, StacksStep, PTL DEF StacksSpec, Spec

\* A stack that is put into the cache, and one that is taken from it.
LEMMA Pushed ==
    ASSUME NEW S, NEW q \in Seq(S), NEW e \in S
    PROVE  LET p == <<e>> \o q
           IN  /\ p \in Seq(S) /\ Len(p) = Len(q) + 1 /\ Len(q) \in Nat
               /\ p[1] = e /\ \A k \in 1 .. Len(q) : p[k + 1] = q[k]
               /\ ToSet(p) = ToSet(q) \cup {e}
<1> DEFINE p == <<e>> \o q
<1>1. p \in Seq(S) /\ Len(p) = Len(q) + 1 /\ Len(q) \in Nat
  OBVIOUS
<1>2. p[1] = e /\ \A k \in 1 .. Len(q) : p[k + 1] = q[k]
  OBVIOUS
<1>3. DOMAIN p = 1 .. Len(p) /\ DOMAIN q = 1 .. Len(q)
  BY <1>1
<1>4. \A k \in 1 .. Len(p) : k = 1 \/ k - 1 \in 1 .. Len(q)
  BY <1>1
<1> HIDE DEF p
<1>5. ToSet(p) = ToSet(q) \cup {e}
  <2>1. ASSUME NEW x \in ToSet(p) PROVE x \in ToSet(q) \cup {e}
    <3>1. PICK k \in 1 .. Len(p) : x = p[k]
      BY <1>3 DEF ToSet
    <3>2. k = 1 \/ x = q[k - 1]
      BY <1>1, <1>2, <1>4, <3>1
    <3> QED
      BY <1>2, <1>3, <1>4, <3>1, <3>2 DEF ToSet
  <2>2. \A k \in 1 .. Len(q) : k + 1 \in 1 .. Len(p)
    BY <1>1
  <2>3. ToSet(q) \cup {e} \subseteq ToSet(p)
    BY <1>1, <1>2, <1>3, <2>2 DEF ToSet
  <2> QED
    BY <2>1, <2>3
<1> QED
  BY <1>1, <1>2, <1>5 DEF p

LEMMA Popped ==
    ASSUME NEW S, NEW q \in Seq(S), q # << >>
    PROVE  /\ Tail(q) \in Seq(S) /\ Len(Tail(q)) = Len(q) - 1 /\ Len(q) \in Nat /\ Len(q) >= 1
           /\ Head(q) = q[1] /\ Head(q) \in S
           /\ \A k \in 1 .. Len(Tail(q)) : Tail(q)[k] = q[k + 1]
           /\ ToSet(q) = ToSet(Tail(q)) \cup {Head(q)}
<1>1. /\ Tail(q) \in Seq(S) /\ Len(Tail(q)) = Len(q) - 1 /\ Len(q) \in Nat /\ Len(q) >= 1
      /\ Head(q) = q[1] /\ Head(q) \in S
      /\ \A k \in 1 .. Len(Tail(q)) : Tail(q)[k] = q[k + 1]
  OBVIOUS
<1>2. DOMAIN q = 1 .. Len(q) /\ DOMAIN Tail(q) = 1 .. Len(Tail(q))
  BY <1>1
<1>3. \A k \in 1 .. Len(q) : k = 1 \/ k - 1 \in 1 .. Len(Tail(q))
  BY <1>1
<1>4. \A k \in 1 .. Len(Tail(q)) : k + 1 \in 1 .. Len(q)
  BY <1>1
<1>5. ToSet(q) = ToSet(Tail(q)) \cup {Head(q)}
  <2>1. ASSUME NEW x \in ToSet(q) PROVE x \in ToSet(Tail(q)) \cup {Head(q)}
    <3>1. PICK k \in 1 .. Len(q) : x = q[k]
      BY <1>2 DEF ToSet
    <3>2. k = 1 \/ x = Tail(q)[k - 1]
      BY <1>1, <1>3, <3>1
    <3> QED
      BY <1>1, <1>2, <1>3, <3>1, <3>2 DEF ToSet
  <2>2. ToSet(Tail(q)) \cup {Head(q)} \subseteq ToSet(q)
    BY <1>1, <1>2, <1>4 DEF ToSet
  <2> QED
    BY <2>1, <2>2
<1> QED
  BY <1>1, <1>5

\* A constructor takes a stack that nobody has.
LEMMA AllocateKeeps ==
    ASSUME StacksInv, NEW c \in Coros, stack[c] = NoStack, NEW size \in CacheSizes,
           AllocateStack(c, size), cacheStack' = [cacheStack EXCEPT ![c] = size], UNCHANGED vars
    PROVE  StacksInv'
<1> USE StacksAssumption DEF StacksInv
<1>1. cacheStack' \in [Coros -> Nat]
  OBVIOUS
<1>2. Cardinality(Used) \in Nat /\ Cardinality(mapped) \in Nat
  BY FS_CardinalityType
<1>3. CASE size > 0 /\ cache # << >>
  <2>1. stack' = [stack EXCEPT ![c] = Head(cache)] /\ cache' = Tail(cache) /\ mapped' = mapped
    BY <1>3 DEF AllocateStack
  <2>2. /\ cache' \in Seq(Stacks) /\ Len(cache') = Len(cache) - 1 /\ Len(cache) \in Nat
        /\ Len(cache) >= 1 /\ Head(cache) = cache[1] /\ Head(cache) \in Stacks
        /\ \A k \in 1 .. Len(cache') : cache'[k] = cache[k + 1]
        /\ ToSet(cache) = ToSet(cache') \cup {Head(cache)}
    BY <1>3, <2>1, Popped
  <2>3. stack' \in [Coros -> Stacks \cup {NoStack}] /\ Used' = Used \cup {c} /\ c \notin Used
    BY <2>1, <2>2 DEF Used
  <2>4. IsFiniteSet(Used') /\ Cardinality(Used') = Cardinality(Used) + 1
    BY <2>3, FS_AddElement
  <2>5. {stack'[d] : d \in Used'} = {stack[d] : d \in Used} \cup {Head(cache)}
    BY <2>1, <2>3 DEF Used
  <2>6. \A i, j \in 1 .. Len(cache') : cache'[i] = cache'[j] => i = j
    <3>1. ASSUME NEW i \in 1 .. Len(cache'), NEW j \in 1 .. Len(cache'), cache'[i] = cache'[j]
          PROVE  i = j
      <4>1. i + 1 \in 1 .. Len(cache) /\ j + 1 \in 1 .. Len(cache) /\ cache[i + 1] = cache[j + 1]
        BY <2>2, <3>1
      <4>2. i + 1 = j + 1
        BY <4>1
      <4> QED
        BY <4>2
    <3> QED
      BY <3>1
  <2>7. \A i \in 1 .. Len(cache') : cache'[i] # Head(cache)
    <3>1. ASSUME NEW i \in 1 .. Len(cache') PROVE cache'[i] # Head(cache)
      <4>1. i + 1 \in 1 .. Len(cache) /\ 1 \in 1 .. Len(cache) /\ i + 1 # 1
        BY <2>2
      <4> QED
        BY <2>2, <4>1
    <3> QED
      BY <3>1
  <2>8. \A d, e \in Used' : stack'[d] = stack'[e] => d = e
    <3>1. \A d \in Used : stack'[d] = stack[d] /\ stack[d] # Head(cache)
      BY <2>1, <2>2, <2>3 DEF Used
    <3> QED
      BY <2>1, <2>3, <3>1 DEF Used
  <2>9. \A d \in Used', i \in 1 .. Len(cache') : stack'[d] # cache'[i]
    <3>1. ASSUME NEW i \in 1 .. Len(cache')
          PROVE  i + 1 \in 1 .. Len(cache) /\ cache'[i] = cache[i + 1]
      <4> HIDE DEF StacksInv
      <4> QED
        BY <2>2
    <3>2. \A d \in Used : stack'[d] = stack[d]
      BY <2>1, <2>3 DEF Used
    <3> QED
      BY <2>1, <2>3, <2>7, <3>1, <3>2 DEF Used
  <2>10. mapped' = ToSet(cache') \cup {stack'[d] : d \in Used'}
    BY <2>1, <2>2, <2>5
  <2>11. Cardinality(mapped') = Len(cache') + Cardinality(Used')
    BY <1>2, <2>1, <2>2, <2>4
  <2> QED
    BY <1>1, <2>1, <2>2, <2>3, <2>4, <2>6, <2>8, <2>9, <2>10, <2>11 DEF vars
<1>4. CASE ~(size > 0 /\ cache # << >>)
  <2>1. PICK s \in Stacks \ mapped :
          stack' = [stack EXCEPT ![c] = s] /\ mapped' = mapped \cup {s} /\ cache' = cache
    BY <1>4 DEF AllocateStack
  <2>2. /\ stack' \in [Coros -> Stacks \cup {NoStack}] /\ s # NoStack
        /\ Used' = Used \cup {c} /\ c \notin Used
    BY <2>1 DEF Used
  <2>3. /\ IsFiniteSet(Used') /\ Cardinality(Used') = Cardinality(Used) + 1
        /\ IsFiniteSet(mapped') /\ Cardinality(mapped') = Cardinality(mapped) + 1
    BY <2>1, <2>2, FS_AddElement
  <2>4. \A d \in Used : stack'[d] = stack[d] /\ stack[d] # s
    BY <2>1, <2>2 DEF Used
  <2>5. \A i \in 1 .. Len(cache) : cache[i] # s
    BY <2>1 DEF ToSet
  <2>6. {stack'[d] : d \in Used'} = {stack[d] : d \in Used} \cup {s}
    BY <2>1, <2>2, <2>4
  <2>7. mapped' = ToSet(cache') \cup {stack'[d] : d \in Used'}
    BY <2>1, <2>6
  <2>8. Cardinality(mapped') = Len(cache') + Cardinality(Used')
    BY <1>2, <2>1, <2>3
  <2> QED
    BY <1>1, <2>1, <2>2, <2>3, <2>4, <2>5, <2>7, <2>8 DEF vars
<1> QED
  BY <1>3, <1>4

\* A destructor puts its stack into the cache or unmaps it.
LEMMA FreeKeeps ==
    ASSUME StacksInv, NEW c \in Used, FreeStack(c),
           body' = "new" \/ freed' \/ This \in Used'
    PROVE  StacksInv'
<1> USE StacksAssumption DEF StacksInv
<1>1. /\ stack' = [stack EXCEPT ![c] = NoStack] /\ c \in Coros /\ stack[c] \in Stacks
      /\ stack' \in [Coros -> Stacks \cup {NoStack}] /\ cacheStack' \in [Coros -> Nat]
  BY DEF FreeStack, Used
<1>2. Used' = Used \ {c} /\ \A d \in Used' : stack'[d] = stack[d] /\ stack[d] # stack[c]
  BY <1>1 DEF Used
<1>3. /\ IsFiniteSet(Used') /\ Cardinality(Used') = Cardinality(Used) - 1
      /\ Cardinality(Used) \in Nat /\ Cardinality(mapped) \in Nat
  BY <1>2, FS_RemoveElement, FS_CardinalityType
<1>4. {stack[d] : d \in Used} = {stack'[d] : d \in Used'} \cup {stack[c]}
  BY <1>2
<1>5. \A d, e \in Used' : stack'[d] = stack'[e] => d = e
  BY <1>2
<1>6. CASE Len(cache) < cacheStack[c]
  <2>1. cache' = <<stack[c]>> \o cache /\ mapped' = mapped
    BY <1>6 DEF FreeStack
  <2>2. /\ cache' \in Seq(Stacks) /\ Len(cache') = Len(cache) + 1 /\ Len(cache) \in Nat
        /\ cache'[1] = stack[c] /\ \A k \in 1 .. Len(cache) : cache'[k + 1] = cache[k]
        /\ ToSet(cache') = ToSet(cache) \cup {stack[c]}
    BY <1>1, <2>1, Pushed
  <2>3. \A i \in 1 .. Len(cache') :
          \/ i = 1 /\ cache'[i] = stack[c]
          \/ i - 1 \in 1 .. Len(cache) /\ cache'[i] = cache[i - 1] /\ cache'[i] # stack[c]
    <3>1. ASSUME NEW i \in 1 .. Len(cache'), i # 1
          PROVE  i - 1 \in 1 .. Len(cache) /\ cache'[i] = cache[i - 1] /\ cache'[i] # stack[c]
      <4>1. i - 1 \in 1 .. Len(cache) /\ (i - 1) + 1 = i
        BY <2>2, <3>1
      <4>2. cache'[(i - 1) + 1] = cache[i - 1]
        BY <2>2, <4>1
      <4> QED
        BY <4>1, <4>2
    <3> QED
      BY <2>2, <3>1
  <2>4. \A i, j \in 1 .. Len(cache') : cache'[i] = cache'[j] => i = j
    <3>1. ASSUME NEW i \in 1 .. Len(cache'), NEW j \in 1 .. Len(cache'), cache'[i] = cache'[j],
                 i # 1, j # 1
          PROVE  i = j
      <4>1. i - 1 = j - 1
        BY <2>3, <3>1
      <4> QED
        BY <2>2, <4>1
    <3> QED
      BY <2>3, <3>1
  <2>5. \A d \in Used', i \in 1 .. Len(cache') : stack'[d] # cache'[i]
    BY <1>2, <2>3
  <2>6. mapped' = ToSet(cache') \cup {stack'[d] : d \in Used'}
    BY <1>4, <2>1, <2>2
  <2>7. Cardinality(mapped') = Len(cache') + Cardinality(Used')
    BY <1>3, <2>1, <2>2
  <2> QED
    BY <1>1, <1>3, <1>5, <2>1, <2>2, <2>4, <2>5, <2>6, <2>7
<1>7. CASE ~(Len(cache) < cacheStack[c])
  <2>1. mapped' = mapped \ {stack[c]} /\ cache' = cache
    BY <1>7 DEF FreeStack
  <2>2. stack[c] \in mapped
    BY <1>4
  <2>3. IsFiniteSet(mapped') /\ Cardinality(mapped') = Cardinality(mapped) - 1
    BY <2>1, <2>2, FS_RemoveElement
  <2>4. stack[c] \notin ToSet(cache)
    BY DEF ToSet
  <2>5. stack[c] \notin {stack'[d] : d \in Used'}
    BY <1>2
  <2>6. mapped' = ToSet(cache') \cup {stack'[d] : d \in Used'}
    BY <1>4, <2>1, <2>4, <2>5
  <2>7. Cardinality(mapped') = Len(cache') + Cardinality(Used')
    BY <1>3, <2>1, <2>3
  <2> QED
    BY <1>1, <1>2, <1>3, <1>5, <2>1, <2>3, <2>6, <2>7
<1> QED
  BY <1>6, <1>7

\* A step may leave the stacks alone unless it starts a coroutine without one.
LEMMA StacksAlone ==
    ASSUME StacksInv, UNCHANGED stackVars, freed => freed',
           body' = "new" \/ body # "new" \/ This \in Used
    PROVE  StacksInv'
<1>1. Used' = Used /\ UNCHANGED <<stack, cacheStack, cache, mapped>>
  BY DEF stackVars, Used
<1> HIDE DEF Used
<1>2. {stack'[c] : c \in Used'} = {stack[c] : c \in Used} /\ ToSet(cache') = ToSet(cache)
  BY <1>1
<1> QED
  BY <1>1, <1>2 DEF StacksInv

\* Reclaim frees the stack of a coroutine that has one.
LEMMA ReclaimKeeps ==
    ASSUME StacksInv, IInv, body # "new", freed => freed', Reclaim
    PROVE  StacksInv'
<1>1. CASE freed' /\ ~freed
  <2>1. This \in Used /\ FreeStack(This)
    BY <1>1 DEF StacksInv, Reclaim
  <2> QED
    BY <1>1, <2>1, FreeKeeps
<1>2. CASE ~(freed' /\ ~freed)
  BY <1>2, StacksAlone DEF Reclaim
<1> QED
  BY <1>1, <1>2

\* Every step keeps the invariant of the stacks.
LEMMA StacksKeepInv ==
    ASSUME StacksInv, IInv, [StacksNext]_allVars
    PROVE  StacksInv'
<1>1. CASE UNCHANGED allVars
  <2>1. UNCHANGED vars /\ UNCHANGED stackVars
    BY <1>1 DEF allVars
  <2> QED
    BY <2>1, StacksAlone DEF vars
<1>2. ASSUME NEW c \in Coros, Construct(c) PROVE StacksInv'
  BY <1>2, AllocateKeeps DEF Construct
<1>3. ASSUME NEW c \in Others, DeleteOther(c) PROVE StacksInv'
  <2>1. c \in Used /\ c # This /\ FreeStack(c) /\ UNCHANGED vars
    BY <1>3, StacksAssumption DEF DeleteOther, Coros, Used
  <2>2. This \in Used => This \in Used'
    BY <2>1 DEF FreeStack, StacksInv, Used
  <2>3. body' = "new" \/ freed' \/ This \in Used'
    BY <2>1, <2>2 DEF StacksInv, vars
  <2> QED
    BY <2>1, <2>3, FreeKeeps
<1>4. CASE BodyRuns
  <2>1. Reclaim /\ BodyStep
    BY <1>4 DEF BodyRuns
  <2>2. body # "new" /\ (freed => freed')
    BY <2>1 DEF BodyStep, Finish, Yield, Arrange, InvokeDirectly, FunThrows, FunReturns, Resumed, DropPtr
  <2> QED
    BY <2>1, <2>2, ReclaimKeeps
<1>5. CASE PtrDropped
  <2>1. DropHeld /\ Reclaim /\ body' = body
    BY <1>5 DEF PtrDropped, DropHeld
  <2>2. body # "new" /\ (freed => freed')
    BY <2>1 DEF DropHeld, DropPtr, IInv, OneCallback
  <2> QED
    BY <2>1, <2>2, ReclaimKeeps
<1>6. CASE Called
  <2>1. UNCHANGED stackVars /\ body' = body /\ freed' = freed
    BY <1>6 DEF Called, Callback
  <2> QED
    BY <2>1, StacksAlone
<1>7. ASSUME NEW t \in Threads, Started(t) PROVE StacksInv'
  <2>1. UNCHANGED stackVars /\ This \in Used /\ freed' = freed
    BY <1>7 DEF Started, Start, Used, Coros
  <2> QED
    BY <2>1, StacksAlone
<1>8. ASSUME NEW t \in Threads, ThreadRuns(t) PROVE StacksInv'
  <2>1. ThreadStep(t) /\ Reclaim /\ t \in Inside
    BY <1>8 DEF ThreadRuns, ThreadStep, Lock, Resume, Unlock, Drop, Hold, Inside
  <2>2. body # "new"
    BY <2>1 DEF IInv, OneCallback
  <2>3. freed => freed'
    BY <2>1 DEF ThreadStep, Lock, Resume, Unlock, Drop, Hold, DropPtr
  <2> QED
    BY <2>1, <2>2, <2>3, ReclaimKeeps
<1> QED
  BY <1>1, <1>2, <1>3, <1>4, <1>5, <1>6, <1>7, <1>8 DEF StacksNext

\* Both invariants hold in every behaviour of the coroutine on its stack.
THEOREM StacksInvariance == ~InvokeThenThrow /\ ~CopyPtr => (StacksSpec => [](IInv /\ StacksInv))
<1> SUFFICES ASSUME ~InvokeThenThrow, ~CopyPtr PROVE StacksSpec => [](IInv /\ StacksInv)
  OBVIOUS
<1>1. StacksInit => StacksInv
  <2> SUFFICES ASSUME StacksInit PROVE StacksInv
    OBVIOUS
  <2>1. Used = {} /\ ToSet(cache) = {}
    BY DEF StacksInit, Used, ToSet
  <2>2. /\ stack \in [Coros -> Stacks \cup {NoStack}] /\ cache \in Seq(Stacks) /\ Len(cache) = 0
        /\ cacheStack \in [Coros -> Nat] /\ mapped = {} /\ body = "new"
    BY DEF StacksInit, Init
  <2> QED
    BY <2>1, <2>2, FS_EmptySet DEF StacksInv
<1>2. IInv /\ StacksInv /\ [StacksNext]_allVars => StacksInv'
  BY StacksKeepInv
<1>3. StacksSpec => []IInv
  BY StacksImplementCoro, Invariance
<1> QED
  BY <1>1, <1>2, <1>3, PTL DEF StacksSpec

\* A stack is in one place, and a coroutine has its own until nothing can run
\* on it any more.
THEOREM StacksAreOwned == ~InvokeThenThrow /\ ~CopyPtr => (StacksSpec => []OnePlace)
<1>1. IInv /\ StacksInv => OnePlace
  BY DEF IInv, StacksInv, OnePlace, OneCallback, DeletedLast, InYield, Running
<1> QED
  BY <1>1, StacksInvariance, PTL
=============================================================================
