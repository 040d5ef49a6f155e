---------------------------- MODULE CBCoroStacks ----------------------------
(* The stacks that coroutines run on (cbcoro.hpp:40-92): a constructor takes *)
(* one from a cache that all the threads share, or maps one; a destructor    *)
(* puts it there for the next, or unmaps it.  One coroutine is CBCoro's, run *)
(* step by step and deleted by whoever drops its last CBCoroPtr, while others*)
(* come and go.  All have stacks of one size: those of another size are in a *)
(* list of their own.  What mmap and munmap do is external.                  *)
EXTENDS CBCoro, SequencesExt

CONSTANTS
    This, Others,   \* the coroutine of CBCoro, and those beside it
    Stacks, NoStack,    \* what mmap can return
    CacheSizes      \* the values given for _cacheStack

ASSUME StacksAssumption ==
    This \notin Others /\ NoStack \notin Stacks /\ CacheSizes \subseteq Nat

VARIABLES
    cacheStack, \* _cacheStack of each coroutine
    stack,      \* _stack of each coroutine: NoStack if it does not exist
    cache,      \* cache()[_stackSize], the stack that was freed last first
    mapped      \* the stacks that are mapped

stackVars == <<cacheStack, stack, cache, mapped>>
allVars == <<vars, stackVars>>

Coros == {This} \cup Others

StacksInit ==
    /\ Init
    /\ cacheStack = [c \in Coros |-> 0]
    /\ stack = [c \in Coros |-> NoStack]
    /\ cache = << >> /\ mapped = {}

\* Mutation: the cached stack is not taken off the list.
AllocateStack_Peek(c, size) ==
    IF size > 0 /\ cache # << >>
    THEN stack' = [stack EXCEPT ![c] = Head(cache)] /\ UNCHANGED <<cache, mapped>>
    ELSE \E s \in Stacks \ mapped :
            /\ stack' = [stack EXCEPT ![c] = s] /\ mapped' = mapped \cup {s}
            /\ UNCHANGED cache

\* If mmap fails this throws, and there is no coroutine.
AllocateStack(c, size) ==
    IF size > 0 /\ cache # << >>
    THEN /\ stack' = [stack EXCEPT ![c] = Head(cache)] /\ cache' = Tail(cache)
         /\ UNCHANGED mapped
    ELSE \E s \in Stacks \ mapped :
            /\ stack' = [stack EXCEPT ![c] = s] /\ mapped' = mapped \cup {s}
            /\ UNCHANGED cache

FreeStack(c) ==
    /\ stack' = [stack EXCEPT ![c] = NoStack]
    /\ cacheStack' = [cacheStack EXCEPT ![c] = 0]
    /\ IF Len(cache) < cacheStack[c]
       THEN cache' = <<stack[c]>> \o cache /\ UNCHANGED mapped
       ELSE mapped' = mapped \ {stack[c]} /\ UNCHANGED cache

Construct(c) ==
    /\ stack[c] = NoStack /\ (c = This => body = "new")
    /\ \E size \in CacheSizes :
          AllocateStack(c, size) /\ cacheStack' = [cacheStack EXCEPT ![c] = size]
    /\ UNCHANGED vars

\* Another coroutine is deleted, on whichever thread.
DeleteOther(c) == stack[c] # NoStack /\ FreeStack(c) /\ UNCHANGED vars

\* The last CBCoroPtr deletes this one.
Reclaim == IF freed' /\ ~freed THEN FreeStack(This) ELSE UNCHANGED stackVars

Started(t) == stack[This] # NoStack /\ Start(t) /\ UNCHANGED stackVars
Called == (\E t \in Threads : Callback(t)) /\ UNCHANGED stackVars
BodyRuns == BodyStep /\ Reclaim
ThreadRuns(t) == ThreadStep(t) /\ Reclaim
PtrDropped == DropHeld /\ Reclaim

StacksNext ==
    \/ \E c \in Coros : Construct(c)
    \/ \E c \in Others : DeleteOther(c)
    \/ BodyRuns \/ PtrDropped \/ Called
    \/ \E t \in Threads : Started(t) \/ ThreadRuns(t)

\* As in CBCoro.
StacksSpec ==
    /\ StacksInit /\ [][StacksNext]_allVars
    /\ WF_allVars(BodyRuns) /\ WF_allVars(PtrDropped) /\ WF_allVars(Called)
    /\ \A t \in Threads : WF_allVars(ThreadRuns(t))
-----------------------------------------------------------------------------
(* Properties. ResumesSuspended, DeletedLast, Resumption and Deletion are    *)
(* CBCoro's.                                                                 *)

\* A stack is in one place: in use by one coroutine, which exists, or once in
\* the cache; what is mapped is in either, and nothing else is (cbcoro.hpp:57,
\* 69). As long as the body has frames on its stack, or a thread or a callback
\* may go back to it, the coroutine has it.
Used == {c \in Coros : stack[c] # NoStack}
OnePlace ==
    /\ mapped = ToSet(cache) \cup {stack[c] : c \in Used}
    /\ Cardinality(mapped) = Len(cache) + Cardinality(Used)
    /\ InYield \/ Running \/ pending \/ Inside # {} => This \in Used

\* The inductive strengthening, beside CBCoro's: no stack is there twice, and
\* this coroutine has one from its constructor on until it is deleted.
StacksInv ==
    /\ stack \in [Coros -> Stacks \cup {NoStack}] /\ cache \in Seq(Stacks)
    /\ cacheStack \in [Coros -> Nat]
    /\ mapped = ToSet(cache) \cup {stack[c] : c \in Used}
    /\ \A c, d \in Used : stack[c] = stack[d] => c = d
    /\ \A i, j \in 1 .. Len(cache) : cache[i] = cache[j] => i = j
    /\ \A c \in Used, i \in 1 .. Len(cache) : stack[c] # cache[i]
    /\ IsFiniteSet(mapped) /\ IsFiniteSet(Used)
    /\ Cardinality(mapped) = Len(cache) + Cardinality(Used)
    /\ body = "new" \/ freed \/ This \in Used
=============================================================================
