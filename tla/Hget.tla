-------------------------------- MODULE Hget -------------------------------
(* glim::hget (hget.hpp): HTTP requests on a libevent loop, and goUntil,     *)
(* which repeats a request over a list of URLs until a handler is content.   *)
(* HgetUntilHandler is a functor that is copied into every request and every *)
(* timer: the copies carry the state of the retries, and it is the copy in   *)
(* the request just answered that goes on.  Everything after goUntil runs on *)
(* the thread of the loop, one callback at a time.  URLs are indices.        *)
EXTENDS Integers, FiniteSets

CONSTANTS
    UintMod,       \* the number of values of _nextUrl, a uint8_t: 256
    UrlCounts,     \* the lengths of the list of URLs
    MaxRequests,   \* the handler is content with the answer of this number
    GoMayFail      \* evhttp_add_header, evhttp_make_request or
                   \* event_base_once may fail

ASSUME HgetAssumption ==
    /\ UintMod \in Nat \ {0} /\ MaxRequests \in Nat \ {0}
    /\ UrlCounts \subseteq Nat \ {0} /\ GoMayFail \in BOOLEAN

VARIABLES
    urls,       \* _urls.size()
    phase,      \* "new", "running", "ended", "threw" (to the caller of goUntil
                \* or through the loop)
    requests,   \* the requests that evhttp has: the URL asked and the copy of
                \* the functor in its hgetContext
    timers,     \* the functors whose retry waits for event_base_once
    conns,      \* how many evhttp_connections there are
    leaked,     \* how many of them a failed go() left behind
    told        \* what the handler was last given, and the request it was for

hgetVars == <<urls, phase, requests, timers, conns, leaked, told>>

Functor == [nextUrl : 0 .. UintMod - 1, requestNum : Nat]
ToldNothing == [url |-> -1, num |-> 0, asked |-> -1]

HgetInit ==
    /\ urls \in UrlCounts /\ phase = "new"
    /\ requests = {} /\ timers = {} /\ conns = 0 /\ leaked = 0
    /\ told = ToldNothing

Increment(x) == IF x = UintMod - 1 THEN 0 ELSE x + 1

\* The functor after retry() took its URL: _nextUrl++, in a uint8_t, its reset
\* at the end of the list, and ++_requestNum.
Advance(f) ==
    [nextUrl |-> IF Increment(f.nextUrl) >= urls THEN 0 ELSE Increment(f.nextUrl),
     requestNum |-> f.requestNum + 1]

\* The request that retry() gives to evhttp, with a copy of the functor.
Request(f) == [url |-> f.nextUrl, functor |-> Advance(f)]

\* retry() outside hgetCB: go() makes a connection and the request, or throws,
\* when nobody frees its connection and its context.
Retry(f) ==
    \/ /\ requests' = requests \cup {Request(f)}
       /\ phase' = "running" /\ conns' = conns + 1 /\ UNCHANGED leaked
    \/ /\ GoMayFail
       /\ phase' = "threw" /\ conns' = conns + 1 /\ leaked' = leaked + 1
       /\ UNCHANGED requests

-----------------------------------------------------------------------------
\* goUntil(), and goUntilS() and goUntilC(), which throw before any request
\* when a URL cannot be parsed.
GoUntil ==
    /\ phase = "new"
    /\ \/ Retry([nextUrl |-> 0, requestNum |-> 0])
       \/ phase' = "threw" /\ UNCHANGED <<requests, conns, leaked>>
    /\ UNCHANGED <<urls, timers, told>>

\* HgetUntilHandler::operator() works out which URL was asked from the one
\* that is next, in a uint8_t, and calls the handler.
Handler(r) ==
    LET next == r.functor.nextUrl
        urlNum == IF next # 0 THEN next - 1 ELSE (urls - 1) % UintMod
    IN  told' = [url |-> urlNum, num |-> r.functor.requestNum, asked |-> r.url]

\* hgetCB when the handler returns 0: retry() in the callback, with another
\* connection, before the one of the answered request is freed.  An exception
\* of go() is caught, which ends the retries.
AnswerNow(r) ==
    /\ r.functor.requestNum < MaxRequests
    /\ Handler(r)
    /\ \/ /\ requests' = (requests \ {r}) \cup {Request(r.functor)}
          /\ UNCHANGED <<phase, conns, leaked>>
       \/ /\ GoMayFail /\ requests' = requests \ {r}
          /\ leaked' = leaked + 1 /\ phase' = "ended" /\ UNCHANGED conns
    /\ UNCHANGED <<urls, timers>>

\* Mutation: the result of event_base_once is not looked at.
AnswerLater_Unchecked(r) ==
    /\ r.functor.requestNum < MaxRequests
    /\ Handler(r)
    /\ requests' = requests \ {r} /\ conns' = conns - 1
    /\ timers' \in {timers, timers \cup {r.functor}}
    /\ UNCHANGED <<urls, phase, leaked>>

\* ... when it returns a positive number: a copy of the functor waits for the
\* timer; event_base_once failing is caught.
AnswerLater(r) ==
    /\ r.functor.requestNum < MaxRequests
    /\ Handler(r)
    /\ requests' = requests \ {r} /\ conns' = conns - 1
    /\ \/ timers' = timers \cup {r.functor} /\ UNCHANGED phase
       \/ GoMayFail /\ phase' = "ended" /\ UNCHANGED timers
    /\ UNCHANGED <<urls, leaked>>

\* ... and when it returns -1 or throws a std::runtime_error.
AnswerLast(r) ==
    /\ Handler(r)
    /\ requests' = requests \ {r} /\ phase' = "ended"
    /\ conns' = conns - 1
    /\ UNCHANGED <<urls, timers, leaked>>

\* Mutation: the timer is persistent.
Fire_Persistent(f) == Retry(f) /\ UNCHANGED <<urls, timers, told>>

\* Mutation: the timer is given a new functor instead of a copy.
Fire_New(f) ==
    /\ timers' = timers \ {f}
    /\ Retry([nextUrl |-> 0, requestNum |-> 0])
    /\ UNCHANGED <<urls, told>>

\* hgetUntilRetryCB: the copy is deleted, also when go() throws out of it.
Fire(f) ==
    /\ timers' = timers \ {f} /\ Retry(f)
    /\ UNCHANGED <<urls, told>>

Answer(r) == AnswerNow(r) \/ AnswerLater(r) \/ AnswerLast(r)
HgetNext ==
    \/ GoUntil
    \/ \E r \in requests : Answer(r)
    \/ \E f \in timers : Fire(f)

HgetSpec == HgetInit /\ [][HgetNext]_hgetVars
\* libevent answers every request, if only with a timeout, and fires timers.
FairHget ==
    /\ HgetSpec
    /\ WF_hgetVars(\E r \in requests : Answer(r)) /\ WF_hgetVars(\E f \in timers : Fire(f))

-----------------------------------------------------------------------------
(* Properties *)

\* Every variable keeps its type (the members of hget.hpp:203-208), and _urls is
\* only accessed within its size.
Requests == [url : 0 .. urls - 1, functor : Functor]
HgetTypeOK ==
    /\ urls \in UrlCounts /\ phase \in {"new", "running", "ended", "threw"}
    /\ requests \subseteq Requests /\ timers \subseteq Functor
    /\ \A f \in timers : f.nextUrl < urls
    /\ \A r \in requests : r.functor.nextUrl < urls
    /\ conns \in Int /\ leaked \in Nat
    /\ told \in [url : Int, num : Nat, asked : Int]

\* The handler is given the URL of the request that was answered, although it
\* is worked out from the one that is next (hget.hpp:212), as long as a uint8_t
\* can count the URLs.
ToldUrl == urls <= UintMod => told.url = told.asked

\* goUntil is one chain: a request or a timer, never both and never two, and
\* none once it ended, whatever failed.
OneChain ==
    /\ \A r, q \in requests : r = q
    /\ \A f, g \in timers : f = g
    /\ requests = {} \/ timers = {}
    /\ phase # "running" => requests = {} /\ timers = {}

\* Every connection belongs to a request in progress or to a go() that failed:
\* hgetCB frees the one it answers also when the handler throws.
ConnsOfRequests == conns = Cardinality(requests) + leaked

\* "Retry the request using multiple URLs in a round-robin fashion"
\* (hget.hpp:240): each request asks the URL after the one that was answered
\* last, and has the next number, starting from 1 (hget.hpp:95).
After(u) == IF u = urls - 1 THEN 0 ELSE u + 1
RoundRobin ==
    urls <= UintMod =>
        \A r \in requests :
            /\ r.functor.requestNum = told.num + 1
            /\ r.url = IF told.num = 0 THEN 0 ELSE After(told.asked)

\* The inductive strengthening: the copies of the functor point to the URL after
\* the last one, and a timer comes after an answer.
FunctorsAgree ==
    urls <= UintMod =>
        /\ \A r \in requests : r.functor.nextUrl = After(r.url)
        /\ \A f \in timers : f.requestNum = told.num /\ told.num > 0 /\ f.nextUrl = After(told.asked)
        /\ phase = "new" => told.num = 0
HgetInv == HgetTypeOK /\ ToldUrl /\ OneChain /\ ConnsOfRequests /\ RoundRobin /\ FunctorsAgree

\* goUntil ends with an answer the handler is content with or a failure.
Ends == phase = "running" ~> phase \in {"ended", "threw"}
=============================================================================
