---------------------------- MODULE EbayClient -----------------------------
(***************************************************************************)
(* The request path of the eBay client: a token from the cache, the store  *)
(* or a refresh that concurrent requests share, then up to MaxRetries + 1  *)
(* calls, each through the limiter.                                        *)
(*                                                                         *)
(* One process.  The code between two awaits is one step.  A token is the  *)
(* number of the refresh it came from, and those below "aged" are within   *)
(* the safety margin of their end.  Back-off is the delay before the next  *)
(* call.  setTokenError writes a text that nothing reads.                  *)
(***************************************************************************)
EXTENDS RateLimiter

CONSTANTS
    Callers,      \* requests
    Refresh,      \* the task that refreshes the token
    MaxRetries,   \* maxRetries
    MaxTokens,    \* bound: the tokens up to this one age
    NoToken       \* undefined: nothing cached, nothing loaded

ASSUME ClientAssumption ==
    /\ Refresh \notin Callers /\ Tasks = Callers \cup {Refresh}
    /\ MaxRetries \in Nat /\ MaxTokens \in Nat /\ NoToken \notin Nat

VARIABLES
    stored, aged,    \* the active token of the store; tokens below it are about to end
    cached,          \* the token in the cache, or NoToken
    inFlight,        \* refreshInFlight has an entry
    place,           \* a request: its next await
    token,           \* a request: the token it read or uses
    attempt          \* a request: attempt number of withRetry

tokens == <<stored, aged, cached, inFlight>>
requests == <<place, token, attempt>>
vars == <<limiter, tokens, requests>>

Init ==
    /\ LimiterInit
    /\ stored = 0 /\ aged = 0 /\ cached = NoToken /\ inFlight = FALSE
    /\ place = [c \in Callers |-> "new"] /\ token = [c \in Callers |-> NoToken]
    /\ attempt = [c \in Callers |-> 0]

Goes(c, p, t) == place' = [place EXCEPT ![c] = p] /\ token' = [token EXCEPT ![c] = t]

\* A token within the safety margin of its end.
Ending(t) == t < aged

-----------------------------------------------------------------------------
(* getUsableToken.                                                         *)

FromCache(c) ==
    /\ place[c] = "new"
    /\ IF cached # NoToken /\ ~Ending(cached)
       THEN Goes(c, "ready", cached) ELSE Goes(c, "load", NoToken)
    /\ UNCHANGED <<limiter, tokens, attempt>>

\* getLatestActiveToken: the row as the store has it, or an error.
FromStore(c) ==
    /\ place[c] = "load"
    /\ Goes(c, "loaded", stored) \/ Goes(c, "failed", NoToken)
    /\ UNCHANGED <<limiter, tokens, attempt>>

\* Mutant: the shared refresh is not looked up.
JoinsNever == FALSE

Joins == inFlight

\* refreshTokenIfNeeded: the row it loaded is good, or the request waits for a
\* refresh, its own or one that is running; a full queue refuses its own.
UseToken(c) ==
    /\ place[c] = "loaded"
    /\ \/ /\ ~Ending(token[c])
          /\ Goes(c, "ready", token[c]) /\ cached' = token[c]
          /\ UNCHANGED <<limiter, inFlight>>
       \/ /\ Ending(token[c]) /\ Joins
          /\ Goes(c, "await", NoToken) /\ UNCHANGED <<limiter, cached, inFlight>>
       \/ /\ Ending(token[c]) /\ ~Joins
          /\ \/ Schedule(Refresh) /\ inFlight' = TRUE /\ Goes(c, "await", NoToken)
             \/ Full /\ Goes(c, "failed", NoToken) /\ UNCHANGED <<limiter, inFlight>>
          /\ UNCHANGED cached
    /\ UNCHANGED <<stored, aged, attempt>>

\* Mutant: a failed refresh stays in the map.
ForgetsOnSuccess(ok) == ~ok

Remembered(ok) == FALSE

\* Mutant: who waited for a refresh that failed starts another.
AfterRefreshAgain(ok) == IF ok THEN "ready" ELSE "load"

AfterRefresh(ok) == IF ok THEN "ready" ELSE "failed"

\* The refresh ends: everybody who waits gets the new token, or fails.  Its errors
\* are not of the class that is retried.
RefreshEnds ==
    /\ Refresh \in running
    /\ \E ok \in BOOLEAN :
        /\ Release(Refresh)
        /\ stored' = IF ok THEN stored + 1 ELSE stored
        /\ cached' = IF ok THEN stored + 1 ELSE cached
        /\ inFlight' = Remembered(ok)
        /\ place' = [c \in Callers |-> IF place[c] = "await" THEN AfterRefresh(ok) ELSE place[c]]
        /\ token' = [c \in Callers |-> IF place[c] = "await" /\ ok THEN stored + 1 ELSE token[c]]
    /\ UNCHANGED <<aged, attempt>>

-----------------------------------------------------------------------------
(* The calls.                                                              *)

\* withRetry schedules a call; RateLimiterOverflowError is not retried.
Attempt(c) ==
    /\ place[c] = "ready"
    /\ \/ Schedule(c) /\ Goes(c, "call", token[c])
       \/ Full /\ Goes(c, "failed", token[c]) /\ UNCHANGED limiter
    /\ UNCHANGED <<tokens, attempt>>

\* Mutant: the number of retries is not compared.
RetriesLeftAlways(c) == TRUE

RetriesLeft(c) == attempt[c] < MaxRetries

\* The call ends: an answer, an error that may pass (429, 5xx, network, timeout), or
\* one that will not (401, 403, other 4xx).
CallEnds(c) ==
    /\ c \in running
    /\ Release(c)
    /\ \/ Goes(c, "done", token[c]) /\ UNCHANGED attempt
       \/ Goes(c, "failed", token[c]) /\ UNCHANGED attempt
       \/ /\ RetriesLeft(c)
          /\ Goes(c, "ready", token[c]) /\ attempt' = [attempt EXCEPT ![c] = @ + 1]
    /\ UNCHANGED tokens

-----------------------------------------------------------------------------

TokenAges ==
    /\ aged <= stored /\ aged < MaxTokens /\ aged' = aged + 1
    /\ UNCHANGED <<limiter, stored, cached, inFlight, requests>>

\* The worker that refreshes tokens in another process, by its own clock.
RefreshWorker ==
    /\ stored < MaxTokens
    /\ stored' = stored + 1
    /\ UNCHANGED <<limiter, aged, cached, inFlight, requests>>

Request(c) == FromCache(c) \/ FromStore(c) \/ UseToken(c) \/ Attempt(c) \/ CallEnds(c)

Clock == Tick /\ UNCHANGED <<tokens, requests>>

PumpFires == Pump /\ UNCHANGED <<tokens, requests>>

Next ==
    \/ \E c \in Callers : Request(c)
    \/ RefreshEnds \/ PumpFires \/ Clock \/ TokenAges \/ RefreshWorker

Spec == Init /\ [][Next]_vars

\* Timers fire and every call ends: it has a timeout up to its headers, and its
\* body is assumed to end.
FairSpec ==
    /\ Spec
    /\ \A c \in Callers : WF_vars(Request(c))
    /\ WF_vars(RefreshEnds) /\ WF_vars(PumpFires) /\ WF_vars(Clock)

-----------------------------------------------------------------------------
(* Properties.                                                             *)

TypeOK ==
    /\ queue \in Seq(Tasks) /\ Len(queue) <= MaxQueue /\ running \subseteq Tasks
    /\ active \in 0..MaxConcurrent /\ since \in 0..MinTime /\ pump \in 0..MinTime \cup {NoPump}
    /\ stored \in Nat /\ aged \in 0..(stored + 1) /\ cached \in Nat \cup {NoToken} /\ inFlight \in BOOLEAN
    /\ place \in [Callers -> {"new", "load", "loaded", "await", "ready", "call", "done", "failed"}]
    /\ token \in [Callers -> Nat \cup {NoToken}] /\ attempt \in [Callers -> 0..MaxRetries]

Waiting == {queue[i] : i \in 1..Len(queue)}

\* No wake-up is lost: while a task waits, the pump timer is set or every slot is
\* taken by a task whose end will set it.
NoLostWakeup == queue # <<>> => pump # NoPump \/ active = MaxConcurrent

\* A task is in the limiter once and a slot is held by every started task and by
\* nothing else, whatever way the calls ended.
SlotsAccounted ==
    /\ active = Cardinality(running) /\ Waiting \cap running = {}
    /\ \A i, j \in 1..Len(queue) : queue[i] = queue[j] => i = j
    /\ \A c \in Callers : c \in Waiting \cup running <=> place[c] = "call"

\* One refresh at a time: the map has an entry exactly while the refresh is in the
\* limiter, and only then do requests wait for it.
OneRefresh ==
    /\ inFlight <=> Refresh \in Waiting \cup running
    /\ \A c \in Callers : place[c] = "await" => inFlight

\* Every request ends, although requests wait for a refresh that itself needs a
\* slot of the limiter they fill.
EveryRequestEnds == \A c \in Callers : TRUE ~> place[c] \in {"done", "failed"}

=============================================================================
