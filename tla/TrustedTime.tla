---------------------------- MODULE TrustedTime -----------------------------
(***************************************************************************)
(* Trusted time (services/ntp_service.py and archive/security/time_lock.py): *)
(* the time of day that a server states, cached and carried on with the     *)
(* monotonic clock.  The event loop, the archive worker and the warm-up     *)
(* thread ask for it; a client may make the event loop forget the cache,    *)
(* which takes no lock.                                                     *)
(*                                                                         *)
(* `now` is the true time; the monotonic clock runs with it.  A fetch takes *)
(* FetchLimit at most, which REQUEST_TIMEOUT_SECONDS is meant to guarantee. *)
(***************************************************************************)
EXTENDS Naturals

CONSTANTS
  None,
  Unreachable,           \* the answer of a call whose fetch failed (RuntimeError)
  Broken,                \* that of a call that lost its cached pair (TypeError)
  Loop, Worker, WarmUp,  \* the threads that ask
  CacheLife,             \* CACHE_DURATION_SECONDS
  FetchLimit             \* REQUEST_TIMEOUT_SECONDS

ASSUME ClockAssumption ==
  /\ CacheLife \in Nat /\ FetchLimit \in Nat
  /\ {None, Unreachable, Broken} \cap Nat = {}
  /\ None \notin {Loop, Worker, WarmUp}
  /\ Loop # Worker /\ WarmUp \notin {Loop, Worker}

Clients == {Loop, Worker, WarmUp}

VARIABLES
  now,          \* true time
  cachedTime,   \* _cached_time_ms
  cacheStamp,   \* _cache_timestamp_ms
  cacheHolder,  \* _cache_lock
  pcOf,         \* what each thread does in get_ntp_time_ms
  asked,        \* when it asked
  startOf,      \* its local `now`, taken under the lock
  answer,       \* its answer
  answered      \* when it got the answer

cacheVars == <<cachedTime, cacheStamp>>
callVars  == <<pcOf, asked, startOf, answer, answered>>
clockVars == <<now, cacheVars, cacheHolder, callVars>>

ClockTypeOK ==
  /\ now \in Nat
  /\ cachedTime \in Nat \cup {None} /\ cacheStamp \in Nat \cup {None}
  /\ cacheHolder \in Clients \cup {None}
  /\ pcOf \in [Clients -> {"idle", "want", "use", "fetch", "told", "clear", "done"}]
  /\ asked \in [Clients -> Nat] /\ startOf \in [Clients -> Nat]
  /\ answer \in [Clients -> Nat \cup {None, Unreachable, Broken}] /\ answered \in [Clients -> Nat]
  /\ \A t \in Clients : pcOf[t] \in {"use", "fetch", "told"} <=> cacheHolder = t

ClockInit ==
  /\ now = 0
  /\ cachedTime = None /\ cacheStamp = None /\ cacheHolder = None
  /\ pcOf = [t \in Clients |-> "idle"]
  /\ asked = [t \in Clients |-> 0] /\ startOf = [t \in Clients |-> 0]
  /\ answer = [t \in Clients |-> None] /\ answered = [t \in Clients |-> 0]

-----------------------------------------------------------------------------
\* A thread calls get_trusted_now, or any other way into get_ntp_time_ms.
Ask(t) ==
  /\ pcOf[t] = "idle"
  /\ pcOf' = [pcOf EXCEPT ![t] = "want"]
  /\ asked' = [asked EXCEPT ![t] = now]
  /\ UNCHANGED <<now, cacheVars, cacheHolder, startOf, answer, answered>>

\* The cached pair is there and younger than its life.
Fresh(at) ==
  cachedTime # None /\ cacheStamp # None /\ at - cacheStamp < CacheLife

Enter(t) ==
  /\ pcOf[t] = "want" /\ cacheHolder = None
  /\ cacheHolder' = t
  /\ startOf' = [startOf EXCEPT ![t] = now]
  /\ pcOf' = [pcOf EXCEPT ![t] = IF Fresh(now) THEN "use" ELSE "fetch"]
  /\ UNCHANGED <<now, cacheVars, asked, answer, answered>>

Return(t, a) ==
  /\ pcOf' = [pcOf EXCEPT ![t] = "done"]
  /\ answer' = [answer EXCEPT ![t] = a]
  /\ answered' = [answered EXCEPT ![t] = now]
  /\ cacheHolder' = None

\* The cached time is carried on.  Nothing keeps it from being forgotten since
\* Enter looked at it: the sum then raises.
Use(t) ==
  /\ pcOf[t] = "use"
  /\ Return(t, IF cachedTime = None \/ cacheStamp = None THEN Broken
               ELSE cachedTime + (startOf[t] - cacheStamp))
  /\ UNCHANGED <<now, cacheVars, asked, startOf>>

\* The server writes its Date header.
Fetch(t) ==
  /\ pcOf[t] = "fetch"
  /\ answer' = [answer EXCEPT ![t] = now]
  /\ pcOf' = [pcOf EXCEPT ![t] = "told"]
  /\ UNCHANGED <<now, cacheVars, cacheHolder, asked, startOf, answered>>

\* mutant of Store: the pair is stamped when the answer has arrived
StoreStampedLate(t) ==
  /\ pcOf[t] = "told"
  /\ cachedTime' = answer[t] /\ cacheStamp' = now
  /\ Return(t, answer[t])
  /\ UNCHANGED <<now, asked, startOf>>

\* The header arrives.  The pair is stamped with the time before the fetch.
Store(t) ==
  /\ pcOf[t] = "told"
  /\ cachedTime' = answer[t] /\ cacheStamp' = startOf[t]
  /\ Return(t, answer[t])
  /\ UNCHANGED <<now, asked, startOf>>

\* mutant of FetchFails: the lock is not let go on the way out
FetchFailsHolding(t) ==
  /\ pcOf[t] \in {"fetch", "told"}
  /\ pcOf' = [pcOf EXCEPT ![t] = "done"]
  /\ answer' = [answer EXCEPT ![t] = Unreachable]
  /\ answered' = [answered EXCEPT ![t] = now]
  /\ UNCHANGED <<now, cacheVars, cacheHolder, asked, startOf>>

FetchFails(t) ==
  /\ pcOf[t] \in {"fetch", "told"}
  /\ Return(t, Unreachable)
  /\ UNCHANGED <<now, cacheVars, asked, startOf>>

\* The caller goes on with what it was told.
Take(t) ==
  /\ pcOf[t] = "done"
  /\ pcOf' = [pcOf EXCEPT ![t] = "idle"]
  /\ answer' = [answer EXCEPT ![t] = None]
  /\ asked' = [asked EXCEPT ![t] = 0] /\ answered' = [answered EXCEPT ![t] = 0]
  /\ startOf' = [startOf EXCEPT ![t] = 0]
  /\ UNCHANGED <<now, cacheVars, cacheHolder>>

\* invalidate_cache, from a time.ntp request with force_refresh: two assignments,
\* without the lock.  The handler then asks for the time itself.
ForgetTime ==
  /\ pcOf[Loop] = "idle"
  /\ cachedTime' = None
  /\ pcOf' = [pcOf EXCEPT ![Loop] = "clear"]
  /\ UNCHANGED <<now, cacheStamp, cacheHolder, asked, startOf, answer, answered>>

ForgetStamp ==
  /\ pcOf[Loop] = "clear"
  /\ cacheStamp' = None
  /\ pcOf' = [pcOf EXCEPT ![Loop] = "want"]
  /\ asked' = [asked EXCEPT ![Loop] = now]
  /\ UNCHANGED <<now, cachedTime, cacheHolder, startOf, answer, answered>>

\* prime_ntp_cache_async: not while a pair is fresh or a warm-up is under way.
Prime == ~Fresh(now) /\ Ask(WarmUp)

\* Time passes, but a fetch does not outlast its limit.
Tick ==
  /\ \A t \in Clients : pcOf[t] \in {"fetch", "told"} => now < startOf[t] + FetchLimit
  /\ now' = now + 1
  /\ UNCHANGED <<cacheVars, cacheHolder, callVars>>

CallStep(t) == Enter(t) \/ Use(t) \/ Fetch(t) \/ Store(t) \/ FetchFails(t)

ClockNext ==
  \/ \E t \in Clients : Ask(t) \/ CallStep(t) \/ Take(t)
  \/ ForgetTime \/ ForgetStamp \/ Prime \/ Tick

ClockSpec == ClockInit /\ [][ClockNext]_clockVars

-----------------------------------------------------------------------------
\* Properties.

\* An answer is never older than the question and never ahead of the truth by
\* more than one fetch may take, however it came about: fetched, or carried on
\* from a cached pair that another thread stored or the event loop is forgetting.
AnswersTrue ==
  \A t \in Clients : pcOf[t] = "done" /\ answer[t] \notin {Unreachable, Broken} =>
    asked[t] <= answer[t] /\ answer[t] <= answered[t] + FetchLimit
=============================================================================
