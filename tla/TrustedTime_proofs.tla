------------------------ MODULE TrustedTime_proofs -------------------------
(***************************************************************************)
(* The trusted clock tells the truth to within one fetch, for any life of   *)
(* its cache and any limit of a fetch, whoever asks, fails or forgets.      *)
(***************************************************************************)
EXTENDS TrustedTime, TLAPS

\* The pair is true to within a fetch of the time it was stamped with.
PairTrue ==
  cachedTime # None /\ cacheStamp # None =>
    cacheStamp <= now /\ cacheStamp <= cachedTime /\ cachedTime <= cacheStamp + FetchLimit

\* Nobody asks, or starts, in the future, and no fetch outlasts its limit.
InTime(t) ==
  /\ pcOf[t] \in {"want", "use", "fetch", "told"} => asked[t] <= now
  /\ pcOf[t] \in {"use", "fetch", "told"} => asked[t] <= startOf[t] /\ startOf[t] <= now
  /\ pcOf[t] \in {"fetch", "told"} => now <= startOf[t] + FetchLimit

\* Who carries the pair on started after it was stamped.
UseTrue(t) ==
  pcOf[t] = "use" /\ cachedTime # None /\ cacheStamp # None => cacheStamp <= startOf[t]

\* The header was written while the fetch was under way.
ToldTrue(t) ==
  pcOf[t] = "told" => answer[t] \in Nat /\ startOf[t] <= answer[t] /\ answer[t] <= now

DoneTrue(t) ==
  pcOf[t] = "done" /\ answer[t] \notin {Unreachable, Broken} =>
    answer[t] \in Nat /\ asked[t] <= answer[t] /\ answer[t] <= answered[t] + FetchLimit

ClockInv ==
  /\ ClockTypeOK
  /\ PairTrue
  /\ \A t \in Clients : InTime(t) /\ UseTrue(t) /\ ToldTrue(t) /\ DoneTrue(t)

LEMMA Constants == /\ CacheLife \in Nat /\ FetchLimit \in Nat
                   /\ None \notin Nat /\ Unreachable \notin Nat /\ Broken \notin Nat
                   /\ None \notin Clients
  BY ClockAssumption DEF Clients

\* A call returns an answer that is true, or none.
LEMMA ReturnTrue ==
  ASSUME ClockInv, NEW t \in Clients, NEW a \in Nat \cup {Unreachable, Broken},
         Return(t, a), pcOf[t] \in {"use", "fetch", "told"}, UNCHANGED <<now, asked, startOf>>,
         a \in Nat => asked[t] <= a /\ a <= now + FetchLimit
  PROVE  /\ pcOf' \in [Clients -> {"idle", "want", "use", "fetch", "told", "clear", "done"}]
         /\ answer' \in [Clients -> Nat \cup {None, Unreachable, Broken}]
         /\ answered' \in [Clients -> Nat] /\ cacheHolder' = None
         /\ \A u \in Clients : pcOf'[u] \notin {"use", "fetch", "told"}
         /\ \A u \in Clients : InTime(u)' /\ UseTrue(u)' /\ ToldTrue(u)' /\ DoneTrue(u)'
<1> USE DEF ClockInv, ClockTypeOK
<1>1. /\ pcOf' \in [Clients -> {"idle", "want", "use", "fetch", "told", "clear", "done"}]
      /\ answer' \in [Clients -> Nat \cup {None, Unreachable, Broken}]
      /\ answered' \in [Clients -> Nat] /\ cacheHolder' = None
  BY DEF Return
<1>2. cacheHolder = t
  OBVIOUS
<1>3. ASSUME NEW u \in Clients, u # t
      PROVE  /\ pcOf'[u] = pcOf[u] /\ answer'[u] = answer[u] /\ answered'[u] = answered[u]
             /\ pcOf[u] \notin {"use", "fetch", "told"}
  BY <1>2, <1>3 DEF Return
<1>4. pcOf'[t] = "done" /\ answer'[t] = a /\ answered'[t] = now
  BY DEF Return
<1>5. \A u \in Clients : pcOf'[u] \notin {"use", "fetch", "told"}
  BY <1>3, <1>4
<1>6. \A u \in Clients : InTime(u)'
  BY <1>3, <1>4, <1>5 DEF InTime
<1>7. \A u \in Clients : UseTrue(u)' /\ ToldTrue(u)'
  BY <1>5 DEF UseTrue, ToldTrue
<1>8. \A u \in Clients : DoneTrue(u)'
  <2> SUFFICES ASSUME NEW u \in Clients PROVE DoneTrue(u)'
    OBVIOUS
  <2>1. CASE u = t
    BY <1>4, <2>1 DEF DoneTrue
  <2>2. CASE u # t
    BY <1>3, <2>2 DEF DoneTrue
  <2> QED
    BY <2>1, <2>2
<1> QED
  BY <1>1, <1>5, <1>6, <1>7, <1>8

-----------------------------------------------------------------------------
LEMMA ClockInitial == ClockInit => ClockInv
  BY Constants DEF ClockInit, ClockInv, ClockTypeOK, PairTrue, InTime, UseTrue, ToldTrue, DoneTrue

LEMMA ClockStep == ClockInv /\ [ClockNext]_clockVars => ClockInv'
<1> SUFFICES ASSUME ClockInv, [ClockNext]_clockVars PROVE ClockInv'
  OBVIOUS
<1> USE Constants DEF ClockInv
<1>1. ASSUME NEW t \in Clients, Ask(t) PROVE ClockInv'
  <2>1. ClockTypeOK'
    BY <1>1 DEF Ask, ClockTypeOK, cacheVars
  <2>2. PairTrue'
    BY <1>1 DEF Ask, PairTrue, cacheVars
  <2>3. ASSUME NEW u \in Clients PROVE InTime(u)' /\ UseTrue(u)' /\ ToldTrue(u)' /\ DoneTrue(u)'
    BY <1>1 DEF Ask, InTime, UseTrue, ToldTrue, DoneTrue, cacheVars, ClockTypeOK
  <2> QED
    BY <2>1, <2>2, <2>3
<1>2. ASSUME NEW t \in Clients, Enter(t) PROVE ClockInv'
  <2>1. ClockTypeOK'
    BY <1>2 DEF Enter, ClockTypeOK, cacheVars
  <2>2. PairTrue'
    BY <1>2 DEF Enter, PairTrue, cacheVars
  <2>3. ASSUME NEW u \in Clients PROVE InTime(u)' /\ UseTrue(u)' /\ ToldTrue(u)' /\ DoneTrue(u)'
    BY <1>2 DEF Enter, InTime, UseTrue, ToldTrue, DoneTrue, cacheVars, ClockTypeOK, PairTrue
  <2> QED
    BY <2>1, <2>2, <2>3
<1>3. ASSUME NEW t \in Clients, Use(t) PROVE ClockInv'
  <2> DEFINE a == IF cachedTime = None \/ cacheStamp = None THEN Broken
                  ELSE cachedTime + (startOf[t] - cacheStamp)
  <2>1. /\ pcOf[t] = "use" /\ Return(t, a) /\ UNCHANGED <<now, asked, startOf>>
        /\ UNCHANGED <<cachedTime, cacheStamp>>
    BY <1>3 DEF Use, cacheVars
  <2>2. CASE cachedTime = None \/ cacheStamp = None
    BY <2>1, <2>2, ReturnTrue DEF ClockTypeOK, PairTrue
  <2>3. CASE ~(cachedTime = None \/ cacheStamp = None)
    <3>1. /\ cachedTime \in Nat /\ cacheStamp \in Nat /\ startOf[t] \in Nat /\ now \in Nat
          /\ cacheStamp <= startOf[t] /\ cacheStamp <= cachedTime /\ cachedTime <= cacheStamp + FetchLimit
          /\ asked[t] \in Nat /\ asked[t] <= startOf[t] /\ startOf[t] <= now
      BY <2>1, <2>3 DEF ClockTypeOK, PairTrue, UseTrue, InTime
    <3>2. a \in Nat /\ asked[t] <= a /\ a <= now + FetchLimit
      BY <2>3, <3>1
    <3> HIDE DEF a
    <3> QED
      BY <2>1, <3>2, ReturnTrue DEF ClockTypeOK, PairTrue
  <2> QED
    BY <2>2, <2>3
<1>4. ASSUME NEW t \in Clients, Fetch(t) PROVE ClockInv'
  <2>1. ClockTypeOK'
    BY <1>4 DEF Fetch, ClockTypeOK, cacheVars
  <2>2. PairTrue'
    BY <1>4 DEF Fetch, PairTrue, cacheVars
  <2>3. ASSUME NEW u \in Clients PROVE InTime(u)' /\ UseTrue(u)' /\ ToldTrue(u)' /\ DoneTrue(u)'
    BY <1>4 DEF Fetch, InTime, UseTrue, ToldTrue, DoneTrue, cacheVars, ClockTypeOK
  <2> QED
    BY <2>1, <2>2, <2>3
<1>5. ASSUME NEW t \in Clients, Store(t) PROVE ClockInv'
  <2>1. /\ pcOf[t] = "told" /\ Return(t, answer[t]) /\ UNCHANGED <<now, asked, startOf>>
        /\ cachedTime' = answer[t] /\ cacheStamp' = startOf[t]
    BY <1>5 DEF Store
  <2>2. /\ answer[t] \in Nat /\ startOf[t] \in Nat /\ asked[t] \in Nat /\ now \in Nat
        /\ asked[t] <= startOf[t] /\ startOf[t] <= answer[t] /\ answer[t] <= now
        /\ now <= startOf[t] + FetchLimit
    BY <2>1 DEF ClockTypeOK, ToldTrue, InTime
  <2>3. asked[t] <= answer[t] /\ answer[t] <= now + FetchLimit
    BY <2>2
  <2>4. PairTrue'
    BY <2>1, <2>2 DEF PairTrue
  <2> QED
    BY <2>1, <2>2, <2>3, <2>4, ReturnTrue DEF ClockTypeOK
<1>6. ASSUME NEW t \in Clients, FetchFails(t) PROVE ClockInv'
  BY <1>6, ReturnTrue DEF FetchFails, ClockTypeOK, PairTrue, cacheVars
<1>7. ASSUME NEW t \in Clients, Take(t) PROVE ClockInv'
  <2>1. ClockTypeOK'
    BY <1>7 DEF Take, ClockTypeOK, cacheVars
  <2>2. PairTrue'
    BY <1>7 DEF Take, PairTrue, cacheVars
  <2>3. ASSUME NEW u \in Clients PROVE InTime(u)' /\ UseTrue(u)' /\ ToldTrue(u)' /\ DoneTrue(u)'
    <3>1. CASE u = t
      BY <1>7, <3>1 DEF Take, InTime, UseTrue, ToldTrue, DoneTrue, ClockTypeOK
    <3>2. CASE u # t
      BY <1>7, <3>2 DEF Take, InTime, UseTrue, ToldTrue, DoneTrue, cacheVars, ClockTypeOK
    <3> QED
      BY <3>1, <3>2
  <2> QED
    BY <2>1, <2>2, <2>3
<1>8. ASSUME ForgetTime PROVE ClockInv'
  <2>1. ClockTypeOK'
    BY <1>8 DEF ForgetTime, ClockTypeOK
  <2>2. PairTrue'
    BY <1>8 DEF ForgetTime, PairTrue
  <2>3. ASSUME NEW u \in Clients PROVE InTime(u)' /\ UseTrue(u)' /\ ToldTrue(u)' /\ DoneTrue(u)'
    BY <1>8 DEF ForgetTime, InTime, UseTrue, ToldTrue, DoneTrue, ClockTypeOK
  <2> QED
    BY <2>1, <2>2, <2>3
<1>9. ASSUME ForgetStamp PROVE ClockInv'
  <2>1. ClockTypeOK'
    BY <1>9 DEF ForgetStamp, ClockTypeOK
  <2>2. PairTrue'
    BY <1>9 DEF ForgetStamp, PairTrue
  <2>3. ASSUME NEW u \in Clients PROVE InTime(u)' /\ UseTrue(u)' /\ ToldTrue(u)' /\ DoneTrue(u)'
    BY <1>9 DEF ForgetStamp, InTime, UseTrue, ToldTrue, DoneTrue, ClockTypeOK
  <2> QED
    BY <2>1, <2>2, <2>3
<1>10. ASSUME Tick PROVE ClockInv'
  <2>1. ClockTypeOK'
    BY <1>10 DEF Tick, ClockTypeOK, cacheVars, callVars
  <2>2. PairTrue'
    BY <1>10 DEF Tick, PairTrue, cacheVars, ClockTypeOK
  <2>3. ASSUME NEW u \in Clients PROVE InTime(u)' /\ UseTrue(u)' /\ ToldTrue(u)' /\ DoneTrue(u)'
    BY <1>10 DEF Tick, InTime, UseTrue, ToldTrue, DoneTrue, cacheVars, callVars, ClockTypeOK
  <2> QED
    BY <2>1, <2>2, <2>3
<1>11. ASSUME UNCHANGED clockVars PROVE ClockInv'
  BY <1>11 DEF clockVars, cacheVars, callVars, ClockTypeOK, PairTrue, InTime, UseTrue, ToldTrue, DoneTrue
<1>12. ASSUME Prime PROVE ClockInv'
  BY <1>1, <1>12 DEF Prime, Clients
<1> QED
  BY <1>1, <1>2, <1>3, <1>4, <1>5, <1>6, <1>7, <1>8, <1>9, <1>10, <1>11, <1>12 DEF ClockNext, CallStep

-----------------------------------------------------------------------------
\* Who holds the lock of the cache is who uses it or fetches, and nobody else does:
\* _cache_lock is let go on every way out of get_ntp_time_ms.
THEOREM ClockTypeCorrect == ClockSpec => []ClockTypeOK
<1>1. ClockInv => ClockTypeOK
  BY DEF ClockInv
<1> QED
  BY ClockInitial, ClockStep, <1>1, PTL DEF ClockSpec

LEMMA AlwaysInTime == ClockSpec => []ClockInv
  BY ClockInitial, ClockStep, PTL DEF ClockSpec

\* An answer of the clock is never older than the question and never ahead of the
\* truth by more than one fetch (get_ntp_time_ms), for every life of the cache
\* (CACHE_DURATION_SECONDS), with any calls, failures and refreshes between.
THEOREM ClockAnswersTrue == ClockSpec => []AnswersTrue
<1>1. ClockInv => AnswersTrue
  BY DEF ClockInv, AnswersTrue, DoneTrue
<1> QED
  BY ClockInitial, ClockStep, <1>1, PTL DEF ClockSpec
=============================================================================
