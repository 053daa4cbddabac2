------------------------ MODULE ActivityAudit_proofs ------------------------
(***************************************************************************)
(* The activity log, for any processes and any numbers of events, loads and *)
(* crashes.  Who rewrites the file either knows what is in it, and what     *)
(* others that rewrite it will bring back, or there is a reason; and what   *)
(* was recorded is in the file, or in the hands of one who has emptied it   *)
(* to write it anew.  Calls that do not overlap leave a chain.              *)
(***************************************************************************)
EXTENDS ActivityAudit, SequenceTheorems, WellFoundedInduction, TLAPS

-----------------------------------------------------------------------------
\* A set of numbers has a least one: the induction used here.
LEMMA Least == ASSUME NEW S \in SUBSET Nat, S # {} PROVE \E x \in S : \A y \in S : x <= y
<1> DEFINE R == {p \in Nat \X Nat : p[1] < p[2]}
<1>1. IsWellFoundedOn(R, Nat)
  BY NatLessThanWellFounded DEF OpToRel
<1>2. \A x, y \in S : ~ (<<y, x>> \in R) => x <= y
  OBVIOUS
<1> HIDE DEF R
<1>3. \E x \in S : \A y \in S : ~ (<<y, x>> \in R)
  BY <1>1, WFMin
<1> QED
  BY <1>2, <1>3

LEMMA Counting ==
  ASSUME NEW G \in SUBSET Nat, 0 \in G, \A m \in Nat : m \in G => m + 1 \in G PROVE G = Nat
<1> DEFINE B == Nat \ G
<1>1. ASSUME B # {} PROVE FALSE
  <2>1. PICK x \in B : \A y \in B : x <= y
    BY <1>1, Least
  <2>2. x - 1 \in Nat /\ x - 1 \notin B
    BY <2>1
  <2> QED
    BY <2>1, <2>2
<1> QED
  BY <1>1

-----------------------------------------------------------------------------
\* The entries of sequences.
LEMMA IdsAppend == ASSUME NEW T, NEW s \in Seq(T), NEW x \in T PROVE Ids(Append(s, x)) = Ids(s) \cup {x.id}
<1>1. Append(s, x) \in Seq(T) /\ Len(Append(s, x)) = Len(s) + 1 /\ Append(s, x)[Len(s) + 1] = x
      /\ \A i \in 1..Len(s) : Append(s, x)[i] = s[i]
  BY AppendProperties
<1>2. DOMAIN s = 1..Len(s) /\ DOMAIN Append(s, x) = 1..Len(s) + 1 /\ Len(s) \in Nat
  BY <1>1, LenProperties
<1> QED
  BY <1>1, <1>2 DEF Ids

LEMMA IdsConcat == ASSUME NEW T, NEW s \in Seq(T), NEW t \in Seq(T) PROVE Ids(s \o t) = Ids(s) \cup Ids(t)
<1>1. /\ Len(s \o t) = Len(s) + Len(t) /\ Len(s) \in Nat /\ Len(t) \in Nat
      /\ \A i \in 1..Len(s) + Len(t) : (s \o t)[i] = IF i <= Len(s) THEN s[i] ELSE t[i - Len(s)]
      /\ DOMAIN (s \o t) = 1..Len(s) + Len(t) /\ DOMAIN s = 1..Len(s) /\ DOMAIN t = 1..Len(t)
  BY ConcatProperties, LenProperties
<1>2. \A i \in 1..Len(t) : (s \o t)[Len(s) + i] = t[i] /\ Len(s) + i \in 1..Len(s) + Len(t)
  BY <1>1
<1>3. Ids(s \o t) \subseteq Ids(s) \cup Ids(t)
  BY <1>1 DEF Ids
<1>4. Ids(s) \subseteq Ids(s \o t)
  BY <1>1 DEF Ids
<1>5. Ids(t) \subseteq Ids(s \o t)
  <2> HIDE DEF Ids
  <2> SUFFICES ASSUME NEW i \in DOMAIN t PROVE t[i].id \in Ids(s \o t)
    BY DEF Ids
  <2>1. (s \o t)[Len(s) + i] = t[i] /\ Len(s) + i \in DOMAIN (s \o t)
    BY <1>1, <1>2
  <2> QED
    BY <2>1 DEF Ids
<1> QED
  BY <1>3, <1>4, <1>5

\* What is left when some entries at the start are written over.
LEMMA RestOf ==
  ASSUME NEW T, NEW s \in Seq(T), NEW n \in Nat
  PROVE  SubSeq(s, n + 1, Len(s)) \in Seq(T) /\ Ids(SubSeq(s, n + 1, Len(s))) \subseteq Ids(s)
<1> DEFINE t == SubSeq(s, n + 1, Len(s))
<1>1. Len(s) \in Nat /\ DOMAIN s = 1..Len(s)
  BY LenProperties
<1>2. t \in Seq(T) /\ DOMAIN t = 1..(Len(s) - n) /\ \A i \in 1..(Len(s) - n) : t[i] = s[n + i]
  BY <1>1
<1> QED
  BY <1>1, <1>2 DEF Ids

LEMMA FrontOf ==
  ASSUME NEW T, NEW s \in Seq(T), NEW n \in 0..Len(s), NEW t, t = SubSeq(s, 1, n)
  PROVE  /\ t \in Seq(T) /\ Len(t) = n /\ DOMAIN t = 1..n /\ \A i \in 1..n : t[i] = s[i]
         /\ Ids(t) \subseteq Ids(s)
<1>1. Len(s) \in Nat /\ DOMAIN s = 1..Len(s)
  BY LenProperties
<1>2. t \in Seq(T) /\ Len(t) = n /\ DOMAIN t = 1..n /\ \A i \in 1..n : t[i] = s[i]
  BY <1>1
<1> QED
  BY <1>1, <1>2 DEF Ids

-----------------------------------------------------------------------------
\* The retention period takes what has expired, and nothing else.
LEMMA RetainedUnfolds ==
  ASSUME NEW s \in Seq(Entry)
  PROVE  \E g : /\ Retained(s) = g[Len(s)] /\ g[0] = <<>>
                /\ \A n \in 1..Len(s) : g[n] = IF s[n].id \in expired THEN g[n - 1] ELSE Append(g[n - 1], s[n])
<1> DEFINE F(g, n) == IF n = 0 THEN <<>>
                      ELSE IF s[n].id \in expired THEN g[n - 1] ELSE Append(g[n - 1], s[n])
           Good(m) == \E g : g = [n \in 0..m |-> F(g, n)]
<1>1. Good(0)
  <2>1. [n \in 0..0 |-> <<>>] = [n \in 0..0 |-> F([k \in 0..0 |-> <<>>], n)]
    OBVIOUS
  <2> QED
    BY <2>1
<1>2. ASSUME NEW m \in Nat, Good(m) PROVE Good(m + 1)
  <2>1. PICK g : g = [n \in 0..m |-> F(g, n)]
    BY <1>2
  <2> DEFINE h == [n \in 0..m + 1 |-> IF n = m + 1 THEN F(g, n) ELSE g[n]]
  <2>2. \A n \in 0..m + 1 : h[n] = F(h, n)
    <3>1. \A n \in 0..m : h[n] = g[n]
      <4> HIDE DEF F
      <4> QED
        OBVIOUS
    <3>2. \A n \in 0..m : g[n] = F(g, n)
      <4> HIDE DEF F
      <4> QED
        BY <2>1
    <3>3. \A n \in 0..m : F(h, n) = F(g, n)
      <4> HIDE DEF h
      <4> QED
        BY <3>1
    <3>4. h[m + 1] = F(g, m + 1)
      OBVIOUS
    <3>5. F(h, m + 1) = F(g, m + 1)
      <4> HIDE DEF h
      <4> QED
        BY <3>1
    <3> HIDE DEF h, F
    <3> QED
      BY <3>1, <3>2, <3>3, <3>4, <3>5
  <2>3. h = [n \in 0..m + 1 |-> F(h, n)]
    <3>1. DOMAIN h = 0..m + 1 /\ h = [n \in DOMAIN h |-> h[n]]
      OBVIOUS
    <3> HIDE DEF h, F
    <3> QED
      BY <2>2, <3>1
  <2> QED
    BY <2>3
<1>3. Good(Len(s))
  <2> DEFINE G == {m \in Nat : Good(m)}
  <2> HIDE DEF Good
  <2>1. 0 \in G /\ G \in SUBSET Nat
    BY <1>1
  <2>2. \A m \in Nat : m \in G => m + 1 \in G
    BY <1>2
  <2>3. G = Nat
    <3> HIDE DEF G
    <3> QED
      BY <2>1, <2>2, Counting
  <2> QED
    BY <2>3, LenProperties
<1> DEFINE f == CHOOSE g : g = [n \in 0..Len(s) |-> F(g, n)]
<1>4. f = [n \in 0..Len(s) |-> F(f, n)]
  BY <1>3
<1>5. Retained(s) = f[Len(s)]
  BY DEF Retained
<1> HIDE DEF f
<1>6. Len(s) \in Nat
  BY LenProperties
<1>7. \A n \in 0..Len(s) : f[n] = F(f, n)
  <2> HIDE DEF F
  <2> QED
    BY <1>4
<1>8. f[0] = <<>>
  <2>1. F(f, 0) = <<>>
    OBVIOUS
  <2> HIDE DEF F
  <2> QED
    BY <1>6, <1>7, <2>1
<1>9. \A n \in 1..Len(s) : f[n] = F(f, n)
  <2> HIDE DEF F
  <2> QED
    BY <1>6, <1>7
<1>10. \A n \in 1..Len(s) : F(f, n) = IF s[n].id \in expired THEN f[n - 1] ELSE Append(f[n - 1], s[n])
  BY <1>6
<1> HIDE DEF F
<1> QED
  BY <1>5, <1>8, <1>9, <1>10

LEMMA RetainedIs ==
  ASSUME NEW s \in Seq(Entry) PROVE Retained(s) \in Seq(Entry) /\ Ids(Retained(s)) = Ids(s) \ expired
<1>1. PICK g : /\ Retained(s) = g[Len(s)] /\ g[0] = <<>>
               /\ \A n \in 1..Len(s) : g[n] = IF s[n].id \in expired THEN g[n - 1] ELSE Append(g[n - 1], s[n])
  BY RetainedUnfolds
<1>2. Len(s) \in Nat /\ DOMAIN s = 1..Len(s) /\ \A i \in 1..Len(s) : s[i] \in Entry
  BY LenProperties, ElementOfSeq
<1> DEFINE Some(n) == {s[i].id : i \in 1..n} \ expired
           Good(n) == n <= Len(s) => g[n] \in Seq(Entry) /\ Ids(g[n]) = Some(n)
<1>3. Good(0)
  BY <1>1 DEF Ids
<1>4. ASSUME NEW n \in Nat, Good(n) PROVE Good(n + 1)
  <2> SUFFICES ASSUME n + 1 <= Len(s) PROVE g[n + 1] \in Seq(Entry) /\ Ids(g[n + 1]) = Some(n + 1)
    OBVIOUS
  <2>1. n + 1 \in 1..Len(s) /\ s[n + 1] \in Entry /\ g[n] \in Seq(Entry) /\ Ids(g[n]) = Some(n)
    BY <1>2, <1>4
  <2>2. g[n + 1] = IF s[n + 1].id \in expired THEN g[n] ELSE Append(g[n], s[n + 1])
    BY <1>1, <2>1
  <2>3. {s[i].id : i \in 1..n + 1} = {s[i].id : i \in 1..n} \cup {s[n + 1].id}
    <3>1. 1..n + 1 = (1..n) \cup {n + 1}
      OBVIOUS
    <3> QED
      BY <3>1
  <2>4. CASE s[n + 1].id \in expired
    BY <2>1, <2>2, <2>3, <2>4
  <2>5. CASE s[n + 1].id \notin expired
    <3>1. g[n + 1] = Append(g[n], s[n + 1])
      BY <2>2, <2>5
    <3>2. g[n + 1] \in Seq(Entry) /\ Ids(g[n + 1]) = Ids(g[n]) \cup {s[n + 1].id}
      BY <2>1, <3>1, IdsAppend, AppendProperties
    <3> QED
      BY <2>1, <2>3, <2>5, <3>2
  <2> QED
    BY <2>4, <2>5
<1>5. Good(Len(s))
  <2> DEFINE G == {n \in Nat : Good(n)}
  <2> HIDE DEF Good
  <2>1. 0 \in G /\ G \in SUBSET Nat
    BY <1>3
  <2>2. \A n \in Nat : n \in G => n + 1 \in G
    BY <1>4
  <2>3. G = Nat
    <3> HIDE DEF G
    <3> QED
      BY <2>1, <2>2, Counting
  <2> QED
    BY <1>2, <2>3
<1>6. Some(Len(s)) = Ids(s) \ expired
  BY <1>2 DEF Ids
<1> QED
  BY <1>1, <1>2, <1>5, <1>6

-----------------------------------------------------------------------------
\* Chains.
Chained(s) ==
  \A i \in DOMAIN s : /\ s[i].prev = IF i = 1 THEN <<>> ELSE s[i - 1].hash
                      /\ s[i].hash = Hash(s[i].id, s[i].prev)

LEMMA ChainedIsNotBroken == ASSUME NEW s, Chained(s) PROVE VerifyChain(s) # "broken"
  BY DEF Chained, VerifyChain

LEMMA RestitchIs ==
  ASSUME NEW s \in Seq(Entry), NEW t, t = Restitch(s)
  PROVE  t \in Seq(Entry) /\ Len(t) = Len(s) /\ Ids(t) = Ids(s) /\ Chained(t)
<1> DEFINE ids == [i \in DOMAIN s |-> s[i].id]
<1>1. Len(s) \in Nat /\ DOMAIN s = 1..Len(s) /\ \A i \in 1..Len(s) : s[i] \in Entry
  BY LenProperties, ElementOfSeq
<1>2. ids \in Seq(Event) /\ Len(ids) = Len(s) /\ DOMAIN ids = 1..Len(s)
  <2>1. \A i \in 1..Len(s) : ids[i] \in Event
    BY <1>1 DEF Entry
  <2> QED
    BY <1>1, <2>1
<1>3. t = [i \in DOMAIN s |-> [id |-> s[i].id, prev |-> SubSeq(ids, 1, i - 1), hash |-> SubSeq(ids, 1, i)]]
  BY DEF Restitch
<1>4. \A i \in 1..Len(s) : /\ t[i].id = s[i].id /\ t[i].prev = SubSeq(ids, 1, i - 1) /\ t[i].hash = SubSeq(ids, 1, i)
                           /\ t[i] \in Entry
  <2>1. \A i \in 1..Len(s) : SubSeq(ids, 1, i - 1) \in Seq(Event) /\ SubSeq(ids, 1, i) \in Seq(Event)
    <3> HIDE DEF ids
    <3> QED
      BY <1>1, <1>2, FrontOf
  <2> HIDE DEF ids
  <2> QED
    BY <1>1, <1>3, <2>1 DEF Entry
<1>5. DOMAIN t = 1..Len(s) /\ t \in Seq(Entry) /\ Len(t) = Len(s)
  <2>1. DOMAIN t = 1..Len(s) /\ t = [i \in 1..Len(s) |-> t[i]]
    BY <1>1, <1>3
  <2> QED
    BY <1>1, <1>4, <2>1
<1>6. Ids(t) = Ids(s)
  BY <1>1, <1>4, <1>5 DEF Ids
<1>7. Chained(t)
  <2> HIDE DEF ids
  <2> SUFFICES ASSUME NEW i \in 1..Len(s)
               PROVE  /\ t[i].prev = IF i = 1 THEN <<>> ELSE t[i - 1].hash
                      /\ t[i].hash = Append(t[i].prev, t[i].id)
    BY <1>5 DEF Chained, Hash
  <2>1. i = 1 => SubSeq(ids, 1, i - 1) = <<>>
    BY <1>2
  <2>2. i # 1 => t[i].prev = t[i - 1].hash
    BY <1>1, <1>4
  <2>3. SubSeq(ids, 1, i) = Append(SubSeq(ids, 1, i - 1), ids[i])
    BY <1>1, <1>2
  <2>4. ids[i] = s[i].id
    BY <1>1 DEF ids
  <2> QED
    BY <1>4, <2>1, <2>2, <2>3, <2>4
<1> QED
  BY <1>5, <1>6, <1>7

-----------------------------------------------------------------------------
\* Types.
Stages == {"idle", "hashed", "loaded", "truncated", "returning"}

\* A record call under way has an event of its own.
TypeInv == TypeOK /\ \A p \in Proc : pc[p] = "hashed" => mine[p] \in Event

LEMMA EmptyLog == Ids(<<>>) = {} /\ Chained(<<>>) /\ \A S : <<>> \in Seq(S)
  BY DEF Ids, Chained

LEMMA LastHashIs == ASSUME NEW s \in Seq(Entry) PROVE LastHash(s) \in Seq(Event)
<1>1. CASE s = <<>>
  BY <1>1 DEF LastHash
<1>2. CASE s # <<>>
  <2>1. Len(s) \in Nat \ {0} /\ s[Len(s)] \in Entry
    BY <1>2, LenProperties, ElementOfSeq, EmptySeq
  <2> QED
    BY <1>2, <2>1 DEF LastHash, Last, Entry
<1> QED
  BY <1>1, <1>2

LEMMA EntryIs == ASSUME NEW i \in Event, NEW h \in Seq(Event)
                 PROVE  [id |-> i, prev |-> h, hash |-> Hash(i, h)] \in Entry
<1>1. Hash(i, h) \in Seq(Event)
  BY AppendProperties DEF Hash
<1> QED
  BY <1>1 DEF Entry

\* A call that is over has no locals left.
LEMMA TypeOver ==
  ASSUME TypeInv, NEW p \in Proc, Return(p)
  PROVE  /\ pc' \in [Proc -> Stages] /\ call' \in [Proc -> {"none", "record", "summary", "clear"}]
         /\ mine' \in [Proc -> 0..MaxEvents] /\ prev' \in [Proc -> Seq(Event)] /\ keep' \in [Proc -> Seq(Entry)]
         /\ \A q \in Proc : pc'[q] = "hashed" => mine'[q] \in Event
<1>0. /\ pc \in [Proc -> Stages] /\ call \in [Proc -> {"none", "record", "summary", "clear"}]
      /\ mine \in [Proc -> 0..MaxEvents] /\ prev \in [Proc -> Seq(Event)] /\ keep \in [Proc -> Seq(Entry)]
      /\ \A q \in Proc : pc[q] = "hashed" => mine[q] \in Event
  BY DEF TypeInv, TypeOK, Stages
<1>1. mine' \in [Proc -> 0..MaxEvents]
  BY <1>0, AuditAssumption DEF Return
<1>2. prev' \in [Proc -> Seq(Event)] /\ keep' \in [Proc -> Seq(Entry)]
  BY <1>0, EmptyLog DEF Return
<1>3. pc' \in [Proc -> Stages] /\ call' \in [Proc -> {"none", "record", "summary", "clear"}]
  BY <1>0 DEF Return, Stages
<1>4. \A q \in Proc : pc'[q] = "hashed" => mine'[q] \in Event
  BY <1>0 DEF Return
<1> QED
  BY <1>1, <1>2, <1>3, <1>4

\* What one process writes is of the types it had.
LEMMA TypeRecord == ASSUME TypeInv, NEW p \in Proc, ReadLastHash(p) \/ AppendEntry(p) PROVE TypeInv'
<1>1. CASE ReadLastHash(p)
  <2>1. events + 1 \in Event /\ events + 1 \in 0..MaxEvents
    BY <1>1, AuditAssumption DEF ReadLastHash, TypeInv, TypeOK, Event
  <2>2. LastHash(log) \in Seq(Event)
    BY LastHashIs DEF TypeInv, TypeOK
  <2>3. mixed' \in BOOLEAN
    BY <1>1 DEF ReadLastHash, Begin
  <2>4. /\ mine' = [mine EXCEPT ![p] = events + 1] /\ prev' = [prev EXCEPT ![p] = LastHash(log)] /\ events' = events + 1
        /\ pc' = [pc EXCEPT ![p] = "hashed"] /\ call' = [call EXCEPT ![p] = "record"]
        /\ UNCHANGED <<log, torn, keep, expired, loads, crashes, written, cleared, exposed, status>>
    BY <1>1 DEF ReadLastHash
  <2>5. mine' \in [Proc -> 0..MaxEvents] /\ prev' \in [Proc -> Seq(Event)]
        /\ pc' \in [Proc -> {"idle", "hashed", "loaded", "truncated", "returning"}]
        /\ call' \in [Proc -> {"none", "record", "summary", "clear"}]
    BY <2>1, <2>2, <2>4 DEF TypeInv, TypeOK
  <2>6. \A q \in Proc : pc'[q] = "hashed" => mine'[q] \in Event
    BY <2>1, <2>4 DEF TypeInv, TypeOK
  <2> QED
    BY <2>1, <2>3, <2>4, <2>5, <2>6 DEF TypeInv, TypeOK, Event
<1>2. CASE AppendEntry(p)
  <2>1. mine[p] \in Event /\ prev[p] \in Seq(Event)
    BY <1>2 DEF AppendEntry, TypeInv, TypeOK
  <2>2. log' \in Seq(Entry)
    <3> DEFINE e == [id |-> mine[p], prev |-> prev[p], hash |-> Hash(mine[p], prev[p])]
    <3>1. e \in Entry
      BY <2>1, EntryIs
    <3>2. log' = log \/ log' = Append(log, e)
      BY <1>2 DEF AppendEntry
    <3>3. log \in Seq(Entry)
      BY DEF TypeInv, TypeOK
    <3> HIDE DEF e
    <3>4. Append(log, e) \in Seq(Entry)
      BY <3>1, <3>3, AppendProperties
    <3> QED
      BY <3>2, <3>3, <3>4
  <2>3. exposed' \subseteq Event /\ written' \subseteq Event /\ torn' \in BOOLEAN
    BY <1>2, <2>1 DEF AppendEntry, AppendAtRisk, TypeInv, TypeOK
  <2>4. Return(p) /\ UNCHANGED <<expired, events, loads, crashes, cleared, mixed, status>>
    BY <1>2 DEF AppendEntry
  <2> QED
    BY <2>2, <2>3, <2>4, TypeOver DEF TypeInv, TypeOK, Stages, Event
<1> QED
  BY <1>1, <1>2

LEMMA IdsAreEvents == ASSUME NEW s \in Seq(Entry) PROVE Ids(s) \subseteq Event
<1> SUFFICES ASSUME NEW i \in DOMAIN s PROVE s[i].id \in Event
  BY DEF Ids
<1>1. s[i] \in Entry
  BY ElementOfSeq, LenProperties
<1> QED
  BY <1>1 DEF Entry

LEMMA AtRiskIs == ASSUME TypeInv, NEW p \in Proc PROVE ReadAtRisk(p) \subseteq Event
<1>1. \A q \in Proc : keep[q] \in Seq(Entry)
  BY DEF TypeInv, TypeOK
<1>2. \A q \in Proc : Ids(keep[q]) \subseteq Event
  BY <1>1, IdsAreEvents
<1> QED
  BY <1>2 DEF ReadAtRisk

LEMMA TypeLoad == ASSUME TypeInv, NEW p \in Proc, NEW how \in {"summary", "clear"}, LoadEntries(p, how) PROVE TypeInv'
<1>1. Retained(log) \in Seq(Entry)
  BY RetainedIs DEF TypeInv, TypeOK
<1>2. loads + 1 \in 0..MaxLoads
  BY AuditAssumption DEF LoadEntries, TypeInv, TypeOK
<1>3. mixed' \in BOOLEAN /\ exposed' \subseteq Event
  BY AtRiskIs DEF LoadEntries, Begin, TypeInv, TypeOK
<1>4. pc' = [pc EXCEPT ![p] = "loaded"] \/ pc' = [pc EXCEPT ![p] = "returning"]
  BY DEF LoadEntries
<1>5. pc' \in [Proc -> {"idle", "hashed", "loaded", "truncated", "returning"}]
      /\ \A q \in Proc : pc'[q] = "hashed" => pc[q] = "hashed"
  BY <1>4 DEF TypeInv, TypeOK
<1>6. /\ keep' \in [Proc -> Seq(Entry)] /\ call' \in [Proc -> {"none", "record", "summary", "clear"}]
      /\ loads' \in 0..MaxLoads
      /\ UNCHANGED <<log, torn, mine, prev, expired, events, crashes, written, cleared, status>>
  BY <1>1, <1>2 DEF LoadEntries, TypeInv, TypeOK
<1> QED
  BY <1>3, <1>5, <1>6 DEF TypeInv, TypeOK, Event

LEMMA FlushIs ==
  ASSUME TypeInv, NEW p \in Proc, Flush(p)
  PROVE  log' \in Seq(Entry) /\ Ids(log') \subseteq Ids(keep[p]) \cup Ids(log) /\ Ids(keep[p]) \subseteq Ids(log')
         /\ (log = <<>> => log' = Restitch(keep[p]))
<1> DEFINE t == Restitch(keep[p])  rest == SubSeq(log, Len(keep[p]) + 1, Len(log))
<1>1. keep[p] \in Seq(Entry) /\ log \in Seq(Entry) /\ Len(keep[p]) \in Nat
  BY LenProperties DEF TypeInv, TypeOK
<1>2. t \in Seq(Entry) /\ Ids(t) = Ids(keep[p])
  BY <1>1, RestitchIs
<1>3. rest \in Seq(Entry) /\ Ids(rest) \subseteq Ids(log)
  BY <1>1, RestOf
<1>4. log' = t \o rest
  BY DEF Flush
<1>5. log = <<>> => rest = <<>>
  BY <1>1
<1> HIDE DEF t, rest
<1>6. Ids(log') = Ids(t) \cup Ids(rest) /\ log' \in Seq(Entry)
  BY <1>2, <1>3, <1>4, IdsConcat, ConcatProperties
<1>7. log = <<>> => log' = t
  BY <1>2, <1>4, <1>5, ConcatEmptySeq
<1> QED
  BY <1>2, <1>3, <1>6, <1>7 DEF t

LEMMA TypeRewrite == ASSUME TypeInv, NEW p \in Proc, Truncate(p) \/ Flush(p) PROVE TypeInv'
<1>1. log' \in Seq(Entry)
  BY FlushIs, EmptyLog DEF Truncate
<1>2. torn' \in BOOLEAN
  BY DEF Truncate, Flush
<1>3. pc' = [pc EXCEPT ![p] = "truncated"] \/ pc' = [pc EXCEPT ![p] = "returning"]
  BY DEF Truncate, Flush
<1>4. pc' \in [Proc -> {"idle", "hashed", "loaded", "truncated", "returning"}]
      /\ \A q \in Proc : pc'[q] = "hashed" => pc[q] = "hashed"
  BY <1>3 DEF TypeInv, TypeOK
<1>5. UNCHANGED <<call, mine, prev, keep, expired, events, loads, crashes, written, cleared, exposed, mixed, status>>
  BY DEF Truncate, Flush
<1> QED
  BY <1>1, <1>2, <1>4, <1>5 DEF TypeInv, TypeOK, Event

LEMMA TypeReturn == ASSUME TypeInv, NEW p \in Proc, ReturnSummary(p) \/ ReturnClear(p) PROVE TypeInv'
<1>1. Return(p) /\ UNCHANGED <<expired, events, loads, crashes, written, exposed, mixed>>
  BY DEF ReturnSummary, ReturnClear
<1>2. log' \in Seq(Entry) /\ torn' \in BOOLEAN
  BY EmptyLog DEF ReturnSummary, ReturnClear, TypeInv, TypeOK
<1>3. cleared' \subseteq Event
  BY IdsAreEvents DEF ReturnSummary, ReturnClear, TypeInv, TypeOK
<1>4. status' \in {"empty", "verified", "broken"}
  BY DEF ReturnSummary, ReturnClear, VerifyChain, TypeInv, TypeOK
<1> QED
  BY <1>1, <1>2, <1>3, <1>4, TypeOver DEF TypeInv, TypeOK, Stages, Event

\* A crash in a rewrite leaves a part of it.
LEMMA CrashIs ==
  ASSUME TypeInv, NEW p \in Proc, Crash(p)
  PROVE  \/ /\ pc[p] = "truncated" /\ torn' \in BOOLEAN /\ exposed' = exposed \cup Ids(keep[p]) \cup Ids(log)
            /\ \E n \in 0..Len(keep[p]) : log' = SubSeq(Restitch(keep[p]), 1, n)
            /\ log' \in Seq(Entry) /\ Ids(log') \subseteq Ids(keep[p])
         \/ pc[p] # "truncated" /\ UNCHANGED <<log, torn, exposed>>
<1> SUFFICES ASSUME pc[p] = "truncated"
             PROVE  /\ torn' \in BOOLEAN /\ exposed' = exposed \cup Ids(keep[p]) \cup Ids(log)
                    /\ \E n \in 0..Len(keep[p]) : log' = SubSeq(Restitch(keep[p]), 1, n)
                    /\ log' \in Seq(Entry) /\ Ids(log') \subseteq Ids(keep[p])
  BY DEF Crash
<1> DEFINE t == Restitch(keep[p])
<1>1. keep[p] \in Seq(Entry) /\ Len(keep[p]) \in Nat
  BY LenProperties DEF TypeInv, TypeOK
<1>2. t \in Seq(Entry) /\ Ids(t) = Ids(keep[p]) /\ Len(t) = Len(keep[p])
  BY <1>1, RestitchIs
<1>3. PICK n \in 0..(Len(keep[p]) - 1), cut \in BOOLEAN : log' = SubSeq(t, 1, n) /\ torn' = cut
  BY DEF Crash
<1>4. n \in 0..Len(t)
  BY <1>1, <1>2, <1>3
<1>5. exposed' = exposed \cup Ids(keep[p]) \cup Ids(log)
  BY DEF Crash
<1> DEFINE u == SubSeq(t, 1, n)
<1>6. u \in Seq(Entry) /\ Ids(u) \subseteq Ids(t)
  <2> HIDE DEF t
  <2> QED
    BY <1>2, <1>4, FrontOf
<1>7. log' = u
  BY <1>3
<1> HIDE DEF t, u
<1> QED
  BY <1>2, <1>4, <1>5, <1>6, <1>7, <1>3 DEF t, u

LEMMA TypeCrash == ASSUME TypeInv, NEW p \in Proc, Crash(p) PROVE TypeInv'
<1>1. crashes' \in 0..MaxCrashes /\ Return(p) /\ UNCHANGED <<expired, events, loads, written, cleared, mixed, status>>
  BY AuditAssumption DEF Crash, TypeInv, TypeOK
<1>2. Ids(keep[p]) \subseteq Event /\ Ids(log) \subseteq Event
  BY IdsAreEvents DEF TypeInv, TypeOK
<1>3. log' \in Seq(Entry) /\ torn' \in BOOLEAN /\ exposed' \subseteq Event
  BY <1>2, CrashIs DEF TypeInv, TypeOK
<1> QED
  BY <1>1, <1>3, TypeOver DEF TypeInv, TypeOK, Stages, Event

LEMMA TypeExpire == ASSUME TypeInv, Expire PROVE TypeInv'
<1>1. \E event \in Event : expired' = expired \cup {event}
  BY AuditAssumption DEF Expire, TypeInv, TypeOK, Event
<1> QED
  BY <1>1 DEF Expire, TypeInv, TypeOK, Event

LEMMA AuditInit == Init => TypeInv
<1> SUFFICES ASSUME Init PROVE TypeInv
  OBVIOUS
<1>1. prev \in [Proc -> Seq(Event)] /\ keep \in [Proc -> Seq(Entry)] /\ log \in Seq(Entry)
  BY EmptyLog DEF Init
<1>2. mine \in [Proc -> 0..MaxEvents] /\ events \in 0..MaxEvents /\ loads \in 0..MaxLoads /\ crashes \in 0..MaxCrashes
  BY AuditAssumption DEF Init
<1> QED
  BY <1>1, <1>2 DEF Init, TypeInv, TypeOK

LEMMA AuditNext == TypeInv /\ [Next]_vars => TypeInv'
<1>1. TypeInv /\ UNCHANGED vars => TypeInv'
  BY DEF TypeInv, TypeOK, vars, Event
<1> QED
  BY <1>1, TypeRecord, TypeLoad, TypeRewrite, TypeReturn, TypeCrash, TypeExpire DEF Next

LEMMA AlwaysTyped == Spec => []TypeInv
  BY AuditInit, AuditNext, PTL DEF Spec

\* Every state of the log is well typed.
THEOREM AuditTypeCorrect == Spec => []TypeOK
<1>1. TypeInv => TypeOK
  BY DEF TypeInv
<1> QED
  BY <1>1, AlwaysTyped, PTL

-----------------------------------------------------------------------------
\* Losses.

\* What may be gone, with a reason.
Fine == expired \cup cleared \cup exposed

\* What a process that is rewriting the file has in hand.
InHand == UNION {Ids(keep[p]) : p \in {r \in Proc : pc[r] = "truncated"}}

\* Who rewrites the file knows everything that is in it and what others will bring back,
\* and what has been recorded is in the file, or in hand, or there is a reason.
LossInv ==
  /\ Ids(log) \subseteq written
  /\ \A p \in Proc : Ids(keep[p]) \subseteq written
  /\ written \subseteq Ids(log) \cup InHand \cup Fine
  /\ \A p \in Proc : Rewriting(p) =>
       /\ Ids(log) \subseteq Ids(keep[p]) \cup Fine
       /\ \A q \in Proc : Rewriting(q) => Ids(keep[q]) \subseteq Ids(keep[p]) \cup Fine

LEMMA LossRecord == ASSUME TypeInv, LossInv, NEW p \in Proc, ReadLastHash(p) \/ AppendEntry(p) PROVE LossInv'
<1>0. pc \in [Proc -> Stages] /\ keep \in [Proc -> Seq(Entry)] /\ log \in Seq(Entry)
  BY DEF TypeInv, TypeOK, Stages
<1>1. \A q \in Proc : pc'[q] \in {"loaded", "truncated"} => pc[q] = pc'[q] /\ q # p
  BY <1>0 DEF ReadLastHash, AppendEntry, Return
<1>2. \A q \in Proc : pc[q] \in {"loaded", "truncated"} => pc[q] = pc'[q] /\ q # p
  BY <1>0 DEF ReadLastHash, AppendEntry, Return
<1>3. \A q \in Proc : Ids(keep'[q]) = Ids(keep[q]) \/ Ids(keep'[q]) = {}
  BY <1>0, EmptyLog DEF ReadLastHash, AppendEntry, Return
<1>4. \A q \in Proc : q # p => keep'[q] = keep[q]
  BY <1>0 DEF ReadLastHash, AppendEntry, Return
<1>5. InHand' = InHand
  BY <1>1, <1>2, <1>4 DEF InHand
<1>6. UNCHANGED <<expired, cleared>> /\ exposed \subseteq exposed' /\ written \subseteq written'
  BY DEF ReadLastHash, AppendEntry
<1>7. \/ log' = log /\ written' = written
      \/ log' = log /\ written' = written \cup {mine[p]} /\ mine[p] \in exposed'
      \/ /\ Ids(log') = Ids(log) \cup {mine[p]} /\ written' = written \cup {mine[p]}
         /\ \A q \in Proc : Rewriting(q) => mine[p] \in exposed'
  <2>1. CASE ReadLastHash(p)
    BY <2>1 DEF ReadLastHash
  <2>2. CASE AppendEntry(p) /\ torn
    BY <2>2 DEF AppendEntry
  <2>3. CASE AppendEntry(p) /\ ~torn
    <3> DEFINE e == [id |-> mine[p], prev |-> prev[p], hash |-> Hash(mine[p], prev[p])]
    <3>1. mine[p] \in Event /\ prev[p] \in Seq(Event)
      BY <2>3 DEF AppendEntry, TypeInv, TypeOK
    <3>2. e \in Entry /\ e.id = mine[p]
      BY <3>1, EntryIs
    <3>3. log' = Append(log, e)
      BY <2>3 DEF AppendEntry
    <3> HIDE DEF e
    <3>4. Ids(log') = Ids(log) \cup {mine[p]}
      BY <1>0, <3>2, <3>3, IdsAppend
    <3>5. \A q \in Proc : Rewriting(q) => mine[p] \in exposed'
      BY <1>2, <2>3 DEF AppendEntry, AppendAtRisk, Rewriting
    <3> QED
      BY <2>3, <3>4, <3>5 DEF AppendEntry
  <2> QED
    BY <2>1, <2>2, <2>3
<1> USE DEF LossInv, Fine
<1>8. Ids(log') \subseteq written' /\ \A q \in Proc : Ids(keep'[q]) \subseteq written'
  BY <1>3, <1>6, <1>7
<1>9. written' \subseteq Ids(log') \cup InHand' \cup Fine'
  BY <1>5, <1>6, <1>7
<1>10. ASSUME NEW q \in Proc, Rewriting(q)'
       PROVE  /\ Ids(log') \subseteq Ids(keep'[q]) \cup Fine'
              /\ \A r \in Proc : Rewriting(r)' => Ids(keep'[r]) \subseteq Ids(keep'[q]) \cup Fine'
  <2>1. Rewriting(q) /\ keep'[q] = keep[q]
    BY <1>1, <1>4, <1>10 DEF Rewriting
  <2>2. \A r \in Proc : Rewriting(r)' => Rewriting(r) /\ keep'[r] = keep[r]
    BY <1>1, <1>4 DEF Rewriting
  <2>3. mine[p] \in exposed' \/ Ids(log') = Ids(log)
    BY <1>7, <2>1
  <2>4. Ids(log') \subseteq Ids(keep'[q]) \cup Fine'
    BY <1>6, <1>7, <2>1, <2>3
  <2> QED
    BY <1>6, <2>1, <2>2, <2>4
<1> QED
  BY <1>8, <1>9, <1>10

LEMMA LossLoad == ASSUME TypeInv, LossInv, NEW p \in Proc, NEW how, LoadEntries(p, how) PROVE LossInv'
<1>0. pc \in [Proc -> Stages] /\ keep \in [Proc -> Seq(Entry)] /\ log \in Seq(Entry)
  BY DEF TypeInv, TypeOK, Stages
<1>1. Ids(Retained(log)) = Ids(log) \ expired
  BY <1>0, RetainedIs
<1>2. /\ pc[p] = "idle" /\ keep' = [keep EXCEPT ![p] = Retained(log)]
      /\ UNCHANGED <<log, expired, cleared, written>> /\ exposed \subseteq exposed'
      /\ \/ pc' = [pc EXCEPT ![p] = "loaded"] /\ exposed' = exposed \cup ReadAtRisk(p)
         \/ pc' = [pc EXCEPT ![p] = "returning"]
  BY DEF LoadEntries
<1>3. Ids(keep'[p]) = Ids(log) \ expired /\ \A q \in Proc : q # p => keep'[q] = keep[q] /\ pc'[q] = pc[q]
  BY <1>0, <1>1, <1>2
<1>4. pc'[p] \in {"loaded", "returning"}
  BY <1>0, <1>2
<1>5. InHand' = InHand
  BY <1>2, <1>3, <1>4 DEF InHand
<1>6. pc'[p] = "loaded" => InHand \subseteq exposed'
  <2>1. InHand = ReadAtRisk(p)
    BY <1>2 DEF InHand, ReadAtRisk
  <2> QED
    BY <1>0, <1>2, <2>1
<1> USE DEF LossInv, Fine
<1>7. \A q \in Proc : Ids(keep'[q]) \subseteq written'
  BY <1>2, <1>3
<1>8. written' \subseteq Ids(log') \cup InHand' \cup Fine'
  BY <1>2, <1>5
<1>9. pc'[p] = "loaded" => written \subseteq Ids(keep'[p]) \cup Fine'
  BY <1>2, <1>3, <1>6
<1>10. ASSUME NEW q \in Proc, Rewriting(q)'
       PROVE  /\ Ids(log') \subseteq Ids(keep'[q]) \cup Fine'
              /\ \A r \in Proc : Rewriting(r)' => Ids(keep'[r]) \subseteq Ids(keep'[q]) \cup Fine'
  <2>1. CASE q = p
    <3>1. pc'[p] = "loaded"
      BY <1>4, <1>10, <2>1 DEF Rewriting
    <3> QED
      BY <1>2, <1>7, <1>9, <2>1, <3>1
  <2>2. CASE q # p
    <3>1. Rewriting(q) /\ keep'[q] = keep[q]
      BY <1>3, <1>10, <2>2 DEF Rewriting
    <3>2. Ids(log) \subseteq Ids(keep[q]) \cup Fine
      BY <3>1
    <3>3. ASSUME NEW r \in Proc, Rewriting(r)' PROVE Ids(keep'[r]) \subseteq Ids(keep'[q]) \cup Fine'
      <4>1. CASE r = p
        BY <1>2, <1>3, <3>1, <3>2, <4>1
      <4>2. CASE r # p
        <5>1. Rewriting(r) /\ keep'[r] = keep[r]
          BY <1>3, <3>3, <4>2 DEF Rewriting
        <5> QED
          BY <1>2, <3>1, <5>1
      <4> QED
        BY <4>1, <4>2
    <3> QED
      BY <1>2, <3>1, <3>2, <3>3
  <2> QED
    BY <2>1, <2>2
<1> QED
  BY <1>2, <1>7, <1>8, <1>10

LEMMA LossRewrite == ASSUME TypeInv, LossInv, NEW p \in Proc, Truncate(p) \/ Flush(p) PROVE LossInv'
<1>0. pc \in [Proc -> Stages] /\ keep \in [Proc -> Seq(Entry)] /\ log \in Seq(Entry)
  BY DEF TypeInv, TypeOK, Stages
<1>1. UNCHANGED <<keep, expired, cleared, exposed, written>> /\ Rewriting(p)
      /\ \A q \in Proc : q # p => pc'[q] = pc[q]
  BY <1>0 DEF Truncate, Flush, Rewriting
<1>2. \A q \in Proc : Rewriting(q)' => Rewriting(q)
  BY <1>0 DEF Truncate, Flush, Rewriting
<1>3. Ids(log') \subseteq Ids(keep[p]) \cup Ids(log)
  <2>1. Truncate(p) => Ids(log') = {}
    BY EmptyLog DEF Truncate
  <2> QED
    BY <2>1, FlushIs
<1>4. Ids(keep[p]) \subseteq Ids(log') \cup InHand'
  <2>1. CASE Flush(p)
    BY <2>1, FlushIs
  <2>2. CASE Truncate(p)
    <3>1. pc'[p] = "truncated" \/ keep[p] = <<>>
      BY <1>0, <2>2 DEF Truncate
    <3> QED
      BY <1>1, <3>1, EmptyLog DEF InHand
  <2> QED
    BY <2>1, <2>2
<1>5. InHand \subseteq InHand' \cup Ids(keep[p])
  BY <1>1 DEF InHand
<1> USE DEF LossInv, Fine
<1>6. written' \subseteq Ids(log') \cup InHand' \cup Fine'
  BY <1>1, <1>4, <1>5
<1>7. Ids(log') \subseteq written' /\ \A q \in Proc : Ids(keep'[q]) \subseteq written'
  BY <1>1, <1>3
<1>8. ASSUME NEW q \in Proc, Rewriting(q)'
      PROVE  /\ Ids(log') \subseteq Ids(keep'[q]) \cup Fine'
             /\ \A r \in Proc : Rewriting(r)' => Ids(keep'[r]) \subseteq Ids(keep'[q]) \cup Fine'
  <2>1. Rewriting(q)
    BY <1>2, <1>8
  <2> QED
    BY <1>1, <1>2, <1>3, <2>1
<1> QED
  BY <1>6, <1>7, <1>8

LEMMA LossReturn ==
  ASSUME TypeInv, LossInv, NEW p \in Proc, ReturnSummary(p) \/ ReturnClear(p) \/ Crash(p) PROVE LossInv'
<1>0. pc \in [Proc -> Stages] /\ keep \in [Proc -> Seq(Entry)] /\ log \in Seq(Entry)
  BY DEF TypeInv, TypeOK, Stages
<1>1. Return(p) /\ UNCHANGED <<expired, written>> /\ exposed \subseteq exposed' /\ cleared \subseteq cleared'
  BY DEF ReturnSummary, ReturnClear, Crash
<1>2. /\ pc'[p] = "idle" /\ Ids(keep'[p]) = {}
      /\ \A q \in Proc : q # p => pc'[q] = pc[q] /\ keep'[q] = keep[q]
  BY <1>0, <1>1, EmptyLog DEF Return
<1>3. /\ Ids(log') \subseteq Ids(log) \/ (Rewriting(p) /\ Ids(log') \subseteq Ids(keep[p]))
      /\ Ids(log) \subseteq Ids(log') \cup cleared' \cup exposed'
      /\ pc[p] = "truncated" => Ids(keep[p]) \subseteq exposed'
  <2>1. CASE ReturnSummary(p) \/ ReturnClear(p)
    BY <2>1, EmptyLog DEF ReturnSummary, ReturnClear
  <2>2. CASE Crash(p)
    BY <2>2, CrashIs DEF Rewriting
  <2> QED
    BY <2>1, <2>2
<1>4. InHand \subseteq InHand' \cup exposed'
  BY <1>2, <1>3 DEF InHand
<1> USE DEF LossInv, Fine
<1>5. written' \subseteq Ids(log') \cup InHand' \cup Fine'
  BY <1>1, <1>3, <1>4
<1>6. Ids(log') \subseteq written' /\ \A q \in Proc : Ids(keep'[q]) \subseteq written'
  BY <1>1, <1>2, <1>3
<1>7. ASSUME NEW q \in Proc, Rewriting(q)'
      PROVE  /\ Ids(log') \subseteq Ids(keep'[q]) \cup Fine'
             /\ \A r \in Proc : Rewriting(r)' => Ids(keep'[r]) \subseteq Ids(keep'[q]) \cup Fine'
  <2>1. Rewriting(q) /\ keep'[q] = keep[q] /\ \A r \in Proc : Rewriting(r)' => Rewriting(r) /\ keep'[r] = keep[r]
    BY <1>2, <1>7 DEF Rewriting
  <2>2. Ids(log') \subseteq Ids(keep'[q]) \cup Fine'
    BY <1>1, <1>3, <2>1
  <2> QED
    BY <1>1, <2>1, <2>2
<1> QED
  BY <1>5, <1>6, <1>7

LEMMA LossExpire == ASSUME LossInv, Expire PROVE LossInv'
<1>1. UNCHANGED <<log, pc, keep, written, cleared, exposed>> /\ expired \subseteq expired'
  BY DEF Expire
<1>2. InHand' = InHand /\ \A p \in Proc : Rewriting(p)' <=> Rewriting(p)
  BY <1>1 DEF InHand, Rewriting
<1> QED
  BY <1>1, <1>2 DEF LossInv, Fine

\* No process loses an event that was recorded, but for what the file operations of
\* others are known to destroy.
THEOREM LossesAreAccounted == Spec => []LossAccounted
<1>1. Init => LossInv
  <2> SUFFICES ASSUME Init PROVE LossInv
    OBVIOUS
  <2>1. Ids(log) = {} /\ written = {} /\ \A p \in Proc : Ids(keep[p]) = {} /\ ~Rewriting(p)
    BY EmptyLog DEF Init, Rewriting
  <2> QED
    BY <2>1 DEF LossInv
<1>2. TypeInv /\ LossInv /\ [Next]_vars => LossInv'
  <2>1. LossInv /\ UNCHANGED vars => LossInv'
    BY DEF LossInv, InHand, Fine, Rewriting, vars
  <2> QED
    BY <2>1, LossRecord, LossLoad, LossRewrite, LossReturn, LossExpire DEF Next
<1>3. LossInv => LossAccounted
  <2> SUFFICES ASSUME LossInv, Quiet PROVE Missing \subseteq exposed
    BY DEF LossAccounted
  <2>1. InHand = {}
    BY DEF Quiet, InHand
  <2> QED
    BY <2>1 DEF LossInv, Missing, Fine
<1> QED
  BY <1>1, <1>2, <1>3, AlwaysTyped, PTL DEF Spec

-----------------------------------------------------------------------------
\* As long as calls do not overlap.
ChainInv ==
  ~mixed =>
    /\ \A p, q \in Proc : pc[p] # "idle" /\ pc[q] # "idle" => p = q
    /\ Chained(log)
    /\ \A p \in Proc : pc[p] = "hashed" => prev[p] = LastHash(log)
    /\ \A p \in Proc : pc[p] = "truncated" => log = <<>>

LEMMA ChainGrows ==
  ASSUME NEW s \in Seq(Entry), Chained(s), NEW i \in Event,
         NEW e, e = [id |-> i, prev |-> LastHash(s), hash |-> Hash(i, LastHash(s))]
  PROVE  Chained(Append(s, e))
<1>1. e \in Entry
  BY LastHashIs, EntryIs
<1> DEFINE t == Append(s, e)
<1>2. DOMAIN s = 1..Len(s) /\ DOMAIN t = 1..Len(s) + 1 /\ Len(s) \in Nat /\ t[Len(s) + 1] = e
      /\ \A j \in 1..Len(s) : t[j] = s[j]
  BY <1>1, AppendProperties, LenProperties
<1>3. LastHash(s) = IF Len(s) = 0 THEN <<>> ELSE s[Len(s)].hash
  <2>1. s = <<>> <=> Len(s) = 0
    BY EmptySeq
  <2> QED
    BY <2>1 DEF LastHash, Last
<1>4. e.prev = LastHash(s) /\ e.hash = Hash(e.id, e.prev)
  OBVIOUS
<1> HIDE DEF t
<1> QED
  BY <1>2, <1>3, <1>4 DEF Chained, t

LEMMA ChainFront == ASSUME NEW s \in Seq(Entry), Chained(s), NEW n \in 0..Len(s) PROVE Chained(SubSeq(s, 1, n))
<1> DEFINE t == SubSeq(s, 1, n)
<1>1. DOMAIN t = 1..n /\ \A i \in 1..n : t[i] = s[i]
  BY FrontOf
<1>2. DOMAIN s = 1..Len(s) /\ Len(s) \in Nat
  BY LenProperties
<1> HIDE DEF t
<1> QED
  BY <1>1, <1>2 DEF Chained, t

LEMMA ChainNext == ASSUME TypeInv, ChainInv, [Next]_vars PROVE ChainInv'
<1> SUFFICES ASSUME ~mixed'
             PROVE  /\ \A p, q \in Proc : pc'[p] # "idle" /\ pc'[q] # "idle" => p = q
                    /\ Chained(log')
                    /\ \A p \in Proc : pc'[p] = "hashed" => prev'[p] = LastHash(log')
                    /\ \A p \in Proc : pc'[p] = "truncated" => log' = <<>>
  BY DEF ChainInv, Chained, LastHash
<1>0. pc \in [Proc -> Stages] /\ keep \in [Proc -> Seq(Entry)] /\ log \in Seq(Entry) /\ prev \in [Proc -> Seq(Event)]
  BY DEF TypeInv, TypeOK, Stages
<1>1. ~mixed
  BY DEF Next, vars, ReadLastHash, LoadEntries, AppendEntry, Truncate, Flush, ReturnSummary, ReturnClear, Crash,
         Expire, Begin
<1>2. /\ \A p, q \in Proc : pc[p] # "idle" /\ pc[q] # "idle" => p = q
      /\ Chained(log)
      /\ \A p \in Proc : pc[p] = "hashed" => prev[p] = LastHash(log)
      /\ \A p \in Proc : pc[p] = "truncated" => log = <<>>
  BY <1>1 DEF ChainInv
\* A call that begins begins alone.
<1>3. ASSUME NEW p \in Proc, ReadLastHash(p) \/ LoadEntries(p, "summary") \/ LoadEntries(p, "clear")
      PROVE  /\ \A q \in Proc \ {p} : pc'[q] = "idle"
             /\ Chained(log') /\ pc'[p] # "truncated" /\ log' = log
             /\ pc'[p] = "hashed" => prev'[p] = LastHash(log')
  <2>1. \A q \in Proc \ {p} : pc[q] = "idle"
    BY <1>3 DEF ReadLastHash, LoadEntries, Begin
  <2>2. log' = log /\ \E x \in {"hashed", "loaded", "returning"} : pc' = [pc EXCEPT ![p] = x]
    BY <1>3 DEF ReadLastHash, LoadEntries
  <2>3. pc'[p] = "hashed" => prev'[p] = LastHash(log)
    BY <1>0, <1>3 DEF ReadLastHash, LoadEntries
  <2> QED
    BY <1>0, <1>2, <2>1, <2>2, <2>3
\* One that goes on was alone.
<1>4. ASSUME NEW p \in Proc, AppendEntry(p) \/ Truncate(p) \/ Flush(p) \/ ReturnSummary(p) \/ ReturnClear(p) \/ Crash(p)
      PROVE  /\ \A q \in Proc \ {p} : pc'[q] = "idle"
             /\ pc'[p] # "hashed" /\ Chained(log') /\ (pc'[p] = "truncated" => log' = <<>>)
  <2>1. pc[p] # "idle"
    BY <1>4 DEF AppendEntry, Truncate, Flush, ReturnSummary, ReturnClear, Crash
  <2>2. \A q \in Proc \ {p} : pc[q] = "idle"
    BY <1>2, <2>1
  <2>3. \E x \in {"idle", "truncated", "returning"} : pc' = [pc EXCEPT ![p] = x]
    BY <1>4 DEF AppendEntry, Truncate, Flush, ReturnSummary, ReturnClear, Crash, Return
  <2>4. pc'[p] = "truncated" => log' = <<>>
    BY <1>0, <1>4 DEF AppendEntry, Truncate, Flush, ReturnSummary, ReturnClear, Crash, Return
  <2>5. Chained(log')
    <3>1. CASE AppendEntry(p)
      <4>1. mine[p] \in Event /\ prev[p] = LastHash(log)
        BY <1>2, <3>1 DEF AppendEntry, TypeInv
      <4> DEFINE e == [id |-> mine[p], prev |-> LastHash(log), hash |-> Hash(mine[p], LastHash(log))]
      <4>2. log' = log \/ log' = Append(log, e)
        BY <3>1, <4>1 DEF AppendEntry
      <4>3. Chained(Append(log, e))
        BY <1>0, <1>2, <4>1, ChainGrows
      <4> HIDE DEF e
      <4> QED
        BY <1>2, <4>2, <4>3
    <3>2. CASE Truncate(p) \/ ReturnClear(p)
      BY <3>2, EmptyLog DEF Truncate, ReturnClear
    <3>3. CASE ReturnSummary(p)
      BY <1>2, <3>3 DEF ReturnSummary
    <3>4. CASE Flush(p)
      <4>1. log = <<>>
        BY <1>2, <3>4 DEF Flush
      <4>2. log' = Restitch(keep[p])
        BY <3>4, <4>1, FlushIs
      <4> QED
        BY <1>0, <4>2, RestitchIs
    <3>5. CASE Crash(p)
      <4>1. CASE UNCHANGED log
        BY <1>2, <4>1
      <4>2. CASE \E n \in 0..Len(keep[p]) : log' = SubSeq(Restitch(keep[p]), 1, n)
        <5> DEFINE t == Restitch(keep[p])
        <5>1. t \in Seq(Entry) /\ Len(t) = Len(keep[p]) /\ Chained(t)
          BY <1>0, RestitchIs
        <5>2. PICK n \in 0..Len(t) : log' = SubSeq(t, 1, n)
          BY <4>2, <5>1
        <5> HIDE DEF t
        <5>3. Chained(SubSeq(t, 1, n))
          BY <5>1, ChainFront
        <5> QED
          BY <5>2, <5>3
      <4> QED
        BY <3>5, <4>1, <4>2, CrashIs
    <3> QED
      BY <1>4, <3>1, <3>2, <3>3, <3>4, <3>5
  <2> QED
    BY <1>0, <2>2, <2>3, <2>4, <2>5
<1>5. CASE Expire \/ UNCHANGED vars
  BY <1>2, <1>5 DEF Expire, vars
<1>6. ASSUME NEW p \in Proc, \A q \in Proc \ {p} : pc'[q] = "idle", Chained(log'),
             pc'[p] = "hashed" => prev'[p] = LastHash(log'), pc'[p] = "truncated" => log' = <<>>
      PROVE  /\ \A q, r \in Proc : pc'[q] # "idle" /\ pc'[r] # "idle" => q = r
             /\ Chained(log')
             /\ \A q \in Proc : pc'[q] = "hashed" => prev'[q] = LastHash(log')
             /\ \A q \in Proc : pc'[q] = "truncated" => log' = <<>>
  BY <1>6
<1>7. CASE \E p \in Proc : \/ ReadLastHash(p) \/ AppendEntry(p) \/ LoadEntries(p, "summary") \/ LoadEntries(p, "clear")
                           \/ Truncate(p) \/ Flush(p) \/ ReturnSummary(p) \/ ReturnClear(p) \/ Crash(p)
  <2>1. PICK p \in Proc : /\ \A q \in Proc \ {p} : pc'[q] = "idle"
                          /\ Chained(log') /\ (pc'[p] = "hashed" => prev'[p] = LastHash(log'))
                          /\ (pc'[p] = "truncated" => log' = <<>>)
    BY <1>3, <1>4, <1>7
  <2> QED
    BY <1>6, <2>1
<1> QED
  BY <1>5, <1>7 DEF Next

\* Calls that do not overlap leave a chain from the first line to the last.
THEOREM LogStaysAChain == Spec => []FileChains
<1>1. Init => ChainInv
  BY EmptyLog DEF Init, ChainInv
<1>2. ChainInv => FileChains
  BY ChainedIsNotBroken DEF ChainInv, FileChains
<1> QED
  BY <1>1, <1>2, ChainNext, AlwaysTyped, PTL DEF Spec
=============================================================================
