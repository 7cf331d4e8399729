---------------------------- MODULE PipelineProofs ----------------------------
(***************************************************************************)
(* Proofs about Pipeline, for any number of scanners and of overlapping    *)
(* inspections, and any profiles, reports and configurations.              *)
(***************************************************************************)
EXTENDS Pipeline, ListTheorems, FiniteSetTheorems

(* A scan that runs belongs to an inspection that fanned out, and began    *)
(* under the threshold of some configuration.                              *)
RunningWasStarted ==
  \A i \in Inspections, s \in Scanners :
    insp[i].ml[s].st = "running" =>
      /\ ~insp[i].early
      /\ \E c \in Configs : insp[i].ml[s].threshold = c.threshold

(* The breaker counts no timeout that did not happen, and is open on the   *)
(* strength of a streak that reached a threshold, no longer than the       *)
(* cooldown after the latest scan.                                         *)
BreakerBacked ==
  \A s \in Scanners :
    /\ breaker[s].count <= streak[s]
    /\ breaker[s].openUntil # Closed =>
         /\ \E c \in Configs : streak[s] >= c.threshold
         /\ \E d \in Configs : breaker[s].openUntil <= lastEnd[s] + d.cooldown

EndsAreOver == \A s \in Scanners : lastEnd[s] <= now

(* Nothing that the profile's adjustments leave is severe.                 *)
Mild(i) ==
  \A k \in DOMAIN Adjust(Merged(i), insp[i].profile, insp[i].direction) :
    Adjust(Merged(i), insp[i].profile, insp[i].direction)[k].rank > High

SafeIsMild == \A i \in Decided : insp[i].safe => Mild(i)

IInv ==
  /\ TypeOK
  /\ RunningWasStarted
  /\ BreakerBacked
  /\ EndsAreOver
  /\ SafeIsScanned
  /\ SafeIsMild
  /\ ThreeCriticalsTerminate

-----------------------------------------------------------------------------
(* Constants of the model that stand for fresh objects. *)
LEMMA ResultTypes ==
  /\ Clean \in ScanResult
  /\ \A e \in {"none", "timeout", "open", "raised"} : Failed(e) \in ScanResult /\ Failed(e).error = e
  BY DEF Clean, Failed, ScanResult

LEMMA OutcomeTypes == Outcomes \subseteq ScanResult /\ MinimalResults \subseteq ScanResult
  <1>1. \A q \in Reports \cup Syntactic : [findings |-> q, error |-> "none"] \in ScanResult
    BY ReportsAssumption DEF ScanResult
  <1>2. Failed("timeout") \in ScanResult /\ Failed("raised") \in ScanResult
    BY ResultTypes
  <1> QED
    BY <1>1, <1>2 DEF Outcomes, MinimalResults

LEMMA ScanTypes ==
  /\ NoScan \in Scan /\ NoScan.st = "none"
  /\ \A r \in ScanResult : Done(r) \in Scan /\ Done(r).st = "done" /\ Done(r).result = r
  <1>1. NoScan \in Scan /\ NoScan.st = "none"
    BY ResultTypes DEF NoScan, Scan
  <1>2. ASSUME NEW r \in ScanResult
        PROVE  Done(r) \in Scan /\ Done(r).st = "done" /\ Done(r).result = r
    BY <1>1 DEF Done, Scan
  <1> QED
    BY <1>1, <1>2

LEMMA NoProfileType == NoProfile \in Profile
  BY DEF NoProfile, Profile, Keep

LEMMA NoInspectionType ==
  /\ NoInspection \in Inspection
  /\ NoInspection.phase = "idle" /\ NoInspection.ml = [s \in Scanners |-> NoScan]
  BY ResultTypes, ScanTypes, NoProfileType DEF NoInspection, Inspection, Directions, Tiers

LEMMA ResolveType ==
  ASSUME NEW p \in Profiles
  PROVE  Resolve(p) \in Profile
  <1>1. p \in Profile
    BY ProfilesAssumption
  <1>2. ValidateSuppressRules(p.suppress, p.scope) \in SUBSET Rules
    BY <1>1 DEF ValidateSuppressRules, Profile
  <1> QED
    BY <1>1, <1>2 DEF Resolve, Profile

-----------------------------------------------------------------------------
(* What the operators of Verdict make of a list of findings. *)
StartsAscend(q) == \A a, b \in DOMAIN q : a < b => q[a].start <= q[b].start

(* list.sort(): the same elements, in order of their starts. *)
LEMMA SortByStartSorts ==
  ASSUME NEW q \in Seq(Finding)
  PROVE  /\ SortByStart(q) \in Seq(Finding)
         /\ ToSet(SortByStart(q)) = ToSet(q)
         /\ StartsAscend(SortByStart(q))
  <1> DEFINE N == Len(q)
             Comes(j, i) == q[j].start < q[i].start \/ (q[j].start = q[i].start /\ j <= i)
             Upto(i) == {j \in DOMAIN q : Comes(j, i)}
             place == [i \in 1 .. N |-> Cardinality(Upto(i))]
             source(k) == CHOOSE i \in DOMAIN q : Cardinality(Upto(i)) = k
  <1>1. N \in Nat /\ DOMAIN q = 1 .. N /\ \A i \in 1 .. N : q[i] \in Finding
    BY LenProperties
  <1>2. \A i \in 1 .. N : q[i].start \in Nat
    BY <1>1 DEF Finding
  <1>3. SortByStart(q) = [k \in 1 .. N |-> q[source(k)]]
    BY <1>1 DEF SortByStart
  <1> HIDE DEF N
  <1>4. IsFiniteSet(1 .. N) /\ Cardinality(1 .. N) = N
    BY <1>1, FS_Interval
  <1>5. ASSUME NEW i \in 1 .. N
        PROVE  Upto(i) \in SUBSET (1 .. N) /\ i \in Upto(i)
    BY <1>1, <1>2
  <1>6. ASSUME NEW i \in 1 .. N
        PROVE  IsFiniteSet(Upto(i)) /\ Cardinality(Upto(i)) \in 1 .. N
    <2>1. IsFiniteSet(Upto(i)) /\ Cardinality(Upto(i)) <= N /\ Cardinality(Upto(i)) \in Nat
      BY <1>4, <1>5, FS_Subset, FS_CardinalityType
    <2>2. Cardinality(Upto(i)) # 0
      BY <1>5, <2>1, FS_EmptySet
    <2> QED
      BY <1>1, <2>1, <2>2
  <1>7. ASSUME NEW i \in 1 .. N, NEW k \in 1 .. N, i # k, Comes(i, k)
        PROVE  Cardinality(Upto(i)) < Cardinality(Upto(k))
    <2>1. Upto(i) \in SUBSET Upto(k) /\ k \notin Upto(i) /\ k \in Upto(k)
      BY <1>1, <1>2, <1>7
    <2> HIDE DEF Upto
    <2>2. Cardinality(Upto(i)) <= Cardinality(Upto(k)) /\ Cardinality(Upto(i)) # Cardinality(Upto(k))
      BY <1>6, <2>1, FS_Subset
    <2> QED
      BY <1>1, <1>6, <2>2
  <1>8. \A i, k \in 1 .. N : i = k \/ Comes(i, k) \/ Comes(k, i)
    BY <1>1, <1>2
  <1> HIDE DEF Upto, Comes
  <1>9. place \in Injection(1 .. N, 1 .. N)
    <2>1. place \in [1 .. N -> 1 .. N]
      BY <1>6
    <2>2. ASSUME NEW i \in 1 .. N, NEW k \in 1 .. N, place[i] = place[k], i # k
          PROVE  FALSE
      <3>1. Cardinality(Upto(i)) = Cardinality(Upto(k))
        BY <2>2
      <3>2. Cardinality(Upto(i)) \in 1 .. N /\ Cardinality(Upto(k)) \in 1 .. N
        BY <1>6
      <3> QED
        BY <1>7, <1>8, <2>2, <3>1, <3>2
    <2> QED
      BY <2>1, <2>2 DEF Injection, IsInjective
  <1>10. place \in Surjection(1 .. N, 1 .. N)
    BY <1>4, <1>9, FS_Injection
  <1>11. ASSUME NEW k \in 1 .. N
         PROVE  source(k) \in 1 .. N /\ Cardinality(Upto(source(k))) = k
    <2>1. \E i \in 1 .. N : Cardinality(Upto(i)) = k
      BY <1>10 DEF Surjection
    <2> QED
      BY <1>1, <2>1
  <1>12. ASSUME NEW i \in 1 .. N
         PROVE  source(Cardinality(Upto(i))) = i
    <2> DEFINE k == Cardinality(Upto(i))
    <2>1. k \in 1 .. N
      BY <1>6
    <2>2. source(k) \in 1 .. N /\ Cardinality(Upto(source(k))) = k
      BY <1>11, <2>1
    <2> HIDE DEF source
    <2>3. source(k) # i => Comes(source(k), i) \/ Comes(i, source(k))
      BY <1>8, <2>2
    <2>4. source(k) # i => k < k
      BY <1>7, <2>2, <2>3
    <2> QED
      BY <2>1, <2>4
  <1> HIDE DEF source, place
  <1>13. SortByStart(q) \in Seq(Finding) /\ DOMAIN SortByStart(q) = 1 .. N
    BY <1>1, <1>3, <1>11
  <1>14. ToSet(SortByStart(q)) = ToSet(q)
    <2>1. \A x : x \in ToSet(SortByStart(q)) => x \in ToSet(q)
      BY <1>1, <1>3, <1>11, <1>13 DEF ToSet
    <2>2. ASSUME NEW i \in 1 .. N PROVE q[i] \in ToSet(SortByStart(q))
      <3>1. SortByStart(q)[Cardinality(Upto(i))] = q[i] /\ Cardinality(Upto(i)) \in 1 .. N
        BY <1>3, <1>6, <1>12
      <3> QED
        BY <1>13, <3>1 DEF ToSet
    <2> QED
      BY <1>1, <2>1, <2>2 DEF ToSet
  <1>15. ASSUME NEW a \in 1 .. N, NEW b \in 1 .. N, a < b
         PROVE  SortByStart(q)[a].start <= SortByStart(q)[b].start
    <2> DEFINE i == source(a)
               k == source(b)
    <2>1. /\ i \in 1 .. N /\ Cardinality(Upto(i)) = a
          /\ k \in 1 .. N /\ Cardinality(Upto(k)) = b
      BY <1>11
    <2>2. SortByStart(q)[a] = q[i] /\ SortByStart(q)[b] = q[k]
      BY <1>3
    <2> HIDE DEF i, k
    <2>3. a \in Nat /\ b \in Nat
      BY <1>1
    <2>4. ~Comes(k, i)
      <3>1. k # i
        BY <1>15, <2>1, <2>3
      <3>2. Comes(k, i) => b < a
        BY <1>7, <2>1, <3>1
      <3> QED
        BY <1>15, <2>3, <3>2
    <2>5. Comes(i, k) \/ i = k
      BY <1>8, <2>1, <2>4
    <2>6. q[i].start <= q[k].start
      BY <1>2, <2>1, <2>5 DEF Comes
    <2> QED
      BY <2>2, <2>6
  <1> QED
    BY <1>13, <1>14, <1>15 DEF StartsAscend

LEMMA LinkedSelf ==
  ASSUME NEW f \in Finding, NEW All
  PROVE  Linked(f, f, All)
  <1>1. f.start .. (f.start - 1) = {}
    BY DEF Finding
  <1> QED
    BY <1>1 DEF Linked

(* Two spans that overlap are linked. *)
LEMMA LinkedOverlap ==
  ASSUME NEW a \in Finding, NEW b \in Finding, NEW All, a \in ToSet(All), a.placed,
         a.start <= b.start, b.start < a.end
  PROVE  Linked(a, b, All) /\ Linked(b, a, All)
  <1>1. a.start \in Nat /\ b.start \in Nat /\ a.end \in Nat
    BY DEF Finding
  <1>2. \A x \in a.start .. (b.start - 1) : a.start <= x /\ x + 1 < a.end
    BY <1>1
  <1>3. \A x \in a.start .. (b.start - 1) : \E h \in ToSet(All) : h.placed /\ h.start <= x /\ x + 1 < h.end
    BY <1>2
  <1> QED
    BY <1>1, <1>3 DEF Linked

LEMMA LinkedThrough ==
  ASSUME NEW f \in Finding, NEW g \in Finding, NEW e \in Finding, NEW All,
         Linked(f, g, All), Linked(g, e, All)
  PROVE  Linked(f, e, All)
  <1> DEFINE Covered(x) == \E h \in ToSet(All) : h.placed /\ h.start <= x /\ x + 1 < h.end
             Lo(a, b) == IF a.start < b.start THEN a.start ELSE b.start
             Hi(a, b) == IF a.start < b.start THEN b.start ELSE a.start
  <1>1. f.start \in Nat /\ g.start \in Nat /\ e.start \in Nat
    BY DEF Finding
  <1>2. \A x \in Lo(f, g) .. (Hi(f, g) - 1) : Covered(x)
    BY DEF Linked
  <1>3. \A x \in Lo(g, e) .. (Hi(g, e) - 1) : Covered(x)
    BY DEF Linked
  <1>4. Linked(f, e, All) <=> \A x \in Lo(f, e) .. (Hi(f, e) - 1) : Covered(x)
    BY DEF Linked
  <1> HIDE DEF Covered
  <1>5. \A x \in Lo(f, e) .. (Hi(f, e) - 1) :
          x \in Lo(f, g) .. (Hi(f, g) - 1) \/ x \in Lo(g, e) .. (Hi(g, e) - 1)
    BY <1>1
  <1> QED
    BY <1>2, <1>3, <1>4, <1>5

(* A finding at least as severe has survived, and is linked with it. *)
Represented(f, survivors, All) ==
  \E g \in ToSet(survivors) : g.rank <= f.rank /\ Linked(f, g, All)

(* One turn of the loop drops at most one of two findings that overlap,    *)
(* and never the more severe.                                              *)
Drops(survivors, x, after) ==
  \/ ToSet(survivors) \cup {x} \subseteq ToSet(after)
  \/ /\ x.start < Last(survivors).end
     /\ \/ x.rank <= Last(survivors).rank /\ ToSet(survivors) \cup {x} \subseteq ToSet(after) \cup {Last(survivors)}
                                           /\ x \in ToSet(after)
        \/ Last(survivors).rank <= x.rank /\ after = survivors

LEMMA OverlapDrops ==
  ASSUME NEW q \in Seq(Finding), q # << >>, NEW x \in Finding
  PROVE  /\ Overlap(q, x) \in Seq(Finding) /\ Overlap(q, x) # << >>
         /\ ToSet(Overlap(q, x)) \subseteq ToSet(q) \cup {x}
         /\ Drops(q, x, Overlap(q, x))
  <1> DEFINE last == Last(q)
  <1>1. /\ last \in Finding /\ last \in ToSet(q) /\ Front(q) \in Seq(Finding)
        /\ ToSet(q) = ToSet(Front(q)) \cup {last}
    BY LastIsIn
  <1>2. /\ x.start \in Nat /\ last.end \in Nat /\ x.rank \in Int /\ last.rank \in Int
        /\ x.confidence \in Nat /\ last.confidence \in Nat
    BY <1>1 DEF Finding, Ranks
  <1>3. /\ Append(q, x) \in Seq(Finding) /\ Append(q, x) # << >>
        /\ ToSet(Append(q, x)) = ToSet(q) \cup {x}
    BY AppendElements, AppendProperties
  <1>4. /\ Append(Front(q), x) \in Seq(Finding) /\ Append(Front(q), x) # << >>
        /\ ToSet(Append(Front(q), x)) = ToSet(Front(q)) \cup {x}
    BY <1>1, AppendElements, AppendProperties
  <1>5. \/ Overlap(q, x) = Append(q, x)
        \/ Overlap(q, x) = Append(Front(q), x) /\ x.start < last.end /\ x.rank <= last.rank
        \/ Overlap(q, x) = q /\ x.start < last.end /\ last.rank <= x.rank
    <2> HIDE DEF last
    <2>1. CASE x.start >= last.end
      <3>1. Overlap(q, x) = Append(q, x)
        BY <1>2, <2>1 DEF Overlap, last
      <3> QED
        BY <3>1
    <2>2. CASE x.start < last.end /\ x.rank < last.rank
      <3>1. Overlap(q, x) = Append(Front(q), x)
        BY <1>2, <2>2 DEF Overlap, last
      <3> QED
        BY <1>2, <2>2, <3>1
    <2>3. CASE x.start < last.end /\ x.rank > last.rank
      <3>1. Overlap(q, x) = q
        BY <1>2, <2>3 DEF Overlap, last
      <3> QED
        BY <1>2, <2>3, <3>1
    <2>4. CASE x.start < last.end /\ x.rank = last.rank
      <3>1. x.confidence > last.confidence => Overlap(q, x) = Append(Front(q), x)
        BY <1>2, <2>4 DEF Overlap, last
      <3>2. x.confidence < last.confidence => Overlap(q, x) = q
        BY <1>2, <2>4 DEF Overlap, last
      <3>3. x.confidence = last.confidence => Overlap(q, x) = Append(q, x)
        BY <1>2, <2>4 DEF Overlap, last
      <3>4. x.confidence > last.confidence \/ x.confidence < last.confidence \/ x.confidence = last.confidence
        BY <1>2
      <3> QED
        BY <1>2, <2>4, <3>1, <3>2, <3>3, <3>4
    <2> QED
      BY <1>2, <2>1, <2>2, <2>3, <2>4
  <1> QED
    BY <1>1, <1>3, <1>4, <1>5 DEF Drops

LEMMA TurnRepresents ==
  ASSUME NEW All, NEW q \in Seq(Finding), q # << >>, NEW x \in Finding,
         \A g \in ToSet(q) : g.placed /\ g.start <= x.start /\ g \in ToSet(All)
  PROVE  /\ Represented(x, Overlap(q, x), All)
         /\ \A f \in Finding : Represented(f, q, All) => Represented(f, Overlap(q, x), All)
  <1> DEFINE last == Last(q)
             next == Overlap(q, x)
  <1>0. last \in Finding /\ last \in ToSet(q)
    BY LastIsIn, Zenon
  <1>1. last \in Finding /\ last \in ToSet(q) /\ \A g \in ToSet(q) : g \in Finding
    BY <1>0, LenProperties DEF ToSet
  <1>2. Drops(q, x, next)
    BY OverlapDrops, Zenon
  <1>3. x.rank \in Int /\ \A g \in ToSet(q) : g.rank \in Int
    <2>1. \A g \in Finding : g.rank \in Int
      BY DEF Finding, Ranks
    <2> QED
      BY <1>1, <2>1
  <1>4. x.start < last.end => Linked(last, x, All) /\ Linked(x, last, All)
    BY <1>1, LinkedOverlap
  <1>5. Linked(x, x, All)
    BY LinkedSelf
  <1> HIDE DEF next, last
  <1>6. Represented(x, next, All)
    <2>1. CASE x \in ToSet(next)
      BY <1>3, <1>5, <2>1 DEF Represented
    <2>2. CASE x \notin ToSet(next)
      <3>1. next = q /\ last.rank <= x.rank /\ x.start < last.end
        BY <1>2, <2>2 DEF Drops, last
      <3> QED
        BY <1>1, <1>4, <3>1 DEF Represented
    <2> QED
      BY <2>1, <2>2
  <1>7. ASSUME NEW f \in Finding, Represented(f, q, All)
        PROVE  Represented(f, next, All)
    <2>1. PICK g \in ToSet(q) : g.rank <= f.rank /\ Linked(f, g, All)
      BY <1>7 DEF Represented
    <2>2. CASE g \in ToSet(next)
      BY <2>1, <2>2 DEF Represented
    <2>3. CASE g \notin ToSet(next)
      <3>1. g = last /\ x \in ToSet(next) /\ x.rank <= last.rank /\ x.start < last.end
        BY <1>2, <2>1, <2>3 DEF Drops, last
      <3>2. Linked(f, x, All)
        BY <1>1, <1>4, <2>1, <3>1, LinkedThrough
      <3>3. x.rank <= f.rank
        <4>1. f.rank \in Int
          BY DEF Finding, Ranks
        <4> QED
          BY <1>3, <2>1, <3>1, <4>1
      <3> QED
        BY <3>1, <3>2, <3>3 DEF Represented
    <2> QED
      BY <2>2, <2>3
  <1> QED
    BY <1>6, <1>7 DEF next

Survives(kept, q) ==
  kept = [n \in 0 .. Len(q) |->
            IF n = 0 THEN << >> ELSE IF n = 1 THEN <<q[1]>> ELSE Overlap(kept[n - 1], q[n])]

(* The loop of Resolved has a value after each of its turns. *)
LEMMA SurvivorsExist ==
  ASSUME NEW q \in Seq(Finding)
  PROVE  \E kept : Survives(kept, q)
  <1> DEFINE N == Len(q)
             step == [p \in (1 .. N) \X Seq(Finding) |->
                        IF p[2] = << >> THEN <<q[p[1]]>> ELSE Overlap(p[2], q[p[1]])]
  <1>1. N \in Nat /\ DOMAIN q = 1 .. N /\ \A n \in 1 .. N : q[n] \in Finding
    BY LenProperties
  <1>2. \A n \in 1 .. N, v \in Seq(Finding) :
          step[<<n, v>>] = IF v = << >> THEN <<q[n]>> ELSE Overlap(v, q[n])
    OBVIOUS
  <1> HIDE DEF step, N
  <1>3. ASSUME NEW n \in 1 .. N, NEW v \in Seq(Finding)
        PROVE  step[<<n, v>>] \in Seq(Finding) /\ step[<<n, v>>] # << >>
    <2>1. <<q[n]>> \in Seq(Finding) /\ <<q[n]>> # << >>
      BY <1>1
    <2>2. v # << >> => Overlap(v, q[n]) \in Seq(Finding) /\ Overlap(v, q[n]) # << >>
      BY <1>1, OverlapDrops, Zenon
    <2> QED
      BY <1>2, <2>1, <2>2, Zenon
  <1>4. Turns(step, N, Seq(Finding)) /\ << >> \in Seq(Finding)
    BY <1>3 DEF Turns
  <1>5. PICK g \in [0 .. N -> Seq(Finding)] : Ran(g, step, N, << >>)
    BY <1>1, <1>4, LoopExists
  <1>6. ASSUME NEW n \in 1 .. N
        PROVE  n # 0 /\ n - 1 \in 0 .. N /\ n \in 0 .. N /\ (n # 1 => n - 1 \in 1 .. N)
    BY <1>1
  <1>7. g[0] = << >> /\ \A n \in 1 .. N : g[n] = step[<<n, g[n - 1]>>] /\ g[n - 1] \in Seq(Finding)
    BY <1>5, <1>6 DEF Ran
  <1>8. \A n \in 1 .. N : g[n] # << >>
    BY <1>3, <1>7
  <1>9. ASSUME NEW n \in 1 .. N
        PROVE  g[n] = IF n = 1 THEN <<q[1]>> ELSE Overlap(g[n - 1], q[n])
    <2>1. g[n] = IF g[n - 1] = << >> THEN <<q[n]>> ELSE Overlap(g[n - 1], q[n])
      BY <1>2, <1>7
    <2>2. CASE n = 1
      BY <1>7, <2>1, <2>2
    <2>3. CASE n # 1
      BY <1>6, <1>8, <2>1, <2>3
    <2> QED
      BY <2>2, <2>3
  <1>10. \A n \in 0 .. N : n = 0 \/ n \in 1 .. N
    BY <1>1
  <1> DEFINE h == [n \in 0 .. N |->
                     IF n = 0 THEN << >> ELSE IF n = 1 THEN <<q[1]>> ELSE Overlap(g[n - 1], q[n])]
  <1>11. \A n \in 0 .. N : g[n] = h[n]
    BY <1>6, <1>7, <1>9, <1>10
  <1>12. g = h
    BY <1>5, <1>11
  <1>13. Survives(g, q)
    BY <1>12 DEF Survives, N
  <1> QED
    BY <1>13

(* merge_findings(): what survives is among the findings, and stands for   *)
(* each of them.                                                           *)
LEMMA ResolvedRepresents ==
  ASSUME NEW q \in Seq(Finding), NEW All, StartsAscend(q),
         \A g \in ToSet(q) : g.placed /\ g \in ToSet(All)
  PROVE  /\ Resolved(q) \in Seq(Finding)
         /\ ToSet(Resolved(q)) \subseteq ToSet(q)
         /\ \A f \in ToSet(q) : Represented(f, Resolved(q), All)
  <1> DEFINE N == Len(q)
             kept == CHOOSE g : Survives(g, q)
  <1>1. N \in Nat /\ DOMAIN q = 1 .. N /\ \A n \in 1 .. N : q[n] \in Finding
    BY LenProperties
  <1>2. Survives(kept, q)
    BY SurvivorsExist
  <1>3. Resolved(q) = kept[N]
    BY DEF Resolved, Survives, N
  <1> HIDE DEF kept, N
  <1>4. \A n \in 0 .. N : kept[n] = IF n = 0 THEN << >>
                            ELSE IF n = 1 THEN <<q[1]>> ELSE Overlap(kept[n - 1], q[n])
    BY <1>2, Zenon DEF Survives, N
  <1> DEFINE good == {n \in 0 .. N :
                        /\ kept[n] \in Seq(Finding)
                        /\ n # 0 => kept[n] # << >>
                        /\ ToSet(kept[n]) \subseteq {q[k] : k \in 1 .. n}
                        /\ \A k \in 1 .. n : Represented(q[k], kept[n], All)}
  <1>5. 0 \in good
    <2>1. 0 \in 0 .. N /\ kept[0] = << >> /\ 1 .. 0 = {}
      BY <1>1, <1>4
    <2>2. ToSet(<< >>) = {}
      BY DEF ToSet
    <2>3. << >> \in Seq(Finding)
      OBVIOUS
    <2> QED
      BY <2>1, <2>2, <2>3
  <1>6. ASSUME NEW n \in 1 .. N, n - 1 \in good
        PROVE  n \in good
    <2>1. n \in 0 .. N /\ n # 0 /\ q[n] \in Finding /\ 1 .. n = (1 .. (n - 1)) \cup {n}
          /\ \A k \in 1 .. (n - 1) : k \in 1 .. N /\ k < n
      BY <1>1
    <2>2. CASE n = 1
      <3>1. kept[n] = <<q[n]>> /\ ToSet(<<q[n]>>) = {q[n]} /\ 1 .. n = {n}
        BY <1>4, <2>1, <2>2 DEF ToSet
      <3>2. q[n].rank <= q[n].rank /\ Linked(q[n], q[n], All)
        BY <2>1, LinkedSelf DEF Finding, Ranks
      <3>3. Represented(q[n], kept[n], All)
        BY <3>1, <3>2 DEF Represented
      <3>4. kept[n] \in Seq(Finding) /\ kept[n] # << >>
        BY <2>1, <3>1
      <3>5. {q[k] : k \in 1 .. n} = {q[n]}
        BY <3>1
      <3>6. \A k \in 1 .. n : Represented(q[k], kept[n], All)
        BY <3>1, <3>3
      <3>7. n \in 0 .. N
        BY <2>1
      <3>8. ToSet(kept[n]) \subseteq {q[k] : k \in 1 .. n}
        BY <3>1, <3>5
      <3> QED
        BY <3>4, <3>6, <3>7, <3>8
    <2>3. CASE n # 1
      <3> DEFINE before == kept[n - 1]
      <3>1. /\ before \in Seq(Finding) /\ before # << >>
            /\ ToSet(before) \subseteq {q[k] : k \in 1 .. (n - 1)}
            /\ \A k \in 1 .. (n - 1) : Represented(q[k], before, All)
        BY <1>6, <2>3
      <3>2. kept[n] = Overlap(before, q[n])
        BY <1>4, <2>1, <2>3
      <3> HIDE DEF before, good
      <3>3. \A g \in ToSet(before) : g.placed /\ g.start <= q[n].start /\ g \in ToSet(All)
        <4>1. ASSUME NEW k \in 1 .. (n - 1)
              PROVE  q[k].placed /\ q[k].start <= q[n].start /\ q[k] \in ToSet(All)
          BY <1>1, <2>1 DEF StartsAscend, ToSet
        <4> QED
          BY <3>1, <4>1
      <3>4. /\ Represented(q[n], kept[n], All)
            /\ \A f \in Finding : Represented(f, before, All) => Represented(f, kept[n], All)
        BY <2>1, <3>1, <3>2, <3>3, TurnRepresents
      <3>5. kept[n] \in Seq(Finding) /\ kept[n] # << >> /\ ToSet(kept[n]) \subseteq ToSet(before) \cup {q[n]}
        <4>1. before \in Seq(Finding) /\ before # << >> /\ q[n] \in Finding
          BY <2>1, <3>1
        <4>2. /\ Overlap(before, q[n]) \in Seq(Finding) /\ Overlap(before, q[n]) # << >>
              /\ ToSet(Overlap(before, q[n])) \subseteq ToSet(before) \cup {q[n]}
          BY <4>1, OverlapDrops, Zenon
        <4> QED
          BY <3>2, <4>2
      <3>6. ToSet(kept[n]) \subseteq {q[k] : k \in 1 .. n}
        BY <2>1, <3>1, <3>5
      <3>7. \A k \in 1 .. n : Represented(q[k], kept[n], All)
        BY <1>1, <2>1, <3>1, <3>4
      <3> QED
        BY <2>1, <3>5, <3>6, <3>7 DEF good
    <2> QED
      BY <2>2, <2>3
  <1> HIDE DEF good
  <1>7. \A n \in 0 .. N : n \in good
    BY <1>1, <1>5, <1>6, Inductively
  <1>8. N \in good
    BY <1>1, <1>7
  <1>9. ToSet(q) = {q[k] : k \in 1 .. N}
    BY <1>1 DEF ToSet
  <1> QED
    BY <1>3, <1>8, <1>9 DEF good

(* merge_findings() as a whole. *)
LEMMA MergeRepresents ==
  ASSUME NEW q \in Seq(Finding)
  PROVE  /\ MergeFindings(q) \in Seq(Finding)
         /\ ToSet(MergeFindings(q)) \subseteq ToSet(q)
         /\ \A f \in ToSet(q) : ~f.placed => f \in ToSet(MergeFindings(q))
         /\ \A f \in ToSet(q) : f.placed =>
              \E g \in ToSet(MergeFindings(q)) : g.placed /\ g.rank <= f.rank /\ Linked(f, g, q)
  <1> DEFINE with == Only(q, {k \in DOMAIN q : q[k].placed})
             without == Only(q, {k \in DOMAIN q : ~q[k].placed})
             sorted == SortByStart(with)
             merged == Resolved(sorted)
  <1>1. /\ with \in Seq(Finding) /\ without \in Seq(Finding)
        /\ ToSet(with) = {q[k] : k \in DOMAIN q \cap {k \in DOMAIN q : q[k].placed}}
        /\ ToSet(without) = {q[k] : k \in DOMAIN q \cap {k \in DOMAIN q : ~q[k].placed}}
    BY OnlyKeeps
  <1>2. MergeFindings(q) = merged \o without
    BY DEF MergeFindings
  <1> HIDE DEF with, without
  <1>3. /\ ToSet(with) \subseteq ToSet(q) /\ ToSet(without) \subseteq ToSet(q)
        /\ \A f \in ToSet(with) : f.placed
        /\ \A f \in ToSet(q) : f.placed => f \in ToSet(with)
        /\ \A f \in ToSet(q) : ~f.placed => f \in ToSet(without)
    BY <1>1 DEF ToSet
  <1>4. sorted \in Seq(Finding) /\ ToSet(sorted) = ToSet(with) /\ StartsAscend(sorted)
    BY <1>1, SortByStartSorts
  <1> HIDE DEF sorted
  <1>5. \A g \in ToSet(sorted) : g.placed /\ g \in ToSet(q)
    BY <1>3, <1>4
  <1>6. /\ merged \in Seq(Finding) /\ ToSet(merged) \subseteq ToSet(sorted)
        /\ \A f \in ToSet(sorted) : Represented(f, merged, q)
    BY <1>4, <1>5, ResolvedRepresents
  <1> HIDE DEF merged
  <1>7. MergeFindings(q) \in Seq(Finding) /\ ToSet(MergeFindings(q)) = ToSet(merged) \cup ToSet(without)
    BY <1>1, <1>2, <1>6, ConcatElements
  <1>8. ASSUME NEW f \in ToSet(q), f.placed
        PROVE  \E g \in ToSet(MergeFindings(q)) : g.placed /\ g.rank <= f.rank /\ Linked(f, g, q)
    <2>1. Represented(f, merged, q)
      BY <1>3, <1>4, <1>6, <1>8
    <2>2. PICK g \in ToSet(merged) : g.rank <= f.rank /\ Linked(f, g, q)
      BY <2>1 DEF Represented
    <2>3. g.placed /\ g \in ToSet(MergeFindings(q))
      BY <1>5, <1>6, <1>7, <2>2
    <2> QED
      BY <2>2, <2>3
  <1> QED
    BY <1>3, <1>4, <1>6, <1>7, <1>8

-----------------------------------------------------------------------------
(* Verdicts that were reached stay as they are while another inspection    *)
(* makes a step.                                                           *)
LEMMA MergedSame ==
  ASSUME NEW j, insp'[j].minimal = insp[j].minimal, insp'[j].ml = insp[j].ml,
         insp'[j].profile = insp[j].profile, insp'[j].direction = insp[j].direction
  PROVE  Merged(j)' = Merged(j)
  BY DEF Merged, Unsuppressed, Reported

LEMMA OthersKeep ==
  ASSUME IInv, NEW i \in Inspections, \A j \in Inspections : j # i => insp'[j] = insp[j],
         insp'[i].phase # "decided" \/ insp'[i].raised
  PROVE  SafeIsScanned' /\ SafeIsMild' /\ ThreeCriticalsTerminate'
  <1>1. \A j \in Decided' : j \in Decided /\ insp'[j] = insp[j]
    BY DEF Decided
  <1>2. \A j \in Decided' : Merged(j)' = Merged(j)
    BY <1>1, MergedSame
  <1>3. SafeIsScanned'
    BY <1>1 DEF IInv, SafeIsScanned
  <1>4. ThreeCriticalsTerminate'
    BY <1>1, <1>2 DEF IInv, ThreeCriticalsTerminate
  <1>5. SafeIsMild'
    BY <1>1, <1>2 DEF IInv, SafeIsMild, Mild
  <1> QED
    BY <1>3, <1>4, <1>5

(* An inspection is replaced by one that has no running scan. *)
LEMMA ReplaceQuiet ==
  ASSUME IInv, NEW i \in Inspections, NEW new \in Inspection, insp' = [insp EXCEPT ![i] = new],
         \A s \in Scanners : new.ml[s].st # "running"
  PROVE  /\ insp' \in [Inspections -> Inspection]
         /\ insp'[i] = new
         /\ \A j \in Inspections : j # i => insp'[j] = insp[j]
         /\ \A j \in Inspections, s \in Scanners :
              insp'[j].ml[s].st = "running" => insp'[j].phase = "scanning"
         /\ RunningWasStarted'
  <1>1. /\ insp' \in [Inspections -> Inspection]
        /\ insp'[i] = new
        /\ \A j \in Inspections : j # i => insp'[j] = insp[j]
    BY DEF IInv, TypeOK
  <1>2. \A j \in Inspections, s \in Scanners :
              insp'[j].ml[s].st = "running" => insp'[j].phase = "scanning"
    BY <1>1 DEF IInv, TypeOK
  <1>3. RunningWasStarted'
    BY <1>1 DEF IInv, RunningWasStarted
  <1> QED
    BY <1>1, <1>2, <1>3

(* One scan of an inspection in progress moves on. *)
LEMMA MoveScan ==
  ASSUME IInv, NEW i \in Inspections, NEW s \in Scanners, NEW new \in Scan,
         insp' = [insp EXCEPT ![i].ml[s] = new], insp[i].phase = "scanning",
         new.st = "running" => ~insp[i].early /\ \E c \in Configs : new.threshold = c.threshold
  PROVE  /\ insp' \in [Inspections -> Inspection]
         /\ \A j \in Inspections, u \in Scanners :
              insp'[j].ml[u].st = "running" => insp'[j].phase = "scanning"
         /\ RunningWasStarted' /\ SafeIsScanned' /\ SafeIsMild' /\ ThreeCriticalsTerminate'
  <1> DEFINE ml == [insp[i].ml EXCEPT ![s] = new]
             next == [insp[i] EXCEPT !.ml = ml]
  <1>1. insp[i] \in Inspection
    BY DEF IInv, TypeOK
  <1>2. ml \in [Scanners -> Scan] /\ ml[s] = new /\ \A u \in Scanners : u # s => ml[u] = insp[i].ml[u]
    BY <1>1 DEF Inspection
  <1>3. insp' = [insp EXCEPT ![i] = next]
    OBVIOUS
  <1> HIDE DEF ml
  <1>4. next \in Inspection /\ next.ml = ml /\ next.phase = "scanning" /\ next.early = insp[i].early
    BY <1>1, <1>2 DEF Inspection
  <1> HIDE DEF next
  <1>5. /\ insp' \in [Inspections -> Inspection] /\ insp'[i] = next
        /\ \A j \in Inspections : j # i => insp'[j] = insp[j]
    BY <1>3, <1>4 DEF IInv, TypeOK
  <1>6. \A j \in Inspections, u \in Scanners :
          insp'[j].ml[u].st = "running" => insp'[j].phase = "scanning"
    BY <1>4, <1>5 DEF IInv, TypeOK
  <1>7. RunningWasStarted'
    BY <1>2, <1>4, <1>5 DEF IInv, RunningWasStarted
  <1>8. SafeIsScanned' /\ SafeIsMild' /\ ThreeCriticalsTerminate'
    BY <1>4, <1>5, OthersKeep
  <1> QED
    BY <1>5, <1>6, <1>7, <1>8

-----------------------------------------------------------------------------
(* One lemma per action. *)
LEMMA BeginKeeps ==
  ASSUME IInv, NEW i \in Inspections, NEW d \in Directions, NEW p \in Profiles,
         NEW m \in MinimalResults, Begin(i, d, p, m)
  PROVE  IInv'
  <1> DEFINE new == [NoInspection EXCEPT !.phase = "scanning", !.direction = d,
                       !.profile = Resolve(p), !.minimal = m,
                       !.early = EarlyExit(m, cfg.failMode)]
  <1>1. insp' = [insp EXCEPT ![i] = new]
    BY DEF Begin
  <1>2. Resolve(p) \in Profile /\ m \in ScanResult /\ EarlyExit(m, cfg.failMode) \in BOOLEAN
    BY ResolveType, OutcomeTypes DEF EarlyExit
  <1>3. new \in Inspection /\ new.phase = "scanning" /\ new.ml = [s \in Scanners |-> NoScan]
    BY <1>2, NoInspectionType DEF Inspection
  <1> HIDE DEF new
  <1>4. \A s \in Scanners : new.ml[s].st # "running"
    BY <1>3, ScanTypes
  <1>5. /\ insp' \in [Inspections -> Inspection] /\ insp'[i] = new
        /\ \A j \in Inspections : j # i => insp'[j] = insp[j]
        /\ \A j \in Inspections, s \in Scanners :
             insp'[j].ml[s].st = "running" => insp'[j].phase = "scanning"
        /\ RunningWasStarted'
    BY <1>1, <1>3, <1>4, ReplaceQuiet
  <1>6. SafeIsScanned' /\ SafeIsMild' /\ ThreeCriticalsTerminate'
    BY <1>3, <1>5, OthersKeep
  <1>7. TypeOK'
    BY <1>5 DEF IInv, TypeOK, Begin
  <1>8. BreakerBacked' /\ EndsAreOver'
    BY DEF IInv, BreakerBacked, EndsAreOver, Begin
  <1> QED
    BY <1>5, <1>6, <1>7, <1>8 DEF IInv

LEMMA ReturnKeeps ==
  ASSUME IInv, NEW i \in Inspections, Return(i)
  PROVE  IInv'
  <1>1. insp' = [insp EXCEPT ![i] = NoInspection]
    BY DEF Return
  <1>2. \A s \in Scanners : NoInspection.ml[s].st # "running"
    BY NoInspectionType, ScanTypes
  <1>3. /\ insp' \in [Inspections -> Inspection] /\ insp'[i] = NoInspection
        /\ \A j \in Inspections : j # i => insp'[j] = insp[j]
        /\ \A j \in Inspections, s \in Scanners :
             insp'[j].ml[s].st = "running" => insp'[j].phase = "scanning"
        /\ RunningWasStarted'
    BY <1>1, <1>2, NoInspectionType, ReplaceQuiet
  <1>4. SafeIsScanned' /\ SafeIsMild' /\ ThreeCriticalsTerminate'
    BY <1>3, NoInspectionType, OthersKeep
  <1>5. TypeOK'
    BY <1>3 DEF IInv, TypeOK, Return
  <1>6. BreakerBacked' /\ EndsAreOver'
    BY DEF IInv, BreakerBacked, EndsAreOver, Return
  <1> QED
    BY <1>3, <1>4, <1>5, <1>6 DEF IInv

LEMMA ShortCircuitKeeps ==
  ASSUME IInv, NEW i \in Inspections, NEW s \in Scanners, ShortCircuit(i, s)
  PROVE  IInv'
  <1> DEFINE new == Done(Failed("open"))
  <1>1. new \in Scan /\ new.st = "done"
    BY ResultTypes, ScanTypes
  <1>2. insp' = [insp EXCEPT ![i].ml[s] = new] /\ insp[i].phase = "scanning"
    BY DEF ShortCircuit, Scanning
  <1> HIDE DEF new
  <1>3. /\ insp' \in [Inspections -> Inspection]
        /\ \A j \in Inspections, u \in Scanners :
             insp'[j].ml[u].st = "running" => insp'[j].phase = "scanning"
        /\ RunningWasStarted' /\ SafeIsScanned' /\ SafeIsMild' /\ ThreeCriticalsTerminate'
    BY <1>1, <1>2, MoveScan
  <1>4. TypeOK'
    BY <1>3 DEF IInv, TypeOK, ShortCircuit
  <1>5. BreakerBacked' /\ EndsAreOver'
    BY DEF IInv, BreakerBacked, EndsAreOver, ShortCircuit
  <1> QED
    BY <1>3, <1>4, <1>5 DEF IInv

(* A breaker without timeouts is backed by any history. *)
LEMMA NoTimeoutsFacts ==
  /\ NoTimeouts \in [count : Nat, openUntil : Nat]
  /\ NoTimeouts.count = 0 /\ NoTimeouts.openUntil = Closed
  BY DEF NoTimeouts, Closed

LEMMA StartScanKeeps ==
  ASSUME IInv, NEW i \in Inspections, NEW s \in Scanners, StartScan(i, s)
  PROVE  IInv'
  <1> DEFINE new == [NoScan EXCEPT !.st = "running", !.threshold = cfg.threshold]
  <1>1. cfg \in Configs /\ cfg.threshold \in Nat
    BY ConfigsAssumption DEF IInv, TypeOK, Config
  <1>2. new \in Scan /\ new.st = "running" /\ new.threshold = cfg.threshold
    BY <1>1, ScanTypes DEF Scan
  <1>3. insp' = [insp EXCEPT ![i].ml[s] = new] /\ insp[i].phase = "scanning" /\ ~insp[i].early
    BY DEF StartScan, Scanning
  <1> HIDE DEF new
  <1>4. /\ insp' \in [Inspections -> Inspection]
        /\ \A j \in Inspections, u \in Scanners :
             insp'[j].ml[u].st = "running" => insp'[j].phase = "scanning"
        /\ RunningWasStarted' /\ SafeIsScanned' /\ SafeIsMild' /\ ThreeCriticalsTerminate'
    BY <1>1, <1>2, <1>3, MoveScan
  <1>5. /\ breaker' \in [Scanners -> [count : Nat, openUntil : Nat]]
        /\ \A u \in Scanners : breaker'[u] = breaker[u] \/ breaker'[u] = NoTimeouts
    BY NoTimeoutsFacts DEF IInv, TypeOK, StartScan
  <1>6. TypeOK'
    BY <1>4, <1>5 DEF IInv, TypeOK, StartScan
  <1>7. BreakerBacked' /\ EndsAreOver'
    <2>1. UNCHANGED <<streak, lastEnd, now>> /\ \A u \in Scanners : streak[u] \in Nat
      BY DEF StartScan, IInv, TypeOK
    <2> QED
      BY <1>5, <2>1, NoTimeoutsFacts DEF IInv, BreakerBacked, EndsAreOver
  <1> QED
    BY <1>4, <1>6, <1>7 DEF IInv

(* A timeout lengthens the streak that backs the breaker; anything else    *)
(* ends it together with the breaker.                                      *)
LEMMA ScanEndsKeeps ==
  ASSUME IInv, NEW i \in Inspections, NEW s \in Scanners, NEW r \in Outcomes, ScanEnds(i, s, r)
  PROVE  IInv'
  <1> DEFINE new == Done(r)
             after == IF r.error = "timeout" THEN AfterTimeout(s, insp[i].ml[s].threshold)
                      ELSE NoTimeouts
  <1>1. new \in Scan /\ new.st = "done"
    BY OutcomeTypes, ScanTypes
  <1>2. insp' = [insp EXCEPT ![i].ml[s] = new] /\ insp[i].phase = "scanning"
    BY DEF ScanEnds, IInv, TypeOK
  <1> HIDE DEF new
  <1>3. /\ insp' \in [Inspections -> Inspection]
        /\ \A j \in Inspections, u \in Scanners :
             insp'[j].ml[u].st = "running" => insp'[j].phase = "scanning"
        /\ RunningWasStarted' /\ SafeIsScanned' /\ SafeIsMild' /\ ThreeCriticalsTerminate'
    BY <1>1, <1>2, MoveScan
  <1>4. /\ cfg \in Configs /\ cfg.cooldown \in Nat /\ now \in Nat
        /\ breaker[s].count \in Nat /\ breaker[s].openUntil \in Nat
        /\ streak[s] \in Nat /\ lastEnd[s] \in Nat
    BY ConfigsAssumption DEF IInv, TypeOK, Config
  <1>5. PICK c \in Configs : insp[i].ml[s].threshold = c.threshold
    BY DEF ScanEnds, IInv, RunningWasStarted
  <1>6. c.threshold \in Nat /\ \A d \in Configs : d.cooldown \in Nat /\ d.threshold \in Nat
    BY ConfigsAssumption DEF Config
  <1>7. after \in [count : Nat, openUntil : Nat]
    BY <1>4, NoTimeoutsFacts DEF AfterTimeout
  <1>8. /\ breaker' = [breaker EXCEPT ![s] = after]
        /\ streak' = [streak EXCEPT ![s] = IF r.error = "timeout" THEN streak[s] + 1 ELSE 0]
        /\ lastEnd' = [lastEnd EXCEPT ![s] = now]
        /\ UNCHANGED <<now, cfg>>
    BY DEF ScanEnds
  <1>9. TypeOK'
    <2>1. breaker' \in [Scanners -> [count : Nat, openUntil : Nat]]
      BY <1>7, <1>8 DEF IInv, TypeOK
    <2>2. streak' \in [Scanners -> Nat] /\ lastEnd' \in [Scanners -> Nat]
      BY <1>4, <1>8 DEF IInv, TypeOK
    <2> QED
      BY <1>3, <1>8, <2>1, <2>2 DEF IInv, TypeOK
  <1>10. EndsAreOver'
    BY <1>4, <1>8 DEF IInv, TypeOK, EndsAreOver
  <1>11. /\ breaker'[s] = after /\ lastEnd'[s] = now
         /\ streak'[s] = IF r.error = "timeout" THEN streak[s] + 1 ELSE 0
         /\ \A u \in Scanners : u # s => /\ breaker'[u] = breaker[u]
                                       /\ streak'[u] = streak[u]
                                       /\ lastEnd'[u] = lastEnd[u]
    BY <1>8 DEF IInv, TypeOK
  <1>12. /\ after.count <= streak'[s]
         /\ after.openUntil # Closed =>
              /\ \E d \in Configs : streak'[s] >= d.threshold
              /\ \E d \in Configs : after.openUntil <= lastEnd'[s] + d.cooldown
    <2>1. CASE r.error # "timeout"
      BY <2>1, <1>11, NoTimeoutsFacts
    <2>2. CASE r.error = "timeout" /\ breaker[s].count + 1 >= c.threshold
      <3>1. after.count = breaker[s].count + 1 /\ after.openUntil = now + cfg.cooldown
        BY <2>2, <1>5 DEF AfterTimeout
      <3>2. streak'[s] = streak[s] + 1 /\ breaker[s].count <= streak[s]
        BY <2>2, <1>11 DEF IInv, BreakerBacked
      <3> QED
        BY <2>2, <3>1, <3>2, <1>4, <1>6, <1>11
    <2>3. CASE r.error = "timeout" /\ ~(breaker[s].count + 1 >= c.threshold)
      <3>1. after.count = breaker[s].count + 1 /\ after.openUntil = breaker[s].openUntil
        BY <2>3, <1>5 DEF AfterTimeout
      <3>2. streak'[s] = streak[s] + 1 /\ breaker[s].count <= streak[s] /\ lastEnd[s] <= now
        BY <2>3, <1>11 DEF IInv, BreakerBacked, EndsAreOver
      <3>3. ASSUME breaker[s].openUntil # Closed
            PROVE  /\ \E d \in Configs : streak'[s] >= d.threshold
                   /\ \E d \in Configs : breaker[s].openUntil <= lastEnd'[s] + d.cooldown
        <4>1. PICK d \in Configs : streak[s] >= d.threshold
          BY <3>3 DEF IInv, BreakerBacked
        <4>2. PICK e \in Configs : breaker[s].openUntil <= lastEnd[s] + e.cooldown
          BY <3>3 DEF IInv, BreakerBacked
        <4>3. streak'[s] >= d.threshold
          BY <4>1, <3>2, <1>4, <1>6
        <4>4. breaker[s].openUntil <= lastEnd'[s] + e.cooldown
          BY <4>2, <3>2, <1>4, <1>6, <1>11
        <4> QED
          BY <4>3, <4>4
      <3> QED
        BY <3>1, <3>2, <3>3, <1>4
    <2> QED
      BY <2>1, <2>2, <2>3
  <1> HIDE DEF after
  <1>13. BreakerBacked'
    BY <1>11, <1>12 DEF IInv, BreakerBacked
  <1> QED
    BY <1>3, <1>9, <1>10, <1>13 DEF IInv

(* The verdict is reached when every scan is done, or at the early exit,   *)
(* which is never safe.                                                    *)
LEMMA DecideKeeps ==
  ASSUME IInv, NEW i \in Inspections, NEW tier \in TierAnswers, Decide(i, tier)
  PROVE  IInv'
  <1> DEFINE findings == Adjust(Merged(i), insp[i].profile, insp[i].direction)
             ml == IF insp[i].early THEN << >> ELSE MLResults(i)
             safe == ~insp[i].early /\ ~SafetyNet(i)
                       /\ ComputeSafe(findings, insp[i].minimal, ml, cfg.failMode)
             new == [insp[i] EXCEPT !.phase = "decided", !.failMode = cfg.failMode, !.safe = safe,
                                    !.tier = IF SafetyNet(i) THEN "tier3" ELSE tier]
  <1>1. insp[i] \in Inspection /\ cfg.failMode \in {"open", "closed", "degraded"}
    BY ConfigsAssumption DEF IInv, TypeOK, Config
  <1>2. safe \in BOOLEAN /\ tier \in Tiers /\ "tier3" \in Tiers
    BY TiersAssumption DEF ComputeSafe, Tiers
  <1>3. insp' = [insp EXCEPT ![i] = new]
    BY DEF Decide
  <1>4. safe /\ cfg.failMode # "open" =>
          /\ insp[i].minimal.error = "none"
          /\ \A s \in Scanners : insp[i].ml[s].st = "done" /\ insp[i].ml[s].result.error = "none"
    BY DEF Decide, ComputeSafe, MLResults
  <1>5. SafetyNet(i) => ~safe
    OBVIOUS
  <1>6. \A s \in Scanners : insp[i].ml[s].st # "running"
    BY DEF Decide, IInv, RunningWasStarted
  <1>15. safe => Mild(i)
    BY DEF ComputeSafe, Mild
  <1> HIDE DEF safe
  <1>7. /\ new \in Inspection
        /\ new.phase = "decided" /\ new.failMode = cfg.failMode /\ new.safe = safe
        /\ new.tier = IF SafetyNet(i) THEN "tier3" ELSE tier
        /\ new.minimal = insp[i].minimal /\ new.ml = insp[i].ml
        /\ new.profile = insp[i].profile /\ new.direction = insp[i].direction
    BY <1>1, <1>2 DEF Inspection
  <1> HIDE DEF new
  <1>8. /\ insp' \in [Inspections -> Inspection] /\ insp'[i] = new
        /\ \A j \in Inspections : j # i => insp'[j] = insp[j]
        /\ \A j \in Inspections, s \in Scanners :
             insp'[j].ml[s].st = "running" => insp'[j].phase = "scanning"
        /\ RunningWasStarted'
    BY <1>3, <1>6, <1>7, ReplaceQuiet
  <1>9. \A j \in Inspections : Merged(j)' = Merged(j)
    BY <1>7, <1>8, MergedSame
  <1>10. \A j \in Decided' : j = i \/ (j \in Decided /\ insp'[j] = insp[j])
    BY <1>8 DEF Decided
  <1>11. SafeIsScanned'
    BY <1>4, <1>7, <1>8, <1>10 DEF IInv, SafeIsScanned
  <1>12. ThreeCriticalsTerminate'
    <2> SUFFICES ASSUME NEW j \in Decided', StandaloneTier3Check(Merged(j)')
                 PROVE  ~insp'[j].safe /\ insp'[j].tier = "tier3"
      BY DEF ThreeCriticalsTerminate, StandaloneTier3Check
    <2>1. StandaloneTier3Check(Merged(j))
      BY <1>9 DEF Decided
    <2>2. CASE j = i
      BY <1>5, <1>7, <1>8, <2>1, <2>2 DEF SafetyNet
    <2>3. CASE j \in Decided /\ insp'[j] = insp[j]
      BY <2>1, <2>3 DEF IInv, ThreeCriticalsTerminate, StandaloneTier3Check
    <2> QED
      BY <1>10, <2>2, <2>3
  <1>16. SafeIsMild'
    <2> SUFFICES ASSUME NEW j \in Decided', insp'[j].safe
                 PROVE  Mild(j)'
      BY DEF SafeIsMild
    <2>1. insp'[j].profile = insp[j].profile /\ insp'[j].direction = insp[j].direction
      BY <1>7, <1>8, <1>10
    <2>2. Mild(j)
      BY <1>15, <1>7, <1>8, <1>10 DEF IInv, SafeIsMild
    <2>3. Merged(j)' = Merged(j)
      BY <1>9 DEF Decided
    <2> QED
      BY <2>1, <2>2, <2>3 DEF Mild
  <1>13. TypeOK'
    BY <1>8 DEF IInv, TypeOK, Decide
  <1>14. BreakerBacked' /\ EndsAreOver'
    BY DEF IInv, BreakerBacked, EndsAreOver, Decide
  <1> QED
    BY <1>8, <1>11, <1>12, <1>16, <1>13, <1>14 DEF IInv

(* A cancelled inspection ends its scans, with an error. *)
LEMMA RaiseKeeps ==
  ASSUME IInv, NEW i \in Inspections, Raise(i)
  PROVE  IInv'
  <1> DEFINE new == [NoInspection EXCEPT !.phase = "decided", !.raised = TRUE]
             cut == {s \in Scanners : insp[i].ml[s].st = "running"}
  <1>1. new \in Inspection /\ new.raised /\ new.ml = [s \in Scanners |-> NoScan]
    BY NoInspectionType DEF Inspection
  <1>2. insp' = [insp EXCEPT ![i] = new]
    BY DEF Raise
  <1> HIDE DEF new
  <1>3. \A s \in Scanners : new.ml[s].st # "running"
    BY <1>1, ScanTypes
  <1>4. /\ insp' \in [Inspections -> Inspection] /\ insp'[i] = new
        /\ \A j \in Inspections : j # i => insp'[j] = insp[j]
        /\ \A j \in Inspections, s \in Scanners :
             insp'[j].ml[s].st = "running" => insp'[j].phase = "scanning"
        /\ RunningWasStarted'
    BY <1>1, <1>2, <1>3, ReplaceQuiet
  <1>5. SafeIsScanned' /\ SafeIsMild' /\ ThreeCriticalsTerminate'
    BY <1>1, <1>4, OthersKeep
  <1>6. /\ breaker' = [s \in Scanners |-> IF s \in cut THEN NoTimeouts ELSE breaker[s]]
        /\ streak' = [s \in Scanners |-> IF s \in cut THEN 0 ELSE streak[s]]
        /\ lastEnd' = [s \in Scanners |-> IF s \in cut THEN now ELSE lastEnd[s]]
        /\ UNCHANGED <<now, cfg>> /\ now \in Nat
    BY DEF Raise, IInv, TypeOK
  <1> HIDE DEF cut
  <1>7. TypeOK'
    <2>1. /\ breaker' \in [Scanners -> [count : Nat, openUntil : Nat]]
          /\ streak' \in [Scanners -> Nat] /\ lastEnd' \in [Scanners -> Nat]
      BY <1>6, NoTimeoutsFacts DEF IInv, TypeOK
    <2> QED
      BY <1>4, <1>6, <2>1 DEF IInv, TypeOK
  <1>8. BreakerBacked' /\ EndsAreOver'
    <2>1. \A s \in Scanners :
            \/ breaker'[s] = NoTimeouts /\ streak'[s] = 0 /\ lastEnd'[s] = now
            \/ breaker'[s] = breaker[s] /\ streak'[s] = streak[s] /\ lastEnd'[s] = lastEnd[s]
      BY <1>6
    <2> QED
      BY <1>6, <2>1, NoTimeoutsFacts DEF IInv, BreakerBacked, EndsAreOver
  <1> QED
    BY <1>4, <1>5, <1>7, <1>8 DEF IInv

(* The clock and a reload leave the inspections and the breakers alone. *)
LEMMA AroundKeeps ==
  ASSUME IInv, Tick \/ (\E c \in Configs : Reconfigure(c)) \/ UNCHANGED vars
  PROVE  IInv'
  <1>1. /\ UNCHANGED <<breaker, insp, streak, lastEnd>>
        /\ cfg' \in Configs /\ now' \in 1 .. MaxNow /\ now \in Nat /\ now <= now' /\ now' \in Nat
    BY NowAssumption DEF Tick, Reconfigure, vars, IInv, TypeOK
  <1>2. TypeOK'
    BY <1>1 DEF IInv, TypeOK
  <1>3. RunningWasStarted' /\ BreakerBacked'
    BY <1>1 DEF IInv, RunningWasStarted, BreakerBacked
  <1>4. EndsAreOver'
    BY <1>1 DEF IInv, TypeOK, EndsAreOver
  <1>5. Decided' = Decided /\ \A j \in Inspections : Merged(j)' = Merged(j)
    BY <1>1 DEF Decided, Merged, Unsuppressed, Reported
  <1>6. SafeIsScanned'
    BY <1>1, <1>5 DEF IInv, SafeIsScanned
  <1>7. ThreeCriticalsTerminate'
    BY <1>1, <1>5 DEF IInv, ThreeCriticalsTerminate, Decided
  <1>8. SafeIsMild'
    <2>1. \A j \in Decided' : j \in Decided /\ insp'[j] = insp[j] /\ Merged(j)' = Merged(j)
      BY <1>1, <1>5 DEF Decided
    <2> QED
      BY <2>1 DEF IInv, SafeIsMild, Mild
  <1> QED
    BY <1>2, <1>3, <1>4, <1>6, <1>7, <1>8 DEF IInv

-----------------------------------------------------------------------------
LEMMA InitIInv == Init => IInv
  <1> SUFFICES ASSUME Init PROVE IInv
    OBVIOUS
  <1>1. /\ \A i \in Inspections : insp[i] = NoInspection
        /\ \A i \in Inspections, s \in Scanners : insp[i].ml[s].st # "running"
    BY NoInspectionType, ScanTypes DEF Init
  <1>2. TypeOK
    <2>1. insp \in [Inspections -> Inspection]
      BY NoInspectionType DEF Init
    <2>2. /\ breaker \in [Scanners -> [count : Nat, openUntil : Nat]]
          /\ streak \in [Scanners -> Nat] /\ lastEnd \in [Scanners -> Nat]
      BY NoTimeoutsFacts DEF Init
    <2> QED
      BY <1>1, <2>1, <2>2, NowAssumption DEF Init, TypeOK
  <1>3. RunningWasStarted
    BY <1>1 DEF RunningWasStarted
  <1>4. BreakerBacked /\ EndsAreOver
    BY NoTimeoutsFacts DEF Init, BreakerBacked, EndsAreOver
  <1>5. Decided = {}
    BY <1>1, NoInspectionType DEF Decided
  <1>6. SafeIsScanned /\ SafeIsMild /\ ThreeCriticalsTerminate
    BY <1>5 DEF SafeIsScanned, SafeIsMild, ThreeCriticalsTerminate
  <1> QED
    BY <1>2, <1>3, <1>4, <1>6 DEF IInv

LEMMA NextIInv == IInv /\ [Next]_vars => IInv'
  <1> SUFFICES ASSUME IInv, [Next]_vars PROVE IInv'
    OBVIOUS
  <1>1. ASSUME NEW i \in Inspections, InspectStep(i) PROVE IInv'
    BY <1>1, BeginKeeps, ShortCircuitKeeps, StartScanKeeps, ScanEndsKeeps, DecideKeeps,
       RaiseKeeps, ReturnKeeps DEF InspectStep, ScanStep
  <1> QED
    BY <1>1, AroundKeeps DEF Next

LEMMA IInvHolds == Spec => []IInv
  BY InitIInv, NextIInv, PTL DEF Spec

(* The objects of the pipeline keep their shape, and a cancelled           *)
(* inspection leaves no scan behind.                                       *)
THEOREM TypeCorrect == Spec => []TypeOK
  <1>1. IInv => TypeOK
    BY DEF IInv
  <1> QED
    BY <1>1, IInvHolds, PTL

(* _compute_safe(): outside fail mode open, safe means that every scanner  *)
(* examined the content, however scans, breakers and reloads interleave.   *)
THEOREM SafeMeansScanned == Spec => []SafeIsScanned
  <1>1. IInv => SafeIsScanned
    BY DEF IInv
  <1> QED
    BY <1>1, IInvHolds, PTL

(* _standalone_tier3_check(): the net looks at the merged findings, before *)
(* the profile adjusts them, and no later stage undoes it.                 *)
THEOREM CriticalsTerminate == Spec => []ThreeCriticalsTerminate
  <1>1. IInv => ThreeCriticalsTerminate
    BY DEF IInv
  <1> QED
    BY <1>1, IInvHolds, PTL

(* _scan_with_breaker(): a scanner is skipped only on the strength of      *)
(* consecutive timeouts, although overlapping scans share its breaker.     *)
THEOREM BreakersAreEarned == Spec => BreakerIsEarned
  <1>1. ASSUME IInv, NEW i \in Inspections, NEW s \in Scanners, ShortCircuit(i, s)
        PROVE  \E c, d \in Configs : streak[s] >= c.threshold /\ now < lastEnd[s] + d.cooldown
    <2>1. breaker[s].openUntil # Closed /\ now < breaker[s].openUntil
      BY <1>1 DEF ShortCircuit
    <2>2. PICK c \in Configs : streak[s] >= c.threshold
      BY <1>1, <2>1 DEF IInv, BreakerBacked
    <2>3. PICK d \in Configs : breaker[s].openUntil <= lastEnd[s] + d.cooldown
      BY <1>1, <2>1 DEF IInv, BreakerBacked
    <2>4. /\ now \in Nat /\ breaker[s].openUntil \in Nat
          /\ lastEnd[s] \in Nat /\ d.cooldown \in Nat
      BY <1>1, ConfigsAssumption DEF IInv, TypeOK, Config
    <2>5. now < lastEnd[s] + d.cooldown
      BY <2>1, <2>3, <2>4
    <2> QED
      BY <2>2, <2>5
  <1>2. IInv => \A i \in Inspections, s \in Scanners : ShortCircuit(i, s) =>
          \E c, d \in Configs : streak[s] >= c.threshold /\ now < lastEnd[s] + d.cooldown
    BY <1>1
  <1> QED
    BY <1>2, IInvHolds, PTL DEF BreakerIsEarned

-----------------------------------------------------------------------------
Concatenates(upTo, i) ==
  upTo = [s \in 0 .. NumScanners |->
            IF s = 0 THEN insp[i].minimal.findings ELSE upTo[s - 1] \o insp[i].ml[s].result.findings]

(* The scanners report findings, whatever has come of their scans.         *)
LEMMA ReportedType ==
  ASSUME TypeOK, NEW i \in Inspections
  PROVE  Reported(i) \in Seq(Finding)
  <1> DEFINE N == NumScanners
             first == insp[i].minimal.findings
             found == [s \in 1 .. N |-> insp[i].ml[s].result.findings]
             step == [p \in (1 .. N) \X Seq(Finding) |-> p[2] \o found[p[1]]]
             upTo == CHOOSE g : Concatenates(g, i)
  <1>1. N \in Nat
    BY ScannersAssumption
  <1>2. first \in Seq(Finding)
    BY DEF TypeOK, Inspection, ScanResult
  <1>3. \A s \in 1 .. N : found[s] \in Seq(Finding) /\ found[s] = insp[i].ml[s].result.findings
    BY DEF TypeOK, Inspection, Scanners, Scan, ScanResult
  <1>4. \A n \in 1 .. N, v \in Seq(Finding) : step[<<n, v>>] = v \o found[n]
    OBVIOUS
  <1>5. Reported(i) = upTo[N]
    BY DEF Reported, Concatenates
  <1>6. Concatenates(upTo, i) <=> upTo = [s \in 0 .. N |->
            IF s = 0 THEN first ELSE upTo[s - 1] \o insp[i].ml[s].result.findings]
    BY DEF Concatenates
  <1>7. \A g : Concatenates(g, i) <=> g = [s \in 0 .. N |->
            IF s = 0 THEN first ELSE g[s - 1] \o insp[i].ml[s].result.findings]
    BY DEF Concatenates
  <1> HIDE DEF step, found, first, N
  <1>8. ASSUME NEW n \in 1 .. N, NEW v \in Seq(Finding)
        PROVE  step[<<n, v>>] \in Seq(Finding)
    BY <1>3, <1>4, ConcatProperties
  <1>9. Turns(step, N, Seq(Finding))
    BY <1>8 DEF Turns
  <1>10. PICK g \in [0 .. N -> Seq(Finding)] : Ran(g, step, N, first)
    BY <1>1, <1>2, <1>9, LoopExists
  <1>11. ASSUME NEW n \in 1 .. N
         PROVE  n # 0 /\ n - 1 \in 0 .. N /\ n \in 0 .. N
    BY <1>1
  <1>12. g[0] = first /\ \A n \in 1 .. N : g[n] = g[n - 1] \o insp[i].ml[n].result.findings
    <2>1. g[0] = first /\ \A n \in 1 .. N : g[n] = step[<<n, g[n - 1]>>]
      BY <1>10 DEF Ran
    <2>2. \A n \in 1 .. N : g[n - 1] \in Seq(Finding)
      BY <1>10, <1>11
    <2>3. \A n \in 1 .. N : step[<<n, g[n - 1]>>] = g[n - 1] \o found[n]
      BY <1>4, <2>2
    <2> QED
      BY <1>3, <2>1, <2>3
  <1>13. \A n \in 0 .. N : n = 0 \/ n \in 1 .. N
    BY <1>1
  <1> DEFINE h == [s \in 0 .. N |-> IF s = 0 THEN first ELSE g[s - 1] \o insp[i].ml[s].result.findings]
  <1>14. \A n \in 0 .. N : g[n] = h[n]
    BY <1>11, <1>12, <1>13
  <1>15. g = h
    BY <1>10, <1>14
  <1>16. Concatenates(g, i)
    BY <1>7, <1>15
  <1>17. Concatenates(upTo, i)
    BY <1>16
  <1> HIDE DEF upTo
  <1>18. \A n \in 0 .. N : upTo[n] = IF n = 0 THEN first ELSE upTo[n - 1] \o insp[i].ml[n].result.findings
    BY <1>6, <1>17, Zenon
  <1> DEFINE good == {n \in 0 .. N : upTo[n] \in Seq(Finding)}
  <1>19. 0 \in good
    <2>1. 0 \in 0 .. N
      BY <1>1
    <2> QED
      BY <1>2, <1>18, <2>1
  <1>20. ASSUME NEW n \in 1 .. N, n - 1 \in good
         PROVE  n \in good
    <2>1. upTo[n - 1] \in Seq(Finding) /\ insp[i].ml[n].result.findings \in Seq(Finding)
      BY <1>3, <1>20
    <2>2. upTo[n] = upTo[n - 1] \o insp[i].ml[n].result.findings
      BY <1>11, <1>18
    <2> QED
      <3>1. upTo[n - 1] \o insp[i].ml[n].result.findings \in Seq(Finding)
        BY <2>1, ConcatProperties
      <3> QED
        BY <1>11, <2>2, <3>1
  <1> HIDE DEF good
  <1>21. \A n \in 0 .. N : n \in good
    BY <1>1, <1>19, <1>20, Inductively
  <1>22. N \in good
    BY <1>1, <1>21
  <1> QED
    BY <1>5, <1>22 DEF good

LEMMA UnsuppressedType ==
  ASSUME TypeOK, NEW i \in Inspections
  PROVE  /\ Unsuppressed(i) \in Seq(Finding)
         /\ \A f \in ToSet(Reported(i)) :
              IsFloorRule(f.rule, insp[i].direction, insp[i].profile.scope) => f \in ToSet(Unsuppressed(i))
  <1> DEFINE q == Reported(i)
             kept == {k \in DOMAIN q : \/ q[k].rule \notin insp[i].profile.suppress
                                        \/ IsFloorRule(q[k].rule, insp[i].direction, insp[i].profile.scope)}
  <1>1. q \in Seq(Finding)
    BY ReportedType
  <1>2. Unsuppressed(i) = Only(q, kept)
    BY DEF Unsuppressed, Suppress
  <1> HIDE DEF q
  <1>3. Only(q, kept) \in Seq(Finding) /\ ToSet(Only(q, kept)) = {q[k] : k \in DOMAIN q \cap kept}
    BY <1>1, OnlyKeeps
  <1>4. ASSUME NEW k \in DOMAIN q, IsFloorRule(q[k].rule, insp[i].direction, insp[i].profile.scope)
        PROVE  q[k] \in ToSet(Only(q, kept))
    BY <1>3, <1>4
  <1>5. \A f \in ToSet(q) : \E k \in DOMAIN q : f = q[k]
    BY DEF ToSet
  <1> QED
    BY <1>2, <1>3, <1>4, <1>5 DEF q

(* merge_findings(): whatever findings the scanners report, one that is    *)
(* dropped leaves one at least as severe that it overlaps, directly or     *)
(* through others.                                                         *)
THEOREM MergeIsSound == Spec => []MergeKeepsWorst
  <1>1. ASSUME TypeOK, NEW i \in Decided, NEW f \in ToSet(Unsuppressed(i))
        PROVE  \E g \in ToSet(Merged(i)) :
                 IF f.placed THEN g.placed /\ g.rank <= f.rank /\ Linked(f, g, Unsuppressed(i)) ELSE g = f
    <2> DEFINE q == Unsuppressed(i)
    <2>1. q \in Seq(Finding) /\ Merged(i) = MergeFindings(q)
      BY <1>1, UnsuppressedType DEF Decided, Merged
    <2> HIDE DEF q
    <2>2. /\ \A e \in ToSet(q) : ~e.placed => e \in ToSet(Merged(i))
          /\ \A e \in ToSet(q) : e.placed =>
               \E g \in ToSet(Merged(i)) : g.placed /\ g.rank <= e.rank /\ Linked(e, g, q)
      BY <2>1, MergeRepresents
    <2>3. f \in ToSet(q)
      BY DEF q
    <2>4. CASE f.placed
      BY <2>2, <2>3, <2>4 DEF q
    <2>5. CASE ~f.placed
      BY <2>2, <2>3, <2>5
    <2> QED
      BY <2>4, <2>5
  <1>2. IInv => MergeKeepsWorst
    BY <1>1 DEF IInv, MergeKeepsWorst
  <1> QED
    BY <1>2, IInvHolds, PTL

(* Stages 4b to 6: a severe finding of a floor rule is not suppressed, one *)
(* as severe survives the merge, and unless the profile weakens that one   *)
(* it makes the content unsafe.                                            *)
THEOREM FloorIsHeld == Spec => []FloorHolds
  <1>1. ASSUME IInv, NEW i \in Decided, SevereFloorFinding(i), insp[i].safe,
               \A f \in ToSet(Unsuppressed(i)) : ~Weakened(f, insp[i].profile, insp[i].direction)
        PROVE  FALSE
    <2> DEFINE p == insp[i].profile
               d == insp[i].direction
               q == Unsuppressed(i)
               m == Merged(i)
    <2>1. p \in Profile /\ TypeOK /\ i \in Inspections
      BY <1>1 DEF IInv, TypeOK, Decided, Inspection
    <2>2. PICK f \in ToSet(Reported(i)) :
            f.rank <= High /\ IsFloorRule(f.rule, d, p.scope)
      <3>1. PICK f \in ToSet(Reported(i)) :
              /\ f.rank <= High
              /\ \/ f.rule \in StructuralRules \cup SelfmodRules
                 \/ f.rule \in InjectionRules /\ (d = "inbound" \/ p.scope = "all")
        BY <1>1 DEF SevereFloorFinding
      <3> QED
        BY <3>1 DEF IsFloorRule
    <2>3. q \in Seq(Finding) /\ f \in ToSet(q)
      BY <2>1, <2>2, UnsuppressedType
    <2>4. m = MergeFindings(q)
      BY DEF Merged
    <2>5. Mild(i)
      BY <1>1 DEF IInv, SafeIsMild
    <2>6. \A g \in ToSet(q) : ~Weakened(g, p, d)
      BY <1>1
    <2>7. \A k \in DOMAIN Adjust(m, p, d) : Adjust(m, p, d)[k].rank > High
      BY <2>5 DEF Mild
    <2> HIDE DEF p, d, q, m
    <2>8. m \in Seq(Finding) /\ ToSet(m) \subseteq ToSet(q)
      BY <2>3, <2>4, MergeRepresents
    <2>9. PICK g \in ToSet(m) : g.rank <= High
      <3>1. CASE f.placed
        <4>1. PICK g \in ToSet(m) : g.rank <= f.rank
          BY <2>3, <2>4, <3>1, MergeRepresents
        <4>2. g \in Finding /\ f \in Finding
          BY <2>3, <2>8, LenProperties DEF ToSet
        <4>3. g.rank \in Int /\ f.rank \in Int /\ High \in Int
          BY <4>2 DEF Finding, Ranks, High
        <4> QED
          BY <2>2, <4>1, <4>3
      <3>2. CASE ~f.placed
        <4>1. f \in ToSet(m)
          BY <2>3, <2>4, <3>2, MergeRepresents
        <4> QED
          BY <2>2, <4>1
      <3> QED
        BY <3>1, <3>2
    <2>10. g \in Finding /\ ~Weakened(g, p, d)
      BY <2>6, <2>8, <2>9, LenProperties DEF ToSet
    <2>11. g.confidence >= p.confidenceFloor /\ Override(g, p, d).rank <= g.rank
           /\ g.rank \in Int /\ Override(g, p, d).rank \in Int
      <3>1. g.confidence \in Nat /\ g.rank \in Ranks /\ g.rule \in Rules /\ p.confidenceFloor \in Nat
        BY <2>1, <2>10 DEF Finding, Profile
      <3>2. p.overrides[g.rule] \in Ranks \cup {Keep}
        BY <2>1, <3>1 DEF Profile
      <3>3. Override(g, p, d).rank \in Ranks
        <4>1. CASE Override(g, p, d) = g
          BY <3>1, <4>1
        <4>2. CASE Override(g, p, d) # g
          <5>1. p.overrides[g.rule] # Keep /\ Override(g, p, d) = [g EXCEPT !.rank = p.overrides[g.rule]]
            BY <4>2 DEF Override
          <5>2. Override(g, p, d).rank = p.overrides[g.rule]
            BY <2>10, <5>1 DEF Finding
          <5> QED
            BY <3>2, <5>1, <5>2
        <4> QED
          BY <4>1, <4>2
      <3>4. ~(g.confidence < p.confidenceFloor) /\ ~(Override(g, p, d).rank > g.rank)
        BY <2>10 DEF Weakened
      <3>5. \A r \in Ranks : r \in Int
        BY DEF Ranks
      <3> QED
        BY <3>1, <3>3, <3>4, <3>5
    <2> DEFINE I == {k \in DOMAIN m : m[k].confidence >= p.confidenceFloor}
               kept == Only(m, I)
    <2>12. Adjust(m, p, d) = [k \in DOMAIN kept |-> Override(kept[k], p, d)]
      BY DEF Adjust
    <2>13. ToSet(kept) = {m[k] : k \in DOMAIN m \cap I}
      BY <2>8, OnlyKeeps
    <2>14. g \in ToSet(kept)
      BY <2>9, <2>11, <2>13 DEF ToSet
    <2>15. PICK k \in DOMAIN kept : kept[k] = g
      BY <2>14 DEF ToSet
    <2> HIDE DEF kept
    <2>16. Override(g, p, d).rank > High
      BY <2>7, <2>12, <2>15
    <2> QED
      BY <2>9, <2>11, <2>16 DEF High
  <1>2. IInv => FloorHolds
    BY <1>1 DEF FloorHolds
  <1> QED
    BY <1>2, IInvHolds, PTL
=============================================================================
