------------------------ MODULE FrequencyTrackerProofs ------------------------
(***************************************************************************)
(* What TLAPS proves of FrequencyTracker, for every set of sessions, scans *)
(* and configurations.                                                     *)
(***************************************************************************)
EXTENDS FrequencyTracker, SequenceTheorems, FiniteSetTheorems, TLAPS

-----------------------------------------------------------------------------
(* Tombstone sequences. *)

(* Element by element, RemoveAt() closes the gap it leaves.                *)
LEMMA RemoveAtProperties ==
  ASSUME NEW S, NEW q \in Seq(S), NEW i \in 1 .. Len(q)
  PROVE  /\ RemoveAt(q, i) \in Seq(S)
         /\ Len(RemoveAt(q, i)) = Len(q) - 1
         /\ \A j \in 1 .. Len(q) - 1 :
              RemoveAt(q, i)[j] = IF j < i THEN q[j] ELSE q[j + 1]
<1> DEFINE a == SubSeq(q, 1, i - 1)
           b == SubSeq(q, i + 1, Len(q))
<1>0. Len(q) \in Nat /\ i \in Nat /\ i - 1 \in Int /\ i + 1 \in Int
  BY LenProperties
<1>1. \A k \in 1 .. Len(q) : q[k] \in S
  BY ElementOfSeq
<1>2. /\ a \in Seq(S)
      /\ Len(a) = i - 1
      /\ \A k \in 1 .. i - 1 : a[k] = q[k]
  <2>1. \A k \in 1 .. i - 1 : q[k] \in S
    BY <1>0, <1>1
  <2>2. /\ SubSeq(q, 1, i - 1) \in Seq(S)
        /\ Len(SubSeq(q, 1, i - 1)) = IF 1 <= i - 1 THEN i - 1 - 1 + 1 ELSE 0
        /\ \A k \in 1 .. (i - 1) - 1 + 1 : SubSeq(q, 1, i - 1)[k] = q[1 + k - 1]
    BY <1>0, <2>1, SubSeqProperties
  <2> QED
    BY <1>0, <2>2
<1>3. /\ b \in Seq(S)
      /\ Len(b) = Len(q) - i
      /\ \A k \in 1 .. Len(q) - i : b[k] = q[i + k]
  <2>1. \A k \in i + 1 .. Len(q) : q[k] \in S
    BY <1>0, <1>1
  <2>2. /\ SubSeq(q, i + 1, Len(q)) \in Seq(S)
        /\ Len(SubSeq(q, i + 1, Len(q)))
             = IF i + 1 <= Len(q) THEN Len(q) - (i + 1) + 1 ELSE 0
        /\ \A k \in 1 .. Len(q) - (i + 1) + 1 :
             SubSeq(q, i + 1, Len(q))[k] = q[(i + 1) + k - 1]
    BY <1>0, <2>1, SubSeqProperties
  <2> QED
    BY <1>0, <2>2
<1>4. /\ a \o b \in Seq(S)
      /\ Len(a \o b) = Len(a) + Len(b)
      /\ \A k \in 1 .. Len(a) + Len(b) :
           (a \o b)[k] = IF k <= Len(a) THEN a[k] ELSE b[k - Len(a)]
  BY <1>2, <1>3, ConcatProperties
<1> HIDE DEF a, b
<1>5. /\ a \o b \in Seq(S)
      /\ Len(a \o b) = Len(q) - 1
      /\ \A j \in 1 .. Len(q) - 1 : (a \o b)[j] = IF j < i THEN q[j] ELSE q[j + 1]
  <2>1. ASSUME NEW j \in 1 .. Len(q) - 1
        PROVE  (a \o b)[j] = IF j < i THEN q[j] ELSE q[j + 1]
    <3>1. CASE j < i
      BY <1>0, <1>2, <1>3, <1>4, <3>1
    <3>2. CASE ~(j < i)
      <4>1. j - Len(a) \in 1 .. Len(q) - i /\ i + (j - Len(a)) = j + 1
        BY <1>0, <1>2, <3>2
      <4>2. j \in 1 .. Len(a) + Len(b) /\ ~(j <= Len(a))
        BY <1>0, <1>2, <1>3, <3>2
      <4>3. (a \o b)[j] = b[j - Len(a)]
        BY <1>4, <4>2
      <4>4. b[j - Len(a)] = q[i + (j - Len(a))]
        BY <1>3, <4>1
      <4> QED
        BY <3>2, <4>1, <4>3, <4>4
    <3> QED
      BY <3>1, <3>2
  <2> QED
    BY <1>0, <1>2, <1>3, <1>4, <2>1
<1> QED
  BY <1>5 DEF RemoveAt, a, b

(* A repetition-free sequence stays so without one of its elements, which  *)
(* is then gone while every other one remains.                             *)
LEMMA WithoutTombstoneProperties ==
  ASSUME NEW S, NEW q \in Seq(S), NEW s
  PROVE  /\ WithoutTombstone(q, s) \in Seq(S)
         /\ ToSet(WithoutTombstone(q, s)) \subseteq ToSet(q)
         /\ ToSet(q) \ {s} \subseteq ToSet(WithoutTombstone(q, s))
         /\ IsInjective(q) => /\ s \notin ToSet(WithoutTombstone(q, s))
                              /\ IsInjective(WithoutTombstone(q, s))
         /\ Len(WithoutTombstone(q, s)) <= Len(q)
<1>0. Len(q) \in Nat /\ DOMAIN q = 1 .. Len(q)
  BY LenProperties
<1>1. CASE s \notin ToSet(q)
  BY <1>0, <1>1 DEF WithoutTombstone
<1>2. CASE s \in ToSet(q)
  <2> DEFINE i == CHOOSE i \in 1 .. Len(q) : q[i] = s
             r == RemoveAt(q, i)
  <2>1. i \in 1 .. Len(q) /\ q[i] = s
    BY <1>0, <1>2 DEF ToSet
  <2>2. WithoutTombstone(q, s) = r
    BY <1>2 DEF WithoutTombstone
  <2>3. /\ r \in Seq(S)
        /\ Len(r) = Len(q) - 1
        /\ \A j \in 1 .. Len(q) - 1 : r[j] = IF j < i THEN q[j] ELSE q[j + 1]
    BY <2>1, RemoveAtProperties
  <2>4. DOMAIN r = 1 .. Len(q) - 1
    BY <2>3, LenProperties
  <2> HIDE DEF i, r
  <2>5. ToSet(r) \subseteq ToSet(q)
    BY <1>0, <2>1, <2>3, <2>4 DEF ToSet
  <2>6. ToSet(q) \ {s} \subseteq ToSet(r)
    <3> SUFFICES ASSUME NEW k \in 1 .. Len(q), q[k] # s
                 PROVE  \E j \in 1 .. Len(q) - 1 : r[j] = q[k]
      BY <1>0, <2>4 DEF ToSet
    <3>1. CASE k < i
      BY <1>0, <2>1, <2>3, <3>1
    <3>2. CASE k > i
      <4>1. k - 1 \in 1 .. Len(q) - 1 /\ ~(k - 1 < i) /\ (k - 1) + 1 = k
        BY <1>0, <2>1, <3>2
      <4> QED
        BY <2>3, <4>1
    <3> QED
      BY <2>1, <3>1, <3>2
  <2>7. ASSUME IsInjective(q)
        PROVE  s \notin ToSet(r) /\ IsInjective(r)
    <3>1. \A j, k \in 1 .. Len(q) : q[j] = q[k] => j = k
      BY <1>0, <2>7 DEF IsInjective
    <3>2. ASSUME NEW j \in 1 .. Len(q) - 1
          PROVE  r[j] # s
      BY <1>0, <2>1, <2>3, <3>1
    <3>3. ASSUME NEW j \in 1 .. Len(q) - 1, NEW k \in 1 .. Len(q) - 1, r[j] = r[k]
          PROVE  j = k
      BY <1>0, <2>1, <2>3, <3>1, <3>3
    <3> QED
      BY <2>4, <3>2, <3>3 DEF ToSet, IsInjective
  <2> QED
    BY <1>0, <2>2, <2>3, <2>5, <2>6, <2>7
<1> QED
  BY <1>1, <1>2

(* The cap drops only old entries, only from a full store, never the       *)
(* youngest one.                                                           *)
LEMMA EnforceTombstoneCapProperties ==
  ASSUME NEW S, NEW q \in Seq(S), NEW cap \in Nat \ {0}
  PROVE  LET r == EnforceTombstoneCap(q, cap) IN
         /\ r \in Seq(S)
         /\ Len(r) <= cap
         /\ ToSet(r) \subseteq ToSet(q)
         /\ IsInjective(q) => IsInjective(r)
         /\ ToSet(q) # ToSet(r) => Len(r) = cap
         /\ Len(q) > 0 => q[Len(q)] \in ToSet(r)
<1> DEFINE r == EnforceTombstoneCap(q, cap)
<1>0. Len(q) \in Nat /\ DOMAIN q = 1 .. Len(q)
  BY LenProperties
<1>1. CASE Len(q) <= cap
  <2>1. r = q
    BY <1>0, <1>1 DEF EnforceTombstoneCap
  <2> QED
    BY <1>0, <1>1, <2>1 DEF ToSet
<1>2. CASE Len(q) > cap
  <2> DEFINE m == Len(q) - cap + 1
  <2>1. m \in Int /\ m \in 2 .. Len(q) /\ Len(q) - m + 1 = cap /\ Len(q) \in Int
    BY <1>0, <1>2
  <2>2. \A k \in m .. Len(q) : q[k] \in S
    BY <1>0, <2>1, ElementOfSeq
  <2>3. r = SubSeq(q, m, Len(q))
    BY <1>2 DEF EnforceTombstoneCap
  <2> HIDE DEF m, r
  <2>4. /\ r \in Seq(S)
        /\ Len(r) = IF m <= Len(q) THEN Len(q) - m + 1 ELSE 0
        /\ \A k \in 1 .. Len(q) - m + 1 : r[k] = q[m + k - 1]
    BY <2>1, <2>2, <2>3, SubSeqProperties
  <2>5. Len(r) = cap /\ DOMAIN r = 1 .. cap /\ \A k \in 1 .. cap : r[k] = q[m + k - 1]
    BY <2>1, <2>4, LenProperties
  <2>6. \A k \in 1 .. cap : m + k - 1 \in 1 .. Len(q)
    BY <1>0, <2>1
  <2>7. ToSet(r) \subseteq ToSet(q)
    BY <1>0, <2>5, <2>6 DEF ToSet
  <2>8. ASSUME IsInjective(q) PROVE IsInjective(r)
    <3>1. ASSUME NEW j \in 1 .. cap, NEW k \in 1 .. cap, r[j] = r[k] PROVE j = k
      <4>1. q[m + j - 1] = q[m + k - 1]
        BY <2>5, <3>1
      <4>2. m + j - 1 = m + k - 1
        BY <1>0, <2>6, <2>8, <4>1 DEF IsInjective
      <4> QED
        BY <2>1, <4>2
    <3> QED
      BY <2>5, <3>1 DEF IsInjective
  <2>9. q[Len(q)] \in ToSet(r)
    <3>1. m + cap - 1 = Len(q) /\ cap \in 1 .. cap
      BY <2>1
    <3> QED
      BY <2>5, <3>1 DEF ToSet
  <2>10. Len(r) <= cap
    BY <2>5
  <2> QED
    BY <2>4, <2>5, <2>7, <2>8, <2>9, <2>10 DEF r
<1> QED
  BY <1>0, <1>1, <1>2

(* Appending an element that is not there keeps a sequence repetition-free. *)
LEMMA AppendTombstoneProperties ==
  ASSUME NEW S, NEW q \in Seq(S), NEW s \in S
  PROVE  /\ Append(q, s) \in Seq(S)
         /\ ToSet(Append(q, s)) = ToSet(q) \cup {s}
         /\ Len(Append(q, s)) > 0
         /\ Append(q, s)[Len(Append(q, s))] = s
         /\ IsInjective(q) /\ s \notin ToSet(q) => IsInjective(Append(q, s))
<1> DEFINE r == Append(q, s)
<1>0. Len(q) \in Nat /\ DOMAIN q = 1 .. Len(q)
  BY LenProperties
<1>1. /\ r \in Seq(S)
      /\ Len(r) = Len(q) + 1
      /\ \A i \in 1 .. Len(q) : r[i] = q[i]
      /\ r[Len(q) + 1] = s
  BY AppendProperties
<1>2. DOMAIN r = 1 .. Len(q) + 1
  BY <1>1, LenProperties
<1> HIDE DEF r
<1>3. ToSet(r) = ToSet(q) \cup {s}
  <2>1. \A i \in 1 .. Len(q) + 1 : i \in 1 .. Len(q) \/ i = Len(q) + 1
    BY <1>0
  <2>2. \A i \in 1 .. Len(q) : i \in 1 .. Len(q) + 1
    BY <1>0
  <2>3. Len(q) + 1 \in 1 .. Len(q) + 1
    BY <1>0
  <2> QED
    BY <1>0, <1>1, <1>2, <2>1, <2>2, <2>3 DEF ToSet
<1>4. ASSUME IsInjective(q), s \notin ToSet(q) PROVE IsInjective(r)
  BY <1>0, <1>1, <1>2, <1>4 DEF IsInjective, ToSet
<1>5. Len(r) > 0 /\ r[Len(r)] = s
  BY <1>0, <1>1
<1> QED
  BY <1>1, <1>3, <1>4, <1>5 DEF r

(* What _add_tombstone() guarantees: the session is in the store, nothing  *)
(* else is added, and only a full store loses anything.                    *)
LEMMA AddTombstoneProperties ==
  ASSUME NEW q \in Seq(Sessions), NEW s \in Sessions, cfg \in Configs
  PROVE  /\ AddTombstone(q, s) \in Seq(Sessions)
         /\ Len(AddTombstone(q, s)) <= cfg.maxTerminated
         /\ s \in ToSet(AddTombstone(q, s))
         /\ ToSet(AddTombstone(q, s)) \subseteq ToSet(q) \cup {s}
         /\ IsInjective(q) => IsInjective(AddTombstone(q, s))
         /\ \/ ToSet(q) \subseteq ToSet(AddTombstone(q, s))
            \/ Len(AddTombstone(q, s)) = cfg.maxTerminated
<1> DEFINE w == WithoutTombstone(q, s)
           a == Append(w, s)
           r == EnforceTombstoneCap(a, cfg.maxTerminated)
<1>0. cfg.maxTerminated \in Nat \ {0}
  BY ConfigsAssumption DEF Config
<1>1. /\ w \in Seq(Sessions)
      /\ ToSet(w) \subseteq ToSet(q)
      /\ ToSet(q) \ {s} \subseteq ToSet(w)
      /\ IsInjective(q) => s \notin ToSet(w) /\ IsInjective(w)
  BY WithoutTombstoneProperties
<1> HIDE DEF w
<1>2. /\ a \in Seq(Sessions)
      /\ ToSet(a) = ToSet(w) \cup {s}
      /\ Len(a) > 0
      /\ a[Len(a)] = s
      /\ IsInjective(w) /\ s \notin ToSet(w) => IsInjective(a)
  BY <1>1, AppendTombstoneProperties
<1> HIDE DEF a
<1>3. /\ r \in Seq(Sessions)
      /\ Len(r) <= cfg.maxTerminated
      /\ ToSet(r) \subseteq ToSet(a)
      /\ IsInjective(a) => IsInjective(r)
      /\ ToSet(a) # ToSet(r) => Len(r) = cfg.maxTerminated
      /\ Len(a) > 0 => a[Len(a)] \in ToSet(r)
  BY <1>0, <1>2, EnforceTombstoneCapProperties
<1> HIDE DEF r
<1>4. AddTombstone(q, s) = r
  BY DEF AddTombstone, r, a, w
<1>5. ToSet(q) \subseteq ToSet(a)
  BY <1>1, <1>2
<1> QED
  BY <1>1, <1>2, <1>3, <1>4, <1>5

(* The same for the re-tombstoning of TTL reaping and _evict_one().        *)
LEMMA KeepTombstoneProperties ==
  ASSUME NEW q \in Seq(Sessions), NEW s \in Sessions, cfg \in Configs
  PROVE  /\ KeepTombstone(q, s) \in Seq(Sessions)
         /\ Len(q) <= cfg.maxTerminated => Len(KeepTombstone(q, s)) <= cfg.maxTerminated
         /\ s \in ToSet(KeepTombstone(q, s))
         /\ ToSet(KeepTombstone(q, s)) \subseteq ToSet(q) \cup {s}
         /\ IsInjective(q) => IsInjective(KeepTombstone(q, s))
         /\ \/ ToSet(q) \subseteq ToSet(KeepTombstone(q, s))
            \/ Len(KeepTombstone(q, s)) = cfg.maxTerminated
<1>0. cfg.maxTerminated \in Nat \ {0}
  BY ConfigsAssumption DEF Config
<1>1. CASE s \in ToSet(q)
  BY <1>1 DEF KeepTombstone
<1>2. CASE s \notin ToSet(q)
  <2> DEFINE a == Append(q, s)
             r == EnforceTombstoneCap(a, cfg.maxTerminated)
  <2>2. /\ a \in Seq(Sessions)
        /\ ToSet(a) = ToSet(q) \cup {s}
        /\ Len(a) > 0
        /\ a[Len(a)] = s
        /\ IsInjective(q) => IsInjective(a)
    BY <1>2, AppendTombstoneProperties
  <2> HIDE DEF a
  <2>3. /\ r \in Seq(Sessions)
        /\ Len(r) <= cfg.maxTerminated
        /\ ToSet(r) \subseteq ToSet(a)
        /\ IsInjective(a) => IsInjective(r)
        /\ ToSet(a) # ToSet(r) => Len(r) = cfg.maxTerminated
        /\ Len(a) > 0 => a[Len(a)] \in ToSet(r)
    BY <1>0, <2>2, EnforceTombstoneCapProperties
  <2> HIDE DEF r
  <2>4. KeepTombstone(q, s) = r
    BY <1>2 DEF KeepTombstone, r, a
  <2> QED
    BY <2>2, <2>3, <2>4
<1> QED
  BY <1>1, <1>2

-----------------------------------------------------------------------------
(* Types of the values the actions are built from. *)

LEMMA StampsTypes ==
  ASSUME NEW b \in Stamps
  PROVE  /\ NoStamps \in Stamps
         /\ \A t, w : Young(b, t, w) \in Stamps
         /\ \A t \in Time : Push(b, t) \in Stamps
<1>0. 0 \in 0 .. MaxEntries /\ MaxEntries \in Nat
  BY BoundsAssumption
<1>1. NoStamps \in Stamps
  BY <1>0 DEF NoStamps, Stamps
<1>2. \A t, w : Young(b, t, w) \in Stamps
  BY <1>0 DEF Young, Stamps
<1>3. \A t \in Time : Push(b, t) \in Stamps
  BY <1>0 DEF Push, Stamps
<1> QED
  BY <1>1, <1>2, <1>3

LEMMA RecordTypes ==
  /\ 0 \in Time
  /\ NoEdge \in Edge
  /\ NoStamps \in Stamps
  /\ Absent \in SessionState
  /\ \A t \in Time : Fresh(t) \in SessionState
  /\ NoOp \in Op
  /\ NoOp.sid = None /\ NoOp.phase = "idle" /\ NoOp.tier = 0
<1>1. 0 \in Time
  BY MaxNowAssumption DEF Time
<1>2. NoEdge \in Edge
  BY <1>1 DEF NoEdge, Edge
<1>3. NoStamps \in Stamps
  BY BoundsAssumption DEF NoStamps, Stamps
<1>4. Absent \in SessionState
  BY <1>1, <1>3 DEF Absent, SessionState
<1>5. \A t \in Time : Fresh(t) \in SessionState
  BY <1>1, <1>3 DEF Absent, SessionState, Fresh
<1>6. (CHOOSE q \in Scans : TRUE) \in Scans
  BY ScansAssumption
<1>7. NoOp \in Op
  BY <1>1, <1>6 DEF NoOp, Op, Phases, Tiers
<1> QED
  BY <1>1, <1>2, <1>3, <1>4, <1>5, <1>7 DEF NoOp

LEMMA CompactionType ==
  ASSUME TypeOK
  PROVE  Compaction \subseteq Seq(Nat \X Sessions)
<1> DEFINE R == {r \in Live : sessions[r].last + cfg.sessionTTL > op.at}
           f == [s \in R |-> <<sessions[s].last + cfg.sessionTTL, s>>]
           entries == {<<sessions[s].last + cfg.sessionTTL, s>> : s \in R}
<1>1. cfg.sessionTTL \in Nat /\ \A s \in Sessions : sessions[s].last \in Nat
  BY ConfigsAssumption, MaxNowAssumption DEF TypeOK, Config, SessionState, Time
<1>2. entries \subseteq Nat \X Sessions
  BY <1>1 DEF Live
<1>3. IsFiniteSet(R)
  BY SessionsAssumption, FS_Subset DEF Live
<1>4. f \in Surjection(R, entries)
  BY DEF Surjection
<1>5. Cardinality(entries) \in Nat
  BY <1>3, <1>4, FS_Surjection, FS_CardinalityType
<1>6. SetToSeqs(entries) \subseteq Seq(Nat \X Sessions)
  <2> HIDE DEF entries
  <2> SUFFICES ASSUME NEW g \in [1 .. Cardinality(entries) -> entries]
               PROVE  g \in Seq(Nat \X Sessions)
    BY DEF SetToSeqs
  <2>1. g \in [1 .. Cardinality(entries) -> Nat \X Sessions]
    BY <1>2
  <2> QED
    BY <1>5, <2>1
<1>7. ttlDeque \in Seq(Nat \X Sessions)
  BY DEF TypeOK
<1>8. Compaction \subseteq SetToSeqs(entries) \cup {ttlDeque}
  BY DEF Compaction
<1> QED
  BY <1>6, <1>7, <1>8

LEMMA FireOnTerminateType ==
  ASSUME TypeOK, NEW gone, FireOnTerminate(gone)
  PROVE  edges' \in [Sessions -> Edge]
<1>1. edges \in [Sessions -> Edge]
  BY DEF TypeOK, LineageTypeOK
<1> QED
  BY <1>1, RecordTypes DEF FireOnTerminate

LEMMA RegisterType ==
  ASSUME TypeOK, NEW child \in Sessions, NEW parent \in Sessions,
         Register(child, parent)
  PROVE  edges' \in [Sessions -> Edge]
<1>1. edges \in [Sessions -> Edge] /\ now \in Time
  BY DEF TypeOK, LineageTypeOK
<1>2. PruneExpired \in [Sessions -> Edge]
  BY <1>1, RecordTypes DEF PruneExpired
<1>3. [parent |-> parent, at |-> now] \in Edge
  BY <1>1 DEF Edge
<1> QED
  BY <1>2, <1>3, RecordTypes DEF Register, RegisterInto

-----------------------------------------------------------------------------
(* Type correctness.  Each action is a lemma of its own; those that only   *)
(* advance op share one.                                                   *)

(* The facts about the current state that every step needs. *)
LEMMA TypeFacts ==
  ASSUME TypeOK
  PROVE  /\ now \in Time /\ edges \in [Sessions -> Edge] /\ lineageCfg \in LineageConfigs
         /\ sessions \in [Sessions -> SessionState]
         /\ terminatedIds \in Seq(Sessions)
         /\ ttlDeque \in Seq(Nat \X Sessions)
         /\ creationTimestamps \in Stamps
         /\ cfg \in Configs /\ cfg \in Config
         /\ op \in Op
         /\ (op.phase # "idle" <=> op.sid # None)
         /\ op.phase # "idle" => op.sid \in Sessions
         /\ op.at \in Time /\ Time \subseteq Nat
         /\ ttlDeque # << >> =>
              /\ Head(ttlDeque)[2] \in Sessions
              /\ Tail(ttlDeque) \in Seq(Nat \X Sessions)
<1>1. ttlDeque # << >> =>
              /\ Head(ttlDeque) \in Nat \X Sessions
              /\ Tail(ttlDeque) \in Seq(Nat \X Sessions)
  BY HeadTailProperties DEF TypeOK
<1>2. op \in Op
  BY DEF TypeOK
<1>3. op.sid \in Sessions \cup {None} /\ op.at \in Time
  BY <1>2 DEF Op
<1>4. Time \subseteq Nat
  BY MaxNowAssumption DEF Time
<1>5. (op.phase # "idle" <=> op.sid # None)
  BY DEF TypeOK
<1> QED
  BY <1>1, <1>2, <1>3, <1>4, <1>5, ConfigsAssumption DEF TypeOK, LineageTypeOK

LEMMA BeginUpdateType ==
  ASSUME TypeOK, NEW s \in Sessions, NEW q \in Scans, BeginUpdate(s, q)
  PROVE  TypeOK'
<1>1. Len(ttlDeque) \in Nat
  BY TypeFacts, LenProperties
<1>2. op' \in Op /\ op'.phase # "idle" /\ op'.sid # None
  BY <1>1, TypeFacts, RecordTypes, SessionsAssumption DEF BeginUpdate, Op, Phases, NoOp
<1> QED
  BY <1>2, TypeFacts DEF BeginUpdate, TypeOK, LineageTypeOK, lineageVars

LEMMA ReapType ==
  ASSUME TypeOK, ReapStale \/ ReapPinned \/ Reap
  PROVE  TypeOK'
<1> DEFINE s == Head(ttlDeque)[2]
<1>1. Reaping /\ op' = [op EXCEPT !.n = @ - 1]
  BY DEF ReapStale, ReapPinned, Reap
<1>2. /\ s \in Sessions
      /\ Tail(ttlDeque) \in Seq(Nat \X Sessions)
  BY <1>1, TypeFacts DEF Reaping
<1>3. op' \in Op /\ (op'.phase # "idle" <=> op'.sid # None)
  <2>1. op.n \in Nat /\ op.n > 0
    BY <1>1, TypeFacts DEF Reaping, Op
  <2> QED
    BY <1>1, <2>1, TypeFacts DEF Op
<1>4. sessions[s].last + cfg.sessionTTL \in Nat
  <2>1. sessions[s] \in SessionState
    BY <1>2, TypeFacts
  <2>2. cfg.sessionTTL \in Nat
    BY TypeFacts DEF Config
  <2>3. sessions[s].last \in Nat
    BY <2>1, TypeFacts DEF SessionState
  <2> HIDE DEF s
  <2> QED
    BY <2>2, <2>3
<1>5. CASE ReapStale
  BY <1>2, <1>3, <1>5, TypeFacts DEF ReapStale, TypeOK, LineageTypeOK, lineageVars
<1>6. CASE ReapPinned
  <2>1. ttlDeque' \in Seq(Nat \X Sessions)
    BY <1>2, <1>4, <1>6, AppendProperties DEF ReapPinned
  <2> QED
    BY <1>3, <1>6, <2>1, TypeFacts DEF ReapPinned, TypeOK, LineageTypeOK, lineageVars
<1>7. CASE Reap
  <2>1. edges' \in [Sessions -> Edge]
    BY <1>7, FireOnTerminateType DEF Reap
  <2>2. terminatedIds' \in Seq(Sessions)
    BY <1>2, <1>7, TypeFacts, KeepTombstoneProperties DEF Reap
  <2>3. sessions' \in [Sessions -> SessionState]
    BY <1>7, TypeFacts, RecordTypes DEF Reap
  <2> QED
    BY <1>2, <1>3, <1>7, <2>1, <2>2, <2>3, TypeFacts DEF Reap, TypeOK, LineageTypeOK
<1> QED
  BY <1>5, <1>6, <1>7

LEMMA AnswerType ==
  ASSUME TypeOK, op.phase # "idle", NEW tier \in Tiers, NEW limited \in BOOLEAN,
         Answer(tier, limited)
  PROVE  op' \in Op /\ (op'.phase # "idle" <=> op'.sid # None)
BY TypeFacts, RecordTypes, SessionsAssumption DEF Answer, Op, Phases, NoOp

LEMMA AnswerPhase ==
  ASSUME NEW tier, NEW limited, Answer(tier, limited)
  PROVE  op'.phase = "return"
BY DEF Answer, NoOp

LEMMA PhaseType ==
  ASSUME TypeOK, op.phase # "idle", NEW p \in Phases \ {"idle"},
         op' = [op EXCEPT !.phase = p]
  PROVE  op' \in Op /\ (op'.phase # "idle" <=> op'.sid # None)
BY TypeFacts, SessionsAssumption DEF Op

LEMMA AdmitType ==
  ASSUME TypeOK,
         AdmitTombstoned \/ AdmitRateLimited \/ AdmitNew \/ AdmitKnown
  PROVE  TypeOK'
<1>1. op.phase = "reap" /\ ttlDeque' \in Compaction
  BY DEF AdmitTombstoned, AdmitRateLimited, AdmitNew, AdmitKnown, Reaped
<1>2. ttlDeque' \in Seq(Nat \X Sessions)
  BY <1>1, CompactionType
<1>3. op.phase # "idle" /\ op.sid \in Sessions
  BY <1>1, TypeFacts
<1>4. CASE AdmitTombstoned
  <2>1. op' \in Op /\ (op'.phase # "idle" <=> op'.sid # None)
    <3>1. Answer(3, FALSE)
      BY <1>4 DEF AdmitTombstoned
    <3>2. 3 \in Tiers
      BY DEF Tiers
    <3> QED
      BY <1>3, <3>1, <3>2, AnswerType
  <2> QED
    BY <1>2, <1>4, <2>1, TypeFacts DEF AdmitTombstoned, TypeOK, LineageTypeOK, lineageVars
<1>5. CASE AdmitRateLimited
  <2>1. op' \in Op /\ (op'.phase # "idle" <=> op'.sid # None)
    <3>1. Answer(0, TRUE)
      BY <1>5 DEF AdmitRateLimited
    <3>2. 0 \in Tiers
      BY DEF Tiers
    <3> QED
      BY <1>3, <3>1, <3>2, AnswerType
  <2>2. creationTimestamps' \in Stamps
    BY <1>5, TypeFacts, StampsTypes DEF AdmitRateLimited
  <2> QED
    BY <1>2, <1>5, <2>1, <2>2, TypeFacts DEF AdmitRateLimited, TypeOK, LineageTypeOK, lineageVars
<1>6. CASE AdmitNew
  <2>1. op' \in Op /\ (op'.phase # "idle" <=> op'.sid # None)
    <3> DEFINE p == IF Cardinality(Live) + 1 > cfg.maxSessions THEN "evict" ELSE "score"
    <3>1. p \in Phases \ {"idle"} /\ op' = [op EXCEPT !.phase = p]
      BY <1>6 DEF AdmitNew, Phases
    <3> HIDE DEF p
    <3> QED
      BY <1>3, <3>1, PhaseType
  <2>2. creationTimestamps' \in Stamps
    BY <1>6, TypeFacts, StampsTypes DEF AdmitNew
  <2>3. sessions' \in [Sessions -> SessionState]
    BY <1>6, TypeFacts, RecordTypes DEF AdmitNew
  <2> QED
    BY <1>2, <1>6, <2>1, <2>2, <2>3, TypeFacts DEF AdmitNew, TypeOK, LineageTypeOK, lineageVars
<1>7. CASE AdmitKnown
  <2>1. op' \in Op /\ (op'.phase # "idle" <=> op'.sid # None)
    BY <1>3, <1>7, PhaseType DEF AdmitKnown, Phases
  <2> QED
    BY <1>2, <1>7, <2>1, TypeFacts DEF AdmitKnown, TypeOK, LineageTypeOK, lineageVars
<1> QED
  BY <1>4, <1>5, <1>6, <1>7

LEMMA EvictType ==
  ASSUME TypeOK, EvictOne \/ EvictNone \/ ForceEvictPinned
  PROVE  TypeOK'
<1>1. op.phase # "idle"
  BY DEF EvictOne, EvictNone, ForceEvictPinned
<1>2. ASSUME NEW S, AfterEviction(S)
      PROVE  op' \in Op /\ (op'.phase # "idle" <=> op'.sid # None)
  <2> DEFINE p == IF LineageWired /\ Cardinality(S) > 2 * cfg.maxSessions
                  THEN "ceiling" ELSE "score"
  <2>1. p \in Phases \ {"idle"} /\ op' = [op EXCEPT !.phase = p]
    BY <1>2 DEF AfterEviction, Phases
  <2> HIDE DEF p
  <2> QED
    BY <1>1, <2>1, PhaseType
<1>3. CASE EvictOne
  <2> PICK s \in EvictionVictims :
         /\ terminatedIds' = IF sessions[s].terminated
                             THEN KeepTombstone(terminatedIds, s) ELSE terminatedIds
         /\ sessions' = [sessions EXCEPT ![s] = Absent]
         /\ FireOnTerminate({s})
         /\ AfterEviction(Live \ {s})
    BY <1>3 DEF EvictOne
  <2>1. s \in Sessions
    BY DEF EvictionVictims, LeastRecent, Evictable, Live
  <2>2. edges' \in [Sessions -> Edge]
    BY FireOnTerminateType
  <2>3. terminatedIds' \in Seq(Sessions)
    BY <2>1, TypeFacts, KeepTombstoneProperties
  <2>4. sessions' \in [Sessions -> SessionState]
    BY TypeFacts, RecordTypes
  <2>5. op' \in Op /\ (op'.phase # "idle" <=> op'.sid # None)
    BY <1>2
  <2>6. UNCHANGED <<now, lineageCfg, ttlDeque, creationTimestamps, cfg>>
    BY <1>3 DEF EvictOne
  <2> QED
    BY <2>2, <2>3, <2>4, <2>5, <2>6, TypeFacts DEF TypeOK, LineageTypeOK
<1>4. CASE EvictNone
  <2>1. op' \in Op /\ (op'.phase # "idle" <=> op'.sid # None)
    BY <1>2, <1>4 DEF EvictNone
  <2> QED
    BY <1>4, <2>1, TypeFacts DEF EvictNone, TypeOK, LineageTypeOK, lineageVars
<1>5. CASE ForceEvictPinned
  <2> PICK s \in LeastRecent(Live \ {op.sid}) :
         /\ sessions' = [sessions EXCEPT ![s] = Absent]
         /\ FireOnTerminate({s})
    BY <1>5 DEF ForceEvictPinned
  <2>1. edges' \in [Sessions -> Edge]
    BY FireOnTerminateType
  <2>2. sessions' \in [Sessions -> SessionState]
    BY TypeFacts, RecordTypes
  <2>3. op' \in Op /\ (op'.phase # "idle" <=> op'.sid # None)
    BY <1>1, <1>5, PhaseType DEF ForceEvictPinned, Phases
  <2> QED
    BY <1>5, <2>1, <2>2, <2>3, TypeFacts DEF ForceEvictPinned, TypeOK, LineageTypeOK
<1> QED
  BY <1>3, <1>4, <1>5

LEMMA ScoreType ==
  ASSUME TypeOK, ScoreTerminated \/ Score \/ Return
  PROVE  TypeOK'
<1>1. op.phase # "idle" /\ op.sid \in Sessions
  BY TypeFacts DEF ScoreTerminated, Score, Return
<1>2. CASE ScoreTerminated
  <2>1. Answer(3, FALSE)
    BY <1>2 DEF ScoreTerminated
  <2>2. 3 \in Tiers
    BY DEF Tiers
  <2>3. op' \in Op /\ (op'.phase # "idle" <=> op'.sid # None)
    BY <1>1, <2>1, <2>2, AnswerType
  <2> QED
    BY <1>2, <2>3, TypeFacts DEF ScoreTerminated, TypeOK, LineageTypeOK, lineageVars
<1>3. CASE Score
  <2> DEFINE s == op.sid
             st == sessions[s]
             scored(d) == d + ScanWeight(op.scan)
             tier(d) == ScoredTier(scored(d), NewRolling(st))
  <2> PICK d \in Decayed(st) :
         /\ sessions' = [sessions EXCEPT ![s] =
              [live |-> TRUE, score |-> scored(d), last |-> op.at,
               rolling |-> NewRolling(st), terminated |-> tier(d) = 3]]
         /\ terminatedIds' = IF tier(d) = 3 THEN AddTombstone(terminatedIds, s)
                             ELSE terminatedIds
         /\ FireOnTerminate(IF tier(d) = 3 THEN {s} ELSE {})
         /\ Answer(tier(d), FALSE)
    BY <1>3 DEF Score
  <2>1. st \in SessionState /\ op.scan \in Scan
    BY <1>1, ScansAssumption, TypeFacts DEF Op
  <2>2. scored(d) \in Nat
    <3>1. d \in Nat
      BY <2>1 DEF Decayed, SessionState
    <3>2. ScanWeight(op.scan) \in Nat
      BY <2>1 DEF ScanWeight, Scan
    <3> QED
      BY <3>1, <3>2
  <2>3. NewRolling(st) \in Stamps
    <3>1. Young(st.rolling, op.at, cfg.rollingWindow) \in Stamps
      BY <2>1, StampsTypes DEF SessionState
    <3> QED
      BY <3>1, StampsTypes, TypeFacts DEF NewRolling
  <2>4. tier(d) \in Tiers
    BY DEF ScoredTier, DeriveTier, Tiers
  <2> HIDE DEF scored, tier
  <2>5. sessions' \in [Sessions -> SessionState]
    <3>1. [live |-> TRUE, score |-> scored(d), last |-> op.at,
           rolling |-> NewRolling(st), terminated |-> tier(d) = 3] \in SessionState
      BY <2>2, <2>3, TypeFacts DEF SessionState
    <3> QED
      BY <3>1, TypeFacts
  <2>6. terminatedIds' \in Seq(Sessions)
    BY <1>1, TypeFacts, AddTombstoneProperties
  <2>7. edges' \in [Sessions -> Edge]
    BY FireOnTerminateType
  <2>8. op' \in Op /\ (op'.phase # "idle" <=> op'.sid # None)
    BY <1>1, <2>4, AnswerType
  <2>9. ttlDeque' \in Seq(Nat \X Sessions)
    <3>1. op.at + cfg.sessionTTL \in Nat
      BY TypeFacts DEF Config
    <3>2. ttlDeque' = Append(ttlDeque, <<op.at + cfg.sessionTTL, s>>)
      BY <1>3 DEF Score
    <3> QED
      BY <1>1, <3>1, <3>2, TypeFacts, AppendProperties
  <2>10. UNCHANGED <<now, lineageCfg, creationTimestamps, cfg>>
    BY <1>3 DEF Score
  <2> QED
    BY <2>5, <2>6, <2>7, <2>8, <2>9, <2>10, TypeFacts DEF TypeOK, LineageTypeOK
<1>4. CASE Return
  BY <1>4, TypeFacts, RecordTypes DEF Return, TypeOK, LineageTypeOK, lineageVars
<1> QED
  BY <1>2, <1>3, <1>4

LEMMA OperatorType ==
  ASSUME TypeOK, OperatorStep
  PROVE  TypeOK'
<1>1. ASSUME NEW s \in Sessions, TerminateSession(s) PROVE TypeOK'
  <2>1. sessions' \in [Sessions -> SessionState]
    <3>1. [sessions[s] EXCEPT !.terminated = sessions[s].live] \in SessionState
      BY TypeFacts DEF SessionState
    <3> QED
      BY <1>1, <3>1, TypeFacts DEF TerminateSession
  <2>2. terminatedIds' \in Seq(Sessions)
    BY <1>1, TypeFacts, AddTombstoneProperties DEF TerminateSession
  <2>3. edges' \in [Sessions -> Edge]
    BY <1>1, FireOnTerminateType DEF TerminateSession
  <2> QED
    BY <1>1, <2>1, <2>2, <2>3, TypeFacts DEF TerminateSession, TypeOK, LineageTypeOK
<1>2. ASSUME NEW s \in Sessions, Reset(s) PROVE TypeOK'
  <2>1. sessions' \in [Sessions -> SessionState]
    BY <1>2, TypeFacts, RecordTypes DEF Reset
  <2>2. edges' \in [Sessions -> Edge]
    BY <1>2, FireOnTerminateType DEF Reset
  <2> QED
    BY <1>2, <2>1, <2>2, TypeFacts DEF Reset, TypeOK, LineageTypeOK
<1>3. ASSUME NEW s \in Sessions, ForceReset(s) PROVE TypeOK'
  <2>1. sessions' \in [Sessions -> SessionState]
    BY <1>3, TypeFacts, RecordTypes DEF ForceReset
  <2>2. terminatedIds' \in Seq(Sessions)
    BY <1>3, TypeFacts, WithoutTombstoneProperties DEF ForceReset
  <2>3. edges' \in [Sessions -> Edge]
    BY <1>3, FireOnTerminateType DEF ForceReset
  <2> QED
    BY <1>3, <2>1, <2>2, <2>3, TypeFacts DEF ForceReset, TypeOK, LineageTypeOK
<1>4. CASE Clear
  <2>1. edges' \in [Sessions -> Edge]
    BY <1>4, FireOnTerminateType DEF Clear
  <2>2. << >> \in Seq(Sessions) /\ << >> \in Seq(Nat \X Sessions)
    BY EmptySeq
  <2> QED
    BY <1>4, <2>1, <2>2, TypeFacts, RecordTypes DEF Clear, TypeOK, LineageTypeOK
<1>5. ASSUME NEW c \in Configs, ApplyConfig(c) PROVE TypeOK'
  <2>1. c.maxTerminated \in Nat \ {0}
    BY ConfigsAssumption DEF Config
  <2>2. terminatedIds' \in Seq(Sessions)
    BY <1>5, <2>1, TypeFacts, EnforceTombstoneCapProperties DEF ApplyConfig
  <2> QED
    BY <1>5, <2>2, TypeFacts DEF ApplyConfig, TypeOK, LineageTypeOK, lineageVars
<1> QED
  BY <1>1, <1>2, <1>3, <1>4, <1>5 DEF OperatorStep

LEMMA EnvironmentType ==
  ASSUME TypeOK, TimePasses \/ LineageStep
  PROVE  TypeOK'
<1>1. CASE TimePasses
  <2>1. now' \in Time
    BY <1>1, TypeFacts, MaxNowAssumption DEF TimePasses, Tick, Time
  <2> QED
    BY <1>1, <2>1, TypeFacts DEF TimePasses, Tick, trackerVars, TypeOK, LineageTypeOK
<1>2. CASE LineageStep
  <2>0. UNCHANGED trackerVars
    BY <1>2 DEF LineageStep
  <2> DEFINE typed == /\ now' \in Time
                      /\ edges' \in [Sessions -> Edge]
                      /\ lineageCfg' \in LineageConfigs
  <2>1. typed
    <3>1. ASSUME NEW child \in Sessions, NEW parent \in Sessions, Register(child, parent)
          PROVE  typed
      BY <3>1, TypeFacts, RegisterType DEF Register
    <3>2. ASSUME NEW child \in Sessions, Unregister(child)
          PROVE  typed
      BY <3>2, TypeFacts, RecordTypes DEF Unregister, DropEdge
    <3>3. ASSUME NEW c \in LineageConfigs, LineageApplyConfig(c)
          PROVE  typed
      BY <3>3, TypeFacts DEF LineageApplyConfig
    <3> QED
      BY <1>2, <3>1, <3>2, <3>3 DEF LineageStep
  <2> QED
    BY <2>0, <2>1, TypeFacts DEF trackerVars, TypeOK, LineageTypeOK
<1> QED
  BY <1>1, <1>2

LEMMA TypeStep ==
  ASSUME TypeOK, [Next]_vars
  PROVE  TypeOK'
<1>1. CASE UNCHANGED vars
  BY <1>1 DEF vars, lineageVars, trackerVars, TypeOK, LineageTypeOK
<1>2. CASE ContinueUpdate
  BY <1>2, ReapType, AdmitType, EvictType, ScoreType DEF ContinueUpdate
<1>3. ASSUME NEW s \in Sessions, NEW q \in Scans, BeginUpdate(s, q) PROVE TypeOK'
  BY <1>3, BeginUpdateType
<1> QED
  BY <1>1, <1>2, <1>3, OperatorType, EnvironmentType DEF Next, UpdateStep

LEMMA TypeInit == Init => TypeOK
<1>1. << >> \in Seq(Sessions) /\ << >> \in Seq(Nat \X Sessions)
  BY EmptySeq
<1> QED
  BY <1>1, RecordTypes DEF Init, LineageInit, TrackerInit, TypeOK, LineageTypeOK

(* Every variable keeps its type in every reachable state. *)
THEOREM TypeCorrect == Spec => []TypeOK
<1>1. TypeOK /\ [Next]_vars => TypeOK'
  BY TypeStep
<1> QED
  BY <1>1, TypeInit, PTL DEF Spec

-----------------------------------------------------------------------------
(* The tombstone store and the answers.                                    *)

(* A step that removes session s from the table, with a tombstone if it    *)
(* was terminated: TTL reaping and _evict_one().                           *)
Retire(s) ==
  /\ s \in Live
  /\ sessions' = [sessions EXCEPT ![s] = Absent]
  /\ terminatedIds' = IF sessions[s].terminated THEN KeepTombstone(terminatedIds, s)
                      ELSE terminatedIds
  /\ cfg' = cfg

(* What a step does to the table and to the tombstones. *)
Quiet == UNCHANGED <<sessions, terminatedIds, cfg>>

Scored(s) ==
  /\ s \in Live
  /\ ~sessions[s].terminated
  /\ \E st \in SessionState :
       /\ st.live
       /\ sessions' = [sessions EXCEPT ![s] = st]
       /\ terminatedIds' = IF st.terminated THEN AddTombstone(terminatedIds, s)
                           ELSE terminatedIds
       /\ op'.phase = "return" /\ op'.sid = s /\ (op'.tier = 3 <=> st.terminated)
  /\ cfg' = cfg

(* What update() does to the session it scores. *)
LEMMA ScoredByScore ==
  ASSUME TypeOK, UpdatedSessionStays, Score
  PROVE  Scored(op.sid) /\ op.sid \in Sessions
<1> DEFINE s == op.sid
           scored(d) == d + ScanWeight(op.scan)
           tier(d) == ScoredTier(scored(d), NewRolling(sessions[s]))
           new(d) == [live |-> TRUE, score |-> scored(d), last |-> op.at,
                      rolling |-> NewRolling(sessions[s]), terminated |-> tier(d) = 3]
<1>1. op.phase = "score" /\ ~sessions[s].terminated /\ cfg' = cfg
  BY DEF Score
<1>2. s \in Sessions /\ s \in Live
  BY <1>1, TypeFacts DEF UpdatedSessionStays
<1> PICK d \in Decayed(sessions[s]) :
       /\ sessions' = [sessions EXCEPT ![s] = new(d)]
       /\ terminatedIds' = IF tier(d) = 3 THEN AddTombstone(terminatedIds, s)
                           ELSE terminatedIds
       /\ Answer(tier(d), FALSE)
  BY DEF Score
<1>3. TypeOK'
  BY ScoreType
<1>4. sessions'[s] = new(d)
  BY <1>2, TypeFacts
<1>5. new(d) \in SessionState
  BY <1>2, <1>3, <1>4 DEF TypeOK
<1>6. op'.phase = "return" /\ op'.sid = s /\ op'.tier = tier(d)
  BY DEF Answer, NoOp
<1>7. new(d).live /\ (new(d).terminated <=> tier(d) = 3)
  OBVIOUS
<1> HIDE DEF new, tier, scored
<1> QED
  BY <1>1, <1>2, <1>5, <1>6, <1>7 DEF Scored

(* Every step of the tracker has one of these effects. *)
LEMMA StepEffects ==
  ASSUME TypeOK, UpdatedSessionStays, [Next]_vars
  PROVE  \/ Quiet
         \/ \E s \in Sessions : Retire(s)
         \/ AdmitNew
         \/ ForceEvictPinned
         \/ Scored(op.sid) /\ op.sid \in Sessions
         \/ OperatorStep
<1>1. CASE UNCHANGED vars
  BY <1>1 DEF Quiet, vars, trackerVars
<1>2. CASE TimePasses \/ LineageStep
  BY <1>2 DEF TimePasses, LineageStep, Quiet, trackerVars
<1>3. ASSUME NEW s \in Sessions, NEW q \in Scans, BeginUpdate(s, q) PROVE Quiet
  BY <1>3 DEF BeginUpdate, Quiet
<1>4. CASE ReapStale \/ ReapPinned \/ AdmitTombstoned \/ AdmitRateLimited \/ AdmitKnown
           \/ EvictNone \/ ScoreTerminated \/ Return
  BY <1>4 DEF ReapStale, ReapPinned, AdmitTombstoned, AdmitRateLimited, AdmitKnown,
              EvictNone, ScoreTerminated, Return, Quiet
<1>5. CASE Reap
  <2>1. Head(ttlDeque)[2] \in Sessions
    BY <1>5, TypeFacts DEF Reap, Reaping
  <2> QED
    BY <1>5, <2>1 DEF Reap, Retire, Expired
<1>6. CASE EvictOne
  BY <1>6 DEF EvictOne, EvictionVictims, LeastRecent, Evictable, Live, Retire
<1>7. CASE Score
  BY <1>7, ScoredByScore
<1> QED
  BY <1>1, <1>2, <1>3, <1>4, <1>5, <1>6, <1>7 DEF Next, UpdateStep, ContinueUpdate

(* The session under update stays in the table.                            *)
LEMMA UpdatedSessionStep ==
  ASSUME TypeOK, UpdatedSessionStays, [Next]_vars
  PROVE  UpdatedSessionStays'
<1> USE DEF UpdatedSessionStays
<1>1. CASE op' = op /\ sessions' = sessions
  BY <1>1 DEF Live
<1>2. CASE op'.phase \in {"idle", "reap", "return"}
  BY <1>2
<1>3. CASE AdmitNew
  <2>1. op'.sid = op.sid /\ op.sid \in Sessions
    BY <1>3, TypeFacts DEF AdmitNew, Reaped, Op
  <2> QED
    BY <1>3, <2>1, TypeFacts DEF AdmitNew, Live, Fresh, Absent
<1>4. CASE AdmitKnown
  <2>1. op'.sid = op.sid /\ sessions' = sessions /\ op.sid \in Live
    BY <1>4, TypeFacts DEF AdmitKnown, Op
  <2> QED
    BY <2>1 DEF Live
<1>5. CASE EvictOne
  <2> PICK s \in EvictionVictims :
         /\ sessions' = [sessions EXCEPT ![s] = Absent]
         /\ AfterEviction(Live \ {s})
    BY <1>5 DEF EvictOne
  <2>1. s # op.sid
    BY DEF EvictionVictims, LeastRecent, Evictable
  <2>2. op'.sid = op.sid
    BY TypeFacts DEF AfterEviction, Op
  <2>3. op.sid \in Live
    BY <1>5 DEF EvictOne
  <2> QED
    BY <2>1, <2>2, <2>3, TypeFacts DEF Live
<1>6. CASE EvictNone
  <2>1. op'.sid = op.sid /\ sessions' = sessions /\ op.sid \in Live
    BY <1>6, TypeFacts DEF EvictNone, AfterEviction, Op
  <2> QED
    BY <2>1 DEF Live
<1>7. CASE ForceEvictPinned
  <2> PICK s \in LeastRecent(Live \ {op.sid}) : sessions' = [sessions EXCEPT ![s] = Absent]
    BY <1>7 DEF ForceEvictPinned
  <2>1. s # op.sid
    BY DEF LeastRecent
  <2>2. op'.sid = op.sid /\ op.sid \in Live
    BY <1>7, TypeFacts DEF ForceEvictPinned, Op
  <2> QED
    BY <2>1, <2>2, TypeFacts DEF Live
<1>8. CASE Reap \/ ReapStale \/ ReapPinned
  <2>1. op'.phase = "reap"
    BY <1>8, TypeFacts DEF Reap, ReapStale, ReapPinned, Reaping, Op
  <2> QED
    BY <1>2, <2>1
<1>9. CASE AdmitTombstoned \/ AdmitRateLimited \/ ScoreTerminated \/ Score \/ Return
  <2>1. op'.phase \in {"idle", "return"}
    BY <1>9, RecordTypes DEF AdmitTombstoned, AdmitRateLimited, ScoreTerminated, Score,
                             Return, Answer, NoOp
  <2> QED
    BY <1>2, <2>1
<1>10. ASSUME NEW s \in Sessions, NEW q \in Scans, BeginUpdate(s, q)
       PROVE  UpdatedSessionStays'
  <2>1. op'.phase = "reap"
    BY <1>10 DEF BeginUpdate, NoOp
  <2> QED
    BY <1>2, <2>1
<1>11. CASE OperatorStep
  <2>1. op'.phase = "idle"
    BY <1>11 DEF OperatorStep, TerminateSession, Reset, ForceReset, Clear, ApplyConfig, Idle
  <2> QED
    BY <1>2, <2>1
<1>12. CASE TimePasses \/ LineageStep \/ UNCHANGED vars
  BY <1>1, <1>12 DEF TimePasses, LineageStep, vars, trackerVars
<1> QED
  BY <1>3, <1>4, <1>5, <1>6, <1>7, <1>8, <1>9, <1>10, <1>11, <1>12
     DEF Next, UpdateStep, ContinueUpdate

(* The tombstone store keeps its cap and holds each session once.          *)
LEMMA TombstonesBoundedStep ==
  ASSUME TypeOK, UpdatedSessionStays, TombstonesBounded, [Next]_vars
  PROVE  TombstonesBounded'
<1> USE DEF TombstonesBounded
<1>1. CASE Quiet
  BY <1>1 DEF Quiet
<1>2. ASSUME NEW s \in Sessions, Retire(s) PROVE TombstonesBounded'
  BY <1>2, TypeFacts, KeepTombstoneProperties DEF Retire
<1>3. CASE AdmitNew \/ ForceEvictPinned
  BY <1>3 DEF AdmitNew, ForceEvictPinned
<1>4. ASSUME op.sid \in Sessions, Scored(op.sid) PROVE TombstonesBounded'
  BY <1>4, TypeFacts, AddTombstoneProperties DEF Scored
<1>5. ASSUME NEW s \in Sessions, TerminateSession(s) PROVE TombstonesBounded'
  BY <1>5, TypeFacts, AddTombstoneProperties DEF TerminateSession
<1>6. ASSUME NEW s \in Sessions, Reset(s) PROVE TombstonesBounded'
  BY <1>6 DEF Reset
<1>7. ASSUME NEW s \in Sessions, ForceReset(s) PROVE TombstonesBounded'
  <2>1. /\ Len(WithoutTombstone(terminatedIds, s)) <= Len(terminatedIds)
        /\ IsInjective(WithoutTombstone(terminatedIds, s))
        /\ WithoutTombstone(terminatedIds, s) \in Seq(Sessions)
    BY TypeFacts, WithoutTombstoneProperties
  <2>2. /\ Len(WithoutTombstone(terminatedIds, s)) \in Nat
        /\ Len(terminatedIds) \in Nat
        /\ cfg.maxTerminated \in Nat
    BY <2>1, TypeFacts, LenProperties DEF Config
  <2> QED
    BY <1>7, <2>1, <2>2 DEF ForceReset
<1>8. CASE Clear
  <2>1. Len(<< >>) = 0 /\ DOMAIN << >> = {}
    OBVIOUS
  <2>2. IsInjective(<< >>)
    BY <2>1 DEF IsInjective
  <2> QED
    BY <1>8, <2>1, <2>2, TypeFacts DEF Clear, Config
<1>9. ASSUME NEW c \in Configs, ApplyConfig(c) PROVE TombstonesBounded'
  <2>1. c.maxTerminated \in Nat \ {0}
    BY ConfigsAssumption DEF Config
  <2> QED
    BY <1>9, <2>1, TypeFacts, EnforceTombstoneCapProperties DEF ApplyConfig
<1> QED
  BY <1>1, <1>2, <1>3, <1>4, <1>5, <1>6, <1>7, <1>8, <1>9, StepEffects DEF OperatorStep

(* A tombstoned session is not in the table unterminated.                  *)
LEMMA TombstoneAgreementStep ==
  ASSUME TypeOK, UpdatedSessionStays, TombstoneAgreement, [Next]_vars
  PROVE  TombstoneAgreement'
<1> USE DEF TombstoneAgreement, Live, Tombstones
<1>0. \A s \in Sessions : sessions[s] \in SessionState
  BY TypeFacts
<1>1. CASE Quiet
  BY <1>1 DEF Quiet
<1>2. ASSUME NEW s \in Sessions, Retire(s) PROVE TombstoneAgreement'
  <2>1. ToSet(terminatedIds') \subseteq ToSet(terminatedIds) \cup {s}
    BY <1>2, TypeFacts, KeepTombstoneProperties DEF Retire
  <2> QED
    BY <1>2, <2>1, TypeFacts DEF Retire, Absent
<1>3. CASE AdmitNew
  <2>1. op.sid \in Sessions /\ op.sid \notin Tombstones
    BY <1>3, TypeFacts DEF AdmitNew, Reaped
  <2> QED
    BY <1>3, <2>1, TypeFacts DEF AdmitNew
<1>4. CASE ForceEvictPinned
  BY <1>4, TypeFacts DEF ForceEvictPinned, Absent, LeastRecent
<1>5. ASSUME op.sid \in Sessions, Scored(op.sid) PROVE TombstoneAgreement'
  <2> PICK st \in SessionState :
         /\ sessions' = [sessions EXCEPT ![op.sid] = st]
         /\ terminatedIds' = IF st.terminated THEN AddTombstone(terminatedIds, op.sid)
                             ELSE terminatedIds
    BY <1>5 DEF Scored
  <2>1. op.sid \notin ToSet(terminatedIds)
    BY <1>5 DEF Scored
  <2>2. ToSet(AddTombstone(terminatedIds, op.sid)) \subseteq ToSet(terminatedIds) \cup {op.sid}
    BY <1>5, TypeFacts, AddTombstoneProperties
  <2> QED
    BY <1>5, <2>1, <2>2, TypeFacts
<1>6. ASSUME NEW s \in Sessions, TerminateSession(s) PROVE TombstoneAgreement'
  <2>1. ToSet(terminatedIds') \subseteq ToSet(terminatedIds) \cup {s}
    BY <1>6, TypeFacts, AddTombstoneProperties DEF TerminateSession
  <2>2. \A r \in Sessions : /\ sessions'[r].live <=> sessions[r].live
                            /\ r # s => sessions'[r].terminated = sessions[r].terminated
                            /\ r = s => sessions'[r].terminated = sessions[s].live
    BY <1>0, <1>6, TypeFacts DEF TerminateSession, SessionState
  <2> QED
    BY <2>1, <2>2
<1>7. ASSUME NEW s \in Sessions, Reset(s) PROVE TombstoneAgreement'
  BY <1>7, TypeFacts DEF Reset, Absent
<1>8. ASSUME NEW s \in Sessions, ForceReset(s) PROVE TombstoneAgreement'
  <2>1. ToSet(terminatedIds') \subseteq ToSet(terminatedIds)
    BY <1>8, TypeFacts, WithoutTombstoneProperties DEF ForceReset
  <2> QED
    BY <1>8, <2>1, TypeFacts DEF ForceReset, Absent
<1>9. CASE Clear
  BY <1>9 DEF Clear, Absent
<1>10. ASSUME NEW c \in Configs, ApplyConfig(c) PROVE TombstoneAgreement'
  <2>1. c.maxTerminated \in Nat \ {0}
    BY ConfigsAssumption DEF Config
  <2>2. ToSet(terminatedIds') \subseteq ToSet(terminatedIds)
    BY <1>10, <2>1, TypeFacts, EnforceTombstoneCapProperties DEF ApplyConfig
  <2> QED
    BY <1>10, <2>2 DEF ApplyConfig
<1> QED
  BY <1>1, <1>2, <1>3, <1>4, <1>5, <1>6, <1>7, <1>8, <1>9, <1>10, StepEffects DEF OperatorStep

(* An update answers tier 3 exactly when its session is terminated.        *)
LEMMA AnswerAgreementStep ==
  ASSUME TypeOK, UpdatedSessionStays, AnswerAgreement, [Next]_vars
  PROVE  AnswerAgreement'
<1> USE DEF AnswerAgreement
<1>1. CASE op'.phase # "return"
  BY <1>1
<1>2. CASE AdmitTombstoned
  <2>1. op'.tier = 3 /\ op'.sid = op.sid /\ UNCHANGED <<sessions, terminatedIds>>
    BY <1>2 DEF AdmitTombstoned, Answer, NoOp
  <2>2. IsTerminated(op.sid)
    BY <1>2 DEF AdmitTombstoned, IsTerminated
  <2> QED
    BY <2>1, <2>2 DEF IsTerminated, Live, Tombstones
<1>3. CASE AdmitRateLimited
  <2>1. op'.tier = 0 /\ op'.sid = op.sid /\ UNCHANGED <<sessions, terminatedIds>>
    BY <1>3 DEF AdmitRateLimited, Answer, NoOp
  <2>2. ~IsTerminated(op.sid)
    BY <1>3 DEF AdmitRateLimited, IsTerminated
  <2> QED
    BY <2>1, <2>2 DEF IsTerminated, Live, Tombstones
<1>4. CASE ScoreTerminated
  <2>1. op'.tier = 3 /\ op'.sid = op.sid /\ UNCHANGED <<sessions, terminatedIds>>
    BY <1>4 DEF ScoreTerminated, Answer, NoOp
  <2>2. IsTerminated(op.sid)
    BY <1>4 DEF ScoreTerminated, IsTerminated, UpdatedSessionStays
  <2> QED
    BY <2>1, <2>2 DEF IsTerminated, Live, Tombstones
<1>5. ASSUME op.sid \in Sessions, Scored(op.sid) PROVE AnswerAgreement'
  BY <1>5, TypeFacts DEF Scored, IsTerminated, Live
<1>6. CASE op' = op /\ UNCHANGED <<sessions, terminatedIds>>
  BY <1>6 DEF IsTerminated, Live, Tombstones
<1>7. CASE TimePasses \/ LineageStep \/ UNCHANGED vars
  BY <1>6, <1>7 DEF TimePasses, LineageStep, vars, trackerVars
<1>8. CASE OperatorStep
  <2>1. op'.phase # "return"
    BY <1>8 DEF OperatorStep, TerminateSession, Reset, ForceReset, Clear, ApplyConfig, Idle
  <2> QED
    BY <1>1, <2>1
<1>9. ASSUME NEW s \in Sessions, NEW q \in Scans, BeginUpdate(s, q) PROVE AnswerAgreement'
  <2>1. op'.phase # "return"
    BY <1>9 DEF BeginUpdate, NoOp
  <2> QED
    BY <1>1, <2>1
<1>10. CASE Reap \/ ReapStale \/ ReapPinned \/ Return
  <2>1. op'.phase # "return"
    BY <1>10, TypeFacts DEF Reap, ReapStale, ReapPinned, Reaping, Return, NoOp, Op
  <2> QED
    BY <1>1, <2>1
<1>11. CASE AdmitNew \/ AdmitKnown \/ EvictOne \/ EvictNone \/ ForceEvictPinned
  <2>1. op'.phase # "return"
    BY <1>11, TypeFacts DEF AdmitNew, AdmitKnown, EvictOne, EvictNone, ForceEvictPinned,
                            AfterEviction, Op
  <2> QED
    BY <1>1, <2>1
<1>12. CASE Score
  <2>1. Scored(op.sid) /\ op.sid \in Sessions
    BY <1>12, ScoredByScore
  <2> QED
    BY <1>5, <2>1
<1> QED
  BY <1>2, <1>3, <1>4, <1>7, <1>8, <1>9, <1>10, <1>11, <1>12 DEF Next, UpdateStep, ContinueUpdate

(* The inductive invariant: the type and the four properties, of which     *)
(* UpdatedSessionStays is what makes the others inductive (the scored      *)
(* session is the one in the table).                                       *)
Inv ==
  /\ TypeOK
  /\ UpdatedSessionStays
  /\ TombstonesBounded
  /\ TombstoneAgreement
  /\ AnswerAgreement

LEMMA InvInit == Init => Inv
<1> SUFFICES ASSUME Init PROVE Inv
  OBVIOUS
<1>1. TypeOK
  BY TypeInit
<1>2. op.phase = "idle"
  BY RecordTypes DEF Init, TrackerInit
<1>3. terminatedIds = << >> /\ Len(<< >>) = 0 /\ DOMAIN << >> = {}
  BY DEF Init, TrackerInit
<1>4. TombstonesBounded
  BY <1>1, <1>3, TypeFacts DEF TombstonesBounded, IsInjective, Config
<1>5. TombstoneAgreement
  BY <1>3 DEF TombstoneAgreement, Tombstones, ToSet
<1> QED
  BY <1>1, <1>2, <1>4, <1>5 DEF Inv, UpdatedSessionStays, AnswerAgreement

LEMMA InvStep == Inv /\ [Next]_vars => Inv'
BY TypeStep, UpdatedSessionStep, TombstonesBoundedStep, TombstoneAgreementStep,
   AnswerAgreementStep DEF Inv

LEMMA Invariant == Spec => []Inv
BY InvInit, InvStep, PTL DEF Spec

(* No update() evicts the session it is scoring (_evict_one and            *)
(* _force_evict_pinned honour protect_id).                                 *)
THEOREM UpdatedSessionIsKept == Spec => []UpdatedSessionStays
<1>1. Inv => UpdatedSessionStays
  BY DEF Inv
<1> QED
  BY <1>1, Invariant, PTL

(* The tombstone store is duplicate-free and within its cap, across all of *)
(* _add_tombstone, the reapers and apply_config.                           *)
THEOREM TombstonesAreBounded == Spec => []TombstonesBounded
<1>1. Inv => TombstonesBounded
  BY DEF Inv
<1> QED
  BY <1>1, Invariant, PTL

(* The session table and the tombstones never disagree about a session.    *)
THEOREM TombstonesAgree == Spec => []TombstoneAgreement
<1>1. Inv => TombstoneAgreement
  BY DEF Inv
<1> QED
  BY <1>1, Invariant, PTL

(* update() answers tier 3 exactly for terminated sessions.                *)
THEOREM AnswersAgree == Spec => []AnswerAgreement
<1>1. Inv => AnswerAgreement
  BY DEF Inv
<1> QED
  BY <1>1, Invariant, PTL

-----------------------------------------------------------------------------
(* Terminations stick.  Past the hard ceiling a session is evicted without *)
(* a tombstone, so the argument needs that the ceiling is never reached    *)
(* (no lineage), or that every terminated session in the table still has   *)
(* its tombstone (the store has room for all sessions).                    *)

CeilingNeedsLineage == op.phase = "ceiling" => LineageWired

AllTombstoned == \A s \in Live : sessions[s].terminated => s \in Tombstones

RoomForAll == \A c \in Configs : c.maxTerminated >= Cardinality(Sessions)

(* A duplicate-free store with as many entries as there are sessions holds *)
(* them all.                                                               *)
LEMMA FullStore ==
  ASSUME NEW q \in Seq(Sessions), IsInjective(q), Len(q) >= Cardinality(Sessions)
  PROVE  ToSet(q) = Sessions
<1>0. Len(q) \in Nat /\ DOMAIN q = 1 .. Len(q) /\ q \in [1 .. Len(q) -> Sessions]
  BY LenProperties
<1>1. q \in Injection(1 .. Len(q), Sessions)
  BY <1>0 DEF IsInjective, Injection
<1>2. /\ Cardinality(1 .. Len(q)) <= Cardinality(Sessions)
      /\ Cardinality(1 .. Len(q)) = Cardinality(Sessions) => q \in Surjection(1 .. Len(q), Sessions)
  BY <1>1, SessionsAssumption, FS_Injection
<1>3. Cardinality(1 .. Len(q)) = Len(q)
  <2>1. Cardinality(1 .. Len(q)) = IF 1 > Len(q) THEN 0 ELSE Len(q) - 1 + 1
    BY <1>0, FS_Interval
  <2> QED
    BY <1>0, <2>1
<1>4. Cardinality(Sessions) \in Nat
  BY SessionsAssumption, FS_CardinalityType
<1>5. q \in Surjection(1 .. Len(q), Sessions)
  BY <1>0, <1>2, <1>3, <1>4
<1> QED
  BY <1>0, <1>5 DEF Surjection, ToSet

LEMMA CeilingNeedsLineageStep ==
  ASSUME TypeOK, CeilingNeedsLineage, [Next]_vars
  PROVE  CeilingNeedsLineage'
<1> USE DEF CeilingNeedsLineage
<1>1. CASE op' = op
  BY <1>1
<1>2. CASE op'.phase # "ceiling"
  BY <1>2
<1>3. CASE TimePasses \/ LineageStep \/ OperatorStep \/ UNCHANGED vars
  BY <1>1, <1>3 DEF TimePasses, LineageStep, OperatorStep, TerminateSession, Reset,
                    ForceReset, Clear, ApplyConfig, vars, trackerVars
<1>4. CASE ReapStale \/ ReapPinned \/ Reap \/ AdmitNew \/ AdmitKnown \/ ForceEvictPinned
  <2>1. op'.phase # "ceiling"
    BY <1>4, TypeFacts DEF ReapStale, ReapPinned, Reap, Reaping, AdmitNew, AdmitKnown,
                           ForceEvictPinned, Op
  <2> QED
    BY <1>2, <2>1
<1>5. CASE AdmitTombstoned \/ AdmitRateLimited \/ ScoreTerminated \/ Score \/ Return
  <2>1. op'.phase \in {"return", "idle"}
    BY <1>5, AnswerPhase, RecordTypes DEF AdmitTombstoned, AdmitRateLimited,
                                          ScoreTerminated, Score, Return
  <2> QED
    BY <1>2, <2>1
<1>6. ASSUME NEW s \in Sessions, NEW q \in Scans, BeginUpdate(s, q)
      PROVE  CeilingNeedsLineage'
  BY <1>6 DEF BeginUpdate, NoOp
<1>7. CASE EvictOne \/ EvictNone
  BY <1>7, TypeFacts DEF EvictOne, EvictNone, AfterEviction, Op
<1> QED
  BY <1>3, <1>4, <1>5, <1>6, <1>7 DEF Next, UpdateStep, ContinueUpdate

(* With room for all, no tombstone is ever pushed out.                     *)
LEMMA AllTombstonedStep ==
  ASSUME RoomForAll, Inv, AllTombstoned, [Next]_vars
  PROVE  AllTombstoned'
<1> USE DEF AllTombstoned, Live, Tombstones
<1>0. /\ TypeOK
      /\ UpdatedSessionStays
      /\ IsInjective(terminatedIds)
      /\ \A s \in Sessions : sessions[s] \in SessionState
  BY TypeFacts DEF Inv, TombstonesBounded
<1>a. ASSUME NEW s \in Sessions
      PROVE  /\ ToSet(terminatedIds) \subseteq ToSet(AddTombstone(terminatedIds, s))
             /\ ToSet(terminatedIds) \subseteq ToSet(KeepTombstone(terminatedIds, s))
             /\ s \in ToSet(AddTombstone(terminatedIds, s))
  <2>1. cfg.maxTerminated >= Cardinality(Sessions)
    BY <1>0, TypeFacts DEF RoomForAll
  <2>2. ToSet(terminatedIds) \subseteq Sessions
    BY <1>0, TypeFacts, ElementOfSeq, LenProperties DEF ToSet
  <2> DEFINE a == AddTombstone(terminatedIds, s)
             k == KeepTombstone(terminatedIds, s)
  <2>3. /\ a \in Seq(Sessions) /\ IsInjective(a) /\ s \in ToSet(a)
        /\ ToSet(terminatedIds) \subseteq ToSet(a) \/ Len(a) = cfg.maxTerminated
    BY <1>0, TypeFacts, AddTombstoneProperties
  <2>4. /\ k \in Seq(Sessions) /\ IsInjective(k)
        /\ ToSet(terminatedIds) \subseteq ToSet(k) \/ Len(k) = cfg.maxTerminated
    BY <1>0, TypeFacts, KeepTombstoneProperties
  <2> HIDE DEF a, k
  <2>5. Len(a) = cfg.maxTerminated => ToSet(a) = Sessions
    BY <2>1, <2>3, FullStore
  <2>6. Len(k) = cfg.maxTerminated => ToSet(k) = Sessions
    BY <2>1, <2>4, FullStore
  <2>7. ToSet(terminatedIds) \subseteq ToSet(a) /\ ToSet(terminatedIds) \subseteq ToSet(k)
    BY <2>2, <2>3, <2>4, <2>5, <2>6
  <2> QED
    BY <2>3, <2>7 DEF a, k
<1>1. CASE Quiet
  BY <1>1 DEF Quiet
<1>2. ASSUME NEW s \in Sessions, Retire(s) PROVE AllTombstoned'
  BY <1>0, <1>2, <1>a, TypeFacts DEF Retire, Absent
<1>3. CASE AdmitNew
  BY <1>0, <1>3, TypeFacts DEF AdmitNew, Fresh, Absent
<1>4. CASE ForceEvictPinned
  BY <1>0, <1>4, TypeFacts DEF ForceEvictPinned, Absent, LeastRecent
<1>5. ASSUME op.sid \in Sessions, Scored(op.sid) PROVE AllTombstoned'
  BY <1>0, <1>5, <1>a, TypeFacts DEF Scored
<1>6. ASSUME NEW s \in Sessions, TerminateSession(s) PROVE AllTombstoned'
  <2>1. \A r \in Sessions : /\ sessions'[r].live <=> sessions[r].live
                            /\ r # s => sessions'[r].terminated = sessions[r].terminated
    BY <1>0, <1>6, TypeFacts DEF TerminateSession, SessionState
  <2> QED
    BY <1>6, <1>a, <2>1 DEF TerminateSession
<1>7. ASSUME NEW s \in Sessions, Reset(s) PROVE AllTombstoned'
  BY <1>0, <1>7, TypeFacts DEF Reset, Absent
<1>8. ASSUME NEW s \in Sessions, ForceReset(s) PROVE AllTombstoned'
  <2>1. ToSet(terminatedIds) \ {s} \subseteq ToSet(terminatedIds')
    BY <1>0, <1>8, TypeFacts, WithoutTombstoneProperties DEF ForceReset
  <2> QED
    BY <1>0, <1>8, <2>1, TypeFacts DEF ForceReset, Absent
<1>9. CASE Clear
  BY <1>9 DEF Clear, Absent
<1>10. ASSUME NEW c \in Configs, ApplyConfig(c) PROVE AllTombstoned'
  <2>1. c.maxTerminated \in Nat \ {0} /\ c.maxTerminated >= Cardinality(Sessions)
    BY ConfigsAssumption DEF Config, RoomForAll
  <2>2. ToSet(terminatedIds) \subseteq Sessions
    BY <1>0, TypeFacts, ElementOfSeq, LenProperties DEF ToSet
  <2>3. LET r == EnforceTombstoneCap(terminatedIds, c.maxTerminated) IN
         /\ r \in Seq(Sessions)
         /\ IsInjective(r)
         /\ ToSet(terminatedIds) # ToSet(r) => Len(r) = c.maxTerminated
    BY <1>0, <2>1, TypeFacts, EnforceTombstoneCapProperties
  <2>4. ToSet(terminatedIds) \subseteq ToSet(terminatedIds')
    BY <1>10, <2>1, <2>2, <2>3, FullStore DEF ApplyConfig
  <2> QED
    BY <1>10, <2>4 DEF ApplyConfig
<1> QED
  BY <1>0, <1>1, <1>2, <1>3, <1>4, <1>5, <1>6, <1>7, <1>8, <1>9, <1>10, StepEffects
     DEF OperatorStep

(* One session, one step: the cases in which its termination is forgotten. *)
LEMMA StickyStep ==
  ASSUME Inv, CeilingNeedsLineage, ~LineageWired \/ AllTombstoned, [Next]_vars,
         NEW s \in Sessions, IsTerminated(s), ~IsTerminated(s)'
  PROVE  \/ ForceReset(s)
         \/ Reset(s) /\ s \notin Tombstones
         \/ Clear
         \/ /\ s \in Tombstones
            /\ Len(terminatedIds') = cfg'.maxTerminated
<1> USE DEF IsTerminated, Live, Tombstones
<1>0. TypeOK /\ UpdatedSessionStays
  BY DEF Inv
<1>1. CASE Quiet
  BY <1>1 DEF Quiet
<1>2. ASSUME NEW r \in Sessions, Retire(r)
      PROVE  s \in Tombstones /\ Len(terminatedIds') = cfg'.maxTerminated
  <2>1. sessions' = [sessions EXCEPT ![r] = Absent] /\ cfg' = cfg
    BY <1>2 DEF Retire
  <2>2. r = s => s \in ToSet(terminatedIds')
    BY <1>0, <1>2, TypeFacts, KeepTombstoneProperties DEF Retire
  <2>3. r # s
    BY <1>0, <2>1, <2>2, TypeFacts DEF Absent
  <2>4. s \in Tombstones /\ s \notin ToSet(terminatedIds')
    BY <1>0, <2>1, <2>3, TypeFacts
  <2> QED
    BY <1>0, <1>2, <2>4, TypeFacts, KeepTombstoneProperties DEF Retire
<1>3. CASE AdmitNew
  <2>1. s # op.sid
    BY <1>3 DEF AdmitNew
  <2> QED
    BY <1>0, <1>3, <2>1, TypeFacts DEF AdmitNew
<1>4. CASE ForceEvictPinned
  <2>1. AllTombstoned
    BY <1>4 DEF ForceEvictPinned, CeilingNeedsLineage
  <2> QED
    BY <1>0, <1>4, <2>1, TypeFacts DEF ForceEvictPinned, AllTombstoned, Absent
<1>5. ASSUME op.sid \in Sessions, Scored(op.sid)
      PROVE  s \in Tombstones /\ Len(terminatedIds') = cfg'.maxTerminated
  <2>1. s # op.sid /\ cfg' = cfg
    BY <1>5 DEF Scored
  <2>2. s \in Tombstones /\ s \notin ToSet(terminatedIds')
    BY <1>0, <1>5, <2>1, TypeFacts DEF Scored
  <2>3. terminatedIds' = AddTombstone(terminatedIds, op.sid)
    BY <1>5, <2>2 DEF Scored
  <2> QED
    BY <1>0, <1>5, <2>1, <2>2, <2>3, TypeFacts, AddTombstoneProperties
<1>6. ASSUME NEW r \in Sessions, TerminateSession(r)
      PROVE  s \in Tombstones /\ Len(terminatedIds') = cfg'.maxTerminated
  <2>0. sessions[s] \in SessionState /\ sessions[r] \in SessionState
    BY <1>0, TypeFacts
  <2>1. /\ sessions'[s].live <=> sessions[s].live
        /\ r # s => sessions'[s].terminated = sessions[s].terminated
        /\ r = s => sessions'[s].terminated = sessions[s].live
    BY <1>0, <1>6, <2>0, TypeFacts DEF TerminateSession, SessionState
  <2>2. terminatedIds' = AddTombstone(terminatedIds, r) /\ cfg' = cfg
    BY <1>6 DEF TerminateSession
  <2>3. r \in ToSet(terminatedIds')
    BY <1>0, <2>2, TypeFacts, AddTombstoneProperties
  <2>4. s \in Tombstones /\ s \notin ToSet(terminatedIds')
    BY <2>1, <2>3
  <2> QED
    BY <1>0, <2>2, <2>4, TypeFacts, AddTombstoneProperties
<1>7. ASSUME NEW r \in Sessions, Reset(r) PROVE Reset(s) /\ s \notin Tombstones
  <2>1. r = s
    BY <1>0, <1>7, TypeFacts DEF Reset
  <2> QED
    BY <1>0, <1>7, <2>1, TypeFacts DEF Reset, Absent
<1>8. ASSUME NEW r \in Sessions, ForceReset(r) PROVE ForceReset(s)
  <2>1. ToSet(terminatedIds) \ {r} \subseteq ToSet(terminatedIds')
    BY <1>0, <1>8, TypeFacts, WithoutTombstoneProperties DEF ForceReset
  <2>2. r = s
    BY <1>0, <1>8, <2>1, TypeFacts DEF ForceReset
  <2> QED
    BY <1>8, <2>2
<1>9. ASSUME NEW c \in Configs, ApplyConfig(c)
      PROVE  s \in Tombstones /\ Len(terminatedIds') = cfg'.maxTerminated
  <2>1. c.maxTerminated \in Nat \ {0}
    BY ConfigsAssumption DEF Config
  <2>2. s \in Tombstones /\ s \notin ToSet(terminatedIds')
    BY <1>9 DEF ApplyConfig
  <2>3. ToSet(terminatedIds) # ToSet(EnforceTombstoneCap(terminatedIds, c.maxTerminated))
          => Len(EnforceTombstoneCap(terminatedIds, c.maxTerminated)) = c.maxTerminated
    BY <1>0, <2>1, TypeFacts, EnforceTombstoneCapProperties
  <2>4. /\ terminatedIds' = EnforceTombstoneCap(terminatedIds, c.maxTerminated)
        /\ cfg' = c
    BY <1>9 DEF ApplyConfig
  <2> QED
    BY <2>2, <2>3, <2>4
<1> QED
  BY <1>0, <1>1, <1>2, <1>3, <1>4, <1>5, <1>6, <1>7, <1>8, <1>9, StepEffects DEF OperatorStep

(* Without lineage wired, whatever the caps: no TTL, eviction, reload or   *)
(* update forgets a termination, except that a full FIFO drops the         *)
(* tombstone of a session that is no longer in the table.                  *)
THEOREM TerminationSticksAlone ==
  ASSUME ~LineageWired
  PROVE  Spec => TerminationSticky
<1>1. Init => CeilingNeedsLineage
  BY RecordTypes DEF Init, TrackerInit, CeilingNeedsLineage
<1>2. Inv /\ CeilingNeedsLineage /\ [Next]_vars => CeilingNeedsLineage'
  BY CeilingNeedsLineageStep DEF Inv
<1>3. Inv /\ CeilingNeedsLineage /\ [Next]_vars =>
        [\A s \in Sessions :
           (IsTerminated(s) /\ ~IsTerminated(s)') =>
              \/ ForceReset(s)
              \/ Reset(s) /\ s \notin Tombstones
              \/ Clear
              \/ /\ s \in Tombstones
                 /\ Len(terminatedIds') = cfg'.maxTerminated]_vars
  BY StickyStep
<1> QED
  BY <1>1, <1>2, <1>3, Invariant, PTL DEF Spec, TerminationSticky

(* With lineage wired, the same holds when the tombstone store has room    *)
(* for every session: the hard ceiling then evicts no terminated session   *)
(* that has no tombstone.                                                  *)
THEOREM TerminationSticksWithRoom ==
  ASSUME RoomForAll
  PROVE  Spec => TerminationSticky
<1>1. Init => CeilingNeedsLineage /\ AllTombstoned
  BY RecordTypes DEF Init, TrackerInit, CeilingNeedsLineage, AllTombstoned, Live, Absent
<1>2. Inv /\ CeilingNeedsLineage /\ AllTombstoned /\ [Next]_vars
        => CeilingNeedsLineage' /\ AllTombstoned'
  BY CeilingNeedsLineageStep, AllTombstonedStep DEF Inv
<1>3. Inv /\ CeilingNeedsLineage /\ AllTombstoned /\ [Next]_vars =>
        [\A s \in Sessions :
           (IsTerminated(s) /\ ~IsTerminated(s)') =>
              \/ ForceReset(s)
              \/ Reset(s) /\ s \notin Tombstones
              \/ Clear
              \/ /\ s \in Tombstones
                 /\ Len(terminatedIds') = cfg'.maxTerminated]_vars
  BY StickyStep
<1> QED
  BY <1>1, <1>2, <1>3, Invariant, PTL DEF Spec, TerminationSticky
-----------------------------------------------------------------------------
(* Who leaves the table, and what becomes of its edge.  Without a registry *)
(* there are no edges at all.                                              *)

EdgesNeedLineage == ~LineageWired => \A c \in Sessions : edges[c] = NoEdge

LEMMA FireOnTerminateReleases ==
  ASSUME EdgesNeedLineage, NEW gone, FireOnTerminate(gone)
  PROVE  /\ EdgesNeedLineage'
         /\ \A s \in Sessions \cap gone : edges'[s] = NoEdge
BY DEF EdgesNeedLineage, FireOnTerminate

LEMMA EdgesNeedLineageStep ==
  ASSUME EdgesNeedLineage, [Next]_vars
  PROVE  EdgesNeedLineage'
<1>1. CASE edges' = edges
  BY <1>1 DEF EdgesNeedLineage
<1>2. CASE TimePasses \/ UNCHANGED vars
  BY <1>1, <1>2 DEF TimePasses, Tick, vars, lineageVars
<1>3. CASE LineageStep
  BY <1>3 DEF LineageStep, EdgesNeedLineage
<1>4. CASE ReapStale \/ ReapPinned \/ AdmitTombstoned \/ AdmitRateLimited \/ AdmitNew
           \/ AdmitKnown \/ EvictNone \/ ScoreTerminated \/ Return
  BY <1>1, <1>4 DEF ReapStale, ReapPinned, AdmitTombstoned, AdmitRateLimited, AdmitNew,
                    AdmitKnown, EvictNone, ScoreTerminated, Return, lineageVars
<1>5. CASE Reap \/ EvictOne \/ ForceEvictPinned \/ Score
  BY <1>5, FireOnTerminateReleases DEF Reap, EvictOne, ForceEvictPinned, Score
<1>6. ASSUME NEW s \in Sessions, NEW q \in Scans, BeginUpdate(s, q) PROVE EdgesNeedLineage'
  BY <1>1, <1>6 DEF BeginUpdate, lineageVars
<1>7. ASSUME NEW s \in Sessions, TerminateSession(s) \/ Reset(s) \/ ForceReset(s)
      PROVE  EdgesNeedLineage'
  BY <1>7, FireOnTerminateReleases DEF TerminateSession, Reset, ForceReset
<1>8. CASE Clear
  BY <1>8, FireOnTerminateReleases DEF Clear
<1>9. ASSUME NEW c \in Configs, ApplyConfig(c) PROVE EdgesNeedLineage'
  BY <1>1, <1>9 DEF ApplyConfig, lineageVars
<1> QED
  BY <1>2, <1>3, <1>4, <1>5, <1>6, <1>7, <1>8, <1>9
     DEF Next, UpdateStep, ContinueUpdate, OperatorStep

(* One session, one step: the actions by which it leaves the table or      *)
(* becomes terminated.                                                     *)
Gone(s) == s \in Live /\ (s \notin Live' \/ sessions[s].terminated # sessions'[s].terminated)

LEMMA GoneBy ==
  ASSUME Inv, [Next]_vars, NEW s \in Sessions, Gone(s)
  PROVE  \/ Reap /\ s = Head(ttlDeque)[2]
         \/ EvictOne /\ s \in Evictable /\ FireOnTerminate({s})
         \/ ForceEvictPinned /\ FireOnTerminate({s})
         \/ Score /\ s = op.sid /\ s \in Live' /\ FireOnTerminate({s})
         \/ TerminateSession(s) /\ s \in Live'
         \/ Reset(s) \/ ForceReset(s) \/ Clear
<1> USE DEF Gone, Live
<1>0. /\ TypeOK /\ UpdatedSessionStays
      /\ sessions \in [Sessions -> SessionState]
      /\ sessions[s].live /\ ~Absent.live
  BY TypeFacts DEF Inv, Absent
<1>1. sessions' # sessions
  OBVIOUS
<1>2. ~(UNCHANGED vars) /\ ~TimePasses /\ ~LineageStep
  BY <1>1 DEF vars, trackerVars, TimePasses, LineageStep
<1>3. ~ReapStale /\ ~ReapPinned /\ ~AdmitTombstoned /\ ~AdmitRateLimited /\ ~AdmitKnown
      /\ ~EvictNone /\ ~ScoreTerminated /\ ~Return
  BY <1>1 DEF ReapStale, ReapPinned, AdmitTombstoned, AdmitRateLimited, AdmitKnown, EvictNone,
              ScoreTerminated, Return
<1>4. \A r \in Sessions, q \in Scans : ~BeginUpdate(r, q)
  BY <1>1 DEF BeginUpdate
<1>5. \A c \in Configs : ~ApplyConfig(c)
  BY <1>1 DEF ApplyConfig
<1>6. ~AdmitNew
  <2>1. SUFFICES ASSUME AdmitNew PROVE FALSE
    OBVIOUS
  <2>2. op.sid \notin Live /\ sessions' = [sessions EXCEPT ![op.sid] = Fresh(op.at)]
    BY <2>1 DEF AdmitNew
  <2>3. s # op.sid
    BY <2>2
  <2> QED
    BY <1>0, <2>2, <2>3
<1>7. ASSUME Reap PROVE s = Head(ttlDeque)[2]
  BY <1>0, <1>7 DEF Reap
<1>8. ASSUME EvictOne PROVE s \in Evictable /\ FireOnTerminate({s})
  <2>1. PICK r \in EvictionVictims : /\ sessions' = [sessions EXCEPT ![r] = Absent]
                                     /\ FireOnTerminate({r})
    BY <1>8 DEF EvictOne
  <2>2. r = s
    BY <1>0, <2>1
  <2>3. r \in Evictable
    BY <2>1 DEF EvictionVictims, LeastRecent
  <2> QED
    BY <2>1, <2>2, <2>3
<1>9. ASSUME ForceEvictPinned PROVE FireOnTerminate({s})
  <2>1. PICK r \in LeastRecent(Live \ {op.sid}) :
          sessions' = [sessions EXCEPT ![r] = Absent] /\ FireOnTerminate({r})
    BY <1>9 DEF ForceEvictPinned
  <2>2. r = s
    BY <1>0, <2>1
  <2> QED
    BY <2>1, <2>2
<1>10. ASSUME Score PROVE s = op.sid /\ s \in Live' /\ FireOnTerminate({s})
  <2> DEFINE new(d) == LET score == d + ScanWeight(op.scan)
                           rolling == NewRolling(sessions[op.sid])
                       IN  [live |-> TRUE, score |-> score, last |-> op.at, rolling |-> rolling,
                            terminated |-> ScoredTier(score, rolling) = 3]
  <2>1. PICK d \in Decayed(sessions[op.sid]) :
          /\ sessions' = [sessions EXCEPT ![op.sid] = new(d)]
          /\ FireOnTerminate(IF new(d).terminated THEN {op.sid} ELSE {})
    BY <1>10 DEF Score
  <2>2. new(d).live
    OBVIOUS
  <2> HIDE DEF new
  <2>3. s = op.sid
    BY <1>0, <2>1
  <2>4. sessions'[s] = new(d) /\ s \in Live'
    BY <1>0, <2>1, <2>2, <2>3
  <2>5. new(d).terminated # sessions[s].terminated /\ ~sessions[s].terminated
    BY <1>10, <2>3, <2>4 DEF Score
  <2>6. sessions[s].terminated \in BOOLEAN /\ new(d).terminated \in BOOLEAN
    BY <1>0 DEF new, SessionState
  <2> QED
    BY <2>1, <2>3, <2>4, <2>5, <2>6
<1>11. ASSUME NEW r \in Sessions, TerminateSession(r) PROVE r = s /\ s \in Live'
  <2>1. sessions[r] \in SessionState /\ sessions' = [sessions EXCEPT ![r].terminated = sessions[r].live]
    BY <1>0, <1>11 DEF TerminateSession
  <2>2. sessions'[r].live = sessions[r].live
    BY <1>0, <2>1 DEF SessionState
  <2> QED
    BY <1>0, <2>1, <2>2
<1>12. ASSUME NEW r \in Sessions, Reset(r) \/ ForceReset(r) PROVE r = s
  BY <1>0, <1>12 DEF Reset, ForceReset
<1> QED
  BY <1>2, <1>3, <1>4, <1>5, <1>6, <1>7, <1>8, <1>9, <1>10, <1>11, <1>12
     DEF Next, UpdateStep, ContinueUpdate, OperatorStep

(* Whatever the TTLs, caps and registrations, a session that a live child  *)
(* refers to leaves the table only by an operator's reset or past the hard *)
(* ceiling (is_pinned() in the reaper and in _evict_one).                  *)
THEOREM PinsKeepSessions == Spec => PinKeepsSession
<1>1. ASSUME Inv, Next, NEW s \in Live, Pinned(s), s \notin Live'
      PROVE  Reset(s) \/ ForceReset(s) \/ Clear \/ ForceEvictPinned
  <2>1. s \in Sessions /\ Gone(s)
    BY <1>1 DEF Gone, Live
  <2> QED
    BY <1>1, <2>1, GoneBy DEF Reap, Evictable
<1>2. Inv /\ [Next]_vars =>
        [\A s \in Live : (Pinned(s) /\ s \notin Live') =>
           Reset(s) \/ ForceReset(s) \/ Clear \/ ForceEvictPinned]_vars
  BY <1>1
<1> QED
  BY <1>2, Invariant, PTL DEF Spec, PinKeepsSession

(* Whatever takes a session out of the table or terminates it, its parent  *)
(* is no longer pinned by it when the lock is released (on_terminate).     *)
THEOREM GoneReleaseTheirParents == Spec => GoneReleasesParent
<1>1. Init => EdgesNeedLineage
  BY DEF Init, LineageInit, EdgesNeedLineage
<1>2. EdgesNeedLineage /\ [Next]_vars => EdgesNeedLineage'
  BY EdgesNeedLineageStep
<1>3. ASSUME Inv, EdgesNeedLineage, Next, NEW s \in Sessions, Gone(s)
      PROVE  edges'[s] = NoEdge
  <2>1. ASSUME NEW gone, FireOnTerminate(gone), s \in gone PROVE edges'[s] = NoEdge
    BY <1>3, <2>1, FireOnTerminateReleases
  <2>2. s \in Live
    BY <1>3 DEF Gone
  <2>3. Reap /\ s = Head(ttlDeque)[2] => FireOnTerminate({s})
    BY DEF Reap
  <2>4. TerminateSession(s) \/ Reset(s) => FireOnTerminate({s})
    BY DEF TerminateSession, Reset
  <2>5. ForceReset(s) => FireOnTerminate({s} \cap Live)
    BY DEF ForceReset
  <2>6. Clear => FireOnTerminate(Live)
    BY DEF Clear
  <2>7. s \in {s} /\ s \in {s} \cap Live
    BY <2>2
  <2> QED
    BY <1>3, <2>1, <2>2, <2>3, <2>4, <2>5, <2>6, <2>7, GoneBy
<1>4. Inv /\ EdgesNeedLineage /\ [Next]_vars =>
        [\A s \in Sessions :
           (s \in Live /\ (s \notin Live' \/ sessions[s].terminated # sessions'[s].terminated))
             => edges'[s] = NoEdge]_vars
  BY <1>3 DEF Gone
<1> QED
  BY <1>1, <1>2, <1>4, Invariant, PTL DEF Spec, GoneReleasesParent
=============================================================================
