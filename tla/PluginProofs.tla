----------------------------- MODULE PluginProofs -----------------------------
(***************************************************************************)
(* Proofs about what is kept beside the decisions: the markers of          *)
(* ColdStart and the waivers of DegradedApprovals, for any threads,        *)
(* sessions and calls, and any size of the tables; the notice IngestScan   *)
(* puts on a tool result, for any size of the windows, the ceiling and the *)
(* result; and, by the same lemmas about sliding windows, the delegation   *)
(* budget of the guard and the rules, caps and cooldowns of the alert      *)
(* manager, for any settings a reload may bring.                           *)
(***************************************************************************)
EXTENDS ColdStart, DegradedApprovals, IngestScan, SpawnBudget, AlertManager, ListTheorems

-----------------------------------------------------------------------------
(* Sequences: a table of claims is a sequence without repetitions.         *)

(* Element by element, RemoveAt() closes the gap it leaves.                *)
LEMMA RemoveAtProperties ==
  ASSUME NEW S, NEW q \in Seq(S), NEW i \in 1 .. Len(q)
  PROVE  /\ RemoveAt(q, i) \in Seq(S)
         /\ Len(RemoveAt(q, i)) = Len(q) - 1
         /\ \A j \in 1 .. Len(q) - 1 :
              RemoveAt(q, i)[j] = IF j < i THEN q[j] ELSE q[j + 1]
<1> DEFINE a == SubSeq(q, 1, i - 1)
           b == SubSeq(q, i + 1, Len(q))
<1>0. Len(q) \in Nat /\ i \in Nat /\ i - 1 \in Int /\ i + 1 \in Int
  BY LenProperties
<1>1. \A k \in 1 .. Len(q) : q[k] \in S
  BY ElementOfSeq
<1>2. /\ a \in Seq(S)
      /\ Len(a) = i - 1
      /\ \A k \in 1 .. i - 1 : a[k] = q[k]
  <2>1. \A k \in 1 .. i - 1 : q[k] \in S
    BY <1>0, <1>1
  <2>2. /\ SubSeq(q, 1, i - 1) \in Seq(S)
        /\ Len(SubSeq(q, 1, i - 1)) = IF 1 <= i - 1 THEN i - 1 - 1 + 1 ELSE 0
        /\ \A k \in 1 .. (i - 1) - 1 + 1 : SubSeq(q, 1, i - 1)[k] = q[1 + k - 1]
    BY <1>0, <2>1, SubSeqProperties
  <2> QED
    BY <1>0, <2>2
<1>3. /\ b \in Seq(S)
      /\ Len(b) = Len(q) - i
      /\ \A k \in 1 .. Len(q) - i : b[k] = q[i + k]
  <2>1. \A k \in i + 1 .. Len(q) : q[k] \in S
    BY <1>0, <1>1
  <2>2. /\ SubSeq(q, i + 1, Len(q)) \in Seq(S)
        /\ Len(SubSeq(q, i + 1, Len(q)))
             = IF i + 1 <= Len(q) THEN Len(q) - (i + 1) + 1 ELSE 0
        /\ \A k \in 1 .. Len(q) - (i + 1) + 1 :
             SubSeq(q, i + 1, Len(q))[k] = q[(i + 1) + k - 1]
    BY <1>0, <2>1, SubSeqProperties
  <2> QED
    BY <1>0, <2>2
<1>4. /\ a \o b \in Seq(S)
      /\ Len(a \o b) = Len(a) + Len(b)
      /\ \A k \in 1 .. Len(a) + Len(b) :
           (a \o b)[k] = IF k <= Len(a) THEN a[k] ELSE b[k - Len(a)]
  BY <1>2, <1>3, ConcatProperties
<1> HIDE DEF a, b
<1>5. /\ a \o b \in Seq(S)
      /\ Len(a \o b) = Len(q) - 1
      /\ \A j \in 1 .. Len(q) - 1 : (a \o b)[j] = IF j < i THEN q[j] ELSE q[j + 1]
  <2>1. ASSUME NEW j \in 1 .. Len(q) - 1
        PROVE  (a \o b)[j] = IF j < i THEN q[j] ELSE q[j + 1]
    <3>1. CASE j < i
      BY <1>0, <1>2, <1>3, <1>4, <3>1
    <3>2. CASE ~(j < i)
      <4>1. j - Len(a) \in 1 .. Len(q) - i /\ i + (j - Len(a)) = j + 1
        BY <1>0, <1>2, <3>2
      <4>2. j \in 1 .. Len(a) + Len(b) /\ ~(j <= Len(a))
        BY <1>0, <1>2, <1>3, <3>2
      <4>3. (a \o b)[j] = b[j - Len(a)]
        BY <1>4, <4>2
      <4>4. b[j - Len(a)] = q[i + (j - Len(a))]
        BY <1>3, <4>1
      <4> QED
        BY <3>2, <4>1, <4>3, <4>4
    <3> QED
      BY <3>1, <3>2
  <2> QED
    BY <1>0, <1>2, <1>3, <1>4, <2>1
<1> QED
  BY <1>5 DEF RemoveAt, a, b


LEMMA PopProperties ==
  ASSUME NEW S, NEW q \in Seq(S), IsInjective(q), NEW key
  PROVE  /\ Pop(q, key) \in Seq(S) /\ IsInjective(Pop(q, key))
         /\ ToSet(Pop(q, key)) = ToSet(q) \ {key}
<1>0. Len(q) \in Nat /\ DOMAIN q = 1 .. Len(q)
  BY LenProperties
<1>1. CASE key \notin ToSet(q)
  BY <1>1 DEF Pop
<1>2. CASE key \in ToSet(q)
  <2> DEFINE i == CHOOSE i \in DOMAIN q : q[i] = key
             r == RemoveAt(q, i)
  <2>1. i \in 1 .. Len(q) /\ q[i] = key /\ Pop(q, key) = r
    BY <1>0, <1>2 DEF ToSet, Pop
  <2>2. /\ r \in Seq(S)
        /\ Len(r) = Len(q) - 1
        /\ \A j \in 1 .. Len(q) - 1 : r[j] = IF j < i THEN q[j] ELSE q[j + 1]
    BY <2>1, RemoveAtProperties
  <2>3. DOMAIN r = 1 .. Len(q) - 1
    BY <2>2, LenProperties
  <2>4. \A j, k \in 1 .. Len(q) : q[j] = q[k] => j = k
    BY <1>0 DEF IsInjective
  <2> HIDE DEF i, r
  <2>5. ASSUME NEW j \in 1 .. Len(q) - 1 PROVE r[j] \in ToSet(q) /\ r[j] # key
    <3>1. PICK k \in 1 .. Len(q) : r[j] = q[k] /\ k # i
      <4>1. CASE j < i
        BY <1>0, <2>1, <2>2, <4>1
      <4>2. CASE ~(j < i)
        <5>1. j + 1 \in 1 .. Len(q) /\ j + 1 # i
          BY <1>0, <2>1, <4>2
        <5> QED
          BY <2>2, <4>2, <5>1
      <4> QED
        BY <4>1, <4>2
    <3> QED
      BY <1>0, <2>1, <2>4, <3>1 DEF ToSet
  <2>6. ASSUME NEW k \in 1 .. Len(q), q[k] # key
        PROVE  \E j \in 1 .. Len(q) - 1 : r[j] = q[k]
    <3>1. CASE k < i
      BY <1>0, <2>1, <2>2, <3>1
    <3>2. CASE k > i
      <4>1. k - 1 \in 1 .. Len(q) - 1 /\ ~(k - 1 < i) /\ (k - 1) + 1 = k
        BY <1>0, <2>1, <3>2
      <4> QED
        BY <2>2, <4>1
    <3> QED
      BY <2>1, <2>6, <3>1, <3>2
  <2>7. ToSet(r) = ToSet(q) \ {key}
    <3>1. ToSet(r) \subseteq ToSet(q) \ {key}
      BY <2>3, <2>5 DEF ToSet
    <3>2. ToSet(q) \ {key} \subseteq ToSet(r)
      BY <1>0, <2>3, <2>6 DEF ToSet
    <3> QED
      BY <3>1, <3>2
  <2>8. ASSUME NEW j \in 1 .. Len(q) - 1, NEW k \in 1 .. Len(q) - 1, r[j] = r[k]
        PROVE  j = k
    BY <1>0, <2>1, <2>2, <2>4, <2>8
  <2> QED
    BY <2>1, <2>2, <2>3, <2>7, <2>8 DEF IsInjective
<1> QED
  BY <1>1, <1>2

(* Making room for a key that is not there.                                *)
LEMMA AppendProperty ==
  ASSUME NEW S, NEW q \in Seq(S), IsInjective(q), NEW key \in S \ ToSet(q)
  PROVE  /\ Append(q, key) \in Seq(S) /\ IsInjective(Append(q, key))
         /\ ToSet(Append(q, key)) = ToSet(q) \cup {key}
<1> DEFINE r == Append(q, key)
<1>0. Len(q) \in Nat /\ DOMAIN q = 1 .. Len(q)
  BY LenProperties
<1>1. /\ r \in Seq(S) /\ Len(r) = Len(q) + 1
      /\ \A i \in 1 .. Len(q) : r[i] = q[i]
      /\ r[Len(q) + 1] = key
  BY AppendProperties
<1>2. DOMAIN r = 1 .. Len(q) + 1
  BY <1>1, LenProperties
<1> HIDE DEF r
<1>3. \A i \in 1 .. Len(q) + 1 : i \in 1 .. Len(q) \/ i = Len(q) + 1
  BY <1>0
<1>4. ToSet(r) = ToSet(q) \cup {key}
  <2>1. \A i \in 1 .. Len(q) : i \in 1 .. Len(q) + 1
    BY <1>0
  <2>2. Len(q) + 1 \in 1 .. Len(q) + 1
    BY <1>0
  <2> QED
    BY <1>0, <1>1, <1>2, <1>3, <2>1, <2>2 DEF ToSet
<1>5. IsInjective(r)
  BY <1>0, <1>1, <1>2, <1>3 DEF IsInjective, ToSet
<1> QED
  BY <1>1, <1>4, <1>5 DEF r

LEMMA TailProperty ==
  ASSUME NEW S, NEW q \in Seq(S), IsInjective(q), q # << >>
  PROVE  /\ Tail(q) \in Seq(S) /\ IsInjective(Tail(q))
         /\ Head(q) \in S
         /\ ToSet(Tail(q)) = ToSet(q) \ {Head(q)}
<1>0. Len(q) \in Nat /\ DOMAIN q = 1 .. Len(q) /\ Len(q) >= 1
  BY LenProperties, EmptySeq
<1>a. Head(q) = q[1]
  OBVIOUS
<1>1. /\ Tail(q) \in Seq(S) /\ Head(q) \in S /\ Head(q) = q[1]
      /\ Len(Tail(q)) = Len(q) - 1
      /\ \A i \in 1 .. Len(Tail(q)) : Tail(q)[i] = q[i + 1]
  BY <1>a, HeadTailProperties
<1>2. DOMAIN Tail(q) = 1 .. Len(q) - 1
  BY <1>1, LenProperties
<1>3. \A j, k \in 1 .. Len(q) : q[j] = q[k] => j = k
  BY <1>0 DEF IsInjective
<1>4. \A i \in 1 .. Len(q) - 1 : Tail(q)[i] \in ToSet(q) /\ Tail(q)[i] # Head(q)
  BY <1>0, <1>1, <1>3 DEF ToSet
<1>5. ASSUME NEW k \in 1 .. Len(q), q[k] # Head(q)
      PROVE  \E j \in 1 .. Len(q) - 1 : Tail(q)[j] = q[k]
  <2>1. k - 1 \in 1 .. Len(q) - 1 /\ (k - 1) + 1 = k
    BY <1>0, <1>1, <1>5
  <2> QED
    BY <1>1, <2>1
<1>6. ToSet(Tail(q)) = ToSet(q) \ {Head(q)}
  <2>1. ToSet(Tail(q)) \subseteq ToSet(q) \ {Head(q)}
    BY <1>2, <1>4 DEF ToSet
  <2>2. ToSet(q) \ {Head(q)} \subseteq ToSet(Tail(q))
    BY <1>0, <1>2, <1>5 DEF ToSet
  <2> QED
    BY <2>1, <2>2
<1>7. IsInjective(Tail(q))
  BY <1>0, <1>1, <1>2, <1>3 DEF IsInjective
<1> QED
  BY <1>1, <1>6, <1>7

-----------------------------------------------------------------------------
(* The invariant.                                                          *)

Places == {"idle", "branch", "note", "emitting", "releasing"}

TypeOK ==
  /\ coldInit \in {"pending", "done", "failed"}
  /\ records \in Seq([sid : ColdSessions, type : Types]) /\ IsInjective(records)
  /\ anonymous \subseteq Types
  /\ marker \in [ColdThreads -> [at : Places, key : Keys]]
  /\ rows \in [Keys -> Nat]
  /\ excused \subseteq Keys

Busy(t, k) == marker[t].at \in {"emitting", "releasing"} /\ marker[t].key = k

ClaimsAccounted == \A k \in Claimed : rows[k] > 0 \/ \E t \in ColdThreads : Busy(t, k)

(* A key whose claim was never evicted and whose writers were not deceived *)
(* has one call at a time, which holds the claim as long as it has no row; *)
(* once it has its row the claim is never given back.                      *)
OneCallEach ==
  \A k \in Keys \ excused :
    /\ \A t \in ColdThreads : Busy(t, k) => k \in Claimed /\ rows[k] = 0
    /\ \A t, u \in ColdThreads : Busy(t, k) /\ Busy(u, k) => t = u
    /\ rows[k] > 0 => k \in Claimed
    /\ rows[k] <= 1

IInv == TypeOK /\ ClaimsAccounted /\ OneCallEach

-----------------------------------------------------------------------------
LEMMA KeyTypes ==
  /\ Keys = [sid : ColdSessions \cup {Anon}, type : Types]
  /\ NoMarker \in [at : Places, key : Keys] /\ NoMarker.at = "idle"
<1>1. Keys = [sid : ColdSessions \cup {Anon}, type : Types]
  <2>1. \A k \in Keys : k \in [sid : ColdSessions \cup {Anon}, type : Types]
    BY DEF Keys
  <2>2. ASSUME NEW k \in [sid : ColdSessions \cup {Anon}, type : Types] PROVE k \in Keys
    <3>1. k = [sid |-> k.sid, type |-> k.type] /\ k.sid \in ColdSessions \cup {Anon} /\ k.type \in Types
      OBVIOUS
    <3> QED
      BY <3>1 DEF Keys
  <2> QED
    BY <2>1, <2>2
<1> QED
  BY <1>1 DEF NoMarker, Places, Types

LEMMA RecordsTypes ==
  ASSUME TypeOK
  PROVE  \A k \in ToSet(records) : k \in [sid : ColdSessions, type : Types] /\ k \in Keys
<1> DEFINE S == [sid : ColdSessions, type : Types]
<1>1. records \in Seq(S)
  BY DEF TypeOK
<1>2. \A k \in S : k \in Keys
  BY KeyTypes
<1> HIDE DEF S
<1>3. \A k \in ToSet(records) : k \in S
  BY <1>1, LenProperties, ElementOfSeq DEF ToSet
<1> QED
  BY <1>2, <1>3 DEF S

LEMMA InitIInv == ASSUME ColdStartInit PROVE IInv
<1>1. records \in Seq([sid : ColdSessions, type : Types]) /\ DOMAIN records = {} /\ ToSet(records) = {}
  BY DEF ColdStartInit, ToSet
<1>2. TypeOK
  BY <1>1, KeyTypes DEF ColdStartInit, TypeOK, IsInjective
<1>3. Claimed = {} /\ \A t \in ColdThreads : \A k : ~Busy(t, k)
  BY <1>1, KeyTypes DEF ColdStartInit, Claimed, Busy
<1> QED
  BY <1>2, <1>3 DEF IInv, ClaimsAccounted, OneCallEach, ColdStartInit

(* What a step does to the claims.                                         *)
LEMMA ReserveClaims ==
  ASSUME TypeOK, NEW t \in ColdThreads, Reserve(t)
  PROVE  /\ TypeOK'
         /\ excused \subseteq excused'
         /\ Claimed' \subseteq Claimed \cup {marker[t].key}
         /\ (Claimed \cup {marker[t].key}) \ excused' \subseteq Claimed'
<1> DEFINE key == marker[t].key
           S == [sid : ColdSessions, type : Types]
           full == Len(records) >= MaxKeys
           room == IF full THEN Tail(records) ELSE records
<1>1. /\ key \in Keys /\ key \notin Claimed
      /\ marker' = [marker EXCEPT ![t].at = "emitting"]
      /\ UNCHANGED <<coldInit, rows>>
  BY DEF Reserve, Goto, TypeOK
<1>2. marker' \in [ColdThreads -> [at : Places, key : Keys]]
  BY <1>1 DEF TypeOK, Places
<1>3. CASE key.sid = Anon
  <2>1. anonymous' = anonymous \cup {key.type} /\ UNCHANGED <<records, excused>>
    BY <1>3 DEF Reserve
  <2>2. key = [sid |-> Anon, type |-> key.type] /\ key.type \in Types
    BY <1>1, <1>3, KeyTypes
  <2>3. Claimed' = Claimed \cup {key}
    BY <2>1, <2>2 DEF Claimed
  <2> QED
    BY <1>1, <1>2, <2>1, <2>2, <2>3 DEF TypeOK
<1>4. CASE key.sid # Anon
  <2>1. /\ records' = Append(room, key) /\ anonymous' = anonymous
        /\ excused' = IF full THEN excused \cup {Head(records)} ELSE excused
    BY <1>4 DEF Reserve
  <2>2. key \in S \ ToSet(records)
    BY <1>1, <1>4, KeyTypes DEF Claimed
  <2>3. records \in Seq(S) /\ IsInjective(records)
    BY DEF TypeOK
  <2>4. full => records # << >>
    BY <2>3, LenProperties, EmptySeq, ColdStartAssumption
  <2>5. full => /\ Tail(records) \in Seq(S) /\ IsInjective(Tail(records))
                /\ Head(records) \in S /\ ToSet(Tail(records)) = ToSet(records) \ {Head(records)}
    BY <2>3, <2>4, TailProperty
  <2>6. room \in Seq(S) /\ IsInjective(room) /\ ToSet(room) \subseteq ToSet(records)
        /\ ToSet(records) \ excused' \subseteq ToSet(room)
    BY <2>1, <2>3, <2>5
  <2> HIDE DEF room, S
  <2>7. records' \in Seq(S) /\ IsInjective(records') /\ ToSet(records') = ToSet(room) \cup {key}
    BY <2>1, <2>2, <2>6, AppendProperty
  <2>8. excused \subseteq excused' /\ excused' \subseteq Keys
    BY <2>1, <2>5, KeyTypes DEF TypeOK, S
  <2>9. /\ Claimed' \subseteq Claimed \cup {key}
        /\ (Claimed \cup {key}) \ excused' \subseteq Claimed'
    BY <2>1, <2>6, <2>7 DEF Claimed
  <2> QED
    BY <1>1, <1>2, <2>1, <2>7, <2>8, <2>9 DEF TypeOK, S
<1> QED
  BY <1>3, <1>4

LEMMA ReleaseClaims ==
  ASSUME TypeOK, NEW t \in ColdThreads, Release(t)
  PROVE  TypeOK' /\ Claimed' = Claimed \ {marker[t].key}
<1> DEFINE key == marker[t].key
           S == [sid : ColdSessions, type : Types]
<1>1. /\ key \in Keys /\ marker' = [marker EXCEPT ![t].at = "idle"]
      /\ UNCHANGED <<coldInit, rows, excused>>
  BY DEF Release, Goto, TypeOK
<1>2. marker' \in [ColdThreads -> [at : Places, key : Keys]]
  BY <1>1 DEF TypeOK, Places
<1>3. CASE key.sid = Anon
  <2>1. anonymous' = anonymous \ {key.type} /\ records' = records
    BY <1>3 DEF Release
  <2>2. key = [sid |-> Anon, type |-> key.type]
    BY <1>1, <1>3, KeyTypes
  <2>3. key \notin ToSet(records)
    BY <1>3, RecordsTypes, ColdStartAssumption
  <2>4. \A y : [sid |-> Anon, type |-> y] = key <=> y = key.type
    BY <2>2
  <2>5. Claimed' = Claimed \ {key}
    BY <2>1, <2>2, <2>3, <2>4 DEF Claimed
  <2> QED
    BY <1>1, <1>2, <2>1, <2>5 DEF TypeOK
<1>4. CASE key.sid # Anon
  <2>1. records' = Pop(records, key) /\ anonymous' = anonymous
    BY <1>4 DEF Release
  <2>2. records' \in Seq(S) /\ IsInjective(records') /\ ToSet(records') = ToSet(records) \ {key}
    BY <2>1, PopProperties DEF TypeOK
  <2>3. \A y : [sid |-> Anon, type |-> y] # key
    BY <1>4
  <2>4. Claimed' = Claimed \ {key}
    BY <2>1, <2>2, <2>3 DEF Claimed
  <2> QED
    BY <1>1, <1>2, <2>1, <2>2, <2>4 DEF TypeOK
<1> QED
  BY <1>3, <1>4

(* The steps that touch neither claims nor rows.                           *)
LEMMA QuietStep ==
  ASSUME IInv, TypeOK', UNCHANGED <<records, anonymous, rows, excused>>,
         \A t \in ColdThreads, k \in Keys : Busy(t, k)' <=> Busy(t, k)
  PROVE  IInv'
<1>1. Claimed' = Claimed /\ Claimed \subseteq Keys
  <2>1. \A y \in anonymous : [sid |-> Anon, type |-> y] \in Keys
    BY KeyTypes DEF IInv, TypeOK
  <2> QED
    BY <2>1, RecordsTypes DEF Claimed, IInv
<1>2. ClaimsAccounted'
  BY <1>1 DEF IInv, ClaimsAccounted
<1>3. OneCallEach'
  BY <1>1 DEF IInv, OneCallEach
<1> QED
  BY <1>2, <1>3 DEF IInv

LEMMA Step == ASSUME IInv, [ColdStartNext]_coldVars PROVE IInv'
<1> USE DEF Goto, Landed
<1>0. TypeOK /\ ClaimsAccounted /\ OneCallEach
  BY DEF IInv
<1>a. Claimed \subseteq Keys
  <2>1. \A y \in anonymous : [sid |-> Anon, type |-> y] \in Keys
    BY <1>0, KeyTypes DEF TypeOK
  <2> QED
    BY <1>0, <2>1, RecordsTypes DEF Claimed
<1>1. CASE UNCHANGED coldVars \/ ColdInitEnds
  <2>1. UNCHANGED <<records, anonymous, marker, rows, excused>>
    BY <1>1 DEF coldVars, ColdInitEnds
  <2>2. TypeOK' /\ \A t \in ColdThreads, k \in Keys : Busy(t, k)' <=> Busy(t, k)
    BY <1>0, <1>1, <2>1 DEF TypeOK, Busy, coldVars, ColdInitEnds
  <2> QED
    BY <2>1, <2>2, QuietStep
<1>2. ASSUME NEW t \in ColdThreads, NEW sid \in ColdSessions \cup {Anon},
             ColdEnter(t, sid) \/ Branch(t) \/ AlreadyNoted(t)
      PROVE  IInv'
  <2>1. UNCHANGED <<records, anonymous, rows, excused, coldInit>>
    BY <1>2 DEF ColdEnter, Branch, AlreadyNoted
  <2>2. PICK m \in [at : {"idle", "branch", "note"}, key : Keys] :
          marker' = [marker EXCEPT ![t] = m]
    <3>1. CASE ColdEnter(t, sid)
      BY <3>1, KeyTypes DEF ColdEnter, Types
    <3>2. CASE Branch(t)
      <4>1. marker[t] \in [at : Places, key : Keys]
        BY <1>0 DEF TypeOK
      <4> DEFINE failed == [marker[t] EXCEPT !.at = "note", !.key.type = "init_failed"]
                 noted == [marker[t] EXCEPT !.at = "note"]
                 done == [marker[t] EXCEPT !.at = "idle"]
      <4>2. failed \in [at : {"idle", "branch", "note"}, key : Keys]
        BY <4>1, KeyTypes DEF Types
      <4>3. noted \in [at : {"idle", "branch", "note"}, key : Keys]
            /\ done \in [at : {"idle", "branch", "note"}, key : Keys]
        BY <4>1
      <4>4. \/ marker' = [marker EXCEPT ![t] = failed]
            \/ marker' = [marker EXCEPT ![t] = noted]
            \/ marker' = [marker EXCEPT ![t] = done]
        BY <3>2, <1>0 DEF Branch, TypeOK
      <4> QED
        BY <4>2, <4>3, <4>4
    <3>3. CASE AlreadyNoted(t)
      <4>1. [marker[t] EXCEPT !.at = "idle"] \in [at : {"idle", "branch", "note"}, key : Keys]
        BY <1>0 DEF TypeOK
      <4>2. marker' = [marker EXCEPT ![t] = [marker[t] EXCEPT !.at = "idle"]]
        BY <1>0, <3>3 DEF AlreadyNoted, TypeOK
      <4> QED
        BY <4>1, <4>2
    <3> QED
      BY <1>2, <3>1, <3>2, <3>3
  <2>3. marker[t].at \notin {"emitting", "releasing"}
    BY <1>2 DEF ColdEnter, Branch, AlreadyNoted
  <2>4. TypeOK'
    BY <1>0, <2>1, <2>2 DEF TypeOK, Places
  <2>5. \A u \in ColdThreads, k \in Keys : Busy(u, k)' <=> Busy(u, k)
    BY <1>0, <2>2, <2>3 DEF TypeOK, Busy
  <2> QED
    BY <2>1, <2>4, <2>5, QuietStep
<1>3. ASSUME NEW t \in ColdThreads, Reserve(t) PROVE IInv'
  <2> DEFINE key == marker[t].key
  <2>1. /\ key \in Keys /\ key \notin Claimed /\ rows' = rows
        /\ marker[t].at = "note" /\ marker' = [marker EXCEPT ![t].at = "emitting"]
    BY <1>0, <1>3 DEF Reserve, TypeOK
  <2>2. /\ Busy(t, key)' /\ \A k : ~Busy(t, k)
        /\ \A k : Busy(t, k)' => k = key
        /\ \A u \in ColdThreads \ {t}, k \in Keys : Busy(u, k)' <=> Busy(u, k)
    BY <1>0, <2>1 DEF TypeOK, Busy
  <2>3. /\ TypeOK' /\ excused \subseteq excused' /\ Claimed' \subseteq Claimed \cup {key}
        /\ (Claimed \cup {key}) \ excused' \subseteq Claimed'
    BY <1>0, <1>3, ReserveClaims
  <2>4. rows[key] \in Nat
    BY <1>0, <2>1 DEF TypeOK
  <2> HIDE DEF key
  <2>5. ClaimsAccounted'
    BY <1>0, <1>a, <2>1, <2>2, <2>3 DEF ClaimsAccounted
  <2>6. OneCallEach'
    BY <1>0, <2>1, <2>2, <2>3, <2>4 DEF OneCallEach
  <2> QED
    BY <2>3, <2>5, <2>6 DEF IInv
<1>4. ASSUME NEW t \in ColdThreads, Emits(t) PROVE IInv'
  <2> DEFINE key == marker[t].key
  <2>1. /\ key \in Keys /\ marker[t].at = "emitting" /\ marker' = [marker EXCEPT ![t].at = "idle"]
        /\ rows' = [rows EXCEPT ![key] = @ + 1]
        /\ UNCHANGED <<coldInit, records, anonymous, excused>>
    BY <1>0, <1>4 DEF Emits, TypeOK
  <2>a. marker' \in [ColdThreads -> [at : Places, key : Keys]]
    BY <1>0, <2>1 DEF TypeOK, Places
  <2>b. rows' \in [Keys -> Nat]
    BY <1>0, <2>1 DEF TypeOK
  <2>2. TypeOK' /\ Claimed' = Claimed
    BY <1>0, <2>1, <2>a, <2>b DEF TypeOK, Claimed
  <2>3. /\ Busy(t, key) /\ \A k : ~Busy(t, k)'
        /\ \A u \in ColdThreads \ {t}, k \in Keys : Busy(u, k)' <=> Busy(u, k)
        /\ \A k : Busy(t, k) => k = key
    BY <1>0, <2>1 DEF TypeOK, Busy
  <2>4. /\ \A k \in Keys : rows[k] \in Nat /\ (k # key => rows'[k] = rows[k])
        /\ rows'[key] = rows[key] + 1
    BY <1>0, <2>1 DEF TypeOK
  <2> HIDE DEF key
  <2>5. ClaimsAccounted'
    BY <1>0, <1>a, <2>1, <2>2, <2>3, <2>4 DEF ClaimsAccounted
  <2>6. OneCallEach'
    BY <1>0, <2>1, <2>2, <2>3, <2>4 DEF OneCallEach
  <2> QED
    BY <2>2, <2>5, <2>6 DEF IInv
<1>5. ASSUME NEW t \in ColdThreads, NEW landed \in BOOLEAN, EmitFails(t, landed) PROVE IInv'
  <2> DEFINE key == marker[t].key
  <2>1. /\ key \in Keys /\ marker[t].at = "emitting" /\ marker' = [marker EXCEPT ![t].at = "releasing"]
        /\ \/ rows' = [rows EXCEPT ![key] = @ + 1] /\ excused' = excused \cup {key}
           \/ UNCHANGED <<rows, excused>>
        /\ UNCHANGED <<coldInit, records, anonymous>>
    BY <1>0, <1>5 DEF EmitFails, TypeOK
  <2>a. marker' \in [ColdThreads -> [at : Places, key : Keys]]
    BY <1>0, <2>1 DEF TypeOK, Places
  <2>b. rows' \in [Keys -> Nat] /\ excused' \subseteq Keys
    BY <1>0, <2>1 DEF TypeOK
  <2>2. TypeOK' /\ Claimed' = Claimed
    BY <1>0, <2>1, <2>a, <2>b DEF TypeOK, Claimed
  <2>3. \A u \in ColdThreads, k \in Keys : Busy(u, k)' <=> Busy(u, k)
    BY <1>0, <2>1 DEF TypeOK, Busy
  <2>4. /\ \A k \in Keys : rows[k] \in Nat /\ (k # key => rows'[k] = rows[k])
        /\ rows'[key] \in {rows[key], rows[key] + 1}
        /\ rows'[key] # rows[key] => key \in excused'
        /\ excused \subseteq excused'
    BY <1>0, <2>1 DEF TypeOK
  <2> HIDE DEF key
  <2>5. ClaimsAccounted'
    BY <1>0, <1>a, <2>1, <2>2, <2>3, <2>4 DEF ClaimsAccounted
  <2>6. OneCallEach'
    BY <1>0, <2>1, <2>2, <2>3, <2>4 DEF OneCallEach
  <2> QED
    BY <2>2, <2>5, <2>6 DEF IInv
<1>6. ASSUME NEW t \in ColdThreads, Release(t) PROVE IInv'
  <2> DEFINE key == marker[t].key
  <2>1. /\ key \in Keys /\ marker[t].at = "releasing" /\ marker' = [marker EXCEPT ![t].at = "idle"]
        /\ UNCHANGED <<rows, excused>>
    BY <1>0, <1>6 DEF Release, TypeOK
  <2>2. TypeOK' /\ Claimed' = Claimed \ {key}
    BY <1>0, <1>6, ReleaseClaims
  <2>3. /\ Busy(t, key) /\ \A k : ~Busy(t, k)'
        /\ \A u \in ColdThreads \ {t}, k \in Keys : Busy(u, k)' <=> Busy(u, k)
        /\ \A k : Busy(t, k) => k = key
    BY <1>0, <2>1 DEF TypeOK, Busy
  <2>4. rows[key] \in Nat
    BY <1>0, <2>1 DEF TypeOK
  <2> HIDE DEF key
  <2>5. ClaimsAccounted'
    BY <1>0, <1>a, <2>1, <2>2, <2>3 DEF ClaimsAccounted
  <2>6. OneCallEach'
    BY <1>0, <2>1, <2>2, <2>3, <2>4 DEF OneCallEach
  <2> QED
    BY <2>2, <2>5, <2>6 DEF IInv
<1> QED
  BY <1>1, <1>2, <1>3, <1>4, <1>5, <1>6 DEF ColdStartNext

(* The latch of the markers silences no session and repeats no row, for    *)
(* any number of threads, keys and failed writes (_note_cold_start_session *)
(* and _release_cold_start_claim).                                         *)
THEOREM MarkersAreAccounted == ColdStartSpec => []MarkersAccounted
<1>1. ColdStartInit => IInv
  BY InitIInv
<1>2. IInv /\ [ColdStartNext]_coldVars => IInv'
  BY Step
<1>3. IInv => MarkersAccounted
  BY DEF IInv, ClaimsAccounted, OneCallEach, Busy, MarkersAccounted
<1> QED
  BY <1>1, <1>2, <1>3, PTL DEF ColdStartSpec

-----------------------------------------------------------------------------
(* DegradedApprovals: a session is recorded only with a human's answer.    *)
RecordedIsWaived == recorded \subseteq waived

LEMMA WaiverStep == ASSUME RecordedIsWaived, [DegradedNext]_approvalVars PROVE RecordedIsWaived'
<1>1. CASE \E c \in PromptedCalls, choice \in HostChoices : Respond(c, choice)
  <2>1. PICK c \in PromptedCalls, choice \in HostChoices : Respond(c, choice)
    BY <1>1
  <2>2. CASE asked[c] = "degraded" /\ choice \in {"session", "always"}
    <3>1. waived' = waived \cup {SessionOf[c]} /\ recorded' \subseteq recorded \cup {SessionOf[c]}
      BY <2>1, <2>2 DEF Respond, Answers
    <3> QED
      BY <3>1 DEF RecordedIsWaived
  <2>3. CASE ~(asked[c] = "degraded" /\ choice \in {"session", "always"})
    <3>1. waived' = waived /\ recorded' = recorded
      BY <2>1, <2>3 DEF Respond, Answers
    <3> QED
      BY <3>1 DEF RecordedIsWaived
  <2> QED
    BY <2>2, <2>3
<1>2. CASE ~\E c \in PromptedCalls, choice \in HostChoices : Respond(c, choice)
  <2>1. UNCHANGED <<recorded, waived>>
    BY <1>2 DEF DegradedNext, PostureChanges, Revoked, Scanned, DegradedPasses, DegradedBlocks,
       DegradedAsks, Note, Abandoned, approvalVars
  <2> QED
    BY <2>1 DEF RecordedIsWaived
<1> QED
  BY <1>1, <1>2

(* No call passes on a degraded scan unless the operator waived the rule   *)
(* or a human confirmed a degraded call of the very session, for any calls *)
(* and sessions, any size of the table of pending calls and any order of   *)
(* prompts, answers and reloads (_apply_degraded_approve_response).        *)
THEOREM WaiversAreHuman == DegradedSpec => []WaiverIsHuman
<1>1. DegradedInit => RecordedIsWaived
  BY DEF DegradedInit, RecordedIsWaived
<1>2. RecordedIsWaived /\ [DegradedNext]_approvalVars => RecordedIsWaived'
  BY WaiverStep
<1>3. RecordedIsWaived => WaiverIsHuman
  BY DEF RecordedIsWaived, WaiverIsHuman, Passes
<1> QED
  BY <1>1, <1>2, <1>3, PTL DEF DegradedSpec

-----------------------------------------------------------------------------
(* What a tool returned: IngestScan.                                       *)

IngestTypeOK ==
  /\ result \in [size : Nat, content : Contents \cup {None}]
  /\ result.content # None => result.content.at + result.content.len <= result.size
  /\ ingestScan \in [phase : {"idle", "polling", "head", "sweep", "done"},
                     head : {"inspected", "floorFailed", "unscanned", None},
                     inspectFailed : BOOLEAN, errors : BOOLEAN, left : SUBSET Origins,
                     findings : SUBSET [kind : {"blocking", "pii"}, start : Int],
                     cancelling : BOOLEAN]

(* The piece of content lies within the covered prefix and in the chunk at *)
(* this origin.                                                            *)
HoldsContent(o) ==
  LET c == result.content IN
  c # None /\ o <= c.at /\ c.at + c.len <= Least(o + ChunkChars, Covered)

(* Every finding is the content, where it is; a chunk that was swept       *)
(* without an error and holds the content has found it.                    *)
SweepIsSound ==
  /\ \A f \in ingestScan.findings : /\ result.content # None
                                    /\ f.start = result.content.at
                                    /\ f.kind = result.content.kind
  /\ ingestScan.phase \in {"sweep", "done"} =>
       /\ ~ingestScan.cancelling
       /\ ingestScan.errors \/ \A o \in Origins \ ingestScan.left :
                                 HoldsContent(o) => ingestScan.findings # {}

(* Nothing is decided while a scan is under way, and nothing after that.   *)
OutcomeIsLast ==
  /\ ingestScan.phase \notin {"idle", "done"} => outcome = None
  /\ ingestScan.phase = "done" => ingestScan.left = {} /\ outcome = NoticeVerdict
  /\ outcome \in {"silent", "ceiling", "findings"} => ingestScan.phase = "done"

IngestIInv == IngestTypeOK /\ SweepIsSound /\ OutcomeIsLast

LEMMA StrideIsPositive ==
  /\ Stride \in Nat \ {0}
  /\ {HeadChars, ChunkChars, ChunkOverlap, Ceiling, MaxSize, MaxLen} \subseteq Nat \ {0}
BY IngestAssumption DEF Stride

(* Some chunk holds a piece that is no longer than the overlap and one.    *)
LEMMA ShortPieceIsHeld ==
  ASSUME IngestTypeOK, result.content # None,
         result.content.at + result.content.len <= Covered,
         result.content.len <= ChunkOverlap + 1
  PROVE  \E o \in Origins : HoldsContent(o)
<1> DEFINE c == result.content
           r == c.at % Stride
           o == c.at - r
<1>1. c.at \in Nat /\ c.len \in Nat \ {0} /\ Covered \in Int
  BY StrideIsPositive DEF IngestTypeOK, Contents, Covered, Least
<1>2. r \in 0 .. Stride - 1
  BY <1>1, StrideIsPositive
<1>3. o % Stride = 0 /\ o >= 0
  BY <1>1, StrideIsPositive
<1> HIDE DEF r
<1>4. o \in 0 .. Covered - 1 /\ o <= c.at
  <2>1. r \in Nat /\ c.at - r >= 0
    BY <1>2, <1>3, StrideIsPositive
  <2> QED BY <1>1, <2>1
<1>5. c.at + c.len <= o + ChunkChars
  BY <1>1, <1>2, StrideIsPositive DEF Stride
<1>6. o \in Origins
  BY <1>3, <1>4 DEF Origins
<1>7. HoldsContent(o)
  BY <1>4, <1>5 DEF HoldsContent, Least
<1> QED BY <1>6, <1>7

LEMMA IngestInitIInv == IngestInit => IngestIInv
<1> SUFFICES ASSUME IngestInit PROVE IngestIInv
  OBVIOUS
<1>1. ingestScan = NoIngest /\ outcome = None
  BY DEF IngestInit
<1>2. /\ result \in [size : Nat, content : Contents \cup {None}]
      /\ result.content # None => result.content.at + result.content.len <= result.size
  BY StrideIsPositive DEF IngestInit
<1> QED BY <1>1, <1>2, IngestAssumption
        DEF IngestIInv, IngestTypeOK, SweepIsSound, OutcomeIsLast, NoIngest

(* The content of a window is the content, at its place in the result.     *)
LEMMA FoundIsContent ==
  ASSUME IngestTypeOK, NEW from \in Nat, NEW to \in Nat, NEW f \in FoundIn(from, to)
  PROVE  /\ result.content # None /\ f \in [kind : {"blocking", "pii"}, start : Int]
         /\ f = [kind |-> result.content.kind, start |-> result.content.at - from]
         /\ MapFinding(f, from) \in [kind : {"blocking", "pii"}, start : Int]
         /\ MapFinding(f, from).kind = result.content.kind
         /\ MapFinding(f, from).start = result.content.at
<1>1. /\ result.content # None
      /\ f = [kind |-> result.content.kind, start |-> result.content.at - from]
  BY DEF FoundIn
<1>2. result.content.kind \in {"blocking", "pii"} /\ result.content.at \in Nat
  BY <1>1, StrideIsPositive DEF IngestTypeOK, Contents
<1>3. MapFinding(f, from) = [kind |-> f.kind, start |-> f.start + from]
  BY <1>1 DEF MapFinding
<1> QED BY <1>1, <1>2, <1>3

LEMMA HeadReturnsKeeps ==
  ASSUME IngestIInv, HeadReturns
  PROVE  IngestIInv'
<1> DEFINE found == FoundIn(0, HeadChars)
<1>1. PICK head \in {"inspected", "floorFailed", "unscanned", None}, errors \in BOOLEAN,
           failed \in BOOLEAN, kept \in {found, {}} : Sweeping(head, errors, failed, kept)
  BY DEF HeadReturns
<1>2. /\ ingestScan.phase = "head" /\ ~ingestScan.cancelling /\ outcome = None
      /\ UNCHANGED <<result, outcome>>
  BY DEF HeadReturns, IngestIInv, OutcomeIsLast
<1>3. \A f \in kept : /\ result.content # None /\ f.start = result.content.at
                      /\ f.kind = result.content.kind
                      /\ f \in [kind : {"blocking", "pii"}, start : Int]
  <2> SUFFICES ASSUME NEW f \in found
               PROVE  /\ result.content # None /\ f.start = result.content.at
                      /\ f.kind = result.content.kind
                      /\ f \in [kind : {"blocking", "pii"}, start : Int]
    OBVIOUS
  <2>1. result.content # None => result.content.at \in Nat
    BY StrideIsPositive DEF IngestIInv, IngestTypeOK, Contents
  <2> QED BY <2>1, FoundIsContent, StrideIsPositive DEF IngestIInv
<1> HIDE DEF found
<1>4. ingestScan.errors \in BOOLEAN
  BY DEF IngestIInv, IngestTypeOK
<1>5. ingestScan' = [phase |-> "sweep", head |-> head, inspectFailed |-> failed,
                     errors |-> ingestScan.errors \/ errors, left |-> Origins,
                     findings |-> kept, cancelling |-> ingestScan.cancelling]
  BY <1>1 DEF Sweeping, IngestIInv, IngestTypeOK
<1>6. Origins' = Origins
  BY <1>2 DEF Origins, Covered, Least
<1>7. IngestTypeOK'
  BY <1>2, <1>3, <1>4, <1>5, <1>6 DEF IngestIInv, IngestTypeOK, Contents
<1>8. SweepIsSound'
  BY <1>2, <1>3, <1>5, <1>6 DEF SweepIsSound
<1>9. OutcomeIsLast'
  BY <1>2, <1>5, IngestAssumption DEF OutcomeIsLast
<1> QED BY <1>7, <1>8, <1>9 DEF IngestIInv

LEMMA SweepChunkKeeps ==
  ASSUME IngestIInv, SweepChunk
  PROVE  IngestIInv'
<1> DEFINE origin == CHOOSE o \in ingestScan.left : \A p \in ingestScan.left : o <= p
           inChunk == FoundIn(origin, origin + ChunkChars)
           found == {MapFinding(f, origin) : f \in inChunk}
           left == ingestScan.left \ {origin}
<1>1. /\ ingestScan.phase = "sweep" /\ ingestScan.left # {} /\ UNCHANGED <<result, outcome>>
      /\ ~ingestScan.cancelling /\ outcome = None
  BY DEF SweepChunk, IngestIInv, SweepIsSound, OutcomeIsLast
<1>2. origin \in ingestScan.left /\ origin \in Nat
  <2>1. ingestScan.left \in SUBSET Nat
    BY StrideIsPositive DEF IngestIInv, IngestTypeOK, Origins, Covered, Least
  <2> QED BY <1>1, <2>1, LeastElement
<1>3. PICK errors \in BOOLEAN, findings \in {ingestScan.findings, ingestScan.findings \cup found} :
        /\ errors \/ findings = ingestScan.findings \cup found
        /\ ingestScan.errors => errors
        /\ ingestScan' = [ingestScan EXCEPT !.left = left, !.findings = findings, !.errors = errors]
  <2>1. CASE ingestScan' = [ingestScan EXCEPT !.left = left,
                                              !.findings = ingestScan.findings \cup found]
    <3>1. ingestScan' = [ingestScan EXCEPT !.left = left,
                           !.findings = ingestScan.findings \cup found, !.errors = ingestScan.errors]
      BY <2>1 DEF IngestIInv, IngestTypeOK
    <3> QED BY <3>1 DEF IngestIInv, IngestTypeOK
  <2>2. CASE ingestScan' = [ingestScan EXCEPT !.left = left, !.errors = TRUE]
    <3>1. ingestScan' = [ingestScan EXCEPT !.left = left, !.findings = ingestScan.findings,
                                           !.errors = TRUE]
      BY <2>2 DEF IngestIInv, IngestTypeOK
    <3> QED BY <3>1
  <2> QED BY <2>1, <2>2 DEF SweepChunk
<1>4. \A f \in found : /\ result.content # None /\ f.start = result.content.at
                       /\ f.kind = result.content.kind
                       /\ f \in [kind : {"blocking", "pii"}, start : Int]
  BY <1>2, FoundIsContent, StrideIsPositive DEF IngestIInv
<1>5. HoldsContent(origin) => found # {}
  BY DEF HoldsContent, FoundIn
<1> HIDE DEF origin, inChunk, found
<1>6. \A f \in findings : /\ result.content # None /\ f.start = result.content.at
                          /\ f.kind = result.content.kind
                          /\ f \in [kind : {"blocking", "pii"}, start : Int]
  BY <1>3, <1>4 DEF IngestIInv, IngestTypeOK, SweepIsSound
<1>7. /\ ingestScan'.phase = "sweep" /\ ~ingestScan'.cancelling /\ ingestScan'.left = left
      /\ ingestScan'.errors = errors /\ ingestScan'.findings = findings
  BY <1>1, <1>3 DEF IngestIInv, IngestTypeOK
<1>8. Origins' = Origins /\ \A o : HoldsContent(o)' <=> HoldsContent(o)
  BY <1>1 DEF Origins, Covered, Least, HoldsContent
<1>9. IngestTypeOK'
  BY <1>1, <1>3, <1>6, <1>8 DEF IngestIInv, IngestTypeOK, Contents
<1>10. SweepIsSound'
  <2>1. errors \/ \A o \in Origins \ left : HoldsContent(o) => findings # {}
    BY <1>1, <1>3, <1>5 DEF IngestIInv, SweepIsSound
  <2> QED BY <1>1, <1>6, <1>7, <1>8, <2>1 DEF SweepIsSound
<1>11. OutcomeIsLast'
  BY <1>1, <1>7, IngestAssumption DEF OutcomeIsLast
<1> QED BY <1>9, <1>10, <1>11 DEF IngestIInv

LEMMA IngestStep ==
  ASSUME IngestIInv, [IngestNext]_ingestVars
  PROVE  IngestIInv'
<1> USE IngestAssumption DEF IngestIInv, SweepIsSound, OutcomeIsLast
<1>1. UNCHANGED result => /\ Origins' = Origins /\ \A o : HoldsContent(o)' <=> HoldsContent(o)
                          /\ Contents' = Contents
  BY DEF Origins, Covered, Least, HoldsContent, Contents
<1>2. CASE UNCHANGED ingestVars
  BY <1>1, <1>2 DEF ingestVars, IngestTypeOK, NoticeVerdict
<1>3. CASE BeginSkipped \/ BeginUnscannable \/ MutexMoves
  BY <1>1, <1>3 DEF BeginSkipped, BeginUnscannable, MutexMoves, IngestTypeOK, NoticeVerdict
<1>4. CASE BeginScan
  BY <1>1, <1>4 DEF BeginScan, NoIngest, IngestTypeOK
<1>5. CASE Acquire
  BY <1>1, <1>5 DEF Acquire, IngestTypeOK
<1>6. CASE CancelHead
  BY <1>1, <1>6 DEF CancelHead, IngestTypeOK
<1>7. CASE HeadAbsorbs \/ BudgetExpires
  <2>1. ingestScan' = NoIngest /\ outcome' = "scan_unavailable" /\ UNCHANGED result
    BY <1>7 DEF HeadAbsorbs, BudgetExpires, DecideIngest
  <2> QED BY <1>1, <2>1 DEF NoIngest, IngestTypeOK
<1>8. CASE Transform
  <2>1. ingestScan' = [ingestScan EXCEPT !.phase = "done"] /\ outcome' = NoticeVerdict
    BY <1>8 DEF Transform
  <2>2. NoticeVerdict' = NoticeVerdict
    BY <1>8, <2>1 DEF Transform, NoticeVerdict, IngestTypeOK
  <2> QED BY <1>1, <1>8, <2>1, <2>2 DEF Transform, IngestTypeOK
<1>9. CASE HeadReturns
  BY <1>9, HeadReturnsKeeps
<1>10. CASE SweepChunk
  BY <1>10, SweepChunkKeeps
<1> QED BY <1>2, <1>3, <1>4, <1>5, <1>6, <1>7, <1>8, <1>9, <1>10 DEF IngestNext

LEMMA IngestHonest ==
  ASSUME IngestIInv
  PROVE  NoticeIsHonest
<1> DEFINE c == result.content
<1>1. ASSUME outcome \in {"silent", "ceiling", "findings"}
      PROVE  /\ ingestScan.phase = "done" /\ ingestScan.head = "inspected"
             /\ ~ingestScan.errors /\ ~ingestScan.cancelling
  BY <1>1 DEF IngestIInv, SweepIsSound, OutcomeIsLast, NoticeVerdict, IngestTypeOK
<1>2. ASSUME outcome \in {"silent", "ceiling"}, c # None
      PROVE  c.kind = "pii" \/ c.at + c.len > Ceiling \/ c.len > ChunkOverlap + 1
  <2> SUFFICES ASSUME ~(c.at + c.len > Ceiling), ~(c.len > ChunkOverlap + 1)
               PROVE  c.kind = "pii"
    OBVIOUS
  <2>1. c.at + c.len <= Covered /\ c.len <= ChunkOverlap + 1
    BY <1>2, StrideIsPositive DEF IngestIInv, IngestTypeOK, Contents, Covered, Least
  <2>2. PICK o \in Origins : HoldsContent(o)
    BY <1>2, <2>1, ShortPieceIsHeld DEF IngestIInv
  <2>3. ingestScan.left = {} /\ outcome = NoticeVerdict
    BY <1>1, <1>2 DEF IngestIInv, OutcomeIsLast
  <2>4. ingestScan.findings # {}
    BY <1>1, <1>2, <2>2, <2>3 DEF IngestIInv, SweepIsSound
  <2>5. \A f \in ingestScan.findings : f.kind = "pii"
    BY <1>2, <2>3 DEF NoticeVerdict
  <2> QED BY <2>4, <2>5 DEF IngestIInv, SweepIsSound
<1>3. \A f \in ingestScan.findings : f.start = c.at
  BY DEF IngestIInv, SweepIsSound
<1> QED BY <1>1, <1>2, <1>3 DEF NoticeIsHonest

(* NoticeIsHonest for every size of the head, of the chunks and of their   *)
(* overlap, every ceiling and every result (ingest.py:27-30, 43-48): the   *)
(* overlapping chunks leave no place where a piece that is not longer than *)
(* the overlap and one falls between two of them.                          *)
THEOREM NoticesAreHonest == IngestSpec => []NoticeIsHonest
<1> QED BY IngestInitIInv, IngestStep, IngestHonest, PTL DEF IngestSpec

-----------------------------------------------------------------------------
(* SlidingWindow: a deque of times is in order, so what popleft() leaves of *)
(* it is what is after the cutoff.                                          *)

Ordered(q) == \A i, j \in 1 .. Len(q) : i <= j => q[i] <= q[j]

(* How many times leave from the left.                                      *)
Leaves(q, t, n) ==
  /\ \A i \in 1 .. n : q[i] <= t
  /\ \A i \in n + 1 .. Len(q) : q[i] > t

LEMMA AfterIsSuffix ==
  ASSUME NEW q \in Seq(Nat), Ordered(q), NEW t \in Int
  PROVE  \E n \in 0 .. Len(q) : Leaves(q, t, n) /\ After(q, t) = SubSeq(q, n + 1, Len(q))
<1>0. Len(q) \in Nat /\ \A i \in 1 .. Len(q) : q[i] \in Nat
  BY LenProperties
<1> DEFINE Stops(n) == /\ \A i \in 1 .. n : q[i] <= t
                       /\ n < Len(q) => q[n + 1] > t
           T == {n \in 0 .. Len(q) : n < Len(q) => q[n + 1] > t}
           left == CHOOSE n \in 0 .. Len(q) : Stops(n)
<1>1. \E n \in 0 .. Len(q) : Stops(n)
  <2>1. T \in SUBSET Nat /\ Len(q) \in T
    BY <1>0
  <2>2. PICK n \in T : \A m \in T : n <= m
    <3> HIDE DEF T
    <3> QED BY <2>1, LeastElement
  <2>3. ASSUME NEW i \in 1 .. n PROVE q[i] <= t
    <3>0. n \in 0 .. Len(q) /\ i \in 1 .. Len(q)
      BY <1>0
    <3>1. i - 1 \in 0 .. Len(q) /\ i - 1 < Len(q) /\ (i - 1) + 1 = i /\ ~(n <= i - 1)
      BY <1>0, <3>0
    <3>2. i - 1 \notin T
      BY <2>2, <3>1
    <3>3. ~(q[(i - 1) + 1] > t)
      BY <3>1, <3>2
    <3> QED BY <1>0, <3>0, <3>1, <3>3
  <2> QED BY <2>2, <2>3
<1>2. left \in 0 .. Len(q) /\ Stops(left)
  <2> HIDE DEF Stops
  <2> QED BY <1>1, Zenon
<1>3. After(q, t) = SubSeq(q, left + 1, Len(q))
  BY Zenon DEF After
<1> HIDE DEF left
<1>4. ASSUME NEW i \in left + 1 .. Len(q) PROVE q[i] > t
  <2>1. left + 1 \in 1 .. Len(q) /\ i \in 1 .. Len(q) /\ left + 1 <= i /\ left < Len(q)
    BY <1>0, <1>2
  <2>2. q[left + 1] > t /\ q[left + 1] <= q[i]
    BY <1>2, <2>1 DEF Ordered
  <2> QED BY <1>0, <2>1, <2>2
<1> QED BY <1>2, <1>3, <1>4 DEF Leaves

LEMMA AfterElements ==
  ASSUME NEW q \in Seq(Nat), Ordered(q), NEW t \in Int
  PROVE  /\ After(q, t) \in Seq(Nat) /\ Ordered(After(q, t))
         /\ \A j \in 1 .. Len(After(q, t)) : After(q, t)[j] > t
         /\ \E n \in 0 .. Len(q) : /\ Leaves(q, t, n)
                                   /\ Len(After(q, t)) = Len(q) - n
                                   /\ \A j \in 1 .. Len(q) - n : After(q, t)[j] = q[n + j]
<1>0. Len(q) \in Nat /\ \A i \in 1 .. Len(q) : q[i] \in Nat
  BY LenProperties
<1>1. PICK n \in 0 .. Len(q) : Leaves(q, t, n) /\ After(q, t) = SubSeq(q, n + 1, Len(q))
  BY AfterIsSuffix
<1> DEFINE r == SubSeq(q, n + 1, Len(q))
<1>2. n + 1 \in Int /\ Len(q) \in Int /\ \A i \in n + 1 .. Len(q) : q[i] \in Nat
  BY <1>0
<1>3. /\ r \in Seq(Nat)
      /\ Len(r) = IF n + 1 <= Len(q) THEN Len(q) - (n + 1) + 1 ELSE 0
      /\ \A j \in 1 .. Len(q) - (n + 1) + 1 : r[j] = q[n + 1 + j - 1]
  BY <1>2, SubSeqProperties
<1> HIDE DEF r
<1>4. Len(r) = Len(q) - n /\ \A j \in 1 .. Len(q) - n : r[j] = q[n + j]
  <2>1. Len(r) = Len(q) - n
    BY <1>0, <1>3
  <2>2. ASSUME NEW j \in 1 .. Len(q) - n PROVE r[j] = q[n + j]
    <3>1. j \in 1 .. Len(q) - (n + 1) + 1 /\ n + 1 + j - 1 = n + j
      BY <1>0
    <3> QED BY <1>3, <3>1
  <2> QED BY <2>1, <2>2
<1>5. \A j \in 1 .. Len(r) : n + j \in n + 1 .. Len(q) /\ n + j \in 1 .. Len(q) /\ r[j] = q[n + j]
  BY <1>0, <1>4
<1>6. \A j \in 1 .. Len(r) : r[j] > t
  BY <1>1, <1>5 DEF Leaves
<1>7. Ordered(r)
  BY <1>5 DEF Ordered
<1>8. After(q, t) = r
  BY <1>1 DEF r
<1> QED BY <1>1, <1>3, <1>4, <1>6, <1>7, <1>8

(* What is left is determined by which spawns are after the cutoff.         *)
LEMMA AfterIs ==
  ASSUME NEW q \in Seq(Nat), Ordered(q), NEW t \in Int,
         NEW n \in 0 .. Len(q), Leaves(q, t, n),
         NEW r \in Seq(Nat), Len(r) = Len(q) - n, \A j \in 1 .. Len(r) : r[j] = q[n + j]
  PROVE  After(q, t) = r
<1>0. Len(q) \in Nat /\ \A i \in 1 .. Len(q) : q[i] \in Nat
  BY LenProperties
<1>1. After(q, t) \in Seq(Nat)
  BY AfterElements
<1>2. PICK m \in 0 .. Len(q) : /\ Leaves(q, t, m)
                               /\ Len(After(q, t)) = Len(q) - m
                               /\ \A j \in 1 .. Len(q) - m : After(q, t)[j] = q[m + j]
  BY AfterElements
<1>3. m = n
  <2>1. ASSUME m < n PROVE FALSE
    <3>1. n \in 1 .. n /\ n \in m + 1 .. Len(q) /\ n \in 1 .. Len(q)
      BY <1>0, <2>1
    <3> QED BY <1>0, <1>2, <3>1 DEF Leaves
  <2>2. ASSUME n < m PROVE FALSE
    <3>1. m \in 1 .. m /\ m \in n + 1 .. Len(q) /\ m \in 1 .. Len(q)
      BY <1>0, <2>2
    <3> QED BY <1>0, <1>2, <3>1 DEF Leaves
  <2> QED BY <2>1, <2>2
<1> DEFINE s == After(q, t)
<1>4. Len(s) = Len(r) /\ \A j \in 1 .. Len(s) : s[j] = r[j]
  BY <1>2, <1>3
<1> HIDE DEF s
<1>5. s \in Seq(Nat)
  BY <1>1 DEF s
<1>6. s = r
  BY <1>4, <1>5, SeqEqual
<1> QED BY <1>6 DEF s

LEMMA AfterAfter ==
  ASSUME NEW q \in Seq(Nat), Ordered(q), NEW t \in Int, NEW u \in Int, t <= u
  PROVE  After(After(q, t), u) = After(q, u)
<1>0. Len(q) \in Nat /\ \A i \in 1 .. Len(q) : q[i] \in Nat
  BY LenProperties
<1> DEFINE s == After(q, t)
           r == After(q, u)
<1>1. s \in Seq(Nat) /\ Ordered(s)
  BY AfterElements
<1>2. PICK n \in 0 .. Len(q) : /\ Leaves(q, t, n) /\ Len(s) = Len(q) - n
                               /\ \A j \in 1 .. Len(q) - n : s[j] = q[n + j]
  BY AfterElements
<1>3. PICK m \in 0 .. Len(q) : /\ Leaves(q, u, m) /\ Len(r) = Len(q) - m
                               /\ \A j \in 1 .. Len(q) - m : r[j] = q[m + j]
  BY AfterElements
<1>4. r \in Seq(Nat)
  BY AfterElements
<1> HIDE DEF s, r
<1>5. n <= m
  <2> SUFFICES ASSUME m < n PROVE FALSE
    OBVIOUS
  <2>1. n \in 1 .. n /\ n \in m + 1 .. Len(q) /\ n \in 1 .. Len(q)
    BY <1>0
  <2> QED BY <1>0, <1>2, <1>3, <2>1 DEF Leaves
<1>6. m - n \in 0 .. Len(s) /\ Len(r) = Len(s) - (m - n)
  BY <1>0, <1>2, <1>3, <1>5
<1>7. Leaves(s, u, m - n)
  <2>1. ASSUME NEW i \in 1 .. m - n PROVE s[i] <= u
    <3>1. i \in 1 .. Len(q) - n /\ n + i \in 1 .. m
      BY <1>0
    <3> QED BY <1>2, <1>3, <3>1 DEF Leaves
  <2>2. ASSUME NEW i \in (m - n) + 1 .. Len(s) PROVE s[i] > u
    <3>1. i \in 1 .. Len(q) - n /\ n + i \in m + 1 .. Len(q)
      BY <1>0, <1>2, <1>5
    <3> QED BY <1>2, <1>3, <3>1 DEF Leaves
  <2> QED BY <2>1, <2>2 DEF Leaves
<1>8. ASSUME NEW j \in 1 .. Len(r) PROVE r[j] = s[(m - n) + j]
  <2>1. j \in 1 .. Len(q) - m /\ (m - n) + j \in 1 .. Len(q) - n /\ n + ((m - n) + j) = m + j
    BY <1>0, <1>3, <1>5
  <2> QED BY <1>2, <1>3, <2>1
<1>9. After(s, u) = r
  BY <1>1, <1>4, <1>6, <1>7, <1>8, AfterIs
<1> QED BY <1>9 DEF s, r

LEMMA AfterAppend ==
  ASSUME NEW q \in Seq(Nat), Ordered(q), NEW t \in Int, NEW now \in Nat, now > t,
         \A i \in 1 .. Len(q) : q[i] <= now
  PROVE  /\ Append(q, now) \in Seq(Nat) /\ Ordered(Append(q, now))
         /\ \A i \in 1 .. Len(Append(q, now)) : Append(q, now)[i] <= now
         /\ After(Append(q, now), t) = Append(After(q, t), now)
<1>0. Len(q) \in Nat /\ \A i \in 1 .. Len(q) : q[i] \in Nat
  BY LenProperties
<1> DEFINE s == After(q, t)
           a == Append(q, now)
           r == Append(s, now)
<1>1. s \in Seq(Nat)
  BY AfterElements
<1>2. PICK n \in 0 .. Len(q) : /\ Leaves(q, t, n) /\ Len(s) = Len(q) - n
                               /\ \A j \in 1 .. Len(q) - n : s[j] = q[n + j]
  BY AfterElements
<1> HIDE DEF s
<1>3. /\ a \in Seq(Nat) /\ Len(a) = Len(q) + 1 /\ a[Len(q) + 1] = now
      /\ \A i \in 1 .. Len(q) : a[i] = q[i]
  BY AppendProperties
<1>4. /\ r \in Seq(Nat) /\ Len(r) = Len(s) + 1 /\ r[Len(s) + 1] = now
      /\ \A i \in 1 .. Len(s) : r[i] = s[i]
  BY <1>1, AppendProperties
<1> HIDE DEF a, r
<1>5. \A i \in 1 .. Len(a) : a[i] <= now /\ (i \in 1 .. Len(q) \/ i = Len(q) + 1)
  <2> SUFFICES ASSUME NEW i \in 1 .. Len(a)
               PROVE  a[i] <= now /\ (i \in 1 .. Len(q) \/ i = Len(q) + 1)
    OBVIOUS
  <2>1. i \in 1 .. Len(q) \/ i = Len(q) + 1
    BY <1>0, <1>3
  <2> QED BY <1>3, <2>1
<1>6. Ordered(a)
  <2> SUFFICES ASSUME NEW i \in 1 .. Len(a), NEW j \in 1 .. Len(a), i <= j PROVE a[i] <= a[j]
    BY DEF Ordered
  <2>1. CASE j = Len(q) + 1
    BY <1>3, <1>5, <2>1
  <2>2. CASE j \in 1 .. Len(q)
    <3>1. i \in 1 .. Len(q)
      BY <1>0, <2>2
    <3> QED BY <1>3, <2>2, <3>1 DEF Ordered
  <2> QED BY <1>5, <2>1, <2>2
<1>7. n \in 0 .. Len(a) /\ Len(r) = Len(a) - n
  BY <1>0, <1>2, <1>3, <1>4
<1>8. Leaves(a, t, n)
  <2>1. ASSUME NEW i \in 1 .. n PROVE a[i] <= t
    <3>1. i \in 1 .. Len(q)
      BY <1>0
    <3> QED BY <1>2, <1>3, <3>1 DEF Leaves
  <2>2. ASSUME NEW i \in n + 1 .. Len(a) PROVE a[i] > t
    <3>1. CASE i = Len(q) + 1
      BY <1>3, <3>1
    <3>2. CASE i \in n + 1 .. Len(q)
      <4>1. i \in 1 .. Len(q)
        BY <1>0, <3>2
      <4> QED BY <1>2, <1>3, <3>2, <4>1 DEF Leaves
    <3> QED BY <1>0, <1>3, <3>1, <3>2
  <2> QED BY <2>1, <2>2 DEF Leaves
<1>9. ASSUME NEW j \in 1 .. Len(r) PROVE r[j] = a[n + j]
  <2>1. CASE j \in 1 .. Len(s)
    <3>1. j \in 1 .. Len(q) - n /\ n + j \in 1 .. Len(q)
      BY <1>0, <1>2, <2>1
    <3> QED BY <1>2, <1>3, <1>4, <2>1, <3>1
  <2>2. CASE j = Len(s) + 1
    <3>1. n + j = Len(q) + 1
      BY <1>0, <1>2, <2>2
    <3> QED BY <1>3, <1>4, <2>2, <3>1
  <2>3. Len(s) \in Nat /\ j \in 1 .. Len(s) + 1
    BY <1>0, <1>2, <1>4
  <2>4. j \in 1 .. Len(s) \/ j = Len(s) + 1
    BY <2>3
  <2> QED BY <2>1, <2>2, <2>4
<1>10. After(a, t) = r
  BY <1>3, <1>4, <1>6, <1>7, <1>8, <1>9, AfterIs
<1> QED BY <1>3, <1>5, <1>6, <1>10 DEF a, r, s

LEMMA AfterAll ==
  ASSUME NEW q \in Seq(Nat), Ordered(q), NEW t \in Int, \A i \in 1 .. Len(q) : q[i] > t
  PROVE  After(q, t) = q
<1>0. Len(q) \in Nat
  BY LenProperties
<1>1. 0 \in 0 .. Len(q) /\ Len(q) = Len(q) - 0 /\ \A j \in 1 .. Len(q) : q[j] = q[0 + j]
  BY <1>0
<1>2. Leaves(q, t, 0)
  BY <1>0 DEF Leaves
<1> QED BY <1>1, <1>2, AfterIs

LEMMA AfterNone ==
  ASSUME NEW q \in Seq(Nat), Ordered(q), NEW t \in Int, \A i \in 1 .. Len(q) : q[i] <= t
  PROVE  After(q, t) = <<>>
<1>0. Len(q) \in Nat
  BY LenProperties
<1>1. /\ Len(q) \in 0 .. Len(q) /\ <<>> \in Seq(Nat) /\ Len(<<>>) = Len(q) - Len(q)
      /\ \A j \in 1 .. Len(<<>>) : <<>>[j] = q[Len(q) + j]
  BY <1>0
<1>2. Leaves(q, t, Len(q))
  BY <1>0 DEF Leaves
<1> QED BY <1>1, <1>2, AfterIs

LEMMA AfterNothing ==
  Ordered(<<>>) /\ \A t \in Int : After(<<>>, t) = <<>>
<1>1. <<>> \in Seq(Nat) /\ Ordered(<<>>) /\ \A i \in 1 .. Len(<<>>) : FALSE
  BY DEF Ordered
<1> QED BY <1>1, AfterNone

-----------------------------------------------------------------------------
(* SpawnBudget: the invariant.                                              *)

(* A deque holds the spawns that were after every cutoff it was looked at   *)
(* with.                                                                    *)
SpawnIInv ==
  /\ spawnNow \in Nat /\ lastSweep \in Nat /\ window \in Windows /\ base \in BaseCaps
  /\ forgotten \in [Delegators -> Int]
  /\ events \in [Delegators -> Seq(Nat)] /\ spawns \in [Delegators -> Seq(Nat)]
  /\ \A s \in Delegators :
       /\ forgotten[s] < spawnNow
       /\ Ordered(spawns[s])
       /\ \A i \in 1 .. Len(spawns[s]) : spawns[s][i] <= spawnNow
       /\ events[s] = After(spawns[s], forgotten[s])

LEMMA DequeIsWindow ==
  ASSUME SpawnIInv, NEW s \in Delegators
  PROVE  /\ Cutoff \in Int /\ Cutoff < spawnNow
         /\ Pruned(events[s]) = InWindow(s)
         /\ Stale(events[s]) => InWindow(s) = <<>>
         /\ Pruned(Swept[s]) = InWindow(s)
<1> DEFINE f == forgotten[s]
           e == events[s]
<1>1. /\ f \in Int /\ spawns[s] \in Seq(Nat) /\ Ordered(spawns[s])
      /\ e = After(spawns[s], f)
  BY DEF SpawnIInv
<1>2. Cutoff \in Int /\ Cutoff < spawnNow
  BY SpawnAssumption DEF SpawnIInv, Cutoff
<1>3. /\ e \in Seq(Nat) /\ Ordered(e) /\ \A j \in 1 .. Len(e) : e[j] > f
  BY <1>1, AfterElements
<1> HIDE DEF e
<1>4. Len(e) \in Nat /\ \A j \in 1 .. Len(e) : e[j] \in Nat
  BY <1>3, LenProperties
<1> HIDE DEF f
<1>5. Pruned(e) = InWindow(s)
  <2>1. CASE Cutoff > f
    <3>1. After(After(spawns[s], f), Cutoff) = After(spawns[s], Cutoff)
      BY <1>1, <1>2, <2>1, AfterAfter
    <3>2. InWindow(s) = After(spawns[s], Cutoff)
      BY <2>1 DEF InWindow, f
    <3> QED BY <1>1, <3>1, <3>2 DEF Pruned
  <2>2. CASE ~(Cutoff > f)
    <3>1. \A j \in 1 .. Len(e) : e[j] > Cutoff
      BY <1>1, <1>2, <1>3, <1>4, <2>2
    <3>2. After(e, Cutoff) = e
      BY <1>2, <1>3, <3>1, AfterAll
    <3>3. InWindow(s) = After(spawns[s], f)
      BY <2>2 DEF InWindow, f
    <3> QED BY <1>1, <3>2, <3>3 DEF Pruned
  <2> QED BY <2>1, <2>2
<1>6. ASSUME Stale(e) PROVE Pruned(e) = <<>>
  <2>1. e # <<>> /\ e[Len(e)] <= Cutoff
    BY <1>6 DEF Stale, LastSpawn
  <2>2. \A i \in 1 .. Len(e) : i <= Len(e) /\ Len(e) \in 1 .. Len(e)
    BY <1>4
  <2>3. \A i \in 1 .. Len(e) : e[i] <= e[Len(e)]
    BY <1>3, <2>2 DEF Ordered
  <2>4. \A i \in 1 .. Len(e) : e[i] <= Cutoff
    BY <1>2, <1>4, <2>1, <2>2, <2>3
  <2> QED BY <1>2, <1>3, <2>4, AfterNone DEF Pruned
<1>7. Pruned(<<>>) = <<>>
  BY <1>2, AfterNothing DEF Pruned
<1>8. Swept[s] = IF SweepDue /\ Stale(e) THEN <<>> ELSE e
  BY DEF Swept, e
<1>9. Pruned(Swept[s]) = InWindow(s)
  BY <1>5, <1>6, <1>7, <1>8
<1> QED BY <1>2, <1>5, <1>6, <1>9 DEF e

LEMMA DelegateKeeps ==
  ASSUME SpawnIInv, NEW s \in Delegators, NEW tier \in SpawnTiers, Delegate(s, tier)
  PROVE  /\ SpawnIInv'
         /\ spawns'[s] # spawns[s] => Len(InWindow(s)) < base
         /\ \A r \in Delegators : r # s => spawns'[r] = spawns[r]
<1> DEFINE live == Pruned(Swept[s])
           granted == Len(live) < FanoutCap(tier)
           reach(r) == IF Cutoff > forgotten[r] THEN Cutoff ELSE forgotten[r]
           looked(r) == r = s \/ (SweepDue /\ Stale(events[r]))
<1>1. /\ events' = [Swept EXCEPT ![s] = IF granted THEN Append(live, spawnNow) ELSE live]
      /\ lastSweep' = IF SweepDue THEN spawnNow ELSE lastSweep
      /\ spawns' = IF granted THEN [spawns EXCEPT ![s] = Append(Recent(spawns[s]), spawnNow)]
                    ELSE spawns
      /\ UNCHANGED <<spawnNow, window, base>>
  BY DEF Delegate, SpawnIInv
<1>2. forgotten' = [r \in Delegators |->
           IF looked(r) /\ Cutoff > forgotten[r] THEN Cutoff ELSE forgotten[r]]
  BY DEF Delegate
<1>3. /\ Cutoff \in Int /\ Cutoff < spawnNow /\ live = InWindow(s)
  BY DequeIsWindow
<1>4. FanoutCap(tier) <= base /\ base \in Nat
  <2>1. base \in Nat /\ base > 0
    BY SpawnAssumption DEF SpawnIInv
  <2>2. base \div 2 <= base
    BY <2>1
  <2> QED BY <2>1, <2>2 DEF FanoutCap, SpawnTiers
<1> HIDE DEF live
<1>5. InWindow(s) = After(spawns[s], reach(s))
  BY DEF InWindow
<1>6. /\ spawnNow \in Nat /\ spawns[s] \in Seq(Nat) /\ Ordered(spawns[s])
      /\ \A i \in 1 .. Len(spawns[s]) : spawns[s][i] <= spawnNow
      /\ forgotten[s] \in Int /\ forgotten[s] < spawnNow
  BY DEF SpawnIInv
<1>7. reach(s) \in Int /\ reach(s) < spawnNow
  BY <1>3, <1>6
<1>8. /\ live \in Seq(Nat)
      /\ LET a == Append(Recent(spawns[s]), spawnNow) IN
         /\ a \in Seq(Nat) /\ Ordered(a) /\ \A i \in 1 .. Len(a) : a[i] <= spawnNow
         /\ After(a, reach(s)) = Append(live, spawnNow)
  <2> HIDE DEF reach
  <2>1. live = After(spawns[s], reach(s))
    BY <1>3, <1>5
  <2>2. live \in Seq(Nat)
    BY <1>6, <1>7, <2>1, AfterElements
  <2> DEFINE kept == Recent(spawns[s])
             a == Append(kept, spawnNow)
  <2>3. spawnNow - LongestWindow \in Int /\ spawnNow - LongestWindow <= reach(s)
    BY <1>3, <1>6, SpawnAssumption DEF SpawnIInv, Cutoff, reach
  <2>4. /\ kept \in Seq(Nat) /\ Ordered(kept)
        /\ \E n \in 0 .. Len(spawns[s]) :
             /\ Len(kept) = Len(spawns[s]) - n
             /\ \A j \in 1 .. Len(spawns[s]) - n : kept[j] = spawns[s][n + j]
    BY <1>6, <2>3, AfterElements DEF Recent
  <2>5. \A i \in 1 .. Len(kept) : kept[i] <= spawnNow
    <3>1. PICK n \in 0 .. Len(spawns[s]) :
             /\ Len(kept) = Len(spawns[s]) - n
             /\ \A j \in 1 .. Len(spawns[s]) - n : kept[j] = spawns[s][n + j]
      BY <2>4
    <3>2. Len(spawns[s]) \in Nat
      BY <1>6, LenProperties
    <3> HIDE DEF kept
    <3>3. \A j \in 1 .. Len(kept) : n + j \in 1 .. Len(spawns[s]) /\ kept[j] = spawns[s][n + j]
      BY <3>1, <3>2
    <3> QED BY <1>6, <3>3
  <2>6. After(kept, reach(s)) = After(spawns[s], reach(s))
    BY <1>6, <1>7, <2>3, AfterAfter DEF Recent
  <2> HIDE DEF kept
  <2>7. /\ a \in Seq(Nat) /\ Ordered(a) /\ \A i \in 1 .. Len(a) : a[i] <= spawnNow
        /\ After(a, reach(s)) = Append(After(kept, reach(s)), spawnNow)
    <3>1. spawnNow \in Nat /\ reach(s) \in Int /\ spawnNow > reach(s)
      BY <1>6, <1>7
    <3>2. kept \in Seq(Nat) /\ Ordered(kept)
      BY <2>4
    <3> QED BY <2>5, <3>1, <3>2, AfterAppend
  <2> QED BY <2>1, <2>2, <2>6, <2>7 DEF kept
<1>9. Append(live, spawnNow) \in Seq(Nat)
  BY <1>6, <1>8, AppendProperties
<1>10. Swept \in [Delegators -> Seq(Nat)]
  BY DEF Swept, SpawnIInv
<1> HIDE DEF granted
<1>11. spawnNow' \in Nat /\ lastSweep' \in Nat /\ window' \in Windows /\ base' \in BaseCaps
  BY <1>1 DEF SpawnIInv
<1>12. events' \in [Delegators -> Seq(Nat)]
  BY <1>1, <1>8, <1>9, <1>10
<1>13. spawns' \in [Delegators -> Seq(Nat)]
  BY <1>1, <1>8 DEF SpawnIInv
<1>14. forgotten' \in [Delegators -> Int]
  BY <1>2, <1>3 DEF SpawnIInv
<1>15. ASSUME NEW r \in Delegators
       PROVE  /\ forgotten'[r] < spawnNow'
              /\ Ordered(spawns'[r])
              /\ \A i \in 1 .. Len(spawns'[r]) : spawns'[r][i] <= spawnNow'
              /\ events'[r] = After(spawns'[r], forgotten'[r])
  <2>1. /\ Ordered(spawns[r]) /\ \A i \in 1 .. Len(spawns[r]) : spawns[r][i] <= spawnNow
        /\ forgotten[r] < spawnNow /\ events[r] = After(spawns[r], forgotten[r])
    BY DEF SpawnIInv
  <2>2. forgotten'[r] < spawnNow'
    BY <1>1, <1>2, <1>3, <2>1
  <2>3. CASE r = s
    <3>1. forgotten'[s] = reach(s)
      BY <1>2
    <3> HIDE DEF reach
    <3>2. CASE granted
      <4>1. spawns'[s] = Append(Recent(spawns[s]), spawnNow) /\ events'[s] = Append(live, spawnNow)
        BY <1>1, <1>10, <3>2 DEF SpawnIInv
      <4> QED BY <1>1, <1>8, <2>2, <2>3, <3>1, <4>1
    <3>3. CASE ~granted
      <4>1. spawns'[s] = spawns[s] /\ events'[s] = live
        BY <1>1, <1>10, <3>3
      <4> QED BY <1>1, <1>3, <1>5, <2>1, <2>2, <2>3, <3>1, <4>1
    <3> QED BY <3>2, <3>3
  <2>4. CASE r # s
    <3>1. spawns'[r] = spawns[r] /\ events'[r] = Swept[r]
      BY <1>1, <1>10, <2>4 DEF SpawnIInv
    <3>2. CASE SweepDue /\ Stale(events[r])
      <4>1. InWindow(r) = <<>>
        BY <3>2, DequeIsWindow
      <4>2. InWindow(r) = After(spawns[r], reach(r)) /\ forgotten'[r] = reach(r)
        BY <1>2, <3>2 DEF InWindow
      <4>3. events'[r] = <<>>
        BY <3>1, <3>2 DEF Swept
      <4> QED BY <1>1, <2>1, <2>2, <3>1, <4>1, <4>2, <4>3
    <3>3. CASE ~(SweepDue /\ Stale(events[r]))
      <4>1. forgotten'[r] = forgotten[r] /\ events'[r] = events[r]
        BY <1>2, <2>4, <3>1, <3>3 DEF Swept
      <4> QED BY <1>1, <2>1, <2>2, <3>1, <4>1
    <3> QED BY <3>2, <3>3
  <2> QED BY <2>3, <2>4
<1>16. SpawnIInv'
  BY <1>11, <1>12, <1>13, <1>14, <1>15 DEF SpawnIInv
<1>17. ASSUME spawns'[s] # spawns[s] PROVE Len(InWindow(s)) < base
  <2>1. Len(live) < FanoutCap(tier)
    BY <1>1, <1>17 DEF granted
  <2>2. Len(live) \in Nat /\ FanoutCap(tier) \in Nat
    <3>1. base \div 2 \in Nat
      BY <1>4
    <3> QED BY <1>4, <1>8, <3>1, LenProperties DEF FanoutCap, SpawnTiers
  <2> QED BY <1>3, <1>4, <2>1, <2>2
<1>18. \A r \in Delegators : r # s => spawns'[r] = spawns[r]
  BY <1>1 DEF SpawnIInv
<1> QED BY <1>16, <1>17, <1>18

LEMMA SpawnStep ==
  ASSUME SpawnIInv, [SpawnNext]_spawnVars
  PROVE  /\ SpawnIInv'
         /\ \A s \in Delegators : /\ Pruned(events[s]) = InWindow(s)
                                  /\ spawns'[s] # spawns[s] => Len(InWindow(s)) < base
<1>1. \A s \in Delegators : Pruned(events[s]) = InWindow(s)
  BY DequeIsWindow
<1>2. CASE SpawnTick
  <2>1. spawnNow' = spawnNow + 1 /\ UNCHANGED <<window, base, events, lastSweep, spawns, forgotten>>
    BY <1>2 DEF SpawnTick
  <2>2. ASSUME NEW s \in Delegators
        PROVE  /\ forgotten[s] < spawnNow + 1
               /\ \A i \in 1 .. Len(spawns[s]) : spawns[s][i] <= spawnNow + 1
    <3>1. spawns[s] \in Seq(Nat)
      BY DEF SpawnIInv
    <3>2. \A i \in 1 .. Len(spawns[s]) : spawns[s][i] \in Nat
      BY <3>1
    <3> QED BY <3>2 DEF SpawnIInv
  <2>3. SpawnIInv'
    BY <2>1, <2>2 DEF SpawnIInv
  <2> QED BY <1>1, <2>1, <2>3
<1>3. ASSUME NEW w \in Windows, NEW b \in BaseCaps, ReloadBudget(w, b)
      PROVE  SpawnIInv' /\ spawns' = spawns
  BY <1>3 DEF ReloadBudget, SpawnIInv
<1>4. ASSUME NEW s \in Delegators, NEW tier \in SpawnTiers, Delegate(s, tier)
      PROVE  /\ SpawnIInv'
             /\ \A r \in Delegators : spawns'[r] # spawns[r] => Len(InWindow(r)) < base
  BY <1>4, DelegateKeeps
<1>5. CASE UNCHANGED spawnVars
  BY <1>1, <1>5 DEF spawnVars, SpawnIInv
<1> QED BY <1>1, <1>2, <1>3, <1>4, <1>5 DEF SpawnNext

(* However the map is pruned, swept and reinterpreted by reloads of any     *)
(* window and cap, a deque counts the spawns of its session within the      *)
(* window, and a delegation is granted only below the cap (guard.py:611).   *)
THEOREM FanoutIsRationed == SpawnSpec => FanoutRationed
<1>1. SpawnInit => SpawnIInv
  <2> SUFFICES ASSUME SpawnInit PROVE SpawnIInv
    OBVIOUS
  <2>1. window \in Nat /\ window > 0
    BY SpawnAssumption DEF SpawnInit
  <2>2. ASSUME NEW s \in Delegators
        PROVE  /\ Ordered(<<>>) /\ 0 - window < 0 /\ After(<<>>, 0 - window) = <<>>
    BY <2>1, AfterNothing
  <2> QED BY <2>1, <2>2 DEF SpawnInit, SpawnIInv
<1>2. SpawnIInv /\ [SpawnNext]_spawnVars => SpawnIInv'
  BY SpawnStep
<1>3. SpawnIInv /\ [SpawnNext]_spawnVars =>
        [\A s \in Delegators : /\ Pruned(events[s]) = InWindow(s)
                               /\ spawns'[s] # spawns[s] => Len(InWindow(s)) < base]_spawnVars
  BY SpawnStep
<1> QED BY <1>1, <1>2, <1>3, PTL DEF SpawnSpec, FanoutRationed

-----------------------------------------------------------------------------
(* AlertManager: the deques count the alerts of the history.               *)

AlertKeys == AlertRules \X AlertSids
FiredAlert == [rule : CriticalKeys, sid : AlertSids, critical : BOOLEAN, at : Nat, cfg : AlertConfigs]
Books == UNION {[D -> Seq(Nat)] : D \in SUBSET AlertKeys}
LimitSet == [cooldowns : [AlertKeys -> Nat], minute : [AlertRules -> Seq(Nat)],
             hour : [AlertRules -> Seq(Nat)], critical : [CriticalKeys -> Seq(Nat)],
             contributions : Books, fired : Seq(FiredAlert)]

Kind(f) == <<f.rule, f.sid, f.critical>>
OfRule(r, c) == {<<r, s, c>> : s \in AlertSids}
OfSession(k) == {<<k[1], k[2], FALSE>>}

Hits(F, K, t) == {j \in 1 .. Len(F) : Kind(F[j]) \in K /\ F[j].at > t}

UpTo(q, n) == \A i \in 1 .. Len(q) : q[i] <= n
Fresh(q, t) == \A i \in 1 .. Len(q) : q[i] > t

(* After t0 the deque q has a time for each alert of a kind in K.          *)
Tracks(F, K, q, n, t0) ==
  /\ q \in Seq(Nat) /\ Ordered(q) /\ UpTo(q, n)
  /\ \A t \in Int : t >= t0 => Cardinality(Hits(F, K, t)) = Len(After(q, t))

LEMMA HitsAreFinite ==
  ASSUME NEW F \in Seq(FiredAlert), NEW K, NEW t
  PROVE  IsFiniteSet(Hits(F, K, t)) /\ Cardinality(Hits(F, K, t)) \in Nat
<1>1. Len(F) \in Nat
  BY LenProperties
<1>2. IsFiniteSet(1 .. Len(F))
  BY <1>1, FS_Interval
<1>3. Hits(F, K, t) \subseteq 1 .. Len(F)
  BY DEF Hits
<1>4. IsFiniteSet(Hits(F, K, t))
  BY <1>2, <1>3, FS_Subset
<1> QED BY <1>4, FS_CardinalityType

LEMMA HitsOfAppend ==
  ASSUME NEW F \in Seq(FiredAlert), NEW a \in FiredAlert, NEW K, NEW t
  PROVE  Cardinality(Hits(Append(F, a), K, t)) =
           IF Kind(a) \in K /\ a.at > t THEN Cardinality(Hits(F, K, t)) + 1
           ELSE Cardinality(Hits(F, K, t))
<1> DEFINE G == Append(F, a)
<1>0. Len(F) \in Nat
  BY LenProperties
<1>1. Len(G) = Len(F) + 1 /\ G[Len(F) + 1] = a /\ \A j \in 1 .. Len(F) : G[j] = F[j]
  BY AppendProperties
<1> HIDE DEF G
<1>2. \A j : j \in 1 .. Len(G) <=> j \in 1 .. Len(F) \/ j = Len(F) + 1
  BY <1>0, <1>1
<1>3. Len(F) + 1 \notin Hits(F, K, t)
  BY <1>0 DEF Hits
<1>4. CASE Kind(a) \in K /\ a.at > t
  <2>1. Hits(G, K, t) = Hits(F, K, t) \cup {Len(F) + 1}
    BY <1>1, <1>2, <1>4 DEF Hits
  <2> QED BY <1>3, <1>4, <2>1, HitsAreFinite, FS_AddElement DEF G
<1>5. CASE ~(Kind(a) \in K /\ a.at > t)
  <2>1. Hits(G, K, t) = Hits(F, K, t)
    BY <1>1, <1>2, <1>5 DEF Hits
  <2> QED BY <1>5, <2>1 DEF G
<1> QED BY <1>4, <1>5

(* An alert is appended to the history, and its time to the deques that    *)
(* count its kind.                                                         *)
LEMMA TracksAppend ==
  ASSUME NEW F \in Seq(FiredAlert), NEW a \in FiredAlert, NEW K, NEW q,
         NEW n \in Nat, NEW t0 \in Int, t0 < n, a.at = n,
         \A j \in 1 .. Len(F) : F[j].at <= n,
         Tracks(F, K, q, n, t0),
         NEW r, r = IF Kind(a) \in K THEN Append(q, n) ELSE q
  PROVE  Tracks(Append(F, a), K, r, n, t0) /\ (Fresh(q, t0) => Fresh(r, t0))
<1>1. q \in Seq(Nat) /\ Ordered(q) /\ \A i \in 1 .. Len(q) : q[i] <= n
  BY DEF Tracks, UpTo
<1>2. CASE Kind(a) \notin K
  <2>1. \A t : Cardinality(Hits(Append(F, a), K, t)) = Cardinality(Hits(F, K, t))
    BY <1>2, HitsOfAppend
  <2> QED BY <1>2, <2>1 DEF Tracks
<1>3. CASE Kind(a) \in K
  <2>0. r = Append(q, n) /\ Len(q) \in Nat
    BY <1>1, <1>3, LenProperties
  <2>1. r \in Seq(Nat) /\ Ordered(r) /\ UpTo(r, n)
    BY <1>1, <2>0, AfterAppend DEF UpTo
  <2>2. Len(r) = Len(q) + 1 /\ r[Len(q) + 1] = n /\ \A j \in 1 .. Len(q) : r[j] = q[j]
    BY <1>1, <2>0, AppendProperties
  <2>3. Fresh(q, t0) => Fresh(r, t0)
    <3> SUFFICES ASSUME Fresh(q, t0), NEW i \in 1 .. Len(r) PROVE r[i] > t0
      BY DEF Fresh
    <3>1. i \in 1 .. Len(q) \/ i = Len(q) + 1
      BY <2>0, <2>2
    <3> QED BY <2>2, <3>1 DEF Fresh
  <2>4. ASSUME NEW t \in Int, t >= t0, t < n
        PROVE  Cardinality(Hits(Append(F, a), K, t)) = Len(After(r, t))
    <3>1. After(r, t) = Append(After(q, t), n)
      BY <1>1, <2>0, <2>4, AfterAppend
    <3>2. After(q, t) \in Seq(Nat)
      BY <1>1, AfterElements
    <3>3. Len(After(r, t)) = Len(After(q, t)) + 1
      BY <3>1, <3>2, AppendProperties
    <3>4. Cardinality(Hits(F, K, t)) = Len(After(q, t))
      BY <2>4 DEF Tracks
    <3>5. a.at > t
      BY <2>4
    <3> QED BY <1>3, <3>3, <3>4, <3>5, HitsOfAppend
  <2>5. ASSUME NEW t \in Int, t >= n
        PROVE  Cardinality(Hits(Append(F, a), K, t)) = Len(After(r, t))
    <3>1. \A i \in 1 .. Len(r) : r[i] \in Nat /\ r[i] <= n
      BY <2>1 DEF UpTo
    <3>2. After(r, t) = <<>>
      <4>1. n \in Int /\ t \in Int /\ \A i \in 1 .. Len(r) : r[i] <= t
        BY <2>5, <3>1
      <4> QED BY <2>1, <4>1, AfterNone
    <3>3. \A j \in 1 .. Len(F) : F[j].at \in Nat
      <4> SUFFICES ASSUME NEW j \in 1 .. Len(F) PROVE F[j].at \in Nat
        OBVIOUS
      <4>1. F[j] \in FiredAlert
        OBVIOUS
      <4> QED BY <4>1 DEF FiredAlert
    <3>4. Hits(F, K, t) = {}
      BY <2>5, <3>3 DEF Hits
    <3>5. ~(a.at > t)
      BY <2>5
    <3>6. Cardinality(Hits(F, K, t)) = 0 /\ Len(After(r, t)) = 0
      BY <3>2, <3>4, FS_EmptySet
    <3> QED BY <3>5, <3>6, HitsOfAppend
  <2>6. \A t \in Int : t < n \/ t >= n
    OBVIOUS
  <2> QED BY <2>1, <2>3, <2>4, <2>5, <2>6 DEF Tracks
<1> QED BY <1>2, <1>3

(* As time goes by, and as _evict_old() prunes a deque.                    *)
LEMMA TracksLater ==
  ASSUME NEW F, NEW K, NEW q, NEW n \in Nat, NEW m \in Nat, n <= m,
         NEW t0 \in Int, NEW t1 \in Int, t0 <= t1, Tracks(F, K, q, n, t0)
  PROVE  /\ Tracks(F, K, q, m, t1)
         /\ Tracks(F, K, After(q, t1), m, t1) /\ Fresh(After(q, t1), t1)
<1>1. q \in Seq(Nat) /\ Ordered(q) /\ \A i \in 1 .. Len(q) : q[i] <= n
  BY DEF Tracks, UpTo
<1>2. Len(q) \in Nat /\ \A i \in 1 .. Len(q) : q[i] \in Nat
  BY <1>1, LenProperties
<1>3. UpTo(q, m)
  BY <1>1, <1>2 DEF UpTo
<1>4. \A t \in Int : t >= t1 => Cardinality(Hits(F, K, t)) = Len(After(q, t))
  BY DEF Tracks
<1>5. Tracks(F, K, q, m, t1)
  BY <1>1, <1>3, <1>4 DEF Tracks
<1> DEFINE r == After(q, t1)
<1>6. /\ r \in Seq(Nat) /\ Ordered(r) /\ Fresh(r, t1)
      /\ \E k \in 0 .. Len(q) : Len(r) = Len(q) - k /\ \A j \in 1 .. Len(q) - k : r[j] = q[k + j]
  BY <1>1, AfterElements DEF Fresh
<1>7. \A t \in Int : t >= t1 => After(r, t) = After(q, t)
  BY <1>1, AfterAfter
<1> HIDE DEF r
<1>8. UpTo(r, m)
  <2>1. PICK k \in 0 .. Len(q) : Len(r) = Len(q) - k /\ \A j \in 1 .. Len(q) - k : r[j] = q[k + j]
    BY <1>6
  <2>2. \A j \in 1 .. Len(r) : k + j \in 1 .. Len(q) /\ r[j] = q[k + j]
    BY <1>2, <2>1
  <2> QED BY <1>3, <2>2 DEF UpTo
<1>9. Tracks(F, K, r, m, t1)
  BY <1>4, <1>6, <1>7, <1>8 DEF Tracks
<1> QED BY <1>5, <1>6, <1>9 DEF r

LEMMA TracksCounts ==
  ASSUME NEW F, NEW K, NEW q, NEW n, NEW t0 \in Int, Tracks(F, K, q, n, t0), Fresh(q, t0)
  PROVE  Cardinality(Hits(F, K, t0)) = Len(q)
<1>1. q \in Seq(Nat) /\ Ordered(q)
  BY DEF Tracks
<1>2. After(q, t0) = q
  BY <1>1, AfterAll DEF Fresh
<1> QED BY <1>2 DEF Tracks

LEMMA TracksNothing ==
  ASSUME NEW K, NEW n, NEW t0
  PROVE  Tracks(<<>>, K, <<>>, n, t0) /\ Fresh(<<>>, t0)
<1>1. \A t : Hits(<<>>, K, t) = {}
  BY DEF Hits
<1>2. Cardinality({}) = 0
  BY FS_EmptySet
<1>3. Ordered(<<>>) /\ \A t \in Int : Len(After(<<>>, t)) = 0
  BY AfterNothing
<1>4. <<>> \in Seq(Nat) /\ UpTo(<<>>, n) /\ Fresh(<<>>, t0)
  BY DEF UpTo, Fresh
<1> QED BY <1>1, <1>2, <1>3, <1>4 DEF Tracks

SeenScan == [sid : AlertSids, scan : AlertScans, at : Nat, cfg : AlertConfigs, raised : SUBSET AlertRules]

LEMMA ConfigsTyped ==
  /\ \A c \in AlertConfigs : /\ c.cooldown \in Nat \ {0} /\ c.perMinute \in Nat \ {0}
                             /\ c.perHour \in Nat \ {0} /\ c.perSession \in Nat \ {0}
                             /\ c.criticalPerMinute \in Nat \ {0}
  /\ Minute \in Nat /\ Hour \in Nat
BY AlertAssumption DEF AlertConfig

(* An alert that is forgotten stays so.                                    *)
LEMMA ForgottenLater ==
  ASSUME NEW seen \in Seq(SeenScan), NEW more, more = seen \/ \E x \in SeenScan : more = Append(seen, x),
         NEW then \in Nat, NEW n \in Nat, NEW m \in Nat, n <= m, Forgotten(seen, then, n)
  PROVE  Forgotten(more, then, m)
<1>1. PICK k \in DOMAIN seen : seen[k].at <= n /\ seen[k].at - then > 2 * seen[k].cfg.cooldown
  BY DEF Forgotten
<1>2. k \in 1 .. Len(seen) /\ Len(seen) \in Nat
  BY LenProperties
<1>3. seen[k] \in SeenScan
  BY <1>2
<1>4. seen[k].at <= m
  BY <1>1, <1>3 DEF SeenScan
<1>5. k \in DOMAIN more /\ more[k] = seen[k]
  <2>1. ASSUME NEW x \in SeenScan, more = Append(seen, x) PROVE k \in DOMAIN more /\ more[k] = seen[k]
    <3>1. more \in Seq(SeenScan) /\ Len(more) = Len(seen) + 1 /\ more[k] = seen[k]
      BY <1>2, <2>1, AppendProperties
    <3>2. DOMAIN more = 1 .. Len(more)
      BY <3>1, LenProperties
    <3> QED BY <1>2, <3>1, <3>2
  <2> QED BY <2>1
<1> QED BY <1>1, <1>4, <1>5 DEF Forgotten

LEMMA RationedSeen ==
  ASSUME NEW F \in Seq(FiredAlert), NEW seen \in Seq(SeenScan), NEW x \in SeenScan,
         NEW i \in 1 .. Len(F), Rationed(F, seen, i)
  PROVE  Rationed(F, Append(seen, x), i)
<1> DEFINE more == Append(seen, x)
           mine == Mine(F, i, F[i].cfg.cooldown - 1)
<1>1. ASSUME NEW j \in mine, Forgotten(seen, F[j].at, F[i].at)
      PROVE  Forgotten(more, F[j].at, F[i].at)
  <2>1. j \in 1 .. i
    BY DEF Mine, Lately
  <2>2. j \in 1 .. Len(F)
    BY <2>1, LenProperties
  <2>3. F[i] \in FiredAlert /\ F[j] \in FiredAlert
    BY <2>2
  <2>4. F[i].at \in Nat /\ F[j].at \in Nat
    BY <2>3 DEF FiredAlert
  <2> DEFINE then == F[j].at
             n == F[i].at
  <2>5. n <= n /\ (more = seen \/ \E y \in SeenScan : more = Append(seen, y))
    BY <2>4
  <2>6. then \in Nat /\ n \in Nat /\ Forgotten(seen, then, n)
    BY <1>1, <2>4
  <2> HIDE DEF more, then, n
  <2>7. Forgotten(more, then, n)
    BY <2>5, <2>6, ForgottenLater
  <2> QED BY <2>7 DEF then, n
<1> HIDE DEF more
<1>2. (\A j \in mine : j = i \/ Forgotten(seen, F[j].at, F[i].at)) =>
        \A j \in mine : j = i \/ Forgotten(more, F[j].at, F[i].at)
  BY <1>1
<1> QED BY <1>2 DEF Rationed, more

LEMMA RationedOld ==
  ASSUME NEW F \in Seq(FiredAlert), NEW a \in FiredAlert, NEW seen,
         NEW i \in 1 .. Len(F), Rationed(F, seen, i)
  PROVE  Rationed(Append(F, a), seen, i)
<1> DEFINE G == Append(F, a)
<1>1. Len(F) \in Nat /\ \A j \in 1 .. i : j \in 1 .. Len(F)
  BY LenProperties
<1>2. \A j \in 1 .. i : G[j] = F[j]
  BY <1>1, AppendProperties
<1>3. i \in 1 .. i
  BY <1>1
<1> HIDE DEF G
<1>4. \A w : Lately(G, i, w) = Lately(F, i, w) /\ Mine(G, i, w) = Mine(F, i, w)
  <2>1. \A w : Lately(G, i, w) = Lately(F, i, w)
    BY <1>2, <1>3 DEF Lately
  <2>2. \A w : \A j \in Lately(F, i, w) : j \in 1 .. i
    BY DEF Lately
  <2> QED BY <1>2, <1>3, <2>1, <2>2 DEF Mine
<1>5. \A w : \A j \in Mine(F, i, w) : G[j] = F[j]
  BY <1>2 DEF Mine, Lately
<1>6. G[i] = F[i]
  BY <1>2, <1>3
<1> DEFINE c == F[i].cfg
<1>7. (\A j \in Mine(F, i, c.cooldown - 1) : j = i \/ Forgotten(seen, F[j].at, F[i].at)) =>
        \A j \in Mine(G, i, c.cooldown - 1) : j = i \/ Forgotten(seen, G[j].at, G[i].at)
  BY <1>4, <1>5, <1>6
<1>8. /\ Lately(G, i, Minute) = Lately(F, i, Minute) /\ Lately(G, i, Hour) = Lately(F, i, Hour)
      /\ Mine(G, i, Minute) = Mine(F, i, Minute) /\ G[i].cfg = c /\ G[i].critical = F[i].critical
  BY <1>4, <1>6
<1>9. Rationed(G, seen, i)
  BY <1>7, <1>8 DEF Rationed
<1> QED BY <1>9 DEF G

(* What the properties count for the newest alert is what Hits() counts.   *)
LEMMA LatelyAreHits ==
  ASSUME NEW F \in Seq(FiredAlert), NEW a \in FiredAlert, NEW w \in Int
  PROVE  LET G == Append(F, a)
             i == Len(F) + 1
         IN  /\ Lately(G, i, w) = Hits(G, OfRule(a.rule, a.critical), a.at - w - 1)
             /\ Mine(G, i, w) = Hits(G, {Kind(a)}, a.at - w - 1)
<1> DEFINE G == Append(F, a)
           i == Len(F) + 1
<1>0. Len(F) \in Nat
  BY LenProperties
<1>1. G \in Seq(FiredAlert) /\ Len(G) = i /\ G[i] = a
  BY AppendProperties
<1> HIDE DEF G, i
<1>2. \A j \in 1 .. i : G[j] \in FiredAlert
  BY <1>1
<1>3. \A j \in 1 .. i : /\ G[j].rule \in CriticalKeys /\ G[j].sid \in AlertSids
                        /\ G[j].critical \in BOOLEAN /\ G[j].at \in Nat
  BY <1>2 DEF FiredAlert
<1>4. a.at \in Nat
  BY DEF FiredAlert
<1>5. \A j \in 1 .. i : a.at - G[j].at <= w <=> G[j].at > a.at - w - 1
  BY <1>3, <1>4
<1>6. \A j \in 1 .. i : Kind(G[j]) \in OfRule(a.rule, a.critical) <=>
                          G[j].rule = a.rule /\ G[j].critical = a.critical
  <2> SUFFICES ASSUME NEW j \in 1 .. i
               PROVE  Kind(G[j]) \in OfRule(a.rule, a.critical) <=>
                        G[j].rule = a.rule /\ G[j].critical = a.critical
    OBVIOUS
  <2>1. G[j].sid \in AlertSids
    BY <1>3
  <2> QED BY <2>1 DEF Kind, OfRule
<1>7. Lately(G, i, w) = Hits(G, OfRule(a.rule, a.critical), a.at - w - 1)
  BY <1>1, <1>5, <1>6 DEF Lately, Hits
<1>8. \A j \in 1 .. i : Kind(G[j]) \in {Kind(a)} <=>
        G[j].rule = a.rule /\ G[j].critical = a.critical /\ G[j].sid = a.sid
  BY DEF Kind
<1>9. Mine(G, i, w) = {j \in 1 .. i : /\ G[j].rule = a.rule /\ G[j].critical = a.critical
                                      /\ a.at - G[j].at <= w /\ G[j].sid = a.sid}
  BY <1>1 DEF Mine, Lately
<1>10. Mine(G, i, w) = Hits(G, {Kind(a)}, a.at - w - 1)
  BY <1>1, <1>5, <1>8, <1>9 DEF Hits
<1> QED BY <1>7, <1>10 DEF G, i

-----------------------------------------------------------------------------
(* The limits as a call threads them.                                      *)

DequesHold(l, n) ==
  /\ \A r \in AlertRules : /\ Tracks(l.fired, OfRule(r, FALSE), l.minute[r], n, n - Minute - 1)
                           /\ Tracks(l.fired, OfRule(r, FALSE), l.hour[r], n, n - Hour - 1)
  /\ \A r \in CriticalKeys : Tracks(l.fired, OfRule(r, TRUE), l.critical[r], n, n - Minute - 1)
  /\ \A k \in AlertKeys :
       Tracks(l.fired, OfSession(k), Contributed(l.contributions, k), n, n - Minute - 1)

DequesFresh(l, n) ==
  /\ \A r \in AlertRules : Fresh(l.minute[r], n - Minute - 1) /\ Fresh(l.hour[r], n - Hour - 1)
  /\ \A r \in CriticalKeys : Fresh(l.critical[r], n - Minute - 1)
  /\ \A k \in AlertKeys : Fresh(Contributed(l.contributions, k), n - Minute - 1)

CooldownsHold(l, seen, n) ==
  \A j \in 1 .. Len(l.fired) :
    LET f == l.fired[j] IN
    ~f.critical =>
      /\ f.rule \in AlertRules
      /\ \/ l.cooldowns[<<f.rule, f.sid>>] # Never /\ f.at <= l.cooldowns[<<f.rule, f.sid>>]
         \/ Forgotten(seen, f.at, n)

LimitsHold(l, seen, n) ==
  /\ l \in LimitSet
  /\ \A j \in 1 .. Len(l.fired) : l.fired[j].at <= n
  /\ DequesHold(l, n)
  /\ CooldownsHold(l, seen, n)
  /\ \A i \in 1 .. Len(l.fired) : Rationed(l.fired, seen, i)

LEMMA LimitTypes ==
  ASSUME NEW l \in LimitSet
  PROVE  /\ l.cooldowns \in [AlertKeys -> Nat] /\ l.minute \in [AlertRules -> Seq(Nat)]
         /\ l.hour \in [AlertRules -> Seq(Nat)] /\ l.critical \in [CriticalKeys -> Seq(Nat)]
         /\ l.fired \in Seq(FiredAlert)
         /\ \E D \in SUBSET AlertKeys : l.contributions \in [D -> Seq(Nat)]
BY DEF LimitSet, Books

LEMMA KindsOfRules ==
  ASSUME NEW a \in FiredAlert
  PROVE  /\ \A r : Kind(a) \in OfRule(r, FALSE) <=> ~a.critical /\ a.rule = r
         /\ \A r : Kind(a) \in OfRule(r, TRUE) <=> a.critical /\ a.rule = r
         /\ \A k \in AlertKeys : Kind(a) \in OfSession(k) <=> ~a.critical /\ k = <<a.rule, a.sid>>
<1>1. a.sid \in AlertSids /\ a.critical \in BOOLEAN
  BY DEF FiredAlert
<1>2. /\ \A r : Kind(a) \in OfRule(r, FALSE) <=> ~a.critical /\ a.rule = r
      /\ \A r : Kind(a) \in OfRule(r, TRUE) <=> a.critical /\ a.rule = r
  BY <1>1 DEF Kind, OfRule
<1>3. ASSUME NEW k \in AlertKeys
      PROVE  Kind(a) \in OfSession(k) <=> ~a.critical /\ k = <<a.rule, a.sid>>
  <2>1. PICK r \in AlertRules, s \in AlertSids : k = <<r, s>>
    BY DEF AlertKeys
  <2>2. k[1] = r /\ k[2] = s
    BY <2>1
  <2>3. Kind(a) \in OfSession(k) <=> a.rule = r /\ a.sid = s /\ a.critical = FALSE
    BY <2>2 DEF Kind, OfSession
  <2> QED BY <1>1, <2>1, <2>3
<1> QED BY <1>2, <1>3

(* One more alert, and its time in the deques that count its kind.         *)
Entered(l, a, n, m) ==
  /\ m.fired = Append(l.fired, a)
  /\ \A r \in AlertRules :
       /\ m.minute[r] = IF ~a.critical /\ a.rule = r THEN Append(l.minute[r], n) ELSE l.minute[r]
       /\ m.hour[r] = IF ~a.critical /\ a.rule = r THEN Append(l.hour[r], n) ELSE l.hour[r]
  /\ \A r \in CriticalKeys :
       m.critical[r] = IF a.critical /\ a.rule = r THEN Append(l.critical[r], n) ELSE l.critical[r]
  /\ \A k \in AlertKeys :
       Contributed(m.contributions, k) =
         IF ~a.critical /\ k = <<a.rule, a.sid>> THEN Append(Contributed(l.contributions, k), n)
         ELSE Contributed(l.contributions, k)
  /\ \A k \in AlertKeys :
       m.cooldowns[k] = IF ~a.critical /\ k = <<a.rule, a.sid>> THEN n ELSE l.cooldowns[k]

LEMMA DequesAppend ==
  ASSUME NEW l \in LimitSet, NEW n \in Nat, DequesHold(l, n),
         \A j \in 1 .. Len(l.fired) : l.fired[j].at <= n,
         NEW a \in FiredAlert, a.at = n,
         NEW m, Entered(l, a, n, m)
  PROVE  DequesHold(m, n) /\ (DequesFresh(l, n) => DequesFresh(m, n))
<1> DEFINE F == l.fired
           tm == n - Minute - 1
           th == n - Hour - 1
<1>1. F \in Seq(FiredAlert)
  BY LimitTypes
<1>2. tm \in Int /\ tm < n /\ th \in Int /\ th < n
  BY ConfigsTyped
<1>3. a.critical \in BOOLEAN
  BY DEF FiredAlert
<1> HIDE DEF F, tm, th
<1>4. \A j \in 1 .. Len(F) : F[j].at <= n
  BY DEF F
<1>5. ASSUME NEW r \in AlertRules
      PROVE  /\ Tracks(m.fired, OfRule(r, FALSE), m.minute[r], n, tm)
             /\ Tracks(m.fired, OfRule(r, FALSE), m.hour[r], n, th)
             /\ DequesFresh(l, n) =>
                  Fresh(m.minute[r], tm) /\ Fresh(m.hour[r], th)
  <2> DEFINE p == l.minute[r]
             q == m.minute[r]
             s == l.hour[r]
             u == m.hour[r]
  <2>1. Kind(a) \in OfRule(r, FALSE) <=> ~a.critical /\ a.rule = r
    BY KindsOfRules
  <2>2. q = (IF Kind(a) \in OfRule(r, FALSE) THEN Append(p, n) ELSE p)
    BY <2>1 DEF Entered
  <2>3. u = (IF Kind(a) \in OfRule(r, FALSE) THEN Append(s, n) ELSE s)
    BY <2>1 DEF Entered
  <2>4. /\ Tracks(F, OfRule(r, FALSE), p, n, tm)
        /\ Tracks(F, OfRule(r, FALSE), s, n, th)
        /\ DequesFresh(l, n) => Fresh(p, tm) /\ Fresh(s, th)
    BY DEF DequesHold, DequesFresh, F, tm, th
  <2> HIDE DEF p, q, s, u
  <2>5. /\ Tracks(Append(F, a), OfRule(r, FALSE), q, n, tm)
        /\ Fresh(p, tm) => Fresh(q, tm)
    BY <1>1, <1>2, <1>4, <2>2, <2>4, TracksAppend
  <2>6. /\ Tracks(Append(F, a), OfRule(r, FALSE), u, n, th)
        /\ Fresh(s, th) => Fresh(u, th)
    BY <1>1, <1>2, <1>4, <2>3, <2>4, TracksAppend
  <2> QED BY <2>4, <2>5, <2>6 DEF Entered, F, q, u
<1>6. ASSUME NEW r \in CriticalKeys
      PROVE  /\ Tracks(m.fired, OfRule(r, TRUE), m.critical[r], n, tm)
             /\ DequesFresh(l, n) => Fresh(m.critical[r], tm)
  <2> DEFINE q == l.critical[r]
             s == m.critical[r]
  <2>1. Kind(a) \in OfRule(r, TRUE) <=> a.critical /\ a.rule = r
    BY KindsOfRules
  <2>2. s = (IF Kind(a) \in OfRule(r, TRUE) THEN Append(q, n) ELSE q)
    BY <2>1 DEF Entered
  <2>3. /\ Tracks(F, OfRule(r, TRUE), q, n, tm)
        /\ DequesFresh(l, n) => Fresh(q, tm)
    BY DEF DequesHold, DequesFresh, F, tm, th
  <2> HIDE DEF q, s
  <2>4. /\ Tracks(Append(F, a), OfRule(r, TRUE), s, n, tm)
        /\ Fresh(q, tm) => Fresh(s, tm)
    BY <1>1, <1>2, <1>4, <2>2, <2>3, TracksAppend
  <2> QED BY <2>3, <2>4 DEF Entered, F, s
<1>7. ASSUME NEW k \in AlertKeys
      PROVE  /\ Tracks(m.fired, OfSession(k), Contributed(m.contributions, k), n, tm)
             /\ DequesFresh(l, n) => Fresh(Contributed(m.contributions, k), tm)
  <2> DEFINE q == Contributed(l.contributions, k)
             s == Contributed(m.contributions, k)
  <2>1. s = IF Kind(a) \in OfSession(k) THEN Append(q, n) ELSE q
    BY KindsOfRules DEF Entered
  <2>2. /\ Tracks(F, OfSession(k), q, n, tm)
        /\ DequesFresh(l, n) => Fresh(q, tm)
    BY DEF DequesHold, DequesFresh, F, tm, th
  <2> DEFINE K == OfSession(k)
  <2>3. s = (IF Kind(a) \in K THEN Append(q, n) ELSE q) /\ Tracks(F, K, q, n, tm)
    BY <2>1, <2>2
  <2> HIDE DEF q, s, K
  <2>4. Tracks(Append(F, a), K, s, n, tm) /\ (Fresh(q, tm) => Fresh(s, tm))
    BY <1>1, <1>2, <1>4, <2>3, TracksAppend
  <2> QED BY <2>2, <2>4 DEF Entered, F, s, K
<1> QED BY <1>5, <1>6, <1>7 DEF DequesHold, DequesFresh, tm, th

-----------------------------------------------------------------------------
(* AlertManager: what a candidate does to the limits.                      *)

Extends(F, G) == Len(F) <= Len(G) /\ \A j \in 1 .. Len(F) : G[j] = F[j]

LEMMA AppendExtends ==
  ASSUME NEW F \in Seq(FiredAlert), NEW a \in FiredAlert
  PROVE  Extends(F, Append(F, a))
<1>1. Len(F) \in Nat
  BY LenProperties
<1> QED BY <1>1, AppendProperties DEF Extends

LEMMA ExtendsTwice ==
  ASSUME NEW F \in Seq(FiredAlert), NEW G \in Seq(FiredAlert), NEW H \in Seq(FiredAlert),
         Extends(F, G), Extends(G, H)
  PROVE  Extends(F, H)
<1>1. Len(F) \in Nat /\ Len(G) \in Nat /\ Len(H) \in Nat
  BY LenProperties
<1>2. \A j \in 1 .. Len(F) : j \in 1 .. Len(G)
  BY <1>1 DEF Extends
<1> QED BY <1>1, <1>2 DEF Extends

(* The history with one more alert, if that one is rationed.               *)
LEMMA AllRationed ==
  ASSUME NEW F \in Seq(FiredAlert), NEW a \in FiredAlert, NEW seen,
         \A i \in 1 .. Len(F) : Rationed(F, seen, i),
         Rationed(Append(F, a), seen, Len(F) + 1)
  PROVE  \A i \in 1 .. Len(Append(F, a)) : Rationed(Append(F, a), seen, i)
<1> DEFINE G == Append(F, a)
<1>1. Len(F) \in Nat /\ Len(G) = Len(F) + 1
  BY LenProperties, AppendProperties
<1> SUFFICES ASSUME NEW i \in 1 .. Len(G) PROVE Rationed(G, seen, i)
  OBVIOUS
<1>2. i \in 1 .. Len(F) \/ i = Len(F) + 1
  BY <1>1
<1>3. ASSUME i \in 1 .. Len(F) PROVE Rationed(G, seen, i)
  BY <1>3, RationedOld
<1> QED BY <1>2, <1>3

(* The cooldown of an ordinary alert covers it from now on.                *)
LEMMA CooldownsAppend ==
  ASSUME NEW l \in LimitSet, NEW seen, NEW n \in Nat, n # Never, CooldownsHold(l, seen, n),
         \A j \in 1 .. Len(l.fired) : l.fired[j].at <= n,
         NEW a \in FiredAlert, a.at = n, ~a.critical => a.rule \in AlertRules,
         NEW m, Entered(l, a, n, m)
  PROVE  CooldownsHold(m, seen, n)
<1> DEFINE F == l.fired
           G == m.fired
<1>1. F \in Seq(FiredAlert)
  BY LimitTypes
<1>2. Len(F) \in Nat /\ Len(G) = Len(F) + 1 /\ G[Len(F) + 1] = a /\ \A j \in 1 .. Len(F) : G[j] = F[j]
  BY <1>1, LenProperties, AppendProperties DEF Entered
<1>3. \A j \in 1 .. Len(F) : F[j] \in FiredAlert
  BY <1>1
<1>4. ASSUME NEW f \in FiredAlert, f.rule \in AlertRules
      PROVE  <<f.rule, f.sid>> \in AlertKeys
  BY <1>4 DEF FiredAlert, AlertKeys
<1> SUFFICES ASSUME NEW j \in 1 .. Len(G), ~G[j].critical
             PROVE  /\ G[j].rule \in AlertRules
                    /\ \/ /\ m.cooldowns[<<G[j].rule, G[j].sid>>] # Never
                          /\ G[j].at <= m.cooldowns[<<G[j].rule, G[j].sid>>]
                       \/ Forgotten(seen, G[j].at, n)
  BY DEF CooldownsHold
<1>5. j \in 1 .. Len(F) \/ j = Len(F) + 1
  BY <1>2
<1>6. CASE j \in 1 .. Len(F)
  <2> DEFINE f == F[j]
             k == <<f.rule, f.sid>>
  <2>1. f \in FiredAlert /\ G[j] = f /\ f.at <= n
    BY <1>2, <1>3, <1>6
  <2>2. /\ f.rule \in AlertRules
        /\ (l.cooldowns[k] # Never /\ f.at <= l.cooldowns[k]) \/ Forgotten(seen, f.at, n)
    BY <1>6, <2>1 DEF CooldownsHold
  <2>3. k \in AlertKeys
    BY <1>4, <2>1, <2>2
  <2> HIDE DEF k
  <2>4. m.cooldowns[k] = n \/ m.cooldowns[k] = l.cooldowns[k]
    BY <2>3 DEF Entered
  <2>5. (m.cooldowns[k] # Never /\ f.at <= m.cooldowns[k]) \/ Forgotten(seen, f.at, n)
    BY <2>1, <2>2, <2>4
  <2> QED BY <2>1, <2>2, <2>5 DEF k
<1>7. CASE j = Len(F) + 1
  <2>1. G[j] = a /\ a.rule \in AlertRules
    BY <1>2, <1>7
  <2>2. <<a.rule, a.sid>> \in AlertKeys
    BY <1>4, <2>1
  <2>3. m.cooldowns[<<a.rule, a.sid>>] = n
    BY <2>1, <2>2 DEF Entered
  <2> QED BY <2>1, <2>3
<1> QED BY <1>5, <1>6, <1>7

(* One more alert, its time in the deques and the cooldown of its kind.    *)
LEMMA AlertAppended ==
  ASSUME NEW l, NEW seen, NEW n \in Nat \ {0}, LimitsHold(l, seen, n),
         NEW a \in FiredAlert, a.at = n, ~a.critical => a.rule \in AlertRules,
         NEW m \in LimitSet, Entered(l, a, n, m),
         Rationed(Append(l.fired, a), seen, Len(l.fired) + 1)
  PROVE  /\ LimitsHold(m, seen, n) /\ (DequesFresh(l, n) => DequesFresh(m, n))
         /\ Extends(l.fired, m.fired)
<1> DEFINE F == l.fired
<1>1. l \in LimitSet /\ F \in Seq(FiredAlert) /\ DequesHold(l, n) /\ CooldownsHold(l, seen, n)
  BY LimitTypes DEF LimitsHold
<1>2. (\A j \in 1 .. Len(F) : F[j].at <= n) /\ \A i \in 1 .. Len(F) : Rationed(F, seen, i)
  BY DEF LimitsHold
<1>0. m.fired = Append(F, a) /\ Rationed(Append(F, a), seen, Len(F) + 1)
  BY DEF Entered
<1> HIDE DEF F
<1>3. DequesHold(m, n) /\ (DequesFresh(l, n) => DequesFresh(m, n))
  BY <1>1, <1>2, DequesAppend DEF F
<1>4. CooldownsHold(m, seen, n)
  <2>1. n # Never
    BY DEF Never
  <2> QED BY <1>1, <1>2, <2>1, CooldownsAppend DEF F
<1>5. \A i \in 1 .. Len(m.fired) : Rationed(m.fired, seen, i)
  BY <1>0, <1>1, <1>2, AllRationed
<1>6. \A j \in 1 .. Len(m.fired) : m.fired[j].at <= n
  <2>1. Len(F) \in Nat /\ Len(m.fired) = Len(F) + 1
    BY <1>0, <1>1, LenProperties, AppendProperties
  <2>2. \A j \in 1 .. Len(m.fired) : j \in 1 .. Len(F) \/ j = Len(F) + 1
    BY <2>1
  <2>3. m.fired[Len(F) + 1] = a /\ \A j \in 1 .. Len(F) : m.fired[j] = F[j]
    BY <1>0, <1>1, AppendProperties
  <2> QED BY <1>2, <2>2, <2>3
<1>7. LimitsHold(m, seen, n)
  BY <1>3, <1>4, <1>5, <1>6 DEF LimitsHold
<1>8. Extends(F, m.fired)
  BY <1>0, <1>1, AppendExtends
<1> QED BY <1>3, <1>7, <1>8 DEF F

(* A candidate that is critical: rationed, and told unless its allowance   *)
(* is used up.                                                             *)
LEMMA CriticalAdmitted ==
  ASSUME NEW l, NEW seen, NEW rule \in CriticalKeys, NEW sid \in AlertSids,
         alertNow \in Nat \ {0}, alertCfg \in AlertConfigs, LimitsHold(l, seen, alertNow),
         Fresh(l.critical[rule], alertNow - Minute - 1)
  PROVE  LET m == AdmitCritical(l, rule, sid)
             K == OfRule(rule, TRUE)
         IN  /\ LimitsHold(m, seen, alertNow)
             /\ DequesFresh(l, alertNow) => DequesFresh(m, alertNow)
             /\ Extends(l.fired, m.fired)
             /\ \/ m.fired = Append(l.fired, Alert(rule, sid, TRUE))
                \/ Cardinality(Hits(m.fired, K, alertNow - Minute - 1)) >= alertCfg.criticalPerMinute
<1> DEFINE m == AdmitCritical(l, rule, sid)
           n == alertNow
           F == l.fired
           K == OfRule(rule, TRUE)
           t == n - Minute - 1
           a == Alert(rule, sid, TRUE)
           cap == alertCfg.criticalPerMinute
<1>1. l \in LimitSet /\ F \in Seq(FiredAlert) /\ DequesHold(l, n) /\ CooldownsHold(l, seen, n)
  BY LimitTypes DEF LimitsHold
<1>2. (\A j \in 1 .. Len(F) : F[j].at <= n) /\ \A i \in 1 .. Len(F) : Rationed(F, seen, i)
  BY DEF LimitsHold
<1>3. t \in Int /\ cap \in Nat /\ n \in Nat
  BY ConfigsTyped
<1>4. Tracks(F, K, l.critical[rule], n, t)
  BY <1>1 DEF DequesHold
<1>5. Cardinality(Hits(F, K, t)) = Len(l.critical[rule])
  BY <1>3, <1>4, TracksCounts
<1>6. CASE Len(l.critical[rule]) >= cap
  <2>1. m = l
    BY <1>6 DEF AdmitCritical
  <2>2. Extends(F, F)
    BY <1>1, LenProperties DEF Extends
  <2> QED BY <1>5, <1>6, <2>1, <2>2
<1>7. CASE ~(Len(l.critical[rule]) >= cap)
  <2>0. m = [l EXCEPT !.critical[rule] = Append(@, n), !.fired = Append(@, a)]
    BY <1>7 DEF AdmitCritical
  <2>1. a \in FiredAlert /\ a.rule = rule /\ a.sid = sid /\ a.critical = TRUE /\ a.at = n /\ a.cfg = alertCfg
    BY <1>3 DEF Alert, FiredAlert
  <2> HIDE DEF a
  <2>2. /\ m.cooldowns = l.cooldowns /\ m.minute = l.minute /\ m.hour = l.hour
        /\ m.contributions = l.contributions /\ m.fired = Append(F, a)
        /\ m.critical = [l.critical EXCEPT ![rule] = Append(@, n)]
    BY <1>1, <2>0 DEF LimitSet
  <2>3. /\ l.critical \in [CriticalKeys -> Seq(Nat)] /\ l.critical[rule] \in Seq(Nat)
        /\ Append(l.critical[rule], n) \in Seq(Nat) /\ m.fired \in Seq(FiredAlert)
    BY <1>1, <1>3, <2>1, <2>2, LimitTypes, AppendProperties
  <2>4. m.critical \in [CriticalKeys -> Seq(Nat)]
    BY <2>2, <2>3
  <2>5. m \in LimitSet
    BY <1>1, <2>0, <2>2, <2>3, <2>4 DEF LimitSet
  <2> HIDE DEF m, F
  <2>6. \A r \in CriticalKeys :
          m.critical[r] = IF a.critical /\ a.rule = r THEN Append(l.critical[r], n) ELSE l.critical[r]
    BY <2>1, <2>2, <2>3
  <2>7. Entered(l, a, n, m)
    BY <2>1, <2>2, <2>6 DEF Entered, F
  <2>8. Rationed(Append(F, a), seen, Len(F) + 1)
    <3> DEFINE G == Append(F, a)
               i == Len(F) + 1
    <3>1. G[i] = a
      BY <1>1, <2>1, AppendProperties
    <3>2. Lately(G, i, Minute) = Hits(G, K, t)
      <4>1. Minute \in Int
        BY ConfigsTyped
      <4> QED BY <1>1, <2>1, <4>1, LatelyAreHits
    <3>3. Kind(a) \in K /\ a.at > t
      <4>1. Kind(a) \in K
        BY <2>1, KindsOfRules
      <4>2. n > t
        BY <1>3, ConfigsTyped
      <4> QED BY <2>1, <4>1, <4>2
    <3>4. Cardinality(Hits(G, K, t)) = Cardinality(Hits(F, K, t)) + 1
      BY <1>1, <2>1, <3>3, HitsOfAppend
    <3>5. Len(l.critical[rule]) \in Nat
      BY <2>3, LenProperties
    <3>6. Cardinality(Lately(G, i, Minute)) <= cap
      <4> DEFINE size == Len(l.critical[rule])
      <4>1. ~(size >= cap) /\ size \in Nat /\ cap \in Nat
        BY <1>3, <1>7, <3>5
      <4>2. Cardinality(Lately(G, i, Minute)) = size + 1
        BY <1>5, <3>2, <3>4
      <4> HIDE DEF size, cap
      <4> QED BY <4>1, <4>2
    <3> QED BY <2>1, <3>1, <3>6 DEF Rationed
  <2>9. /\ LimitsHold(m, seen, n) /\ (DequesFresh(l, n) => DequesFresh(m, n))
        /\ Extends(F, m.fired)
    BY <1>3, <2>1, <2>5, <2>7, <2>8, AlertAppended DEF F
  <2> QED BY <2>2, <2>9 DEF m, F, a
<1> QED BY <1>6, <1>7

Put(times, key, q) == [k \in DOMAIN times \cup {key} |-> IF k = key THEN q ELSE times[k]]

LEMMA PutContributed ==
  ASSUME NEW times \in Books, NEW key \in AlertKeys, NEW q \in Seq(Nat)
  PROVE  /\ Put(times, key, q) \in Books
         /\ \A k : Contributed(Put(times, key, q), k) = IF k = key THEN q ELSE Contributed(times, k)
<1> DEFINE p == Put(times, key, q)
           E == DOMAIN times \cup {key}
<1>1. PICK D \in SUBSET AlertKeys : times \in [D -> Seq(Nat)]
  BY DEF Books
<1>2. p = [k \in E |-> IF k = key THEN q ELSE times[k]]
  BY DEF Put
<1>3. DOMAIN times = D /\ E \in SUBSET AlertKeys
  BY <1>1
<1>4. \A k \in E : (IF k = key THEN q ELSE times[k]) \in Seq(Nat)
  BY <1>1, <1>3
<1>5. p \in [E -> Seq(Nat)]
  BY <1>2, <1>4
<1>6. p \in Books
  BY <1>3, <1>5 DEF Books
<1>7. ASSUME NEW k PROVE Contributed(p, k) = IF k = key THEN q ELSE Contributed(times, k)
  <2>1. DOMAIN p = E
    BY <1>2
  <2> HIDE DEF p
  <2>2. CASE k = key
    BY <1>2, <2>1, <2>2 DEF Contributed
  <2>3. CASE k # key
    BY <1>2, <2>1, <2>3 DEF Contributed
  <2> QED BY <2>2, <2>3
<1> HIDE DEF p
<1> QED BY <1>6, <1>7 DEF p

LEMMA ContributedTyped ==
  ASSUME NEW times \in Books, NEW key
  PROVE  Contributed(times, key) \in Seq(Nat)
<1>1. PICK D \in SUBSET AlertKeys : times \in [D -> Seq(Nat)]
  BY DEF Books
<1> QED BY <1>1 DEF Contributed

(* The contribution of a key is made, even if its deque is empty.          *)
LEMMA ContributionMade ==
  ASSUME NEW l, NEW seen, NEW n \in Nat, LimitsHold(l, seen, n), NEW key \in AlertKeys,
         NEW m, m = [l EXCEPT !.contributions = Put(l.contributions, key, Contributed(l.contributions, key))]
  PROVE  LimitsHold(m, seen, n) /\ (DequesFresh(l, n) => DequesFresh(m, n)) /\ m.fired = l.fired
<1>1. l \in LimitSet /\ l.contributions \in Books
  BY DEF LimitsHold, LimitSet
<1>2. Contributed(l.contributions, key) \in Seq(Nat)
  BY <1>1, ContributedTyped
<1>3. /\ m.cooldowns = l.cooldowns /\ m.minute = l.minute /\ m.hour = l.hour /\ m.critical = l.critical
      /\ m.fired = l.fired
      /\ m.contributions = Put(l.contributions, key, Contributed(l.contributions, key))
  BY <1>1 DEF LimitSet
<1>4. /\ m.contributions \in Books
      /\ \A k : Contributed(m.contributions, k) = Contributed(l.contributions, k)
  BY <1>1, <1>2, <1>3, PutContributed
<1>5. m \in LimitSet
  BY <1>1, <1>3, <1>4 DEF LimitSet
<1>6. DequesHold(l, n) /\ CooldownsHold(l, seen, n)
  BY DEF LimitsHold
<1>7. DequesHold(m, n) /\ (DequesFresh(l, n) => DequesFresh(m, n))
  BY <1>3, <1>4, <1>6 DEF DequesHold, DequesFresh
<1>8. CooldownsHold(m, seen, n)
  BY <1>3, <1>6 DEF CooldownsHold
<1>9. LimitsHold(m, seen, n)
  BY <1>3, <1>5, <1>7, <1>8 DEF LimitsHold
<1> QED BY <1>3, <1>7, <1>9

(* A candidate that is not critical.                                       *)
LEMMA OrdinaryAdmitted ==
  ASSUME NEW l, NEW seen, NEW rule \in AlertRules, NEW sid \in AlertSids,
         alertNow \in Nat \ {0}, alertCfg \in AlertConfigs, LimitsHold(l, seen, alertNow),
         DequesFresh(l, alertNow)
  PROVE  LET m == AdmitOrdinary(l, rule, sid)
         IN  LimitsHold(m, seen, alertNow) /\ DequesFresh(m, alertNow) /\ Extends(l.fired, m.fired)
<1> DEFINE m == AdmitOrdinary(l, rule, sid)
           n == alertNow
           F == l.fired
           key == <<rule, sid>>
           mine == Contributed(l.contributions, key)
           a == Alert(rule, sid, FALSE)
           dropped == \/ l.cooldowns[key] # Never /\ n - l.cooldowns[key] < alertCfg.cooldown
                      \/ /\ key \notin DOMAIN l.contributions
                         /\ Cardinality(DOMAIN l.contributions) >= alertCfg.maxEntries
           full == \/ Len(mine) >= alertCfg.perSession
                   \/ Len(l.minute[rule]) >= alertCfg.perMinute
                   \/ Len(l.hour[rule]) >= alertCfg.perHour
           told == [l EXCEPT !.cooldowns[key] = n,
                             !.minute[rule] = Append(@, n),
                             !.hour[rule] = Append(@, n),
                             !.contributions = Put(l.contributions, key, Append(mine, n)),
                             !.fired = Append(@, a)]
<1>1. l \in LimitSet /\ F \in Seq(FiredAlert) /\ DequesHold(l, n) /\ CooldownsHold(l, seen, n)
  BY LimitTypes DEF LimitsHold
<1>2. m = IF dropped THEN l
          ELSE IF full THEN [l EXCEPT !.contributions = Put(l.contributions, key, mine)]
          ELSE told
  BY DEF AdmitOrdinary, Put
<1>3. key \in AlertKeys /\ n \in Nat /\ Extends(F, F)
  BY <1>1, LenProperties DEF AlertKeys, Extends
<1>4. CASE dropped
  <2>1. m = l
    BY <1>2, <1>4
  <2> QED BY <1>3, <2>1
<1>5. CASE ~dropped /\ full
  <2>1. m = [l EXCEPT !.contributions = Put(l.contributions, key, mine)]
    BY <1>2, <1>5
  <2> HIDE DEF m, key
  <2>2. LimitsHold(m, seen, n) /\ DequesFresh(m, n) /\ m.fired = l.fired
    BY <1>3, <2>1, ContributionMade
  <2> QED BY <1>3, <2>2 DEF m
<1>6. CASE ~dropped /\ ~full
  <2>0. m = told
    BY <1>2, <1>6
  <2>1. a \in FiredAlert /\ a.rule = rule /\ a.sid = sid /\ a.critical = FALSE /\ a.at = n /\ a.cfg = alertCfg
    BY <1>3 DEF Alert, FiredAlert, CriticalKeys
  <2> HIDE DEF m, key
  <2> DEFINE q == l.minute[rule]
             s == l.hour[rule]
             tm == n - Minute - 1
             th == n - Hour - 1
             c == alertCfg
             K == OfRule(rule, FALSE)
             G == Append(F, a)
             i == Len(F) + 1
  <2>2. /\ l.contributions \in Books /\ q \in Seq(Nat) /\ s \in Seq(Nat) /\ mine \in Seq(Nat)
        /\ Append(q, n) \in Seq(Nat) /\ Append(s, n) \in Seq(Nat) /\ Append(mine, n) \in Seq(Nat)
        /\ l.cooldowns \in [AlertKeys -> Nat] /\ l.minute \in [AlertRules -> Seq(Nat)]
        /\ l.hour \in [AlertRules -> Seq(Nat)]
    <3>1. l.contributions \in Books
      BY <1>1 DEF LimitSet
    <3>2. q \in Seq(Nat) /\ s \in Seq(Nat) /\ mine \in Seq(Nat)
      BY <1>1, <1>3, <3>1, LimitTypes, ContributedTyped
    <3> QED BY <1>1, <1>3, <3>1, <3>2, LimitTypes, AppendProperties
  <2>3. /\ m.cooldowns = [l.cooldowns EXCEPT ![key] = n]
        /\ m.minute = [l.minute EXCEPT ![rule] = Append(@, n)]
        /\ m.hour = [l.hour EXCEPT ![rule] = Append(@, n)]
        /\ m.contributions = Put(l.contributions, key, Append(mine, n))
        /\ m.critical = l.critical /\ m.fired = Append(F, a)
    BY <1>1, <2>0 DEF LimitSet
  <2>4. /\ m.contributions \in Books
        /\ \A k : Contributed(m.contributions, k) =
                    IF k = key THEN Append(mine, n) ELSE Contributed(l.contributions, k)
    <3> DEFINE times == l.contributions
               r == Append(mine, n)
    <3>1. times \in Books /\ r \in Seq(Nat) /\ m.contributions = Put(times, key, r)
      BY <2>2, <2>3
    <3> HIDE DEF times, r
    <3>2. /\ m.contributions \in Books
          /\ \A k : Contributed(m.contributions, k) = IF k = key THEN r ELSE Contributed(times, k)
      BY <1>3, <3>1, PutContributed
    <3> QED BY <3>2 DEF times, r
  <2>5. m \in LimitSet
    <3>1. m.cooldowns \in [AlertKeys -> Nat]
      BY <1>3, <2>2, <2>3
    <3>2. m.minute \in [AlertRules -> Seq(Nat)] /\ m.hour \in [AlertRules -> Seq(Nat)]
      BY <2>2, <2>3
    <3>3. m.fired \in Seq(FiredAlert) /\ m.critical \in [CriticalKeys -> Seq(Nat)]
      <4>1. a \in FiredAlert /\ m.fired = Append(F, a) /\ m.critical = l.critical
        BY <2>1, <2>3
      <4> HIDE DEF a
      <4> QED BY <1>1, <4>1, LimitTypes, AppendProperties
    <3>4. m = [cooldowns |-> m.cooldowns, minute |-> m.minute, hour |-> m.hour, critical |-> m.critical,
               contributions |-> m.contributions, fired |-> m.fired]
      BY <1>1, <2>0 DEF LimitSet
    <3> QED BY <2>4, <3>1, <3>2, <3>3, <3>4 DEF LimitSet
  <2>6. Entered(l, a, n, m)
    <3>1. \A r \in AlertRules :
            /\ m.minute[r] = IF r = rule THEN Append(l.minute[r], n) ELSE l.minute[r]
            /\ m.hour[r] = IF r = rule THEN Append(l.hour[r], n) ELSE l.hour[r]
      BY <2>2, <2>3
    <3>2. \A k \in AlertKeys : m.cooldowns[k] = IF k = key THEN n ELSE l.cooldowns[k]
      BY <2>2, <2>3
    <3>3. \A k \in AlertKeys : Contributed(m.contributions, k) =
            IF k = key THEN Append(Contributed(l.contributions, k), n) ELSE Contributed(l.contributions, k)
      BY <2>4
    <3>4. key = <<a.rule, a.sid>> /\ ~a.critical
      BY <2>1 DEF key
    <3> HIDE DEF a
    <3> QED BY <2>1, <2>3, <3>1, <3>2, <3>3, <3>4 DEF Entered
  <2>7. Rationed(G, seen, i)
    <3>1. G[i] = a /\ \A j \in 1 .. Len(F) : G[j] = F[j]
      <4>1. a \in FiredAlert
        BY <2>1
      <4> HIDE DEF a
      <4> QED BY <1>1, <4>1, AppendProperties
    <3>2. /\ tm \in Int /\ th \in Int /\ n > tm /\ n > th /\ Minute \in Int /\ Hour \in Int
          /\ c.cooldown \in Nat \ {0}
      BY <1>3, ConfigsTyped
    <3>3. /\ Cardinality(Hits(F, K, tm)) = Len(q) /\ Cardinality(Hits(F, K, th)) = Len(s)
          /\ Cardinality(Hits(F, OfSession(key), tm)) = Len(mine)
      <4>1. Tracks(F, K, q, n, tm) /\ Tracks(F, K, s, n, th) /\ Tracks(F, OfSession(key), mine, n, tm)
        BY <1>1, <1>3 DEF DequesHold
      <4>2. Fresh(q, tm) /\ Fresh(s, th) /\ Fresh(mine, tm)
        BY <1>3 DEF DequesFresh
      <4> HIDE DEF q, s, mine, tm, th, F, K
      <4> QED BY <3>2, <4>1, <4>2, TracksCounts
    <3> DEFINE S == OfSession(key)
    <3>4. Kind(a) \in K /\ Kind(a) \in S
      <4>1. key = <<a.rule, a.sid>> /\ ~a.critical /\ a.rule = rule /\ a \in FiredAlert
        BY <2>1 DEF key
      <4> HIDE DEF a
      <4> QED BY <1>3, <4>1, KindsOfRules
    <3>5. S = {Kind(a)}
      BY <2>1 DEF OfSession, Kind, key
    <3>6. /\ Lately(G, i, Minute) = Hits(G, K, tm) /\ Lately(G, i, Hour) = Hits(G, K, th)
          /\ Mine(G, i, Minute) = Hits(G, S, tm)
      <4>1. a \in FiredAlert /\ a.rule = rule /\ a.critical = FALSE /\ a.at = n
        BY <2>1
      <4> HIDE DEF a, S
      <4>2. /\ Lately(G, i, Minute) = Hits(G, OfRule(a.rule, a.critical), a.at - Minute - 1)
            /\ Mine(G, i, Minute) = Hits(G, {Kind(a)}, a.at - Minute - 1)
        BY <1>1, <3>2, <4>1, LatelyAreHits
      <4>3. Lately(G, i, Hour) = Hits(G, OfRule(a.rule, a.critical), a.at - Hour - 1)
        BY <1>1, <3>2, <4>1, LatelyAreHits
      <4> HIDE DEF G, i
      <4> QED BY <3>5, <4>1, <4>2, <4>3
    <3>7. /\ Cardinality(Hits(G, K, tm)) = Cardinality(Hits(F, K, tm)) + 1
          /\ Cardinality(Hits(G, K, th)) = Cardinality(Hits(F, K, th)) + 1
          /\ Cardinality(Hits(G, S, tm)) = Cardinality(Hits(F, S, tm)) + 1
      <4>1. a \in FiredAlert /\ a.at > tm /\ a.at > th
        BY <2>1, <3>2
      <4> HIDE DEF a, S, K, tm, th, F
      <4> QED BY <1>1, <3>4, <4>1, HitsOfAppend
    <3>8. /\ Cardinality(Lately(G, i, Minute)) <= c.perMinute
          /\ Cardinality(Lately(G, i, Hour)) <= c.perHour
          /\ Cardinality(Mine(G, i, Minute)) <= c.perSession
      <4>1. Len(q) \in Nat /\ Len(s) \in Nat /\ Len(mine) \in Nat
        BY <2>2, LenProperties
      <4>2. ~(Len(mine) >= c.perSession) /\ ~(Len(q) >= c.perMinute) /\ ~(Len(s) >= c.perHour)
        BY <1>6
      <4>3. c.perMinute \in Nat /\ c.perHour \in Nat /\ c.perSession \in Nat
        BY ConfigsTyped
      <4>4. /\ Cardinality(Lately(G, i, Minute)) = Len(q) + 1
            /\ Cardinality(Lately(G, i, Hour)) = Len(s) + 1
            /\ Cardinality(Mine(G, i, Minute)) = Len(mine) + 1
        BY <3>3, <3>6, <3>7
      <4> HIDE DEF q, s, mine, c, G, i
      <4> QED BY <4>1, <4>2, <4>3, <4>4
    <3>9. ASSUME NEW j \in Mine(G, i, c.cooldown - 1), j # i
          PROVE  Forgotten(seen, G[j].at, G[i].at)
      <4>1. /\ j \in 1 .. i /\ G[j].rule = rule /\ G[j].sid = sid /\ G[j].critical = FALSE
            /\ n - G[j].at <= c.cooldown - 1
        BY <2>1, <3>1, <3>9 DEF Mine, Lately
      <4>2. j \in 1 .. Len(F) /\ G[j] = F[j] /\ F[j] \in FiredAlert
        BY <1>1, <3>1, <3>9, <4>1, LenProperties
      <4>3. \/ l.cooldowns[key] # Never /\ F[j].at <= l.cooldowns[key]
            \/ Forgotten(seen, F[j].at, n)
        BY <1>1, <4>1, <4>2 DEF CooldownsHold, key
      <4>4. l.cooldowns[key] \in Nat /\ F[j].at \in Nat
        BY <1>3, <2>2, <4>2 DEF FiredAlert
      <4>5. l.cooldowns[key] # Never => n - l.cooldowns[key] >= c.cooldown
        BY <1>3, <1>6, <3>2, <4>4
      <4>6. ~(l.cooldowns[key] # Never /\ F[j].at <= l.cooldowns[key])
        <5> DEFINE then == F[j].at
                   last == l.cooldowns[key]
        <5>1. /\ then \in Nat /\ last \in Nat /\ n - then <= c.cooldown - 1
              /\ last # Never => n - last >= c.cooldown
          BY <4>1, <4>2, <4>4, <4>5
        <5> HIDE DEF then, last
        <5>2. ~(last # Never /\ then <= last)
          BY <1>3, <3>2, <5>1
        <5> QED BY <5>2 DEF then, last
      <4> QED BY <2>1, <3>1, <4>2, <4>3, <4>6
    <3> HIDE DEF a, G, i
    <3> QED BY <2>1, <3>1, <3>8, <3>9 DEF Rationed
  <2>8. /\ LimitsHold(m, seen, n) /\ DequesFresh(m, n) /\ Extends(F, m.fired)
    <3>1. ~a.critical => a.rule \in AlertRules
      BY <2>1
    <3> HIDE DEF a
    <3> QED BY <2>1, <2>5, <2>6, <2>7, <3>1, AlertAppended
  <2> QED BY <2>8 DEF m
<1> QED BY <1>4, <1>5, <1>6

-----------------------------------------------------------------------------
(* AlertManager: pruning, and the candidates of a scan in their order.     *)

Limits == [cooldowns |-> cooldowns, minute |-> minute, hour |-> hour, critical |-> critical,
           contributions |-> contributions, fired |-> fired]

(* As time goes by nothing is lost; only what is too old to count is.      *)
LEMMA LimitsLater ==
  ASSUME NEW l, NEW seen \in Seq(SeenScan), NEW n \in Nat, NEW m \in Nat, n <= m,
         LimitsHold(l, seen, n)
  PROVE  LimitsHold(l, seen, m)
<1> DEFINE F == l.fired
<1>1. l \in LimitSet /\ F \in Seq(FiredAlert) /\ DequesHold(l, n) /\ CooldownsHold(l, seen, n)
  BY LimitTypes DEF LimitsHold
<1>2. \A j \in 1 .. Len(F) : F[j] \in FiredAlert /\ F[j].at <= n
  BY <1>1 DEF LimitsHold
<1>3. \A j \in 1 .. Len(F) : F[j].at \in Nat /\ F[j].at <= m
  BY <1>2 DEF FiredAlert
<1>4. Minute \in Nat /\ Hour \in Nat
  BY ConfigsTyped
<1>5. DequesHold(l, m)
  <2> DEFINE t0 == n - Minute - 1
             t1 == m - Minute - 1
             h0 == n - Hour - 1
             h1 == m - Hour - 1
  <2>1. t0 \in Int /\ t1 \in Int /\ t0 <= t1 /\ h0 \in Int /\ h1 \in Int /\ h0 <= h1
    BY <1>4
  <2>2. ASSUME NEW K, NEW q, Tracks(F, K, q, n, t0) PROVE Tracks(F, K, q, m, t1)
    <3> HIDE DEF F, t0, t1
    <3> QED BY <2>1, <2>2, TracksLater
  <2>3. ASSUME NEW K, NEW q, Tracks(F, K, q, n, h0) PROVE Tracks(F, K, q, m, h1)
    <3> HIDE DEF F, h0, h1
    <3> QED BY <2>1, <2>3, TracksLater
  <2>4. ASSUME NEW r \in AlertRules
        PROVE  Tracks(F, OfRule(r, FALSE), l.minute[r], m, t1) /\ Tracks(F, OfRule(r, FALSE), l.hour[r], m, h1)
    <3>1. Tracks(F, OfRule(r, FALSE), l.minute[r], n, t0) /\ Tracks(F, OfRule(r, FALSE), l.hour[r], n, h0)
      BY <1>1 DEF DequesHold
    <3> QED BY <3>1, <2>2, <2>3
  <2>5. ASSUME NEW r \in CriticalKeys PROVE Tracks(F, OfRule(r, TRUE), l.critical[r], m, t1)
    <3>1. Tracks(F, OfRule(r, TRUE), l.critical[r], n, t0)
      BY <1>1 DEF DequesHold
    <3> QED BY <3>1, <2>2
  <2>6. ASSUME NEW k \in AlertKeys PROVE Tracks(F, OfSession(k), Contributed(l.contributions, k), m, t1)
    <3>1. Tracks(F, OfSession(k), Contributed(l.contributions, k), n, t0)
      BY <1>1 DEF DequesHold
    <3> QED BY <3>1, <2>2
  <2> QED BY <2>4, <2>5, <2>6 DEF DequesHold
<1>6. CooldownsHold(l, seen, m)
  <2>1. ASSUME NEW j \in 1 .. Len(F), Forgotten(seen, F[j].at, n) PROVE Forgotten(seen, F[j].at, m)
    <3> DEFINE then == F[j].at
    <3>1. then \in Nat /\ Forgotten(seen, then, n)
      BY <1>3, <2>1
    <3> HIDE DEF then
    <3>2. Forgotten(seen, then, m)
      BY <3>1, ForgottenLater
    <3> QED BY <3>2 DEF then
  <2> QED BY <1>1, <2>1 DEF CooldownsHold
<1> QED BY <1>1, <1>3, <1>5, <1>6 DEF LimitsHold

(* _prune_stale(): a scan x starts with the limits as it leaves them.      *)
LEMMA LimitsPruned ==
  ASSUME alertNow \in Nat \ {0}, alertCfg \in AlertConfigs, scans \in Seq(SeenScan),
         LimitsHold(Limits, scans, alertNow),
         NEW x \in SeenScan, x.at = alertNow, x.cfg = alertCfg
  PROVE  /\ LimitsHold(PrunedLimits, Append(scans, x), alertNow)
         /\ DequesFresh(PrunedLimits, alertNow)
         /\ PrunedLimits.fired = fired
<1> DEFINE n == alertNow
           p == PrunedLimits
           seen == Append(scans, x)
           tm == n - Minute - 1
           th == n - Hour - 1
<1>1. /\ Limits \in LimitSet /\ fired \in Seq(FiredAlert)
      /\ DequesHold(Limits, n) /\ CooldownsHold(Limits, scans, n)
      /\ \A j \in 1 .. Len(fired) : fired[j].at <= n /\ Rationed(fired, scans, j)
  BY LimitTypes DEF LimitsHold, Limits
<1>2. /\ Limits.cooldowns = cooldowns /\ Limits.minute = minute /\ Limits.hour = hour
      /\ Limits.critical = critical /\ Limits.contributions = contributions /\ Limits.fired = fired
  BY DEF Limits
<1>3. /\ cooldowns \in [AlertKeys -> Nat] /\ minute \in [AlertRules -> Seq(Nat)]
      /\ hour \in [AlertRules -> Seq(Nat)] /\ critical \in [CriticalKeys -> Seq(Nat)]
  BY <1>1, <1>2, LimitTypes
<1>4. PICK D \in SUBSET AlertKeys : contributions \in [D -> Seq(Nat)]
  BY <1>1, <1>2, LimitTypes
<1>5. n \in Nat /\ n <= n /\ tm \in Int /\ th \in Int /\ tm <= tm /\ th <= th
  BY ConfigsTyped
<1> DEFINE mine == [k \in D |-> After(contributions[k], tm)]
           E == {k \in D : mine[k] # << >>}
<1>6. /\ p.cooldowns = [k \in AlertKeys |-> IF Recently(cooldowns[k], CooldownTTL) THEN cooldowns[k] ELSE Never]
      /\ p.minute = [r \in AlertRules |-> After(minute[r], tm)]
      /\ p.hour = [r \in AlertRules |-> After(hour[r], th)]
      /\ p.critical = [r \in CriticalKeys |-> After(critical[r], tm)]
      /\ p.contributions = [k \in E |-> mine[k]]
      /\ p.fired = fired
  BY <1>3, <1>4 DEF PrunedLimits, RecentTimes, EvictOld, Restrict, AlertKeys
<1>7. /\ \A r \in AlertRules : /\ Tracks(fired, OfRule(r, FALSE), minute[r], n, tm)
                               /\ Tracks(fired, OfRule(r, FALSE), hour[r], n, th)
      /\ \A r \in CriticalKeys : Tracks(fired, OfRule(r, TRUE), critical[r], n, tm)
      /\ \A k \in AlertKeys : Tracks(fired, OfSession(k), Contributed(contributions, k), n, tm)
  BY <1>1, <1>2 DEF DequesHold
<1>8. \A k \in AlertKeys : Contributed(p.contributions, k) = After(Contributed(contributions, k), tm)
  <2> SUFFICES ASSUME NEW k \in AlertKeys
               PROVE  Contributed(p.contributions, k) = After(Contributed(contributions, k), tm)
    OBVIOUS
  <2>1. DOMAIN contributions = D /\ DOMAIN p.contributions = E
    BY <1>4, <1>6
  <2>2. CASE k \in E
    BY <1>6, <2>1, <2>2 DEF Contributed
  <2>3. CASE k \in D \ E
    BY <2>1, <2>3 DEF Contributed
  <2>4. CASE k \notin D
    BY <1>5, <2>1, <2>4, AfterNothing DEF Contributed
  <2> QED BY <2>2, <2>3, <2>4
<1> HIDE DEF p, n, tm, th, seen, mine, E
<1>9. ASSUME NEW K, NEW q, NEW t \in Int, Tracks(fired, K, q, n, t)
      PROVE  Tracks(fired, K, After(q, t), n, t) /\ Fresh(After(q, t), t) /\ After(q, t) \in Seq(Nat)
  <2>1. t <= t
    OBVIOUS
  <2>2. Tracks(fired, K, After(q, t), n, t) /\ Fresh(After(q, t), t)
    BY <1>5, <1>9, <2>1, TracksLater
  <2> QED BY <2>2 DEF Tracks
<1>10. ASSUME NEW r \in AlertRules
       PROVE  /\ Tracks(fired, OfRule(r, FALSE), p.minute[r], n, tm) /\ Fresh(p.minute[r], tm)
              /\ Tracks(fired, OfRule(r, FALSE), p.hour[r], n, th) /\ Fresh(p.hour[r], th)
              /\ p.minute[r] \in Seq(Nat) /\ p.hour[r] \in Seq(Nat)
  <2>1. p.minute[r] = After(minute[r], tm) /\ p.hour[r] = After(hour[r], th)
    BY <1>6
  <2> QED BY <1>5, <1>7, <1>9, <2>1
<1>11. ASSUME NEW r \in CriticalKeys
       PROVE  /\ Tracks(fired, OfRule(r, TRUE), p.critical[r], n, tm) /\ Fresh(p.critical[r], tm)
              /\ p.critical[r] \in Seq(Nat)
  <2>1. p.critical[r] = After(critical[r], tm)
    BY <1>6
  <2> QED BY <1>5, <1>7, <1>9, <2>1
<1>12. ASSUME NEW k \in AlertKeys
       PROVE  /\ Tracks(fired, OfSession(k), Contributed(p.contributions, k), n, tm)
              /\ Fresh(Contributed(p.contributions, k), tm)
              /\ Contributed(p.contributions, k) \in Seq(Nat)
  BY <1>5, <1>7, <1>8, <1>9
<1>13. DequesHold(p, n) /\ DequesFresh(p, n)
  BY <1>6, <1>10, <1>11, <1>12 DEF DequesHold, DequesFresh, tm, th
<1>14. p \in LimitSet
  <2>1. p.cooldowns \in [AlertKeys -> Nat]
    BY <1>3, <1>6 DEF Never
  <2>2. p.minute \in [AlertRules -> Seq(Nat)] /\ p.hour \in [AlertRules -> Seq(Nat)]
    BY <1>6, <1>10
  <2>3. p.critical \in [CriticalKeys -> Seq(Nat)]
    BY <1>6, <1>11
  <2>4. p.contributions \in Books
    <3>1. E \in SUBSET AlertKeys /\ \A k \in E : k \in AlertKeys /\ k \in DOMAIN p.contributions
      BY <1>4, <1>6 DEF E
    <3>2. \A k \in E : p.contributions[k] \in Seq(Nat)
      BY <1>12, <3>1 DEF Contributed
    <3>3. p.contributions \in [E -> Seq(Nat)]
      BY <1>6, <3>2
    <3> QED BY <3>1, <3>3 DEF Books
  <2>5. p = [cooldowns |-> p.cooldowns, minute |-> p.minute, hour |-> p.hour, critical |-> p.critical,
             contributions |-> p.contributions, fired |-> p.fired]
    BY DEF p, PrunedLimits
  <2> QED BY <1>1, <1>6, <2>1, <2>2, <2>3, <2>4, <2>5 DEF LimitSet
<1>15. seen \in Seq(SeenScan) /\ Len(scans) + 1 \in DOMAIN seen /\ seen[Len(scans) + 1] = x
  BY LenProperties, AppendProperties DEF seen
<1>16. \A j \in 1 .. Len(fired) : fired[j].at \in Nat /\ fired[j].sid \in AlertSids
  <2>1. \A j \in 1 .. Len(fired) : fired[j] \in FiredAlert
    BY <1>1
  <2> QED BY <2>1 DEF FiredAlert
<1>17. CooldownsHold(p, seen, n)
  <2> SUFFICES ASSUME NEW j \in 1 .. Len(fired), ~fired[j].critical
               PROVE  /\ fired[j].rule \in AlertRules
                      /\ \/ /\ p.cooldowns[<<fired[j].rule, fired[j].sid>>] # Never
                            /\ fired[j].at <= p.cooldowns[<<fired[j].rule, fired[j].sid>>]
                         \/ Forgotten(seen, fired[j].at, n)
    BY <1>6 DEF CooldownsHold
  <2> DEFINE then == fired[j].at
             k == <<fired[j].rule, fired[j].sid>>
             last == cooldowns[k]
  <2>1. /\ fired[j].rule \in AlertRules /\ then \in Nat
        /\ (last # Never /\ then <= last) \/ Forgotten(scans, then, n)
    BY <1>1, <1>2, <1>16 DEF CooldownsHold
  <2>2. k \in AlertKeys
    BY <1>16, <2>1 DEF AlertKeys
  <2> HIDE DEF k
  <2>3. last \in Nat /\ p.cooldowns[k] = IF Recently(last, CooldownTTL) THEN last ELSE Never
    BY <1>3, <1>6, <2>2
  <2> HIDE DEF then, last
  <2>4. CASE Forgotten(scans, then, n)
    <3>1. seen = Append(scans, x)
      BY DEF seen
    <3>2. Forgotten(seen, then, n)
      BY <1>5, <2>1, <2>4, <3>1, ForgottenLater
    <3> QED BY <2>1, <3>2 DEF then
  <2>5. CASE last # Never /\ then <= last /\ Recently(last, CooldownTTL)
    BY <2>1, <2>3, <2>5 DEF then, k
  <2>6. CASE last # Never /\ then <= last /\ ~Recently(last, CooldownTTL)
    <3>1. n - last > 2 * alertCfg.cooldown
      <4>1. alertCfg.cooldown \in Nat
        BY ConfigsTyped
      <4> QED BY <1>5, <2>3, <2>6, <4>1 DEF Recently, CooldownTTL, n
    <3>2. n - then > 2 * alertCfg.cooldown
      <4>1. alertCfg.cooldown \in Nat
        BY ConfigsTyped
      <4> QED BY <1>5, <2>1, <2>3, <2>6, <3>1, <4>1
    <3>3. Forgotten(seen, then, n)
      <4>1. x.at <= n /\ x.at - then > 2 * x.cfg.cooldown
        BY <1>5, <3>2 DEF n
      <4> QED BY <1>15, <4>1 DEF Forgotten
    <3> QED BY <2>1, <3>3 DEF then
  <2> QED BY <2>1, <2>4, <2>5, <2>6
<1>18. \A j \in 1 .. Len(fired) : Rationed(fired, seen, j)
  BY <1>1, RationedSeen DEF seen
<1>19. LimitsHold(p, seen, n)
  BY <1>1, <1>6, <1>13, <1>14, <1>17, <1>18 DEF LimitsHold
<1> QED BY <1>6, <1>13, <1>19 DEF p, seen, n

(* A candidate, of either kind, keeps the limits and adds to the history.  *)
LEMMA CandidateConsidered ==
  ASSUME NEW l, NEW seen, NEW rule \in AlertRules, NEW raised, NEW sid \in AlertSids, NEW q,
         alertNow \in Nat \ {0}, alertCfg \in AlertConfigs,
         LimitsHold(l, seen, alertNow), DequesFresh(l, alertNow)
  PROVE  LET m == Consider(l, rule, raised, sid, q)
         IN  /\ LimitsHold(m, seen, alertNow) /\ DequesFresh(m, alertNow)
             /\ Extends(l.fired, m.fired) /\ m.fired \in Seq(FiredAlert)
<1> DEFINE m == Consider(l, rule, raised, sid, q)
<1>1. rule \in CriticalKeys /\ Fresh(l.critical[rule], alertNow - Minute - 1)
  BY DEF CriticalKeys, DequesFresh
<1>2. Extends(l.fired, l.fired)
  <2>1. l.fired \in Seq(FiredAlert)
    BY LimitTypes DEF LimitsHold
  <2> QED BY <2>1, LenProperties DEF Extends
<1>3. m = l \/ m = AdmitCritical(l, rule, sid) \/ m = AdmitOrdinary(l, rule, sid)
  BY DEF Consider, Admit
<1>4. LimitsHold(m, seen, alertNow) /\ DequesFresh(m, alertNow) /\ Extends(l.fired, m.fired)
  <2>1. CASE m = l
    BY <1>2, <2>1
  <2>2. CASE m = AdmitCritical(l, rule, sid)
    BY <1>1, <2>2, CriticalAdmitted
  <2>3. CASE m = AdmitOrdinary(l, rule, sid)
    BY <2>3, OrdinaryAdmitted
  <2> QED BY <1>3, <2>1, <2>2, <2>3
<1> HIDE DEF m
<1>5. m.fired \in Seq(FiredAlert)
  BY <1>4, LimitTypes DEF LimitsHold
<1> QED BY <1>4, <1>5 DEF m

LEMMA CandidatesAdmitted ==
  ASSUME NEW seen, NEW raised, NEW sid \in AlertSids, NEW q,
         alertNow \in Nat \ {0}, alertCfg \in AlertConfigs,
         LimitsHold(PrunedLimits, seen, alertNow), DequesFresh(PrunedLimits, alertNow)
  PROVE  LET tier == Consider(PrunedLimits, "tier_escalation", raised, sid, q)
             m == Admitted(raised, sid, q)
         IN  /\ LimitsHold(m, seen, alertNow)
             /\ Extends(PrunedLimits.fired, tier.fired) /\ Extends(tier.fired, m.fired)
             /\ Extends(PrunedLimits.fired, m.fired)
             /\ tier.fired \in Seq(FiredAlert) /\ m.fired \in Seq(FiredAlert)
<1> DEFINE p == PrunedLimits
           tier == Consider(p, "tier_escalation", raised, sid, q)
           high == Consider(tier, "high_severity_finding", raised, sid, q)
           rapid == Consider(high, "rapid_fire", raised, sid, q)
           burst == Consider(rapid, "cross_session_burst", raised, sid, q)
           m == Consider(burst, "pii_volume_spike", raised, sid, q)
           Good(l) == LimitsHold(l, seen, alertNow) /\ DequesFresh(l, alertNow)
<1>0. Admitted(raised, sid, q) = m
  BY DEF Admitted
<1>1. /\ "tier_escalation" \in AlertRules /\ "high_severity_finding" \in AlertRules
      /\ "rapid_fire" \in AlertRules /\ "cross_session_burst" \in AlertRules
      /\ "pii_volume_spike" \in AlertRules
  BY DEF AlertRules
<1>2. p.fired \in Seq(FiredAlert) /\ Good(p)
  BY LimitTypes DEF LimitsHold
<1> HIDE DEF p, m, burst, rapid, high, tier
<1>3. Good(tier) /\ Extends(p.fired, tier.fired) /\ tier.fired \in Seq(FiredAlert)
  BY <1>1, <1>2, CandidateConsidered DEF tier
<1>4. Good(high) /\ Extends(tier.fired, high.fired) /\ high.fired \in Seq(FiredAlert)
  BY <1>1, <1>3, CandidateConsidered DEF high
<1>5. Good(rapid) /\ Extends(high.fired, rapid.fired) /\ rapid.fired \in Seq(FiredAlert)
  BY <1>1, <1>4, CandidateConsidered DEF rapid
<1>6. Good(burst) /\ Extends(rapid.fired, burst.fired) /\ burst.fired \in Seq(FiredAlert)
  BY <1>1, <1>5, CandidateConsidered DEF burst
<1>7. Good(m) /\ Extends(burst.fired, m.fired) /\ m.fired \in Seq(FiredAlert)
  BY <1>1, <1>6, CandidateConsidered DEF m
<1>8. Extends(tier.fired, rapid.fired)
  BY <1>3, <1>4, <1>5, ExtendsTwice
<1>9. Extends(tier.fired, burst.fired)
  BY <1>3, <1>5, <1>6, <1>8, ExtendsTwice
<1>10. Extends(tier.fired, m.fired)
  BY <1>3, <1>6, <1>7, <1>9, ExtendsTwice
<1>11. Extends(p.fired, m.fired)
  BY <1>2, <1>3, <1>7, <1>10, ExtendsTwice
<1> QED BY <1>0, <1>3, <1>7, <1>10, <1>11 DEF p, tier

-----------------------------------------------------------------------------
(* AlertManager: the alert of a termination.                               *)

(* An alert that was told stays told, and the allowance it met used up.    *)
LEMMA StillThrough ==
  ASSUME NEW F \in Seq(FiredAlert), NEW G \in Seq(FiredAlert), Extends(F, G),
         NEW q \in SeenScan, GetsThrough(F, q)
  PROVE  GetsThrough(G, q)
<1> DEFINE t == q.at
           cap == q.cfg.criticalPerMinute
<1>1. /\ DOMAIN F = 1 .. Len(F) /\ DOMAIN G = 1 .. Len(G) /\ Len(F) \in Nat /\ Len(G) \in Nat
  BY LenProperties
<1>2. \A j \in DOMAIN F : j \in DOMAIN G /\ G[j] = F[j]
  BY <1>1 DEF Extends
<1>3. Told(F, t) \subseteq Told(G, t)
  BY <1>2 DEF Told
<1>4. IsFiniteSet(Told(G, t))
  <2>1. IsFiniteSet(1 .. Len(G))
    BY <1>1, FS_Interval
  <2>2. Told(G, t) \subseteq 1 .. Len(G)
    BY <1>1 DEF Told
  <2> QED BY <2>1, <2>2, FS_Subset
<1>5. Cardinality(Told(F, t)) <= Cardinality(Told(G, t)) /\ Cardinality(Told(F, t)) \in Nat
      /\ Cardinality(Told(G, t)) \in Nat
  BY <1>3, <1>4, FS_Subset, FS_CardinalityType
<1>6. cap \in Nat
  BY ConfigsTyped DEF SeenScan
<1>7. Cardinality(Told(F, t)) >= cap => Cardinality(Told(G, t)) >= cap
  <2> DEFINE f == Cardinality(Told(F, t))
             g == Cardinality(Told(G, t))
  <2> HIDE DEF f, g, cap
  <2> QED BY <1>5, <1>6 DEF f, g
<1>8. ASSUME NEW j \in Told(F, t), F[j].sid = q.sid, F[j].at = t
      PROVE  \E i \in Told(G, t) : G[i].sid = q.sid /\ G[i].at = t
  <2>1. j \in Told(G, t) /\ G[j] = F[j]
    BY <1>2, <1>3 DEF Told
  <2> QED BY <1>8, <2>1
<1> QED BY <1>7, <1>8 DEF GetsThrough

(* The scan that terminates a session is heard, or its allowance is gone.  *)
LEMMA TerminationHeard ==
  ASSUME alertNow \in Nat \ {0}, alertCfg \in AlertConfigs,
         NEW seen, LimitsHold(PrunedLimits, seen, alertNow), DequesFresh(PrunedLimits, alertNow),
         NEW x \in SeenScan, x.at = alertNow, x.cfg = alertCfg,
         x.sid # NoSession => (x.scan.escalates # "no" => "tier_escalation" \in x.raised)
  PROVE  GetsThrough(Admitted(x.raised, x.sid, x.scan).fired, x)
<1> DEFINE n == alertNow
           sid == x.sid
           rule == "tier_escalation"
           p == PrunedLimits
           tier == Consider(p, rule, x.raised, sid, x.scan)
           m == Admitted(x.raised, sid, x.scan)
           K == OfRule(rule, TRUE)
           G == tier.fired
           a == Alert(rule, sid, TRUE)
<1>1. sid \in AlertSids /\ rule \in CriticalKeys
  BY DEF SeenScan, CriticalKeys, AlertRules
<1>2. G \in Seq(FiredAlert) /\ m.fired \in Seq(FiredAlert) /\ Extends(G, m.fired)
  BY <1>1, CandidatesAdmitted
<1>3. GetsThrough(G, x)
  <2> SUFFICES ASSUME x.scan.escalates = "critical", sid # NoSession
               PROVE  \/ \E j \in Told(G, n) : G[j].sid = sid /\ G[j].at = n
                      \/ Cardinality(Told(G, n)) >= alertCfg.criticalPerMinute
    BY DEF GetsThrough
  <2>1. tier = AdmitCritical(p, rule, sid)
    BY DEF Consider, Admit, IsCritical
  <2>2. Fresh(p.critical[rule], n - Minute - 1)
    BY <1>1 DEF DequesFresh
  <2>3. /\ LimitsHold(tier, seen, n)
        /\ \/ G = Append(p.fired, a)
           \/ Cardinality(Hits(G, K, n - Minute - 1)) >= alertCfg.criticalPerMinute
    <3> HIDE DEF p, rule, a
    <3> QED BY <1>1, <2>1, <2>2, CriticalAdmitted DEF p, a
  <2>4. \A j \in 1 .. Len(G) : G[j] \in FiredAlert /\ G[j].at \in Nat /\ G[j].at <= n
    <3>1. \A j \in 1 .. Len(G) : G[j] \in FiredAlert /\ G[j].at <= n
      BY <1>2, <2>3 DEF LimitsHold
    <3> QED BY <3>1 DEF FiredAlert
  <2>5. Minute \in Nat /\ DOMAIN G = 1 .. Len(G) /\ Len(G) \in Nat /\ n \in Nat
    BY <1>2, ConfigsTyped, LenProperties
  <2>6. CASE G = Append(p.fired, a)
    <3>1. p.fired \in Seq(FiredAlert) /\ a \in FiredAlert
      <4>1. p.fired \in Seq(FiredAlert)
        BY LimitTypes DEF LimitsHold
      <4> QED BY <1>1, <4>1 DEF Alert, FiredAlert
    <3>2. G[Len(G)] = a /\ Len(G) \in DOMAIN G
      <4> HIDE DEF a, p
      <4>1. Len(p.fired) \in Nat /\ Len(G) = Len(p.fired) + 1 /\ G[Len(G)] = a
        BY <2>6, <3>1, LenProperties, AppendProperties
      <4> QED BY <2>5, <4>1
    <3>3. a.rule = rule /\ a.sid = sid /\ a.critical = TRUE /\ a.at = n
      BY DEF Alert
    <3> HIDE DEF a, G
    <3>4. Len(G) \in Told(G, n)
      BY <2>5, <3>2, <3>3 DEF Told
    <3> QED BY <3>2, <3>3, <3>4
  <2>7. CASE Cardinality(Hits(G, K, n - Minute - 1)) >= alertCfg.criticalPerMinute
    <3>1. \A j \in 1 .. Len(G) : Kind(G[j]) \in K <=> G[j].critical /\ G[j].rule = rule
      <4>1. \A b \in FiredAlert : Kind(b) \in K <=> b.critical /\ b.rule = rule
        BY KindsOfRules
      <4> HIDE DEF G, K, rule
      <4> QED BY <2>4, <4>1
    <3> HIDE DEF G, K, rule
    <3>2. \A j \in 1 .. Len(G) : G[j].at > n - Minute - 1 <=> n - G[j].at <= Minute
      BY <2>4, <2>5
    <3>3. Hits(G, K, n - Minute - 1) = Told(G, n)
      BY <2>4, <2>5, <3>1, <3>2 DEF Hits, Told, rule
    <3> QED BY <2>7, <3>3
  <2> QED BY <2>3, <2>6, <2>7
<1> HIDE DEF G, m
<1>4. GetsThrough(m.fired, x)
  BY <1>2, <1>3, StillThrough
<1> QED BY <1>4 DEF m

-----------------------------------------------------------------------------
(* AlertManager: the invariant.  The deques count, from the oldest time    *)
(* that matters on, the alerts of the history; a cooldown covers the       *)
(* ordinary alerts of its key, unless it was forgotten.                    *)
AlertIInv ==
  /\ alertNow \in Nat \ {0} /\ alertCfg \in AlertConfigs /\ scans \in Seq(SeenScan)
  /\ LimitsHold(Limits, scans, alertNow)
  /\ \A i \in 1 .. Len(scans) : GetsThrough(fired, scans[i])

LEMMA AlertIInvAdmits == AlertIInv => AlertsAdmitted
<1> SUFFICES ASSUME AlertIInv PROVE AlertsAdmitted
  OBVIOUS
<1>1. Limits.fired = fired
  BY DEF Limits
<1>2. fired \in Seq(FiredAlert) /\ \A i \in 1 .. Len(fired) : Rationed(fired, scans, i)
  BY <1>1, LimitTypes DEF AlertIInv, LimitsHold
<1>3. DOMAIN fired = 1 .. Len(fired) /\ DOMAIN scans = 1 .. Len(scans)
  BY <1>2, LenProperties DEF AlertIInv
<1>4. AlertsRationed
  BY <1>2, <1>3 DEF AlertsRationed
<1>5. CriticalGetsThrough
  BY <1>3 DEF AlertIInv, CriticalGetsThrough
<1> QED BY <1>4, <1>5 DEF AlertsAdmitted

LEMMA AlertIInvInit == AlertInit => AlertIInv
<1> SUFFICES ASSUME AlertInit PROVE AlertIInv
  OBVIOUS
<1> DEFINE l == Limits
<1>1. /\ l.cooldowns = [k \in AlertRules \X AlertSids |-> Never]
      /\ l.minute = [r \in AlertRules |-> << >>] /\ l.hour = [r \in AlertRules |-> << >>]
      /\ l.critical = [r \in CriticalKeys |-> << >>] /\ l.contributions = << >> /\ l.fired = << >>
  BY DEF AlertInit, Limits
<1>2. l = [cooldowns |-> l.cooldowns, minute |-> l.minute, hour |-> l.hour, critical |-> l.critical,
           contributions |-> l.contributions, fired |-> l.fired]
  BY DEF Limits
<1>3. \A k : Contributed(l.contributions, k) = << >>
  BY <1>1 DEF Contributed
<1>4. Len(l.fired) = 0
  BY <1>1
<1> HIDE DEF l
<1>5. l \in LimitSet
  <2>1. l.contributions \in [{} -> Seq(Nat)]
    BY <1>1
  <2>2. l.contributions \in Books
    BY <2>1 DEF Books
  <2>3. << >> \in Seq(Nat) /\ << >> \in Seq(FiredAlert)
    OBVIOUS
  <2>4. /\ l.cooldowns \in [AlertKeys -> Nat] /\ l.minute \in [AlertRules -> Seq(Nat)]
        /\ l.hour \in [AlertRules -> Seq(Nat)] /\ l.critical \in [CriticalKeys -> Seq(Nat)]
        /\ l.fired \in Seq(FiredAlert)
    BY <1>1, <2>3 DEF AlertKeys, Never
  <2> QED BY <1>2, <2>2, <2>4 DEF LimitSet
<1>6. DequesHold(l, 1)
  <2>1. ASSUME NEW K, NEW t PROVE Tracks(<< >>, K, << >>, 1, t)
    BY TracksNothing
  <2>2. \A r \in AlertRules : l.minute[r] = << >> /\ l.hour[r] = << >>
    BY <1>1
  <2>3. \A r \in CriticalKeys : l.critical[r] = << >>
    BY <1>1
  <2>4. l.fired = << >>
    BY <1>1
  <2> QED BY <1>3, <2>1, <2>2, <2>3, <2>4 DEF DequesHold
<1>7. LimitsHold(l, scans, 1)
  BY <1>4, <1>5, <1>6 DEF LimitsHold, CooldownsHold
<1>8. scans \in Seq(SeenScan) /\ Len(scans) = 0 /\ alertNow = 1 /\ alertCfg \in AlertConfigs
  BY DEF AlertInit
<1> QED BY <1>7, <1>8 DEF AlertIInv, l

(* A scan.                                                                 *)
LEMMA EvaluateKeeps ==
  ASSUME AlertIInv, NEW sid \in AlertSids, NEW q \in AlertScans, EvaluateAlerts(sid, q)
  PROVE  AlertIInv'
<1> DEFINE raised == {rule \in AlertRules : Raises(rule, sid, q)}
           x == [sid |-> sid, scan |-> q, at |-> alertNow, cfg |-> alertCfg, raised |-> raised]
           m == Admitted(raised, sid, q)
<1>1. /\ Adopt(m) /\ scans' = Append(scans, x) /\ alertNow' = alertNow /\ alertCfg' = alertCfg
  BY DEF EvaluateAlerts
<1>2. /\ alertNow \in Nat \ {0} /\ alertCfg \in AlertConfigs /\ scans \in Seq(SeenScan)
      /\ LimitsHold(Limits, scans, alertNow)
      /\ \A i \in 1 .. Len(scans) : GetsThrough(fired, scans[i])
  BY DEF AlertIInv
<1>3. x \in SeenScan /\ x.at = alertNow /\ x.cfg = alertCfg /\ x.sid = sid /\ x.scan = q /\ x.raised = raised
  BY <1>2 DEF SeenScan
<1>4. sid # NoSession => (q.escalates # "no" => "tier_escalation" \in raised)
  BY DEF Raises, AlertRules
<1> HIDE DEF raised, x, m
<1>5. /\ LimitsHold(PrunedLimits, Append(scans, x), alertNow) /\ DequesFresh(PrunedLimits, alertNow)
      /\ PrunedLimits.fired = fired
  BY <1>2, <1>3, LimitsPruned
<1>6. /\ LimitsHold(m, Append(scans, x), alertNow) /\ Extends(fired, m.fired) /\ m.fired \in Seq(FiredAlert)
  BY <1>2, <1>5, CandidatesAdmitted DEF m
<1>7. GetsThrough(m.fired, x)
  <2>1. GetsThrough(Admitted(x.raised, x.sid, x.scan).fired, x)
    BY <1>2, <1>3, <1>4, <1>5, TerminationHeard
  <2> QED BY <1>3, <2>1 DEF m
<1>8. m \in LimitSet
  BY <1>6 DEF LimitsHold
<1>9. Limits' = m
  BY <1>1, <1>8 DEF Adopt, Limits, LimitSet
<1>10. fired \in Seq(FiredAlert)
  BY <1>2, LimitTypes DEF LimitsHold, Limits
<1>11. /\ scans' \in Seq(SeenScan) /\ Len(scans) \in Nat /\ Len(scans') = Len(scans) + 1
       /\ scans'[Len(scans) + 1] = x /\ \A i \in 1 .. Len(scans) : scans'[i] = scans[i]
  BY <1>1, <1>2, <1>3, LenProperties, AppendProperties
<1>12. \A i \in 1 .. Len(scans) : scans[i] \in SeenScan
  BY <1>2
<1>13. \A i \in 1 .. Len(scans) : GetsThrough(m.fired, scans[i])
  BY <1>2, <1>6, <1>10, <1>12, StillThrough
<1>14. \A i \in 1 .. Len(scans') : GetsThrough(m.fired, scans'[i])
  <2>1. \A i \in 1 .. Len(scans') : i \in 1 .. Len(scans) \/ i = Len(scans) + 1
    BY <1>11
  <2> QED BY <1>7, <1>11, <1>13, <2>1
<1>15. fired' = m.fired
  BY <1>1 DEF Adopt
<1>16. LimitsHold(Limits', scans', alertNow')
  BY <1>1, <1>6, <1>9
<1> QED BY <1>1, <1>2, <1>11, <1>14, <1>15, <1>16 DEF AlertIInv

(* A self-modification finding: its own deque is pruned, then it is        *)
(* admitted as a critical alert is.                                        *)
LEMMA SelfmodKeeps ==
  ASSUME AlertIInv, NEW sid \in AlertSids, NEW rule \in SelfmodAlerts, EvaluateSelfmodAlert(sid, rule)
  PROVE  AlertIInv'
<1> DEFINE n == alertNow
           t == n - Minute - 1
           kept == After(critical[rule], t)
           l == [Limits EXCEPT !.critical[rule] = kept]
           m == AdmitCritical(l, rule, sid)
<1>1. /\ n \in Nat \ {0} /\ alertCfg \in AlertConfigs /\ scans \in Seq(SeenScan)
      /\ LimitsHold(Limits, scans, n)
      /\ \A i \in 1 .. Len(scans) : GetsThrough(fired, scans[i])
  BY DEF AlertIInv
<1>2. /\ critical' = [critical EXCEPT ![rule] = IF Len(kept) >= alertCfg.criticalPerMinute THEN kept
                                                ELSE Append(kept, n)]
      /\ fired' = IF Len(kept) >= alertCfg.criticalPerMinute THEN fired
                  ELSE Append(fired, Alert(rule, sid, TRUE))
      /\ alertNow' = n /\ alertCfg' = alertCfg /\ cooldowns' = cooldowns /\ minute' = minute
      /\ hour' = hour /\ contributions' = contributions /\ scans' = scans
  BY DEF EvaluateSelfmodAlert, EvictOld
<1>3. /\ Limits \in LimitSet /\ fired \in Seq(FiredAlert) /\ critical \in [CriticalKeys -> Seq(Nat)]
      /\ DequesHold(Limits, n) /\ rule \in CriticalKeys
      /\ Limits.fired = fired /\ Limits.critical = critical
  BY <1>1, LimitTypes DEF LimitsHold, Limits, CriticalKeys
<1>4. n \in Nat /\ n <= n /\ t \in Int /\ t <= t
  BY <1>1, ConfigsTyped
<1>5. /\ Tracks(fired, OfRule(rule, TRUE), kept, n, t) /\ Fresh(kept, t) /\ kept \in Seq(Nat)
  <2> DEFINE K == OfRule(rule, TRUE)
             q == critical[rule]
  <2>1. Tracks(fired, K, q, n, t)
    BY <1>3 DEF DequesHold
  <2> HIDE DEF K, q, t
  <2>2. Tracks(fired, K, After(q, t), n, t) /\ Fresh(After(q, t), t)
    BY <1>4, <2>1, TracksLater
  <2>3. After(q, t) \in Seq(Nat)
    BY <2>2 DEF Tracks
  <2> QED BY <2>2, <2>3 DEF K, q
<1> HIDE DEF kept
<1>6. /\ l.cooldowns = cooldowns /\ l.minute = minute /\ l.hour = hour /\ l.contributions = contributions
      /\ l.fired = fired /\ l.critical = [critical EXCEPT ![rule] = kept]
  BY DEF Limits
<1>7. l.critical \in [CriticalKeys -> Seq(Nat)] /\ l.critical[rule] = kept
      /\ \A r \in CriticalKeys : r # rule => l.critical[r] = critical[r]
  BY <1>3, <1>5, <1>6
<1>8. l \in LimitSet
  BY <1>3, <1>6, <1>7 DEF LimitSet, Limits
<1>9. m = IF Len(kept) >= alertCfg.criticalPerMinute THEN l
          ELSE [l EXCEPT !.critical[rule] = Append(@, n), !.fired = Append(@, Alert(rule, sid, TRUE))]
  BY <1>7 DEF AdmitCritical
<1>10. Limits' = m
  <2>1. CASE Len(kept) >= alertCfg.criticalPerMinute
    BY <1>2, <1>9, <2>1 DEF Limits
  <2>2. CASE ~(Len(kept) >= alertCfg.criticalPerMinute)
    <3>1. critical' = [critical EXCEPT ![rule] = Append(kept, n)] /\ fired' = Append(fired, Alert(rule, sid, TRUE))
      BY <1>2, <2>2
    <3>2. m = [l EXCEPT !.critical[rule] = Append(@, n), !.fired = Append(@, Alert(rule, sid, TRUE))]
      BY <1>9, <2>2
    <3>3. [l.critical EXCEPT ![rule] = Append(@, n)] = critical'
      BY <1>3, <1>6, <1>7, <3>1
    <3>4. m = [cooldowns |-> cooldowns, minute |-> minute, hour |-> hour, critical |-> critical',
               contributions |-> contributions, fired |-> fired']
      BY <1>6, <3>1, <3>2, <3>3 DEF Limits
    <3> QED BY <1>2, <3>4 DEF Limits
  <2> QED BY <2>1, <2>2
<1> HIDE DEF l
<1>11. LimitsHold(l, scans, n)
  <2>1. DequesHold(l, n)
    <3>1. ASSUME NEW r \in CriticalKeys PROVE Tracks(fired, OfRule(r, TRUE), l.critical[r], n, n - Minute - 1)
      <4>1. CASE r = rule
        BY <1>5, <1>7, <4>1
      <4>2. CASE r # rule
        BY <1>3, <1>7, <4>2 DEF DequesHold
      <4> QED BY <4>1, <4>2
    <3> QED BY <1>3, <1>6, <3>1 DEF DequesHold, Limits
  <2>2. CooldownsHold(l, scans, n)
    BY <1>1, <1>6 DEF LimitsHold, CooldownsHold, Limits
  <2>3. \A j \in 1 .. Len(l.fired) : l.fired[j].at <= n /\ Rationed(l.fired, scans, j)
    BY <1>1, <1>3, <1>6 DEF LimitsHold
  <2> QED BY <1>8, <2>1, <2>2, <2>3 DEF LimitsHold
<1>12. Fresh(l.critical[rule], n - Minute - 1)
  BY <1>5, <1>7
<1>13. LimitsHold(m, scans, n) /\ Extends(fired, m.fired)
  <2> HIDE DEF n
  <2>1. LimitsHold(m, scans, n) /\ Extends(l.fired, m.fired)
    BY <1>1, <1>3, <1>11, <1>12, CriticalAdmitted DEF n
  <2> QED BY <1>6, <2>1
<1>14. m.fired = fired' /\ m.fired \in Seq(FiredAlert)
  <2>1. m.fired \in Seq(FiredAlert)
    BY <1>13, LimitTypes DEF LimitsHold
  <2>2. Limits'.fired = fired'
    BY DEF Limits
  <2> QED BY <1>10, <2>1, <2>2
<1>15. \A i \in 1 .. Len(scans) : GetsThrough(fired', scans[i])
  <2>1. \A i \in 1 .. Len(scans) : scans[i] \in SeenScan
    BY <1>1
  <2> QED BY <1>1, <1>3, <1>13, <1>14, <2>1, StillThrough
<1>16. LimitsHold(Limits', scans', alertNow')
  BY <1>2, <1>10, <1>13
<1> QED BY <1>1, <1>2, <1>15, <1>16 DEF AlertIInv

(* The clock.                                                              *)
LEMMA AlertTickKeeps ==
  ASSUME AlertIInv, AlertTick
  PROVE  AlertIInv'
<1>1. /\ alertNow \in Nat \ {0} /\ alertCfg \in AlertConfigs /\ scans \in Seq(SeenScan)
      /\ LimitsHold(Limits, scans, alertNow)
  BY DEF AlertIInv
<1>2. /\ alertNow' = alertNow + 1 /\ alertNow + 1 \in Nat \ {0} /\ alertNow <= alertNow + 1
      /\ alertNow \in Nat /\ alertNow + 1 \in Nat
  BY <1>1 DEF AlertTick
<1>3. Limits' = Limits /\ scans' = scans /\ fired' = fired /\ alertCfg' = alertCfg
  BY DEF AlertTick, Limits, limits
<1>4. LimitsHold(Limits, scans, alertNow + 1)
  BY <1>1, <1>2, LimitsLater
<1> QED BY <1>1, <1>2, <1>3, <1>4 DEF AlertIInv

LEMMA AlertIInvStep == AlertIInv /\ [AlertNext]_alertVars => AlertIInv'
<1> SUFFICES ASSUME AlertIInv, [AlertNext]_alertVars PROVE AlertIInv'
  OBVIOUS
<1>1. CASE \E sid \in AlertSids, q \in AlertScans : EvaluateAlerts(sid, q)
  BY <1>1, EvaluateKeeps
<1>2. CASE \E sid \in AlertSids, rule \in SelfmodAlerts : EvaluateSelfmodAlert(sid, rule)
  BY <1>2, SelfmodKeeps
<1>3. CASE \E c \in AlertConfigs : ApplyAlertConfig(c)
  <2>1. alertNow' = alertNow /\ alertCfg' \in AlertConfigs /\ scans' = scans /\ fired' = fired /\ Limits' = Limits
    BY <1>3 DEF ApplyAlertConfig, Limits, limits
  <2> QED BY <2>1 DEF AlertIInv
<1>4. CASE AlertTick
  BY <1>4, AlertTickKeeps
<1>5. CASE UNCHANGED alertVars
  <2>1. alertNow' = alertNow /\ alertCfg' = alertCfg /\ scans' = scans /\ fired' = fired /\ Limits' = Limits
    BY <1>5 DEF alertVars, Limits, limits
  <2> QED BY <2>1 DEF AlertIInv
<1> QED BY <1>1, <1>2, <1>3, <1>4, <1>5 DEF AlertNext

(* No window of a minute or an hour holds more alerts than the caps allow, *)
(* ordinary alerts of one rule for one session are a cooldown apart, and a *)
(* termination is told unless the critical allowance is used up            *)
(* (alerting.py:141-263).                                                  *)
THEOREM AlertsAreAdmitted == AlertSpec => []AlertsAdmitted
<1>1. AlertInit => AlertIInv
  BY AlertIInvInit
<1>2. AlertIInv /\ [AlertNext]_alertVars => AlertIInv'
  BY AlertIInvStep
<1>3. AlertIInv => AlertsAdmitted
  BY AlertIInvAdmits
<1> QED BY <1>1, <1>2, <1>3, PTL DEF AlertSpec

-----------------------------------------------------------------------------
(* AlertManager: the windows of the rules against the scans.  A list of    *)
(* weights q keeps what p weighs, or at least d of it.                     *)
Weighs(q, p, d) == Total(q) <= Total(p) /\ (Total(q) = Total(p) \/ Total(q) >= d)

LEMMA WeighsAppend ==
  ASSUME NEW q \in Seq(Nat), NEW p \in Seq(Nat), NEW d \in Nat, NEW x \in Nat, Weighs(q, p, d)
  PROVE  Weighs(Append(q, x), Append(p, x), d)
<1>1. /\ Total(q) \in Nat /\ Total(p) \in Nat
      /\ Total(Append(q, x)) = Total(q) + x /\ Total(Append(p, x)) = Total(p) + x
  BY TotalOfAppend
<1> QED BY <1>1 DEF Weighs

LEMMA WeighsNothing ==
  ASSUME NEW q \in Seq(Nat), NEW p \in Seq(Nat), NEW d \in Nat, Weighs(q, p, d)
  PROVE  Weighs(q, Append(p, 0), d)
<1>1. Total(q) \in Nat /\ Total(p) \in Nat /\ Total(Append(p, 0)) = Total(p) + 0
  BY TotalOfAppend
<1> QED BY <1>1 DEF Weighs

LEMMA WeighsSuffix ==
  ASSUME NEW q \in Seq(Nat), NEW p \in Seq(Nat), NEW d \in Nat, NEW m \in Nat, NEW a \in 0 .. Len(q),
         a = 0 \/ Len(q) - a = m, d <= m, CountsLate(q), Weighs(q, p, d)
  PROVE  Weighs(SubSeq(q, a + 1, Len(q)), p, d)
<1> DEFINE r == SubSeq(q, a + 1, Len(q))
<1>1. /\ r \in Seq(Nat) /\ Len(r) = Len(q) - a
      /\ Total(r) \in Nat /\ Total(r) <= Total(q)
      /\ Total(r) = Total(q) \/ Total(r) >= Len(q) - a
  BY TotalOfSuffix
<1>2. Total(q) \in Nat /\ Total(p) \in Nat /\ Len(q) \in Nat
  BY TotalOfAppend, LenProperties
<1>3. CASE a = 0
  <2>1. r = q
    <3>1. Len(r) = Len(q)
      BY <1>1, <1>2, <1>3
    <3>2. \A k \in 1 .. Len(q) : r[k] = q[k]
      BY <1>2, <1>3
    <3> HIDE DEF r
    <3> QED BY <1>1, <3>1, <3>2, SeqEqual
  <2> QED BY <2>1
<1>4. CASE Len(q) - a = m
  <2> HIDE DEF r
  <2>1. Total(r) = Total(q) \/ Total(r) >= d
    BY <1>1, <1>2, <1>4
  <2> QED BY <1>1, <1>2, <2>1 DEF Weighs, r
<1> QED BY <1>3, <1>4

(* What deque(maxlen=m) keeps is a suffix, of m elements if any is cut.    *)
LEMMA LastOfIsSuffix ==
  ASSUME NEW T, NEW q \in Seq(T), NEW m \in Nat
  PROVE  \E a \in 0 .. Len(q) :
           /\ LastOf(q, m) = SubSeq(q, a + 1, Len(q))
           /\ LastOf(q, m) \in Seq(T) /\ Len(LastOf(q, m)) = Len(q) - a
           /\ \A k \in 1 .. (Len(q) - a) : LastOf(q, m)[k] = q[a + k] /\ a + k \in 1 .. Len(q)
           /\ a = 0 \/ Len(q) - a = m
           /\ Len(q) - a <= m
<1> DEFINE N == Len(q)
           a == IF N > m THEN N - m ELSE 0
           r == SubSeq(q, a + 1, N)
<1>1. N \in Nat /\ \A k \in 1 .. N : q[k] \in T
  BY LenProperties
<1> HIDE DEF N
<1>2. /\ a \in 0 .. N /\ a + 1 \in Int /\ N - (a + 1) + 1 = N - a /\ (a = 0 \/ N - a = m) /\ N - a <= m
      /\ \A k \in 1 .. (N - a) : a + k \in 1 .. N /\ (a + 1) + k - 1 = a + k
      /\ \A k \in (a + 1) .. N : k \in 1 .. N
      /\ N - a = IF a + 1 <= N THEN N - (a + 1) + 1 ELSE 0
  BY <1>1
<1>3. LastOf(q, m) = r
  BY <1>1 DEF LastOf, N
<1> HIDE DEF a
<1>4. /\ r \in Seq(T) /\ Len(r) = IF a + 1 <= N THEN N - (a + 1) + 1 ELSE 0
      /\ \A k \in 1 .. (N - (a + 1) + 1) : r[k] = q[(a + 1) + k - 1]
  <2>1. \A k \in (a + 1) .. N : q[k] \in T
    BY <1>1, <1>2
  <2> QED BY <1>1, <1>2, <2>1, SubSeqProperties
<1> HIDE DEF r
<1>5. Len(r) = N - a /\ \A k \in 1 .. (N - a) : r[k] = q[a + k] /\ a + k \in 1 .. N
  BY <1>2, <1>4
<1> QED BY <1>2, <1>3, <1>4, <1>5 DEF r, N

LEMMA AppendIs ==
  ASSUME NEW p \in Seq(Nat), NEW r \in Seq(Nat), NEW x \in Nat, Len(r) = Len(p) + 1,
         \A k \in 1 .. Len(p) : r[k] = p[k], r[Len(p) + 1] = x
  PROVE  r = Append(p, x)
<1> DEFINE s == Append(p, x)
<1>1. /\ s \in Seq(Nat) /\ Len(s) = Len(p) + 1 /\ Len(p) \in Nat
      /\ \A k \in 1 .. Len(p) : s[k] = p[k]
      /\ s[Len(p) + 1] = x
  BY AppendProperties, LenProperties
<1> HIDE DEF s
<1>2. \A k \in 1 .. Len(r) : k \in 1 .. Len(p) \/ k = Len(p) + 1
  BY <1>1
<1>3. \A k \in 1 .. Len(r) : r[k] = s[k]
  BY <1>1, <1>2
<1>4. r = s
  BY <1>1, <1>3, SeqEqual
<1> QED BY <1>4 DEF s

LEMMA SuffixIs ==
  ASSUME NEW p \in Seq(Nat), NEW r \in Seq(Nat), NEW a \in 0 .. Len(p), Len(r) = Len(p) - a,
         \A k \in 1 .. (Len(p) - a) : r[k] = p[a + k]
  PROVE  r = SubSeq(p, a + 1, Len(p))
<1> DEFINE N == Len(p)
           s == SubSeq(p, a + 1, N)
<1>1. N \in Nat /\ \A k \in 1 .. N : p[k] \in Nat
  BY LenProperties
<1>2. Len(r) = N - a /\ a \in 0 .. N /\ \A k \in 1 .. (N - a) : r[k] = p[a + k]
  OBVIOUS
<1> HIDE DEF N
<1>3. /\ a + 1 \in Int /\ N - (a + 1) + 1 = N - a
      /\ \A k \in 1 .. (N - a) : (a + 1) + k - 1 = a + k
      /\ \A k \in (a + 1) .. N : k \in 1 .. N
      /\ N - a = IF a + 1 <= N THEN N - (a + 1) + 1 ELSE 0
  BY <1>1, <1>2
<1>4. /\ s \in Seq(Nat) /\ Len(s) = IF a + 1 <= N THEN N - (a + 1) + 1 ELSE 0
      /\ \A k \in 1 .. (N - (a + 1) + 1) : s[k] = p[(a + 1) + k - 1]
  <2>1. \A k \in (a + 1) .. N : p[k] \in Nat
    BY <1>1, <1>3
  <2> QED BY <1>1, <1>3, <2>1, SubSeqProperties
<1> HIDE DEF s
<1>5. Len(s) = Len(r) /\ \A k \in 1 .. Len(r) : s[k] = r[k]
  BY <1>2, <1>3, <1>4
<1>6. r = s
  BY <1>4, <1>5, SeqEqual
<1> QED BY <1>6 DEF s, N

-----------------------------------------------------------------------------
(* The rapid-fire rule: one for each time of a ring that is not older than *)
(* t, and one for each troubled scan of a session.                         *)
TimesSince(q, t) == Ones(Len(q), {k \in 1 .. Len(q) : q[k] >= t})

Trouble(e, s, t) == e.sid = s /\ e.scan.troubled /\ e.at >= t

TroubledSince(F, s, t) == Ones(Len(F), {j \in 1 .. Len(F) : Trouble(F[j], s, t)})

LEMMA TimesTyped ==
  ASSUME NEW q \in Seq(Nat), NEW t \in Int
  PROVE  /\ TimesSince(q, t) \in Seq(Nat) /\ Len(TimesSince(q, t)) = Len(q)
         /\ \A k \in 1 .. Len(q) : TimesSince(q, t)[k] = IF q[k] >= t THEN 1 ELSE 0
         /\ Ordered(q) => CountsLate(TimesSince(q, t))
<1> DEFINE N == Len(q)
           r == TimesSince(q, t)
<1>1. N \in Nat /\ \A k \in 1 .. N : q[k] \in Nat
  BY LenProperties
<1>2. /\ r \in Seq(Nat) /\ Len(r) = N
      /\ \A k \in 1 .. N : r[k] = IF q[k] >= t THEN 1 ELSE 0
  BY <1>1 DEF TimesSince, Ones
<1> HIDE DEF r
<1>3. ASSUME Ordered(q) PROVE CountsLate(r)
  <2>1. DOMAIN r = 1 .. N
    BY <1>2, LenProperties
  <2>2. ASSUME NEW i \in 1 .. N, NEW j \in 1 .. N, i < j, r[i] > 0 PROVE r[j] > 0
    <3>1. q[i] >= t
      BY <1>2, <2>2
    <3>2. q[i] <= q[j]
      BY <1>3, <2>2 DEF Ordered
    <3> QED BY <1>1, <1>2, <3>1, <3>2
  <2> QED BY <2>1, <2>2 DEF CountsLate
<1> QED BY <1>2, <1>3 DEF r

LEMMA TimesAppend ==
  ASSUME NEW q \in Seq(Nat), NEW n \in Nat, NEW t \in Int
  PROVE  TimesSince(Append(q, n), t) = Append(TimesSince(q, t), IF n >= t THEN 1 ELSE 0)
<1> DEFINE q1 == Append(q, n)
           p == TimesSince(q, t)
           r == TimesSince(q1, t)
           x == IF n >= t THEN 1 ELSE 0
<1>1. /\ q1 \in Seq(Nat) /\ Len(q1) = Len(q) + 1 /\ Len(q) \in Nat
      /\ \A k \in 1 .. Len(q) : q1[k] = q[k]
      /\ q1[Len(q) + 1] = n
  BY AppendProperties, LenProperties
<1> HIDE DEF q1
<1>2. /\ p \in Seq(Nat) /\ Len(p) = Len(q)
      /\ \A k \in 1 .. Len(q) : p[k] = IF q[k] >= t THEN 1 ELSE 0
  BY TimesTyped
<1>3. /\ r \in Seq(Nat) /\ Len(r) = Len(q1)
      /\ \A k \in 1 .. Len(q1) : r[k] = IF q1[k] >= t THEN 1 ELSE 0
  BY <1>1, TimesTyped
<1> HIDE DEF p, r
<1>7. Len(q) + 1 \in 1 .. Len(q1) /\ \A k \in 1 .. Len(q) : k \in 1 .. Len(q1)
  BY <1>1
<1>4. Len(r) = Len(p) + 1 /\ r[Len(p) + 1] = x /\ x \in Nat
  <2>1. r[Len(q) + 1] = IF q1[Len(q) + 1] >= t THEN 1 ELSE 0
    BY <1>3, <1>7
  <2> QED BY <1>1, <1>2, <1>3, <2>1
<1>6. \A k \in 1 .. Len(p) : r[k] = p[k]
  <2> SUFFICES ASSUME NEW k \in 1 .. Len(q) PROVE r[k] = p[k]
    BY <1>2
  <2>1. r[k] = IF q1[k] >= t THEN 1 ELSE 0
    BY <1>3, <1>7
  <2>2. p[k] = IF q[k] >= t THEN 1 ELSE 0
    BY <1>2
  <2>3. q1[k] = q[k]
    BY <1>1
  <2> QED BY <2>1, <2>2, <2>3
<1> HIDE DEF x
<1>5. r = Append(p, x)
  BY <1>2, <1>3, <1>4, <1>6, AppendIs
<1> QED BY <1>5 DEF p, r, x, q1

LEMMA TroubledTyped ==
  ASSUME NEW F \in Seq(SeenScan), NEW s, NEW t
  PROVE  /\ TroubledSince(F, s, t) \in Seq(Nat) /\ Len(TroubledSince(F, s, t)) = Len(F)
         /\ \A j \in 1 .. Len(F) : TroubledSince(F, s, t)[j] = IF Trouble(F[j], s, t) THEN 1 ELSE 0
<1>1. Len(F) \in Nat
  BY LenProperties
<1> QED BY <1>1 DEF TroubledSince, Ones

LEMMA TroubledAppend ==
  ASSUME NEW F \in Seq(SeenScan), NEW e \in SeenScan, NEW s, NEW t
  PROVE  TroubledSince(Append(F, e), s, t) = Append(TroubledSince(F, s, t), IF Trouble(e, s, t) THEN 1 ELSE 0)
<1> DEFINE G == Append(F, e)
           p == TroubledSince(F, s, t)
           r == TroubledSince(G, s, t)
           x == IF Trouble(e, s, t) THEN 1 ELSE 0
<1>1. /\ G \in Seq(SeenScan) /\ Len(G) = Len(F) + 1 /\ Len(F) \in Nat
      /\ \A k \in 1 .. Len(F) : G[k] = F[k]
      /\ G[Len(F) + 1] = e
  BY AppendProperties, LenProperties
<1> HIDE DEF G
<1>2. /\ p \in Seq(Nat) /\ Len(p) = Len(F)
      /\ \A k \in 1 .. Len(F) : p[k] = IF Trouble(F[k], s, t) THEN 1 ELSE 0
  BY TroubledTyped
<1>3. /\ r \in Seq(Nat) /\ Len(r) = Len(G)
      /\ \A k \in 1 .. Len(G) : r[k] = IF Trouble(G[k], s, t) THEN 1 ELSE 0
  BY <1>1, TroubledTyped
<1> HIDE DEF p, r
<1>4. Len(r) = Len(p) + 1 /\ r[Len(p) + 1] = x /\ x \in Nat
  BY <1>1, <1>2, <1>3
<1>6. \A k \in 1 .. Len(p) : r[k] = p[k]
  BY <1>1, <1>2, <1>3
<1> HIDE DEF x
<1>5. r = Append(p, x)
  BY <1>2, <1>3, <1>4, <1>6, AppendIs
<1> QED BY <1>5 DEF p, r, x, G

(* What the ring r of session s keeps of the scans F, at time n, for the   *)
(* configurations of C.                                                    *)
RingOf(F, s, r, n, C) ==
  /\ r.cap \in Nat /\ r.at \in Seq(Nat) /\ Ordered(r.at) /\ UpTo(r.at, n) /\ Fresh(r.at, 0)
  /\ r = NoRing \/ (Len(r.at) # 0 /\ r.cap # 0)
  /\ \A t \in Int : Weighs(TimesSince(r.at, t), TroubledSince(F, s, t), 0)
  /\ \A c \in C :
       /\ r = NoRing \/ c.rapidCount <= r.cap
       /\ \A t \in Int : t >= n - c.rapidWindow =>
            Weighs(TimesSince(r.at, t), TroubledSince(F, s, t), c.rapidCount)

KeepsRapid(F) == {c \in AlertConfigs : \A j \in 1 .. Len(F) : RapidKept(F[j].cfg, c)}

LEMMA AlertConfigTyped ==
  \A c \in AlertConfigs :
    /\ c.rapidCount \in Nat \ {0} /\ c.rapidWindow \in Nat \ {0} /\ c.burstCount \in Nat \ {0}
    /\ c.burstWindow \in Nat \ {0} /\ c.piiThreshold \in Nat \ {0} /\ c.piiWindow \in Nat \ {0}
    /\ c.capacity \in Nat \ {0}
BY AlertAssumption DEF AlertConfig

LEMMA ScanAppend ==
  ASSUME NEW F \in Seq(SeenScan), NEW e \in SeenScan
  PROVE  /\ Append(F, e) \in Seq(SeenScan) /\ Len(Append(F, e)) = Len(F) + 1 /\ Len(F) \in Nat
         /\ Append(F, e)[Len(F) + 1] = e
         /\ \A j \in 1 .. Len(F) : Append(F, e)[j] = F[j] /\ j \in 1 .. Len(Append(F, e)) /\ F[j] \in SeenScan
         /\ \A j \in 1 .. Len(Append(F, e)) : j \in 1 .. Len(F) \/ j = Len(F) + 1
         /\ Len(F) + 1 \in 1 .. Len(Append(F, e))
<1>1. /\ Append(F, e) \in Seq(SeenScan) /\ Len(Append(F, e)) = Len(F) + 1 /\ Len(F) \in Nat
      /\ Append(F, e)[Len(F) + 1] = e
      /\ \A j \in 1 .. Len(F) : Append(F, e)[j] = F[j] /\ F[j] \in SeenScan
  BY AppendProperties, LenProperties
<1> QED BY <1>1

LEMMA TotalOfNothing ==
  ASSUME NEW q \in Seq(Nat), \A k \in 1 .. Len(q) : q[k] = 0
  PROVE  Total(q) = 0
<1> DEFINE g == [n \in 0 .. Len(q) |-> 0]
<1>1. Len(q) \in Nat
  BY LenProperties
<1>2. g[0] = 0 /\ g[Len(q)] = 0 /\ \A n \in 1 .. Len(q) : g[n] = g[n - 1] + q[n]
  BY <1>1
<1> HIDE DEF g
<1> QED BY <1>2, TotalIs

(* A ring that was pruned held nothing that still counts.                  *)
LEMMA RingForgotten ==
  ASSUME NEW F \in Seq(SeenScan), NEW s, NEW r, NEW n \in Nat, NEW C \in SUBSET AlertConfigs,
         RingOf(F, s, r, n, C), r # NoRing, NEW ttl \in Nat, n - Last(r.at) > ttl,
         \A c \in C : c.rapidWindow <= ttl
  PROVE  RingOf(F, s, NoRing, n, C)
<1> DEFINE q == r.at
           N == Len(q)
<1>1. /\ q \in Seq(Nat) /\ Ordered(q) /\ N # 0
      /\ \A t \in Int : Weighs(TimesSince(q, t), TroubledSince(F, s, t), 0)
      /\ \A c \in C : \A t \in Int : t >= n - c.rapidWindow =>
            Weighs(TimesSince(q, t), TroubledSince(F, s, t), c.rapidCount)
  BY DEF RingOf
<1>2. N \in Nat /\ Last(q) = q[N] /\ \A k \in 1 .. N : q[k] \in Nat /\ q[k] <= q[N]
  <2>1. N \in Nat /\ \A k \in 1 .. N : q[k] \in Nat
    BY <1>1, LenProperties
  <2>2. \A k \in 1 .. N : k <= N /\ N \in 1 .. N
    BY <2>1
  <2> QED BY <1>1, <2>1, <2>2 DEF Last, Ordered
<1>3. n - q[N] > ttl
  BY <1>2
<1> HIDE DEF q, N
<1>4. \A t : TimesSince(<< >>, t) = << >>
  BY DEF TimesSince, Ones
<1>5. Total(<< >>) = 0 /\ << >> \in Seq(Nat)
  <2>1. << >> \in Seq(Nat)
    OBVIOUS
  <2> QED BY <2>1, TotalOfAppend
<1>6. \A t \in Int : Weighs(<< >>, TroubledSince(F, s, t), 0)
  <2> SUFFICES ASSUME NEW t \in Int PROVE Weighs(<< >>, TroubledSince(F, s, t), 0)
    OBVIOUS
  <2>1. TroubledSince(F, s, t) \in Seq(Nat)
    BY TroubledTyped
  <2>2. Total(TroubledSince(F, s, t)) \in Nat
    BY <2>1, TotalOfAppend
  <2> QED BY <1>5, <2>2 DEF Weighs
<1>7. ASSUME NEW c \in C, NEW t \in Int, t >= n - c.rapidWindow
      PROVE  Weighs(<< >>, TroubledSince(F, s, t), c.rapidCount)
  <2>1. c.rapidWindow \in Nat /\ c.rapidWindow <= ttl /\ c.rapidCount \in Nat \ {0}
    BY AlertConfigTyped
  <2>2. q[N] \in Nat /\ q[N] < t
    <3>1. N \in 1 .. N
      BY <1>1, <1>2 DEF N, q
    <3> QED BY <1>2, <1>3, <1>7, <2>1, <3>1 DEF N, q
  <2>3. TimesSince(q, t) \in Seq(Nat) /\ Len(TimesSince(q, t)) = N
        /\ \A k \in 1 .. N : TimesSince(q, t)[k] = IF q[k] >= t THEN 1 ELSE 0
    BY <1>1, TimesTyped DEF N
  <2>4. \A k \in 1 .. N : q[k] \in Nat /\ q[k] <= q[N]
    BY <1>2 DEF N, q
  <2>5. \A k \in 1 .. N : ~(q[k] >= t)
    BY <2>2, <2>4
  <2>6. Total(TimesSince(q, t)) = 0
    <3>1. \A k \in 1 .. N : TimesSince(q, t)[k] = 0
      BY <2>3, <2>5
    <3> QED BY <2>3, <3>1, TotalOfNothing
  <2>7. Weighs(TimesSince(q, t), TroubledSince(F, s, t), c.rapidCount)
    BY <1>1, <1>7
  <2>8. Total(TroubledSince(F, s, t)) \in Nat
    BY TroubledTyped, TotalOfAppend
  <2>9. Total(TroubledSince(F, s, t)) = 0
    BY <2>1, <2>6, <2>7, <2>8 DEF Weighs
  <2> QED BY <1>5, <2>9 DEF Weighs
<1>8. Ordered(<< >>) /\ UpTo(<< >>, n) /\ Fresh(<< >>, 0)
  BY DEF Ordered, UpTo, Fresh
<1>9. NoRing.at = << >> /\ NoRing.cap = 0
  BY DEF NoRing
<1> QED BY <1>4, <1>5, <1>6, <1>7, <1>8, <1>9 DEF RingOf

(* A scan that does not count for s leaves its ring as it is.              *)
LEMMA RingRests ==
  ASSUME NEW F \in Seq(SeenScan), NEW s, NEW r, NEW n \in Nat, NEW C \in SUBSET AlertConfigs,
         RingOf(F, s, r, n, C), NEW e \in SeenScan, ~(e.sid = s /\ e.scan.troubled)
  PROVE  RingOf(Append(F, e), s, r, n, C)
<1>1. \A t : TroubledSince(Append(F, e), s, t) = Append(TroubledSince(F, s, t), 0)
  BY TroubledAppend DEF Trouble
<1>2. r.at \in Seq(Nat) /\ \A c \in C : c.rapidCount \in Nat
  BY AlertConfigTyped DEF RingOf
<1>3. ASSUME NEW t \in Int, NEW d \in Nat, Weighs(TimesSince(r.at, t), TroubledSince(F, s, t), d)
      PROVE  Weighs(TimesSince(r.at, t), TroubledSince(Append(F, e), s, t), d)
  <2>1. TimesSince(r.at, t) \in Seq(Nat) /\ TroubledSince(F, s, t) \in Seq(Nat)
    BY <1>2, TimesTyped, TroubledTyped
  <2>2. Weighs(TimesSince(r.at, t), Append(TroubledSince(F, s, t), 0), d)
    BY <1>3, <2>1, WeighsNothing
  <2> QED BY <1>1, <2>2
<1> QED BY <1>2, <1>3 DEF RingOf

(* A troubled scan of s is the last time of its ring, which keeps the last *)
(* ones it has room for.                                                   *)
LEMMA RingGrows ==
  ASSUME NEW F \in Seq(SeenScan), NEW s, NEW r, NEW n \in Nat \ {0}, NEW C \in SUBSET AlertConfigs,
         RingOf(F, s, r, n, C), NEW e \in SeenScan, e.sid = s, e.scan.troubled, e.at = n,
         NEW room \in Nat \ {0}, \A c \in C : c.rapidCount <= room
  PROVE  RingOf(Append(F, e), s, [cap |-> room, at |-> LastOf(Append(r.at, n), room)], n, C)
<1> DEFINE q == Append(r.at, n)
           N == Len(q)
           new == LastOf(q, room)
<1>1. r.at \in Seq(Nat) /\ Ordered(r.at) /\ UpTo(r.at, n) /\ Fresh(r.at, 0)
  BY DEF RingOf
<1>2. /\ q \in Seq(Nat) /\ N = Len(r.at) + 1 /\ Len(r.at) \in Nat /\ q[N] = n
      /\ \A k \in 1 .. Len(r.at) : q[k] = r.at[k] /\ r.at[k] \in Nat
      /\ \A k \in 1 .. N : k \in 1 .. Len(r.at) \/ k = N
  BY <1>1, AppendProperties, LenProperties
<1> HIDE DEF q, N
<1>3. \A k \in 1 .. N : q[k] \in Nat /\ q[k] <= n /\ q[k] > 0
  <2>1. \A k \in 1 .. Len(r.at) : r.at[k] <= n /\ r.at[k] > 0
    BY <1>1 DEF UpTo, Fresh
  <2>2. n \in Nat /\ n <= n /\ n > 0
    OBVIOUS
  <2> QED BY <1>2, <2>1, <2>2
<1>4. Ordered(q)
  <2> SUFFICES ASSUME NEW i \in 1 .. N, NEW j \in 1 .. N, i <= j PROVE q[i] <= q[j]
    BY DEF Ordered, N
  <2>1. CASE j = N
    BY <1>2, <1>3, <2>1
  <2>2. CASE j # N
    <3>1. j \in 1 .. Len(r.at) /\ i \in 1 .. Len(r.at)
      BY <1>2, <2>2
    <3> QED BY <1>1, <1>2, <3>1 DEF Ordered
  <2> QED BY <2>1, <2>2
<1>5. PICK a \in 0 .. N :
        /\ new = SubSeq(q, a + 1, N)
        /\ new \in Seq(Nat) /\ Len(new) = N - a
        /\ \A k \in 1 .. (N - a) : new[k] = q[a + k] /\ a + k \in 1 .. N
        /\ a = 0 \/ N - a = room
        /\ N - a <= room
  BY <1>2, LastOfIsSuffix DEF N
<1> HIDE DEF new
<1>6. Ordered(new) /\ UpTo(new, n) /\ Fresh(new, 0) /\ Len(new) # 0
  <2>1. UpTo(new, n) /\ Fresh(new, 0)
    BY <1>3, <1>5 DEF UpTo, Fresh
  <2>2. ASSUME NEW i \in 1 .. (N - a), NEW j \in 1 .. (N - a), i <= j PROVE new[i] <= new[j]
    <3>1. a + i \in 1 .. N /\ a + j \in 1 .. N /\ new[i] = q[a + i] /\ new[j] = q[a + j]
      BY <1>5
    <3>2. a + i <= a + j
      BY <1>2, <2>2
    <3> QED BY <1>4, <3>1, <3>2 DEF Ordered, N
  <2>3. Len(new) # 0
    BY <1>2, <1>5
  <2> QED BY <1>5, <2>1, <2>2, <2>3 DEF Ordered
<1>7. ASSUME NEW t \in Int, NEW d \in Nat, d <= room, Weighs(TimesSince(r.at, t), TroubledSince(F, s, t), d)
      PROVE  Weighs(TimesSince(new, t), TroubledSince(Append(F, e), s, t), d)
  <2> DEFINE x == IF n >= t THEN 1 ELSE 0
             w == TimesSince(q, t)
             p == TroubledSince(Append(F, e), s, t)
  <2>1. TimesSince(r.at, t) \in Seq(Nat) /\ TroubledSince(F, s, t) \in Seq(Nat) /\ x \in Nat
    BY <1>1, TimesTyped, TroubledTyped
  <2>2. w = Append(TimesSince(r.at, t), x)
    BY <1>1, TimesAppend DEF q
  <2>3. p = Append(TroubledSince(F, s, t), x)
    <3>1. Trouble(e, s, t) <=> n >= t
      BY DEF Trouble
    <3> QED BY <3>1, TroubledAppend
  <2> HIDE DEF x, w, p
  <2>4. Weighs(w, p, d)
    BY <1>7, <2>1, <2>2, <2>3, WeighsAppend
  <2>5. p \in Seq(Nat)
    BY <2>1, <2>3, AppendProperties
  <2>6. /\ w \in Seq(Nat) /\ Len(w) = N /\ CountsLate(w)
        /\ \A k \in 1 .. N : w[k] = IF q[k] >= t THEN 1 ELSE 0
    BY <1>2, <1>4, TimesTyped DEF w, N
  <2>7. /\ TimesSince(new, t) \in Seq(Nat) /\ Len(TimesSince(new, t)) = N - a
        /\ \A k \in 1 .. (N - a) : TimesSince(new, t)[k] = IF new[k] >= t THEN 1 ELSE 0
    BY <1>5, TimesTyped
  <2>8. ASSUME NEW k \in 1 .. (N - a) PROVE TimesSince(new, t)[k] = w[a + k]
    <3>1. new[k] = q[a + k] /\ a + k \in 1 .. N
      BY <1>5
    <3>2. TimesSince(new, t)[k] = IF new[k] >= t THEN 1 ELSE 0
      BY <2>7
    <3>3. w[a + k] = IF q[a + k] >= t THEN 1 ELSE 0
      BY <2>6, <3>1
    <3> QED BY <3>1, <3>2, <3>3
  <2>9. TimesSince(new, t) = SubSeq(w, a + 1, Len(w))
    <3>1. a \in 0 .. Len(w) /\ Len(TimesSince(new, t)) = Len(w) - a
          /\ \A k \in 1 .. (Len(w) - a) : TimesSince(new, t)[k] = w[a + k]
      BY <2>6, <2>7, <2>8
    <3> QED BY <2>6, <2>7, <3>1, SuffixIs
  <2>10. Weighs(SubSeq(w, a + 1, Len(w)), p, d)
    <3>1. a \in 0 .. Len(w) /\ (a = 0 \/ Len(w) - a = room) /\ room \in Nat
      BY <1>5, <2>6
    <3>2. w \in Seq(Nat) /\ p \in Seq(Nat) /\ d \in Nat /\ d <= room /\ CountsLate(w) /\ Weighs(w, p, d)
      BY <1>7, <2>4, <2>5, <2>6
    <3> QED BY <3>1, <3>2, WeighsSuffix
  <2> QED BY <2>9, <2>10 DEF p
<1>8. /\ \A t \in Int : Weighs(TimesSince(r.at, t), TroubledSince(F, s, t), 0)
      /\ \A c \in C : \A t \in Int : t >= n - c.rapidWindow =>
           Weighs(TimesSince(r.at, t), TroubledSince(F, s, t), c.rapidCount)
      /\ \A c \in C : c.rapidCount \in Nat
  BY AlertConfigTyped DEF RingOf
<1>9. /\ \A t \in Int : Weighs(TimesSince(new, t), TroubledSince(Append(F, e), s, t), 0)
      /\ \A c \in C : \A t \in Int : t >= n - c.rapidWindow =>
           Weighs(TimesSince(new, t), TroubledSince(Append(F, e), s, t), c.rapidCount)
  BY <1>7, <1>8
<1>10. [cap |-> room, at |-> new].at = new /\ [cap |-> room, at |-> new].cap = room
  OBVIOUS
<1>11. RingOf(Append(F, e), s, [cap |-> room, at |-> new], n, C)
  BY <1>5, <1>6, <1>9, <1>10 DEF RingOf
<1> QED BY <1>11 DEF new, q

(* The largest of three. *)
LEMMA LongestOfThree ==
  ASSUME NEW a \in Nat, NEW b \in Nat, NEW c \in Nat
  PROVE  /\ Max({a, b, c}) \in Nat
         /\ a <= Max({a, b, c}) /\ b <= Max({a, b, c}) /\ c <= Max({a, b, c})
<1>1. \E x \in {a, b, c} : \A y \in {a, b, c} : x >= y
  OBVIOUS
<1>2. Max({a, b, c}) \in {a, b, c} /\ \A y \in {a, b, c} : Max({a, b, c}) >= y
  BY <1>1, Zenon DEF Max
<1> QED BY <1>2

LEMMA LargerOfTwo ==
  ASSUME NEW a \in Nat, NEW b \in Nat
  PROVE  Max({a, b}) \in Nat /\ a <= Max({a, b}) /\ b <= Max({a, b})
<1>1. \E x \in {a, b} : \A y \in {a, b} : x >= y
  OBVIOUS
<1>2. Max({a, b}) \in {a, b} /\ \A y \in {a, b} : Max({a, b}) >= y
  BY <1>1, Zenon DEF Max
<1> QED BY <1>2

LEMMA SmallerOfTwo ==
  ASSUME NEW a \in Nat, NEW b \in Nat
  PROVE  (Min({a, b}) = a /\ a <= b) \/ (Min({a, b}) = b /\ b <= a)
<1> DEFINE m == Min({a, b})
<1>1. \E x \in {a, b} : \A y \in {a, b} : x <= y
  OBVIOUS
<1>2. m \in {a, b} /\ \A y \in {a, b} : m <= y
  BY <1>1, Zenon DEF Min
<1> HIDE DEF m
<1>3. (m = a /\ a <= b) \/ (m = b /\ b <= a)
  BY <1>2
<1> QED BY <1>3 DEF m

(* A configuration that every scan kept enough for. *)
LEMMA KeepsRapidAppend ==
  ASSUME NEW F \in Seq(SeenScan), NEW e \in SeenScan
  PROVE  KeepsRapid(Append(F, e)) = {c \in KeepsRapid(F) : RapidKept(e.cfg, c)}
BY ScanAppend DEF KeepsRapid

(* EvaluateAlerts and the ring of one session.                             *)
LEMMA RingEvaluated ==
  ASSUME NEW s \in AlertSessions, NEW sid \in AlertSids, NEW q \in AlertScans, NEW F \in Seq(SeenScan),
         NEW e \in SeenScan, e.sid = sid, e.scan = q, e.at = alertNow, e.cfg = alertCfg,
         alertNow \in Nat \ {0}, alertCfg \in AlertConfigs,
         RingOf(F, s, rings[s], alertNow, KeepsRapid(F))
  PROVE  RingOf(Append(F, e), s, ExtendRing(s, sid, q), alertNow, KeepsRapid(Append(F, e)))
<1> DEFINE r == rings[s]
           C == KeepsRapid(Append(F, e))
           kept == IF r # NoRing /\ Recently(Last(r.at), RingTTL) THEN r ELSE NoRing
           room == IF kept = NoRing THEN alertCfg.capacity ELSE kept.cap
           n == alertNow
<1>1. /\ C \in SUBSET AlertConfigs /\ C \subseteq KeepsRapid(F)
      /\ \A c \in C : RapidKept(alertCfg, c)
  BY KeepsRapidAppend DEF KeepsRapid
<1>2. alertCfg.rapidWindow \in Nat /\ alertCfg.burstWindow \in Nat /\ alertCfg.piiWindow \in Nat
      /\ alertCfg.capacity \in Nat \ {0}
  BY AlertConfigTyped
<1>3. /\ RingTTL \in Nat /\ alertCfg.rapidWindow <= RingTTL /\ alertCfg.burstWindow <= RingTTL
      /\ alertCfg.piiWindow <= RingTTL
  BY <1>2, LongestOfThree DEF RingTTL
<1>4. ASSUME NEW c \in C
      PROVE  c.rapidWindow <= RingTTL /\ c.rapidCount <= alertCfg.capacity
  <2>1. c.rapidWindow \in Nat
    BY <1>1, AlertConfigTyped
  <2> QED BY <1>1, <1>2, <1>3, <2>1 DEF RapidKept
<1>5. RingOf(F, s, r, n, C)
  BY <1>1, Zenon DEF RingOf
<1>6. ExtendRing(s, sid, q) = IF s = sid /\ q.troubled
                              THEN [cap |-> room, at |-> LastOf(Append(kept.at, n), room)]
                              ELSE kept
  BY DEF ExtendRing
<1> HIDE DEF C, r
<1>7. RingOf(F, s, kept, n, C)
  <2>1. CASE kept = r
    BY <1>5, <2>1
  <2>2. CASE kept # r
    <3>1. r # NoRing /\ ~Recently(Last(r.at), RingTTL) /\ kept = NoRing
      BY <2>2
    <3>2. r.at \in Seq(Nat) /\ Fresh(r.at, 0) /\ Len(r.at) # 0
      BY <1>5, <3>1 DEF RingOf
    <3>3. Last(r.at) \in Nat /\ Last(r.at) # Never
      <4>1. Len(r.at) \in 1 .. Len(r.at) /\ \A k \in 1 .. Len(r.at) : r.at[k] \in Nat
        BY <3>2, LenProperties
      <4> QED BY <3>2, <4>1 DEF Last, Fresh, Never
    <3>4. n - Last(r.at) > RingTTL
      BY <1>3, <3>1, <3>3 DEF Recently
    <3>5. RingOf(F, s, NoRing, n, C)
      BY <1>1, <1>3, <1>4, <1>5, <3>1, <3>4, RingForgotten
    <3> QED BY <3>1, <3>5
  <2> QED BY <2>1, <2>2
<1>8. room \in Nat \ {0} /\ \A c \in C : c.rapidCount <= room
  <2>1. CASE kept = NoRing
    BY <1>2, <1>4, <2>1
  <2>2. CASE kept # NoRing
    BY <1>7, <2>2 DEF RingOf
  <2> QED BY <2>1, <2>2
<1> HIDE DEF kept, room
<1>9. CASE s = sid /\ q.troubled
  <2>1. e.sid = s /\ e.scan.troubled /\ e.at = n /\ n \in Nat \ {0}
    BY <1>9
  <2>2. RingOf(Append(F, e), s, [cap |-> room, at |-> LastOf(Append(kept.at, n), room)], n, C)
    <3> HIDE DEF n
    <3> QED BY <1>1, <1>7, <1>8, <2>1, RingGrows
  <2> QED BY <1>6, <1>9, <2>2 DEF C
<1>10. CASE ~(s = sid /\ q.troubled)
  <2>1. ~(e.sid = s /\ e.scan.troubled)
    BY <1>10
  <2>2. RingOf(Append(F, e), s, kept, n, C)
    BY <1>1, <1>7, <2>1, RingRests
  <2> QED BY <1>6, <1>10, <2>2 DEF C
<1> QED BY <1>9, <1>10

(* Time passes. *)
LEMMA RingLater ==
  ASSUME NEW F, NEW s, NEW r, NEW n \in Nat, NEW C \in SUBSET AlertConfigs, RingOf(F, s, r, n, C)
  PROVE  RingOf(F, s, r, n + 1, C)
<1>1. UpTo(r.at, n + 1)
  <2>1. r.at \in Seq(Nat) /\ UpTo(r.at, n)
    BY DEF RingOf
  <2>2. \A k \in 1 .. Len(r.at) : r.at[k] \in Nat /\ r.at[k] <= n
    BY <2>1, LenProperties DEF UpTo
  <2> QED BY <2>2 DEF UpTo
<1>2. \A c \in C : c.rapidWindow \in Nat /\ \A t \in Int : t >= (n + 1) - c.rapidWindow => t >= n - c.rapidWindow
  BY AlertConfigTyped
<1>3. \A c \in C : \A t \in Int : t >= n - c.rapidWindow =>
            Weighs(TimesSince(r.at, t), TroubledSince(F, s, t), c.rapidCount)
  BY DEF RingOf
<1>4. \A c \in C : \A t \in Int : t >= (n + 1) - c.rapidWindow =>
            Weighs(TimesSince(r.at, t), TroubledSince(F, s, t), c.rapidCount)
  BY <1>2, <1>3
<1>5. /\ r.cap \in Nat /\ r.at \in Seq(Nat) /\ Ordered(r.at) /\ Fresh(r.at, 0)
      /\ r = NoRing \/ (Len(r.at) # 0 /\ r.cap # 0)
      /\ \A u \in Int : Weighs(TimesSince(r.at, u), TroubledSince(F, s, u), 0)
      /\ \A c \in C : r = NoRing \/ c.rapidCount <= r.cap
  BY DEF RingOf
<1>6. \A c \in C : /\ r = NoRing \/ c.rapidCount <= r.cap
                   /\ \A t \in Int : t >= (n + 1) - c.rapidWindow =>
                         Weighs(TimesSince(r.at, t), TroubledSince(F, s, t), c.rapidCount)
  BY <1>4, <1>5
<1> QED BY <1>1, <1>5, <1>6 DEF RingOf

LEMMA TimesCount ==
  ASSUME NEW q \in Seq(Nat), NEW t \in Int
  PROVE  /\ Total(TimesSince(q, t)) \in Nat
         /\ Cardinality({k \in 1 .. Len(q) : q[k] >= t}) = Total(TimesSince(q, t))
<1>1. Len(q) \in Nat /\ {k \in 1 .. Len(q) : q[k] >= t} \in SUBSET (1 .. Len(q))
  BY LenProperties
<1> QED BY <1>1, TimesTyped, TotalOfAppend, CardinalityIsTotal DEF TimesSince

LEMMA TroubledCount ==
  ASSUME NEW F \in Seq(SeenScan), NEW s, NEW t
  PROVE  /\ Total(TroubledSince(F, s, t)) \in Nat
         /\ Cardinality({j \in 1 .. Len(F) : Trouble(F[j], s, t)}) = Total(TroubledSince(F, s, t))
<1>1. Len(F) \in Nat /\ {j \in 1 .. Len(F) : Trouble(F[j], s, t)} \in SUBSET (1 .. Len(F))
  BY LenProperties
<1> QED BY <1>1, TroubledTyped, TotalOfAppend, CardinalityIsTotal DEF TroubledSince

(* The rapid-fire rule is raised by the last scan of G, by what its ring   *)
(* holds then.                                                             *)
LEMMA RapidRaised ==
  ASSUME NEW G \in Seq(SeenScan), Len(G) # 0, NEW r, NEW n \in Nat,
         LET e == G[Len(G)] IN
         /\ e.at = n
         /\ e.sid # NoSession => RingOf(G, e.sid, r, n, KeepsRapid(G)),
         NEW raised \in BOOLEAN,
         LET e == G[Len(G)] IN
         raised <=> /\ e.sid # NoSession /\ e.scan.troubled
                    /\ Cardinality({k \in DOMAIN r.at : r.at[k] # Never /\ n - r.at[k] <= e.cfg.rapidWindow})
                       >= e.cfg.rapidCount
  PROVE  Exactly(raised, RapidFireDue(G, Len(G)), \A j \in 1 .. Len(G) : RapidKept(G[j].cfg, G[Len(G)].cfg))
<1> DEFINE N == Len(G)
           e == G[N]
           t == n - e.cfg.rapidWindow
           inRing == Total(TimesSince(r.at, t))
           due == Total(TroubledSince(G, e.sid, t))
           kept == \A j \in 1 .. N : RapidKept(G[j].cfg, e.cfg)
<1>1. N \in Nat \ {0} /\ N \in 1 .. N /\ e \in SeenScan /\ \A j \in 1 .. N : G[j] \in SeenScan
  BY LenProperties
<1>2. e.cfg \in AlertConfigs /\ e.cfg.rapidWindow \in Nat /\ e.cfg.rapidCount \in Nat /\ t \in Int
  <2>1. e.cfg \in AlertConfigs
    BY <1>1 DEF SeenScan
  <2> QED BY <2>1, AlertConfigTyped
<1>3. kept => e.cfg \in KeepsRapid(G)
  BY <1>2 DEF KeepsRapid
<1>4. e.at = n /\ (e.sid # NoSession => RingOf(G, e.sid, r, n, KeepsRapid(G)))
  OBVIOUS
<1>5. raised <=> /\ e.sid # NoSession /\ e.scan.troubled
                 /\ Cardinality({k \in DOMAIN r.at : r.at[k] # Never /\ n - r.at[k] <= e.cfg.rapidWindow})
                       >= e.cfg.rapidCount
  OBVIOUS
<1>6. RapidFireDue(G, N) <=> e.sid # NoSession /\ e.scan.troubled /\ due >= e.cfg.rapidCount
  <2> DEFINE A == {j \in ScansBefore(G, N, e.cfg.rapidWindow) : G[j].sid = e.sid /\ G[j].scan.troubled}
             B == {j \in 1 .. N : Trouble(G[j], e.sid, t)}
  <2>1. \A j \in 1 .. N : G[j].at \in Nat
    BY <1>1 DEF SeenScan
  <2>2. \A j \in 1 .. N : e.at - G[j].at <= e.cfg.rapidWindow <=> G[j].at >= t
    <3> HIDE DEF e, N
    <3> QED BY <1>2, <1>4, <2>1
  <2>3. A = B
    <3> HIDE DEF t
    <3> QED BY <2>2 DEF ScansBefore, Trouble
  <2>4. RapidFireDue(G, N) <=> e.sid # NoSession /\ e.scan.troubled /\ Cardinality(A) >= e.cfg.rapidCount
    BY DEF RapidFireDue
  <2>5. Cardinality(B) = due
    BY TroubledCount
  <2> HIDE DEF A, B, due, e
  <2> QED BY <2>3, <2>4, <2>5
<1> HIDE DEF N, e
<1>7. CASE e.sid = NoSession
  BY <1>5, <1>6, <1>7 DEF Exactly, N, e
<1>8. CASE e.sid # NoSession
  <2>1. /\ r.at \in Seq(Nat) /\ Fresh(r.at, 0)
        /\ Weighs(TimesSince(r.at, t), TroubledSince(G, e.sid, t), 0)
        /\ e.cfg \in KeepsRapid(G) => Weighs(TimesSince(r.at, t), TroubledSince(G, e.sid, t), e.cfg.rapidCount)
    BY <1>2, <1>4, <1>8 DEF RingOf
  <2>2. {k \in DOMAIN r.at : r.at[k] # Never /\ n - r.at[k] <= e.cfg.rapidWindow}
          = {k \in 1 .. Len(r.at) : r.at[k] >= t}
    <3>1. DOMAIN r.at = 1 .. Len(r.at) /\ \A k \in 1 .. Len(r.at) : r.at[k] \in Nat
      BY <2>1, LenProperties
    <3>2. \A k \in 1 .. Len(r.at) : r.at[k] # Never
      BY <2>1, <3>1 DEF Fresh, Never
    <3>3. \A k \in 1 .. Len(r.at) : n - r.at[k] <= e.cfg.rapidWindow <=> r.at[k] >= t
      BY <1>2, <3>1
    <3> QED BY <3>1, <3>2, <3>3
  <2>3. Cardinality({k \in 1 .. Len(r.at) : r.at[k] >= t}) = inRing /\ inRing \in Nat
    BY <1>2, <2>1, TimesCount
  <2>4. due \in Nat
    BY TroubledCount
  <2>5. raised <=> e.scan.troubled /\ inRing >= e.cfg.rapidCount
    BY <1>5, <1>8, <2>2, <2>3
  <2>6. inRing <= due /\ (kept => inRing = due \/ inRing >= e.cfg.rapidCount)
    BY <1>3, <2>1 DEF Weighs
  <2> HIDE DEF inRing, due, kept
  <2>7. Exactly(raised, RapidFireDue(G, N), kept)
    BY <1>2, <1>6, <1>8, <2>3, <2>4, <2>5, <2>6 DEF Exactly
  <2> QED BY <2>7 DEF kept, N, e
<1> QED BY <1>7, <1>8

-----------------------------------------------------------------------------
(* The PII rule: what the buffer, and the scans, count since t.            *)
CountsSince(b, t) == [k \in 1 .. Len(b) |-> IF b[k].at >= t THEN b[k].count ELSE 0]

PiiSince(F, t) == [j \in 1 .. Len(F) |-> IF F[j].at >= t THEN F[j].scan.pii ELSE 0]

PiiEntry == [at : Nat \ {0}, count : Nat \ {0}]

OrderedByTime(b) == \A i, j \in 1 .. Len(b) : i <= j => b[i].at <= b[j].at

LEMMA CountsTyped ==
  ASSUME NEW b \in Seq(PiiEntry), NEW t \in Int
  PROVE  /\ CountsSince(b, t) \in Seq(Nat) /\ Len(CountsSince(b, t)) = Len(b)
         /\ \A k \in 1 .. Len(b) : CountsSince(b, t)[k] = IF b[k].at >= t THEN b[k].count ELSE 0
         /\ OrderedByTime(b) => CountsLate(CountsSince(b, t))
<1> DEFINE N == Len(b)
           r == CountsSince(b, t)
<1>1. N \in Nat /\ \A k \in 1 .. N : b[k].at \in Nat /\ b[k].count \in Nat \ {0}
  <2>1. N \in Nat /\ \A k \in 1 .. N : b[k] \in PiiEntry
    BY LenProperties
  <2> QED BY <2>1 DEF PiiEntry
<1>2. /\ r \in Seq(Nat) /\ Len(r) = N
      /\ \A k \in 1 .. N : r[k] = IF b[k].at >= t THEN b[k].count ELSE 0
  BY <1>1 DEF CountsSince
<1> HIDE DEF r
<1>3. ASSUME OrderedByTime(b) PROVE CountsLate(r)
  <2>1. DOMAIN r = 1 .. N
    BY <1>2, LenProperties
  <2>2. ASSUME NEW i \in 1 .. N, NEW j \in 1 .. N, i < j, r[i] > 0 PROVE r[j] > 0
    <3>1. b[i].at >= t
      BY <1>2, <2>2
    <3>2. b[i].at <= b[j].at
      BY <1>3, <2>2 DEF OrderedByTime
    <3>3. b[j].at >= t
      BY <1>1, <3>1, <3>2
    <3> QED BY <1>1, <1>2, <3>3
  <2> QED BY <2>1, <2>2 DEF CountsLate
<1> QED BY <1>2, <1>3 DEF r

LEMMA CountsAppend ==
  ASSUME NEW b \in Seq(PiiEntry), NEW x \in PiiEntry, NEW t \in Int
  PROVE  CountsSince(Append(b, x), t) = Append(CountsSince(b, t), IF x.at >= t THEN x.count ELSE 0)
<1> DEFINE G == Append(b, x)
           p == CountsSince(b, t)
           r == CountsSince(G, t)
           y == IF x.at >= t THEN x.count ELSE 0
<1>1. /\ G \in Seq(PiiEntry) /\ Len(G) = Len(b) + 1 /\ Len(b) \in Nat
      /\ \A k \in 1 .. Len(b) : G[k] = b[k]
      /\ G[Len(b) + 1] = x
  BY AppendProperties, LenProperties
<1> HIDE DEF G
<1>2. /\ p \in Seq(Nat) /\ Len(p) = Len(b)
      /\ \A k \in 1 .. Len(b) : p[k] = IF b[k].at >= t THEN b[k].count ELSE 0
  BY CountsTyped
<1>3. /\ r \in Seq(Nat) /\ Len(r) = Len(G)
      /\ \A k \in 1 .. Len(G) : r[k] = IF G[k].at >= t THEN G[k].count ELSE 0
  BY <1>1, CountsTyped
<1> HIDE DEF p, r
<1>4. Len(b) + 1 \in 1 .. Len(G) /\ \A k \in 1 .. Len(b) : k \in 1 .. Len(G)
  BY <1>1
<1>5. Len(r) = Len(p) + 1 /\ r[Len(p) + 1] = y /\ y \in Nat
  <2>1. r[Len(b) + 1] = IF G[Len(b) + 1].at >= t THEN G[Len(b) + 1].count ELSE 0
    BY <1>3, <1>4
  <2> QED BY <1>1, <1>2, <1>3, <2>1 DEF PiiEntry
<1>6. ASSUME NEW k \in 1 .. Len(p) PROVE r[k] = p[k]
  <2>1. r[k] = IF G[k].at >= t THEN G[k].count ELSE 0
    BY <1>2, <1>3, <1>4
  <2>2. p[k] = IF b[k].at >= t THEN b[k].count ELSE 0
    BY <1>2
  <2>3. G[k] = b[k]
    BY <1>1, <1>2
  <2> QED BY <2>1, <2>2, <2>3
<1> HIDE DEF y
<1>7. r = Append(p, y)
  BY <1>2, <1>3, <1>5, <1>6, AppendIs
<1> QED BY <1>7 DEF p, r, y, G

LEMMA PiiTyped ==
  ASSUME NEW F \in Seq(SeenScan), NEW t \in Int
  PROVE  /\ PiiSince(F, t) \in Seq(Nat) /\ Len(PiiSince(F, t)) = Len(F)
         /\ \A j \in 1 .. Len(F) : PiiSince(F, t)[j] = IF F[j].at >= t THEN F[j].scan.pii ELSE 0
<1>1. Len(F) \in Nat /\ \A j \in 1 .. Len(F) : F[j] \in SeenScan
  BY LenProperties
<1>2. \A j \in 1 .. Len(F) : F[j].scan.pii \in Nat
  BY <1>1, AlertAssumption DEF SeenScan, AlertScan
<1> QED BY <1>1, <1>2 DEF PiiSince

LEMMA PiiAppend ==
  ASSUME NEW F \in Seq(SeenScan), NEW e \in SeenScan, NEW t \in Int
  PROVE  PiiSince(Append(F, e), t) = Append(PiiSince(F, t), IF e.at >= t THEN e.scan.pii ELSE 0)
<1> DEFINE G == Append(F, e)
           p == PiiSince(F, t)
           r == PiiSince(G, t)
           y == IF e.at >= t THEN e.scan.pii ELSE 0
<1>1. /\ G \in Seq(SeenScan) /\ Len(G) = Len(F) + 1 /\ Len(F) \in Nat
      /\ \A k \in 1 .. Len(F) : G[k] = F[k]
      /\ G[Len(F) + 1] = e
  BY AppendProperties, LenProperties
<1> HIDE DEF G
<1>2. /\ p \in Seq(Nat) /\ Len(p) = Len(F)
      /\ \A k \in 1 .. Len(F) : p[k] = IF F[k].at >= t THEN F[k].scan.pii ELSE 0
  BY PiiTyped
<1>3. /\ r \in Seq(Nat) /\ Len(r) = Len(G)
      /\ \A k \in 1 .. Len(G) : r[k] = IF G[k].at >= t THEN G[k].scan.pii ELSE 0
  BY <1>1, PiiTyped
<1> HIDE DEF p, r
<1>4. Len(F) + 1 \in 1 .. Len(G) /\ \A k \in 1 .. Len(F) : k \in 1 .. Len(G)
  BY <1>1
<1>8. e.scan.pii \in Nat
  BY AlertAssumption DEF SeenScan, AlertScan
<1>5. Len(r) = Len(p) + 1 /\ r[Len(p) + 1] = y /\ y \in Nat
  <2>1. r[Len(F) + 1] = IF G[Len(F) + 1].at >= t THEN G[Len(F) + 1].scan.pii ELSE 0
    BY <1>3, <1>4
  <2> QED BY <1>1, <1>2, <1>3, <1>8, <2>1
<1>6. ASSUME NEW k \in 1 .. Len(p) PROVE r[k] = p[k]
  <2>1. r[k] = IF G[k].at >= t THEN G[k].scan.pii ELSE 0
    BY <1>2, <1>3, <1>4
  <2>2. p[k] = IF F[k].at >= t THEN F[k].scan.pii ELSE 0
    BY <1>2
  <2>3. G[k] = F[k]
    BY <1>1, <1>2
  <2> QED BY <2>1, <2>2, <2>3
<1> HIDE DEF y
<1>7. r = Append(p, y)
  BY <1>2, <1>3, <1>5, <1>6, AppendIs
<1> QED BY <1>7 DEF p, r, y, G

(* What the buffer b keeps of the scans F, at time n: all of what counts,  *)
(* or as many as some configuration has room for.                          *)
Fills(b, F, t) == \E d \in AlertConfigs : Weighs(CountsSince(b, t), PiiSince(F, t), d.capacity)

PiiHolds(b, F, n) ==
  /\ b \in Seq(PiiEntry) /\ OrderedByTime(b) /\ \A k \in 1 .. Len(b) : b[k].at <= n
  /\ \A t \in Int : Fills(b, F, t)

(* A buffer that is cut, by a scan or by a reload. *)
LEMMA PiiCut ==
  ASSUME NEW b, NEW F \in Seq(SeenScan), NEW n \in Nat, PiiHolds(b, F, n), NEW c \in AlertConfigs
  PROVE  PiiHolds(LastOf(b, c.capacity), F, n)
<1> DEFINE m == c.capacity
           N == Len(b)
           new == LastOf(b, m)
<1>1. /\ b \in Seq(PiiEntry) /\ OrderedByTime(b) /\ N \in Nat
      /\ \A k \in 1 .. N : b[k].at <= n
  BY LenProperties DEF PiiHolds
<1>2. m \in Nat \ {0}
  BY AlertConfigTyped
<1> HIDE DEF m, N
<1>3. PICK a \in 0 .. N :
        /\ new = SubSeq(b, a + 1, N)
        /\ new \in Seq(PiiEntry) /\ Len(new) = N - a
        /\ \A k \in 1 .. (N - a) : new[k] = b[a + k] /\ a + k \in 1 .. N
        /\ a = 0 \/ N - a = m
        /\ N - a <= m
  BY <1>1, <1>2, LastOfIsSuffix DEF N
<1> HIDE DEF new
<1>4. \A k \in 1 .. Len(new) : new[k].at <= n
  BY <1>1, <1>3
<1>5. OrderedByTime(new)
  <2>1. ASSUME NEW i \in 1 .. (N - a), NEW j \in 1 .. (N - a), i <= j PROVE new[i].at <= new[j].at
    <3>1. a + i \in 1 .. N /\ a + j \in 1 .. N /\ new[i] = b[a + i] /\ new[j] = b[a + j]
      BY <1>3
    <3>2. a + i <= a + j
      BY <1>1, <2>1
    <3> QED BY <1>1, <3>1, <3>2 DEF OrderedByTime, N
  <2> QED BY <1>3, <2>1 DEF OrderedByTime
<1>6. ASSUME NEW t \in Int PROVE Fills(new, F, t)
  <2> DEFINE w == CountsSince(b, t)
             p == PiiSince(F, t)
  <2>1. PICK d \in AlertConfigs : Weighs(w, p, d.capacity)
    BY DEF PiiHolds, Fills
  <2>2. d.capacity \in Nat
    BY AlertConfigTyped
  <2>3. /\ w \in Seq(Nat) /\ Len(w) = N /\ CountsLate(w)
        /\ \A k \in 1 .. N : w[k] = IF b[k].at >= t THEN b[k].count ELSE 0
    BY <1>1, CountsTyped DEF N
  <2>4. /\ CountsSince(new, t) \in Seq(Nat) /\ Len(CountsSince(new, t)) = N - a
        /\ \A k \in 1 .. (N - a) : CountsSince(new, t)[k] = IF new[k].at >= t THEN new[k].count ELSE 0
    BY <1>3, CountsTyped
  <2>5. p \in Seq(Nat)
    BY PiiTyped
  <2> HIDE DEF w, p
  <2>6. ASSUME NEW k \in 1 .. (N - a) PROVE CountsSince(new, t)[k] = w[a + k]
    <3>1. new[k] = b[a + k] /\ a + k \in 1 .. N
      BY <1>3
    <3>2. CountsSince(new, t)[k] = IF new[k].at >= t THEN new[k].count ELSE 0
      BY <2>4
    <3>3. w[a + k] = IF b[a + k].at >= t THEN b[a + k].count ELSE 0
      BY <2>3, <3>1
    <3> QED BY <3>1, <3>2, <3>3
  <2>7. CountsSince(new, t) = SubSeq(w, a + 1, Len(w))
    <3>1. a \in 0 .. Len(w) /\ Len(CountsSince(new, t)) = Len(w) - a
          /\ \A k \in 1 .. (Len(w) - a) : CountsSince(new, t)[k] = w[a + k]
      BY <2>3, <2>4, <2>6
    <3> QED BY <2>3, <2>4, <3>1, SuffixIs
  <2>8. \E e \in AlertConfigs : e.capacity \in Nat /\ e.capacity <= m /\ Weighs(w, p, e.capacity)
    <3>1. CASE d.capacity <= m
      BY <2>1, <2>2, <3>1
    <3>2. CASE ~(d.capacity <= m)
      <4>1. Total(w) \in Nat /\ Total(p) \in Nat
        BY <2>3, <2>5, TotalOfAppend
      <4>2. Weighs(w, p, m) /\ m <= m
        BY <1>2, <2>1, <2>2, <3>2, <4>1 DEF Weighs
      <4> QED BY <1>2, <4>2 DEF m
    <3> QED BY <3>1, <3>2
  <2>9. PICK e \in AlertConfigs : e.capacity \in Nat /\ e.capacity <= m /\ Weighs(w, p, e.capacity)
    BY <2>8
  <2>10. Weighs(SubSeq(w, a + 1, Len(w)), p, e.capacity)
    <3>1. a \in 0 .. Len(w) /\ (a = 0 \/ Len(w) - a = m) /\ m \in Nat
      BY <1>2, <1>3, <2>3
    <3> QED BY <2>3, <2>5, <2>9, <3>1, WeighsSuffix
  <2> QED BY <2>7, <2>10 DEF Fills, p
<1> QED BY <1>3, <1>4, <1>5, <1>6 DEF PiiHolds, new, m

(* A scan. *)
LEMMA PiiGrows ==
  ASSUME NEW b, NEW F \in Seq(SeenScan), NEW n \in Nat \ {0}, PiiHolds(b, F, n), NEW e \in SeenScan, e.at = n,
         NEW c \in AlertConfigs
  PROVE  PiiHolds(IF e.scan.pii > 0
                  THEN LastOf(Append(b, [at |-> n, count |-> e.scan.pii]), c.capacity) ELSE b, Append(F, e), n)
<1>1. b \in Seq(PiiEntry) /\ OrderedByTime(b) /\ Len(b) \in Nat /\ \A k \in 1 .. Len(b) : b[k].at <= n
  BY LenProperties DEF PiiHolds
<1>2. e.scan.pii \in Nat
  BY AlertAssumption DEF SeenScan, AlertScan
<1>3. \A t \in Int : CountsSince(b, t) \in Seq(Nat) /\ PiiSince(F, t) \in Seq(Nat)
  BY <1>1, CountsTyped, PiiTyped
<1>4. Append(F, e) \in Seq(SeenScan)
  BY AppendProperties
<1>5. CASE ~(e.scan.pii > 0)
  <2>1. ASSUME NEW t \in Int PROVE Fills(b, Append(F, e), t)
    <3>1. PiiSince(Append(F, e), t) = Append(PiiSince(F, t), 0)
      BY <1>2, <1>5, PiiAppend
    <3>2. PICK d \in AlertConfigs : Weighs(CountsSince(b, t), PiiSince(F, t), d.capacity)
      BY DEF PiiHolds, Fills
    <3>3. d.capacity \in Nat
      BY AlertConfigTyped
    <3>4. Weighs(CountsSince(b, t), Append(PiiSince(F, t), 0), d.capacity)
      BY <1>3, <3>2, <3>3, WeighsNothing
    <3> QED BY <3>1, <3>4 DEF Fills
  <2> QED BY <1>1, <1>5, <2>1 DEF PiiHolds
<1>6. CASE e.scan.pii > 0
  <2> DEFINE x == [at |-> n, count |-> e.scan.pii]
             full == Append(b, x)
  <2>1. x \in PiiEntry /\ x.at = n /\ x.count = e.scan.pii
    BY <1>2, <1>6 DEF PiiEntry
  <2> HIDE DEF x
  <2>2. /\ full \in Seq(PiiEntry) /\ Len(full) = Len(b) + 1
        /\ full[Len(full)] = x /\ (\A k \in 1 .. Len(b) : full[k] = b[k])
        /\ \A k \in 1 .. Len(full) : k \in 1 .. Len(b) \/ k = Len(full)
    BY <1>1, <2>1, AppendProperties
  <2>3. \A k \in 1 .. Len(full) : full[k].at <= n
    BY <1>1, <2>1, <2>2
  <2>4. OrderedByTime(full)
    <3> SUFFICES ASSUME NEW i \in 1 .. Len(full), NEW j \in 1 .. Len(full), i <= j PROVE full[i].at <= full[j].at
      BY DEF OrderedByTime
    <3>1. CASE j = Len(full)
      BY <2>1, <2>2, <2>3, <3>1
    <3>2. CASE j # Len(full)
      <4>1. j \in 1 .. Len(b) /\ i \in 1 .. Len(b)
        BY <1>1, <2>2, <3>2
      <4> QED BY <1>1, <2>2, <4>1 DEF OrderedByTime
    <3> QED BY <3>1, <3>2
  <2>5. ASSUME NEW t \in Int PROVE Fills(full, Append(F, e), t)
    <3> DEFINE y == IF n >= t THEN e.scan.pii ELSE 0
    <3>1. y \in Nat
      BY <1>2
    <3>2. PiiSince(Append(F, e), t) = Append(PiiSince(F, t), y)
      BY PiiAppend
    <3>3. CountsSince(full, t) = Append(CountsSince(b, t), y)
      BY <1>1, <2>1, CountsAppend
    <3> HIDE DEF y
    <3>4. PICK d \in AlertConfigs : Weighs(CountsSince(b, t), PiiSince(F, t), d.capacity)
      BY DEF PiiHolds, Fills
    <3>5. d.capacity \in Nat
      BY AlertConfigTyped
    <3>6. Weighs(Append(CountsSince(b, t), y), Append(PiiSince(F, t), y), d.capacity)
      BY <1>3, <3>1, <3>4, <3>5, WeighsAppend
    <3> QED BY <3>2, <3>3, <3>6 DEF Fills
  <2>6. PiiHolds(full, Append(F, e), n)
    BY <2>2, <2>3, <2>4, <2>5 DEF PiiHolds
  <2>7. PiiHolds(LastOf(full, c.capacity), Append(F, e), n)
    <3> HIDE DEF full
    <3> QED BY <1>4, <2>6, PiiCut
  <2> QED BY <1>6, <2>7 DEF x
<1> QED BY <1>5, <1>6

(* The PII rule is raised by the last scan of G, by what the buffer holds. *)
LEMMA PiiRaised ==
  ASSUME NEW G \in Seq(SeenScan), Len(G) # 0, NEW b, NEW n \in Nat, G[Len(G)].at = n, PiiHolds(b, G, n)
  PROVE  LET c == G[Len(G)].cfg
             held == [k \in DOMAIN b |-> IF b[k].at # Never /\ n - b[k].at <= c.piiWindow THEN b[k].count ELSE 0]
         IN  Exactly(Total(held) >= c.piiThreshold, PiiOf(G, Len(G)) >= c.piiThreshold,
                     \A d \in AlertConfigs : c.piiThreshold <= d.capacity)
<1> DEFINE N == Len(G)
           c == G[N].cfg
           held == [k \in DOMAIN b |-> IF b[k].at # Never /\ n - b[k].at <= c.piiWindow THEN b[k].count ELSE 0]
           t == n - c.piiWindow
           kept == \A d \in AlertConfigs : c.piiThreshold <= d.capacity
<1>1. N \in Nat \ {0} /\ N \in 1 .. N /\ G[N] \in SeenScan /\ \A j \in 1 .. N : G[j] \in SeenScan
  BY LenProperties
<1>2. c.piiWindow \in Nat /\ c.piiThreshold \in Nat /\ t \in Int
  BY <1>1, AlertConfigTyped DEF SeenScan
<1>3. b \in Seq(PiiEntry) /\ Fills(b, G, t) /\ DOMAIN b = 1 .. Len(b) /\ \A k \in 1 .. Len(b) : b[k] \in PiiEntry
  BY <1>2, LenProperties DEF PiiHolds
<1>4. held = CountsSince(b, t)
  <2>1. \A k \in 1 .. Len(b) : b[k].at # Never /\ (n - b[k].at <= c.piiWindow <=> b[k].at >= t)
    <3>1. \A k \in 1 .. Len(b) : b[k].at \in Nat \ {0}
      BY <1>3 DEF PiiEntry
    <3> HIDE DEF c
    <3> QED BY <1>2, <3>1 DEF Never
  <2> HIDE DEF t, c
  <2> QED BY <1>3, <2>1, Zenon DEF CountsSince
<1>5. PiiOf(G, N) = Total(PiiSince(G, t))
  <2>1. \A j \in 1 .. N : G[j].at \in Nat
    BY <1>1 DEF SeenScan
  <2>2. \A j \in 1 .. N : G[N].at - G[j].at <= c.piiWindow <=> G[j].at >= t
    <3> HIDE DEF c, N
    <3>1. G[N].at = n
      BY DEF N
    <3> QED BY <1>2, <2>1, <3>1
  <2>3. \A j \in 1 .. N : j \in ScansBefore(G, N, c.piiWindow) <=> G[j].at >= t
    BY <2>2 DEF ScansBefore
  <2>4. [j \in 1 .. N |-> IF j \in ScansBefore(G, N, c.piiWindow) THEN G[j].scan.pii ELSE 0] = PiiSince(G, t)
    <3> HIDE DEF t, c
    <3> QED BY <2>3, Zenon DEF PiiSince
  <2> QED BY <2>4 DEF PiiOf
<1>6. PICK d \in AlertConfigs : Weighs(CountsSince(b, t), PiiSince(G, t), d.capacity)
  BY <1>3 DEF Fills
<1>7. d.capacity \in Nat /\ Total(CountsSince(b, t)) \in Nat /\ Total(PiiSince(G, t)) \in Nat
  BY <1>2, <1>3, AlertConfigTyped, CountsTyped, PiiTyped, TotalOfAppend
<1>8. kept => c.piiThreshold <= d.capacity
  OBVIOUS
<1> HIDE DEF kept, held, c, t, N
<1>9. Exactly(Total(held) >= c.piiThreshold, PiiOf(G, N) >= c.piiThreshold, kept)
  BY <1>2, <1>4, <1>5, <1>6, <1>7, <1>8 DEF Exactly, Weighs
<1> QED BY <1>9 DEF kept, held, c, N

-----------------------------------------------------------------------------
(* The burst rule: the sessions that the tracker and the scans show since  *)
(* t.                                                                      *)
LiveSince(b, t) == {s \in AlertSessions : b[s] # Never /\ b[s] >= t}

FoundBy(e, s, t) == e.sid = s /\ e.scan.found /\ e.at >= t

FoundSince(F, t) == {s \in AlertSessions : \E j \in 1 .. Len(F) : FoundBy(F[j], s, t)}

KeepsBurst(F) == {c \in AlertConfigs : \A j \in 1 .. Len(F) : BurstKept(F[j].cfg, c)}

BurstsHold(b, F, n, C) ==
  /\ b \in [AlertSessions -> Nat] /\ \A s \in AlertSessions : b[s] <= n
  /\ \A t \in Int : LiveSince(b, t) \subseteq FoundSince(F, t)
  /\ \A c \in C : \A t \in Int : t >= n - c.burstWindow =>
       FoundSince(F, t) \subseteq LiveSince(b, t) \/ Cardinality(LiveSince(b, t)) >= c.burstCount

LEMMA SessionsCount ==
  ASSUME NEW S \in SUBSET AlertSessions, NEW R \in SUBSET S
  PROVE  /\ IsFiniteSet(S) /\ IsFiniteSet(R) /\ Cardinality(S) \in Nat /\ Cardinality(R) \in Nat
         /\ Cardinality(R) <= Cardinality(S)
         /\ Cardinality(R) = Cardinality(S) => R = S
<1>1. IsFiniteSet(S) /\ IsFiniteSet(R)
  BY AlertAssumption, FS_Subset
<1> QED BY <1>1, FS_Subset, FS_CardinalityType

LEMMA FoundAppend ==
  ASSUME NEW F \in Seq(SeenScan), NEW e \in SeenScan, NEW t
  PROVE  FoundSince(Append(F, e), t) = FoundSince(F, t) \cup {s \in AlertSessions : FoundBy(e, s, t)}
<1> DEFINE G == Append(F, e)
<1>1. /\ Len(F) \in Nat /\ Len(F) + 1 \in 1 .. Len(G) /\ G[Len(F) + 1] = e
      /\ \A j \in 1 .. Len(F) : G[j] = F[j] /\ j \in 1 .. Len(G)
      /\ \A j \in 1 .. Len(G) : j \in 1 .. Len(F) \/ j = Len(F) + 1
  BY ScanAppend
<1> HIDE DEF G
<1>2. ASSUME NEW s PROVE (\E j \in 1 .. Len(G) : FoundBy(G[j], s, t))
                           <=> (\E j \in 1 .. Len(F) : FoundBy(F[j], s, t)) \/ FoundBy(e, s, t)
  <2>1. ASSUME NEW j \in 1 .. Len(G), FoundBy(G[j], s, t)
        PROVE  (\E k \in 1 .. Len(F) : FoundBy(F[k], s, t)) \/ FoundBy(e, s, t)
    BY <1>1, <2>1
  <2>2. ASSUME NEW j \in 1 .. Len(F), FoundBy(F[j], s, t) PROVE \E k \in 1 .. Len(G) : FoundBy(G[k], s, t)
    BY <1>1, <2>2
  <2>3. FoundBy(e, s, t) => \E k \in 1 .. Len(G) : FoundBy(G[k], s, t)
    BY <1>1
  <2> QED BY <2>1, <2>2, <2>3
<1> QED BY <1>2 DEF FoundSince, G

LEMMA KeepsBurstAppend ==
  ASSUME NEW F \in Seq(SeenScan), NEW e \in SeenScan
  PROVE  KeepsBurst(Append(F, e)) = {c \in KeepsBurst(F) : BurstKept(e.cfg, c)}
BY ScanAppend DEF KeepsBurst

(* EvaluateAlerts and the tracker.                                         *)
LEMMA BurstsEvaluated ==
  ASSUME NEW sid \in AlertSids, NEW q \in AlertScans, NEW F \in Seq(SeenScan),
         NEW e \in SeenScan, e.sid = sid, e.scan = q, e.at = alertNow, e.cfg = alertCfg,
         alertNow \in Nat \ {0}, alertCfg \in AlertConfigs,
         BurstsHold(bursts, F, alertNow, KeepsBurst(F)), ExtendBursts(sid, q)
  PROVE  /\ BurstsHold(bursts', Append(F, e), alertNow, KeepsBurst(Append(F, e)))
         /\ \A s \in AlertSessions : bursts'[s] # Never => bursts'[s] >= alertNow - alertCfg.burstWindow
<1> DEFINE n == alertNow
           G == Append(F, e)
           C == KeepsBurst(G)
           kept == [s \in AlertSessions |-> LastSeen(s, sid, q)]
           live == {s \in AlertSessions : kept[s] # Never}
           room == IF sid # NoSession /\ q.found THEN TrackerCap ELSE Cardinality(live)
           counts(t) == {s \in AlertSessions : FoundBy(e, s, t)}
<1>1. /\ bursts \in [AlertSessions -> Nat] /\ \A s \in AlertSessions : bursts[s] <= n
      /\ \A t \in Int : LiveSince(bursts, t) \subseteq FoundSince(F, t)
      /\ \A c \in KeepsBurst(F) : \A t \in Int : t >= n - c.burstWindow =>
           FoundSince(F, t) \subseteq LiveSince(bursts, t) \/ Cardinality(LiveSince(bursts, t)) >= c.burstCount
  BY DEF BurstsHold
<1>2. C \subseteq KeepsBurst(F) /\ C \subseteq AlertConfigs /\ \A c \in C : BurstKept(alertCfg, c)
  BY KeepsBurstAppend DEF KeepsBurst
<1>3. /\ alertCfg.burstWindow \in Nat \ {0} /\ alertCfg.burstCount \in Nat /\ alertCfg.capacity \in Nat
      /\ n \in Nat \ {0}
      /\ \A c \in C : c.burstWindow \in Nat /\ c.burstCount \in Nat /\ c.burstWindow <= alertCfg.burstWindow
  BY <1>2, AlertConfigTyped DEF BurstKept
<1>4. PICK cut \in SUBSET live :
        /\ Cardinality(live \ cut) = Min({room, Cardinality(live)})
        /\ \A s \in cut, r \in live \ cut : kept[s] <= kept[r]
        /\ bursts' = [s \in AlertSessions |-> IF s \in cut THEN Never ELSE kept[s]]
  BY DEF ExtendBursts
<1>5. /\ TrackerCap \in Nat /\ 2 * alertCfg.capacity <= TrackerCap /\ alertCfg.burstCount <= TrackerCap
  BY <1>3, LargerOfTwo DEF TrackerCap
<1>6. ASSUME NEW s \in AlertSessions
      PROVE  /\ kept[s] = IF s = sid /\ q.found THEN n
                          ELSE IF Recently(bursts[s], alertCfg.burstWindow) THEN bursts[s] ELSE Never
             /\ kept[s] \in Nat /\ kept[s] <= n /\ (kept[s] # Never => kept[s] >= n - alertCfg.burstWindow)
  BY <1>1, <1>3 DEF LastSeen, Recently, Never
<1>7. \A t : FoundSince(G, t) = FoundSince(F, t) \cup counts(t)
  BY FoundAppend
<1>8. \A t, s : FoundBy(e, s, t) <=> (s = sid /\ q.found /\ n >= t)
  BY DEF FoundBy
<1> HIDE DEF C, G, kept
<1>9. ASSUME NEW t \in Int
      PROVE  LiveSince(kept, t) \subseteq FoundSince(G, t)
  <2> SUFFICES ASSUME NEW s \in AlertSessions, kept[s] # Never, kept[s] >= t PROVE s \in FoundSince(G, t)
    BY DEF LiveSince
  <2>1. CASE s = sid /\ q.found
    <3>1. kept[s] = n
      BY <1>6, <2>1
    <3> QED BY <1>7, <1>8, <2>1, <3>1
  <2>2. CASE ~(s = sid /\ q.found)
    <3>1. kept[s] = bursts[s]
      BY <1>6, <2>2
    <3>2. s \in LiveSince(bursts, t)
      BY <3>1 DEF LiveSince
    <3> QED BY <1>1, <1>7, <3>2
  <2> QED BY <2>1, <2>2
<1>10. ASSUME NEW c \in C, NEW t \in Int, t >= n - c.burstWindow
       PROVE  FoundSince(G, t) \subseteq LiveSince(kept, t) \/ Cardinality(LiveSince(kept, t)) >= c.burstCount
  <2>1. t >= n - alertCfg.burstWindow
    BY <1>3, <1>10
  <2>2. LiveSince(bursts, t) \subseteq LiveSince(kept, t)
    <3> SUFFICES ASSUME NEW s \in AlertSessions, bursts[s] # Never, bursts[s] >= t
                 PROVE  kept[s] # Never /\ kept[s] >= t
      BY DEF LiveSince
    <3>1. bursts[s] \in Nat
      BY <1>1
    <3>2. CASE s = sid /\ q.found
      <4>1. kept[s] = n /\ n # Never
        BY <1>3, <1>6, <3>2 DEF Never
      <4>2. bursts[s] <= n /\ n \in Nat
        BY <1>1, <1>3
      <4> QED BY <3>1, <4>1, <4>2
    <3>3. CASE ~(s = sid /\ q.found)
      <4>1. Recently(bursts[s], alertCfg.burstWindow)
        BY <1>3, <2>1, <3>1 DEF Recently
      <4> QED BY <1>6, <3>3, <4>1
    <3> QED BY <3>2, <3>3
  <2>3. counts(t) \subseteq LiveSince(kept, t)
    <3> SUFFICES ASSUME NEW s \in AlertSessions, FoundBy(e, s, t) PROVE kept[s] # Never /\ kept[s] >= t
      BY DEF LiveSince
    <3>1. s = sid /\ q.found /\ n >= t
      BY <1>8
    <3> QED BY <1>3, <1>6, <3>1 DEF Never
  <2>4. FoundSince(F, t) \subseteq LiveSince(bursts, t) \/ Cardinality(LiveSince(bursts, t)) >= c.burstCount
    BY <1>1, <1>2, <1>10
  <2>5. Cardinality(LiveSince(bursts, t)) <= Cardinality(LiveSince(kept, t))
        /\ Cardinality(LiveSince(bursts, t)) \in Nat /\ Cardinality(LiveSince(kept, t)) \in Nat
    <3>1. LiveSince(kept, t) \in SUBSET AlertSessions
      BY DEF LiveSince
    <3> QED BY <2>2, <3>1, SessionsCount
  <2>6. CASE FoundSince(F, t) \subseteq LiveSince(bursts, t)
    BY <1>7, <2>2, <2>3, <2>6
  <2>7. CASE Cardinality(LiveSince(bursts, t)) >= c.burstCount
    BY <1>3, <2>5, <2>7
  <2> QED BY <2>4, <2>6, <2>7
<1>11. ASSUME NEW t \in Int
       PROVE  LiveSince(bursts', t) = LiveSince(kept, t) \ cut
  <2>1. \A s \in AlertSessions : bursts'[s] = IF s \in cut THEN Never ELSE kept[s]
    BY <1>4
  <2> QED BY <2>1 DEF LiveSince
<1>12. ASSUME NEW c \in C, NEW t \in Int, t >= n - c.burstWindow
       PROVE  FoundSince(G, t) \subseteq LiveSince(bursts', t) \/ Cardinality(LiveSince(bursts', t)) >= c.burstCount
  <2>1. CASE LiveSince(kept, t) \cap cut = {}
    <3>1. LiveSince(bursts', t) = LiveSince(kept, t)
      BY <1>11, <2>1
    <3> QED BY <1>10, <1>12, <3>1
  <2>2. CASE LiveSince(kept, t) \cap cut # {}
    <3>1. PICK x \in cut : x \in AlertSessions /\ kept[x] >= t /\ kept[x] # Never
      BY <2>2 DEF LiveSince
    <3>2. live \in SUBSET AlertSessions /\ live \ cut \in SUBSET live /\ live \ cut # live
      BY <3>1
    <3>3. /\ Cardinality(live) \in Nat /\ Cardinality(live \ cut) \in Nat
          /\ Cardinality(live \ cut) <= Cardinality(live) /\ Cardinality(live \ cut) # Cardinality(live)
      BY <3>2, SessionsCount
    <3>4. Cardinality(live \ cut) = TrackerCap
      <4>1. room \in Nat
        BY <1>5, <3>3
      <4>2. Cardinality(live \ cut) = room
        <5> HIDE DEF room
        <5> QED BY <1>4, <3>3, <4>1, SmallerOfTwo
      <4> QED BY <3>3, <4>2
    <3>5. c.burstCount <= TrackerCap
      <4>1. c.burstCount <= 2 * alertCfg.capacity \/ c.burstCount <= alertCfg.burstCount
        BY <1>2 DEF BurstKept
      <4>2. 2 * alertCfg.capacity \in Nat
        BY <1>3
      <4> QED BY <1>3, <1>5, <4>1, <4>2
    <3>6. live \ cut \subseteq LiveSince(bursts', t)
      <4> SUFFICES ASSUME NEW r \in live \ cut PROVE r \in LiveSince(kept, t) \ cut
        BY <1>11
      <4>1. kept[x] <= kept[r] /\ r \in AlertSessions /\ kept[r] # Never
        BY <1>4
      <4>2. kept[x] \in Nat /\ kept[r] \in Nat
        BY <1>6, <3>1, <4>1
      <4> QED BY <3>1, <4>1, <4>2 DEF LiveSince
    <3>7. LiveSince(bursts', t) \in SUBSET AlertSessions
      BY DEF LiveSince
    <3>8. Cardinality(live \ cut) <= Cardinality(LiveSince(bursts', t)) /\ Cardinality(LiveSince(bursts', t)) \in Nat
      BY <3>6, <3>7, SessionsCount
    <3> QED BY <1>3, <1>5, <3>4, <3>5, <3>8
  <2> QED BY <2>1, <2>2
<1>13. \A s \in AlertSessions : bursts'[s] \in Nat /\ bursts'[s] <= n /\ (bursts'[s] # Never => bursts'[s] >= n - alertCfg.burstWindow)
  <2> SUFFICES ASSUME NEW s \in AlertSessions
               PROVE  bursts'[s] \in Nat /\ bursts'[s] <= n /\ (bursts'[s] # Never => bursts'[s] >= n - alertCfg.burstWindow)
    OBVIOUS
  <2>1. bursts'[s] = IF s \in cut THEN Never ELSE kept[s]
    BY <1>4
  <2>2. Never \in Nat /\ Never <= n
    BY <1>3 DEF Never
  <2> QED BY <1>6, <2>1, <2>2
<1>14. bursts' \in [AlertSessions -> Nat]
  <2>1. bursts' = [s \in AlertSessions |-> bursts'[s]]
    BY <1>4
  <2> QED BY <1>13, <2>1
<1>15. \A t \in Int : LiveSince(bursts', t) \subseteq FoundSince(G, t)
  BY <1>9, <1>11
<1>16. BurstsHold(bursts', G, n, C)
  BY <1>12, <1>13, <1>14, <1>15 DEF BurstsHold
<1> QED BY <1>13, <1>16 DEF G, C

LEMMA BurstsLater ==
  ASSUME NEW b, NEW F, NEW n \in Nat, NEW C \in SUBSET AlertConfigs, BurstsHold(b, F, n, C)
  PROVE  BurstsHold(b, F, n + 1, C)
<1>1. \A c \in C : c.burstWindow \in Nat
  BY AlertConfigTyped
<1>2. \A c \in C : \A t \in Int : t >= (n + 1) - c.burstWindow => t >= n - c.burstWindow
  BY <1>1
<1>3. \A s \in AlertSessions : b[s] <= n + 1
  BY DEF BurstsHold
<1> QED BY <1>2, <1>3 DEF BurstsHold

(* The burst rule is raised by the last scan of G, by what the tracker     *)
(* holds then.                                                             *)
LEMMA BurstRaised ==
  ASSUME NEW G \in Seq(SeenScan), Len(G) # 0, NEW b, NEW n \in Nat, G[Len(G)].at = n,
         BurstsHold(b, G, n, KeepsBurst(G)),
         \A s \in AlertSessions : b[s] # Never => b[s] >= n - G[Len(G)].cfg.burstWindow,
         NEW raised \in BOOLEAN,
         LET e == G[Len(G)] IN
         raised <=> /\ e.sid # NoSession /\ e.scan.found
                    /\ Cardinality({s \in AlertSessions : b[s] # Never}) >= e.cfg.burstCount
  PROVE  Exactly(raised, BurstDue(G, Len(G)), \A j \in 1 .. Len(G) : BurstKept(G[j].cfg, G[Len(G)].cfg))
<1> DEFINE N == Len(G)
           e == G[N]
           t == n - e.cfg.burstWindow
           kept == \A j \in 1 .. N : BurstKept(G[j].cfg, e.cfg)
           inTracker == Cardinality(LiveSince(b, t))
           due == Cardinality(FoundSince(G, t))
<1>1. N \in Nat \ {0} /\ N \in 1 .. N /\ e \in SeenScan /\ \A j \in 1 .. N : G[j] \in SeenScan
  BY LenProperties
<1>2. e.cfg \in AlertConfigs /\ e.cfg.burstWindow \in Nat /\ e.cfg.burstCount \in Nat /\ t \in Int
  <2>1. e.cfg \in AlertConfigs
    BY <1>1 DEF SeenScan
  <2> QED BY <2>1, AlertConfigTyped
<1>3. kept => e.cfg \in KeepsBurst(G)
  BY <1>2 DEF KeepsBurst
<1>4. /\ e.at = n
      /\ raised <=> /\ e.sid # NoSession /\ e.scan.found
                    /\ Cardinality({s \in AlertSessions : b[s] # Never}) >= e.cfg.burstCount
      /\ \A s \in AlertSessions : b[s] # Never => b[s] >= t
  OBVIOUS
<1>5. {s \in AlertSessions : b[s] # Never} = LiveSince(b, t)
  BY <1>4 DEF LiveSince
<1>6. BurstDue(G, N) <=> e.sid # NoSession /\ e.scan.found /\ due >= e.cfg.burstCount
  <2> DEFINE A == {k \in ScansBefore(G, N, e.cfg.burstWindow) : G[k].scan.found}
             who == {G[j].sid : j \in A}
  <2>1. \A j \in 1 .. N : G[j].at \in Nat
    BY <1>1 DEF SeenScan
  <2>2. \A j \in 1 .. N : e.at - G[j].at <= e.cfg.burstWindow <=> G[j].at >= t
    <3> HIDE DEF e, N
    <3> QED BY <1>2, <1>4, <2>1
  <2>3. \A j : j \in A <=> j \in 1 .. N /\ G[j].scan.found /\ G[j].at >= t
    <3> HIDE DEF t
    <3> QED BY <2>2 DEF ScansBefore
  <2>4. BurstDue(G, N) <=> e.sid # NoSession /\ e.scan.found /\ Cardinality(who \cap AlertSessions) >= e.cfg.burstCount
    BY DEF BurstDue
  <2> HIDE DEF A, t
  <2>5. \A s : s \in who <=> \E j \in 1 .. N : FoundBy(G[j], s, t)
    BY <2>3 DEF FoundBy
  <2> HIDE DEF who
  <2>6. who \cap AlertSessions = FoundSince(G, t)
    BY <2>5 DEF FoundSince
  <2> QED BY <2>4, <2>6
<1>7. /\ LiveSince(b, t) \subseteq FoundSince(G, t)
      /\ kept => FoundSince(G, t) \subseteq LiveSince(b, t) \/ inTracker >= e.cfg.burstCount
  BY <1>2, <1>3 DEF BurstsHold
<1>8. inTracker \in Nat /\ due \in Nat /\ inTracker <= due
  <2>1. FoundSince(G, t) \in SUBSET AlertSessions
    BY DEF FoundSince
  <2> HIDE DEF t
  <2> QED BY <1>7, <2>1, SessionsCount
<1>9. kept => inTracker = due \/ inTracker >= e.cfg.burstCount
  <2> HIDE DEF t, kept
  <2>1. FoundSince(G, t) \subseteq LiveSince(b, t) => inTracker = due
    <3>1. FoundSince(G, t) \subseteq LiveSince(b, t) => FoundSince(G, t) = LiveSince(b, t)
      BY <1>7
    <3> QED BY <3>1
  <2> QED BY <1>7, <2>1
<1>10. raised <=> e.sid # NoSession /\ e.scan.found /\ inTracker >= e.cfg.burstCount
  BY <1>4, <1>5
<1> HIDE DEF inTracker, due, kept, e, N
<1>11. Exactly(raised, BurstDue(G, N), kept)
  BY <1>2, <1>6, <1>8, <1>9, <1>10 DEF Exactly
<1> QED BY <1>11 DEF kept, N, e

-----------------------------------------------------------------------------
(* AlertManager: the invariant of the windows.                             *)
RaiseIInv ==
  /\ alertNow \in Nat \ {0} /\ alertCfg \in AlertConfigs /\ scans \in Seq(SeenScan)
  /\ \A s \in AlertSessions : RingOf(scans, s, rings[s], alertNow, KeepsRapid(scans))
  /\ BurstsHold(bursts, scans, alertNow, KeepsBurst(scans))
  /\ PiiHolds(piiRing, scans, alertNow)
  /\ \A i \in 1 .. Len(scans) : RaisedRight(scans, i)

LEMMA RaiseInit == AlertInit => RaiseIInv
<1> SUFFICES ASSUME AlertInit PROVE RaiseIInv
  OBVIOUS
<1>1. /\ alertNow = 1 /\ alertCfg \in AlertConfigs /\ scans = << >> /\ piiRing = << >>
      /\ rings = [s \in AlertSessions |-> NoRing] /\ bursts = [s \in AlertSessions |-> Never]
  BY DEF AlertInit
<1>2. Len(<< >>) = 0 /\ << >> \in Seq(Nat) /\ << >> \in Seq(SeenScan) /\ << >> \in Seq(PiiEntry)
  OBVIOUS
<1>3. /\ \A t : TimesSince(<< >>, t) = << >>
      /\ \A s, t : TroubledSince(<< >>, s, t) = << >>
      /\ \A t : PiiSince(<< >>, t) = << >> /\ CountsSince(<< >>, t) = << >>
  BY <1>2 DEF TimesSince, TroubledSince, PiiSince, CountsSince, Ones
<1>4. Total(<< >>) = 0
  BY <1>2, TotalOfAppend
<1>5. \A d : Weighs(<< >>, << >>, d)
  BY <1>4 DEF Weighs
<1>6. ASSUME NEW s \in AlertSessions PROVE RingOf(<< >>, s, NoRing, 1, KeepsRapid(<< >>))
  <2>1. Ordered(<< >>) /\ UpTo(<< >>, 1) /\ Fresh(<< >>, 0)
    BY DEF Ordered, UpTo, Fresh
  <2>2. NoRing.at = << >> /\ NoRing.cap = 0
    BY DEF NoRing
  <2> QED BY <1>2, <1>3, <1>5, <2>1, <2>2 DEF RingOf
<1>7. BurstsHold(bursts, << >>, 1, KeepsBurst(<< >>))
  <2>1. \A s \in AlertSessions : bursts[s] = Never /\ Never = 0
    BY <1>1 DEF Never
  <2>2. bursts \in [AlertSessions -> Nat] /\ \A s \in AlertSessions : bursts[s] <= 1
    BY <1>1, <2>1
  <2>3. \A t \in Int : LiveSince(bursts, t) = {}
    BY <2>1 DEF LiveSince
  <2>4. \A t \in Int : FoundSince(<< >>, t) = {}
    BY <1>2 DEF FoundSince
  <2> QED BY <2>2, <2>3, <2>4 DEF BurstsHold
<1>8. PiiHolds(<< >>, << >>, 1)
  <2>1. \A t \in Int : Fills(<< >>, << >>, t)
    BY <1>1, <1>3, <1>5 DEF Fills
  <2> QED BY <1>2, <2>1 DEF PiiHolds, OrderedByTime
<1> QED BY <1>1, <1>2, <1>6, <1>7, <1>8 DEF RaiseIInv

(* What a scan should have raised does not depend on later ones.           *)
LEMMA RaisedStays ==
  ASSUME NEW F \in Seq(SeenScan), NEW e \in SeenScan, NEW i \in 1 .. Len(F), RaisedRight(F, i)
  PROVE  RaisedRight(Append(F, e), i)
<1> DEFINE G == Append(F, e)
<1>1. Len(F) \in Nat /\ \A j \in 1 .. Len(F) : G[j] = F[j]
  BY ScanAppend
<1> HIDE DEF G
<1>2. i \in 1 .. i /\ \A j \in 1 .. i : G[j] = F[j]
  BY <1>1
<1>3. \A w : ScansBefore(G, i, w) = ScansBefore(F, i, w)
  BY <1>2 DEF ScansBefore
<1>4. \A w : ScansBefore(F, i, w) \subseteq 1 .. i
  BY DEF ScansBefore
<1>5. RapidFireDue(G, i) <=> RapidFireDue(F, i)
  <2>1. {j \in ScansBefore(G, i, G[i].cfg.rapidWindow) : G[j].sid = G[i].sid /\ G[j].scan.troubled}
        = {j \in ScansBefore(F, i, F[i].cfg.rapidWindow) : F[j].sid = F[i].sid /\ F[j].scan.troubled}
    BY <1>2, <1>3, <1>4
  <2> QED BY <1>2, <2>1, Zenon DEF RapidFireDue
<1>6. BurstDue(G, i) <=> BurstDue(F, i)
  <2>1. {k \in ScansBefore(G, i, G[i].cfg.burstWindow) : G[k].scan.found}
        = {k \in ScansBefore(F, i, F[i].cfg.burstWindow) : F[k].scan.found}
    BY <1>2, <1>3, <1>4
  <2>2. \A j \in {k \in ScansBefore(F, i, F[i].cfg.burstWindow) : F[k].scan.found} : G[j].sid = F[j].sid
    BY <1>2, <1>4
  <2>3. {G[j].sid : j \in {k \in ScansBefore(G, i, G[i].cfg.burstWindow) : G[k].scan.found}}
        = {F[j].sid : j \in {k \in ScansBefore(F, i, F[i].cfg.burstWindow) : F[k].scan.found}}
    BY <2>1, <2>2
  <2> QED BY <1>2, <2>3, Zenon DEF BurstDue
<1>7. PiiOf(G, i) = PiiOf(F, i)
  <2>1. [j \in 1 .. i |-> IF j \in ScansBefore(G, i, G[i].cfg.piiWindow) THEN G[j].scan.pii ELSE 0]
        = [j \in 1 .. i |-> IF j \in ScansBefore(F, i, F[i].cfg.piiWindow) THEN F[j].scan.pii ELSE 0]
    BY <1>2, <1>3
  <2> QED BY <2>1, Zenon DEF PiiOf
<1>8. /\ (\A j \in 1 .. i : RapidKept(G[j].cfg, G[i].cfg)) <=> (\A j \in 1 .. i : RapidKept(F[j].cfg, F[i].cfg))
      /\ (\A j \in 1 .. i : BurstKept(G[j].cfg, G[i].cfg)) <=> (\A j \in 1 .. i : BurstKept(F[j].cfg, F[i].cfg))
  BY <1>2
<1>9. RaisedRight(G, i)
  BY <1>2, <1>5, <1>6, <1>7, <1>8 DEF RaisedRight, Exactly
<1> QED BY <1>9 DEF G

(* A scan. *)
LEMMA RaiseEvaluated ==
  ASSUME RaiseIInv, NEW sid \in AlertSids, NEW q \in AlertScans, EvaluateAlerts(sid, q)
  PROVE  RaiseIInv'
<1> DEFINE raised == {rule \in AlertRules : Raises(rule, sid, q)}
           e == [sid |-> sid, scan |-> q, at |-> alertNow, cfg |-> alertCfg, raised |-> raised]
           G == Append(scans, e)
           N == Len(scans) + 1
<1>1. /\ scans' = G /\ alertNow' = alertNow /\ alertCfg' = alertCfg /\ ExtendBursts(sid, q)
      /\ rings' = [s \in AlertSessions |-> ExtendRing(s, sid, q)] /\ piiRing' = ExtendPii(q)
  BY DEF EvaluateAlerts
<1>2. /\ alertNow \in Nat \ {0} /\ alertCfg \in AlertConfigs /\ scans \in Seq(SeenScan)
      /\ \A s \in AlertSessions : RingOf(scans, s, rings[s], alertNow, KeepsRapid(scans))
      /\ BurstsHold(bursts, scans, alertNow, KeepsBurst(scans))
      /\ PiiHolds(piiRing, scans, alertNow)
      /\ \A i \in 1 .. Len(scans) : RaisedRight(scans, i)
  BY DEF RaiseIInv
<1>3. e \in SeenScan /\ e.at = alertNow /\ e.cfg = alertCfg /\ e.sid = sid /\ e.scan = q /\ e.raised = raised
  BY <1>2 DEF SeenScan
<1>4. /\ "rapid_fire" \in raised <=>
           /\ sid # NoSession /\ q.troubled
           /\ Cardinality({i \in DOMAIN rings'[sid].at : Recently(rings'[sid].at[i], alertCfg.rapidWindow)})
              >= alertCfg.rapidCount
      /\ "cross_session_burst" \in raised <=>
           /\ sid # NoSession /\ q.found
           /\ Cardinality({s \in AlertSessions : bursts'[s] # Never}) >= alertCfg.burstCount
      /\ "pii_volume_spike" \in raised <=> PiiTotal(piiRing') >= alertCfg.piiThreshold
  BY DEF Raises, AlertRules
<1> HIDE DEF raised, e
<1>5. /\ G \in Seq(SeenScan) /\ Len(G) = N /\ N # 0 /\ G[N] = e /\ Len(scans) \in Nat
      /\ \A j \in 1 .. N : j \in 1 .. Len(scans) \/ j = N
  BY <1>2, <1>3, ScanAppend
<1>6. \A s \in AlertSessions : RingOf(G, s, rings'[s], alertNow, KeepsRapid(G))
  <2> SUFFICES ASSUME NEW s \in AlertSessions PROVE RingOf(G, s, rings'[s], alertNow, KeepsRapid(G))
    OBVIOUS
  <2>1. RingOf(G, s, ExtendRing(s, sid, q), alertNow, KeepsRapid(G))
    BY <1>2, <1>3, RingEvaluated
  <2> QED BY <1>1, <2>1
<1>7. /\ BurstsHold(bursts', G, alertNow, KeepsBurst(G))
      /\ \A s \in AlertSessions : bursts'[s] # Never => bursts'[s] >= alertNow - alertCfg.burstWindow
  BY <1>1, <1>2, <1>3, BurstsEvaluated
<1>8. PiiHolds(piiRing', G, alertNow)
  <2>1. piiRing' = IF e.scan.pii > 0
                   THEN LastOf(Append(piiRing, [at |-> alertNow, count |-> e.scan.pii]), alertCfg.capacity)
                   ELSE piiRing
    BY <1>1, <1>3 DEF ExtendPii
  <2> QED BY <1>2, <1>3, <2>1, PiiGrows
<1> HIDE DEF G, N
<1>9. Exactly("rapid_fire" \in e.raised, RapidFireDue(G, N), \A j \in 1 .. N : RapidKept(G[j].cfg, e.cfg))
  <2> DEFINE r == rings'[sid]
             bit == "rapid_fire" \in e.raised
  <2>1. e.sid # NoSession => RingOf(G, e.sid, r, alertNow, KeepsRapid(G))
    BY <1>3, <1>6 DEF AlertSids
  <2>2. bit \in BOOLEAN
    OBVIOUS
  <2>3. bit <=> /\ e.sid # NoSession /\ e.scan.troubled
                /\ Cardinality({k \in DOMAIN r.at : r.at[k] # Never /\ alertNow - r.at[k] <= e.cfg.rapidWindow})
                   >= e.cfg.rapidCount
    BY <1>3, <1>4 DEF Recently
  <2> HIDE DEF r, bit
  <2>4. Exactly(bit, RapidFireDue(G, Len(G)), \A j \in 1 .. Len(G) : RapidKept(G[j].cfg, G[Len(G)].cfg))
    BY <1>2, <1>3, <1>5, <2>1, <2>2, <2>3, RapidRaised
  <2> QED BY <1>5, <2>4 DEF bit
<1>10. Exactly("cross_session_burst" \in e.raised, BurstDue(G, N), \A j \in 1 .. N : BurstKept(G[j].cfg, e.cfg))
  <2> DEFINE b == bursts'
             bit == "cross_session_burst" \in e.raised
  <2>1. bit \in BOOLEAN
    OBVIOUS
  <2>2. bit <=> /\ e.sid # NoSession /\ e.scan.found
                /\ Cardinality({s \in AlertSessions : b[s] # Never}) >= e.cfg.burstCount
    BY <1>3, <1>4
  <2>3. BurstsHold(b, G, alertNow, KeepsBurst(G)) /\ \A s \in AlertSessions : b[s] # Never => b[s] >= alertNow - e.cfg.burstWindow
    BY <1>3, <1>7
  <2> HIDE DEF b, bit
  <2>4. Exactly(bit, BurstDue(G, Len(G)), \A j \in 1 .. Len(G) : BurstKept(G[j].cfg, G[Len(G)].cfg))
    BY <1>2, <1>3, <1>5, <2>1, <2>2, <2>3, BurstRaised
  <2> QED BY <1>5, <2>4 DEF bit
<1>11. Exactly("pii_volume_spike" \in e.raised, PiiOf(G, N) >= e.cfg.piiThreshold,
               \A c \in AlertConfigs : e.cfg.piiThreshold <= c.capacity)
  <2> DEFINE b == piiRing'
             held == [k \in DOMAIN b |-> IF b[k].at # Never /\ alertNow - b[k].at <= e.cfg.piiWindow THEN b[k].count ELSE 0]
  <2>1. "pii_volume_spike" \in e.raised <=> Total(held) >= e.cfg.piiThreshold
    BY <1>1, <1>3, <1>4 DEF PiiTotal, Recently
  <2>2. PiiHolds(b, G, alertNow)
    BY <1>8
  <2> HIDE DEF b
  <2>3. Exactly(Total(held) >= e.cfg.piiThreshold, PiiOf(G, Len(G)) >= e.cfg.piiThreshold,
                \A d \in AlertConfigs : e.cfg.piiThreshold <= d.capacity)
    BY <1>2, <1>3, <1>5, <2>2, PiiRaised
  <2> HIDE DEF held
  <2> QED BY <1>5, <2>1, <2>3 DEF Exactly
<1>12. RaisedRight(G, N)
  BY <1>5, <1>9, <1>10, <1>11 DEF RaisedRight
<1>13. \A i \in 1 .. Len(G) : RaisedRight(G, i)
  <2> SUFFICES ASSUME NEW i \in 1 .. Len(scans) PROVE RaisedRight(G, i)
    BY <1>5, <1>12
  <2> QED BY <1>2, <1>3, RaisedStays DEF G
<1> QED BY <1>1, <1>2, <1>5, <1>6, <1>7, <1>8, <1>13 DEF RaiseIInv

LEMMA RaiseStep == RaiseIInv /\ [AlertNext]_alertVars => RaiseIInv'
<1> SUFFICES ASSUME RaiseIInv, [AlertNext]_alertVars PROVE RaiseIInv'
  OBVIOUS
<1>1. CASE \E sid \in AlertSids, q \in AlertScans : EvaluateAlerts(sid, q)
  BY <1>1, RaiseEvaluated
<1>2. CASE \E sid \in AlertSids, rule \in SelfmodAlerts : EvaluateSelfmodAlert(sid, rule)
  <2>1. UNCHANGED <<alertNow, alertCfg, scans, rings, bursts, piiRing>>
    BY <1>2 DEF EvaluateSelfmodAlert, windows
  <2> QED BY <2>1 DEF RaiseIInv
<1>3. CASE \E c \in AlertConfigs : ApplyAlertConfig(c)
  <2>1. PICK c \in AlertConfigs : ApplyAlertConfig(c)
    BY <1>3
  <2>2. alertCfg' = c /\ piiRing' = LastOf(piiRing, c.capacity) /\ UNCHANGED <<alertNow, scans, rings, bursts>>
    BY <2>1 DEF ApplyAlertConfig
  <2>3. PiiHolds(LastOf(piiRing, c.capacity), scans, alertNow)
    BY PiiCut DEF RaiseIInv
  <2> QED BY <2>2, <2>3 DEF RaiseIInv
<1>4. CASE AlertTick
  <2>1. alertNow' = alertNow + 1 /\ UNCHANGED <<alertCfg, scans, rings, bursts, piiRing>>
    BY <1>4 DEF AlertTick, windows
  <2>2. alertNow \in Nat \ {0} /\ alertNow + 1 \in Nat \ {0}
    BY DEF RaiseIInv
  <2>3. KeepsRapid(scans) \in SUBSET AlertConfigs /\ KeepsBurst(scans) \in SUBSET AlertConfigs
    BY DEF KeepsRapid, KeepsBurst
  <2>4. \A s \in AlertSessions : RingOf(scans, s, rings[s], alertNow + 1, KeepsRapid(scans))
    BY <2>2, <2>3, RingLater DEF RaiseIInv
  <2>5. BurstsHold(bursts, scans, alertNow + 1, KeepsBurst(scans))
    BY <2>2, <2>3, BurstsLater DEF RaiseIInv
  <2>6. PiiHolds(piiRing, scans, alertNow + 1)
    <3>1. PiiHolds(piiRing, scans, alertNow)
      BY DEF RaiseIInv
    <3>2. \A k \in 1 .. Len(piiRing) : piiRing[k] \in PiiEntry /\ piiRing[k].at <= alertNow
      BY <3>1, LenProperties DEF PiiHolds
    <3>3. \A k \in 1 .. Len(piiRing) : piiRing[k].at <= alertNow + 1
      BY <2>2, <3>2 DEF PiiEntry
    <3> QED BY <3>1, <3>3 DEF PiiHolds
  <2> QED BY <2>1, <2>2, <2>4, <2>5, <2>6 DEF RaiseIInv
<1>5. CASE UNCHANGED alertVars
  <2>1. UNCHANGED <<alertNow, alertCfg, scans, rings, bursts, piiRing>>
    BY <1>5 DEF alertVars, windows
  <2> QED BY <2>1 DEF RaiseIInv
<1> QED BY <1>1, <1>2, <1>3, <1>4, <1>5 DEF AlertNext

(* rapid_fire, cross_session_burst and pii_volume_spike are raised by the  *)
(* very scans that make them due, for any sessions, scans, clock and       *)
(* reloads, but for the configurations that kept less                      *)
(* (_check_rapid_fire and the checks after it, apply_config).              *)
THEOREM RulesAreExact == AlertSpec => []RulesRaise
<1>1. RaiseIInv => RulesRaise
  <2>1. RaiseIInv => DOMAIN scans = 1 .. Len(scans)
    BY LenProperties DEF RaiseIInv
  <2> QED BY <2>1 DEF RaiseIInv, RulesRaise
<1> QED BY <1>1, RaiseInit, RaiseStep, PTL DEF AlertSpec
=============================================================================
