----------------------------- MODULE ListTheorems -----------------------------
(***************************************************************************)
(* Facts about lists, loops over them and their subsequences, which the    *)
(* proofs about the components share.                                      *)
(***************************************************************************)
EXTENDS Subsequences, FiniteSets, SequencesExt, SequenceTheorems, FiniteSetTheorems,
        WellFoundedInduction, TLAPS

-----------------------------------------------------------------------------
(* A set of naturals has a least element. *)
LEMMA LeastElement ==
  ASSUME NEW T \in SUBSET Nat, T # {}
  PROVE  \E x \in T : \A y \in T : x <= y
  <1>1. PICK x \in T : \A y \in T : <<y, x>> \notin OpToRel(<, Nat)
    BY NatLessThanWellFounded, WFMin, Zenon
  <1>2. \A y \in T : <<y, x>> \in OpToRel(<, Nat) <=> y < x
    BY DEF OpToRel
  <1>3. \A y \in T : ~(y < x)
    BY <1>1, <1>2, Zenon
  <1> QED
    BY <1>3

(* Induction up to a bound, for the numbers of a set. *)
LEMMA Inductively ==
  ASSUME NEW N \in Nat, NEW S, 0 \in S, \A n \in 1 .. N : n - 1 \in S => n \in S
  PROVE  \A n \in 0 .. N : n \in S
  <1> DEFINE missing == {n \in 0 .. N : n \notin S}
  <1> SUFFICES ASSUME missing # {} PROVE FALSE
    OBVIOUS
  <1>1. missing \in SUBSET Nat
    OBVIOUS
  <1>2. PICK x \in missing : \A y \in missing : x <= y
    BY <1>1, LeastElement
  <1>3. x \in 1 .. N /\ x \notin S
    BY <1>2
  <1>4. x - 1 \notin missing
    BY <1>2, <1>3
  <1> QED
    BY <1>3, <1>4

(* A loop of N turns has a value after each of them. *)
Turns(step, N, V) == \A n \in 1 .. N, v \in V : step[<<n, v>>] \in V

Ran(g, step, N, base) == g[0] = base /\ \A n \in 1 .. N : g[n] = step[<<n, g[n - 1]>>]

LEMMA LoopExists ==
  ASSUME NEW N \in Nat, NEW V, NEW base \in V, NEW step, Turns(step, N, V)
  PROVE  \E g \in [0 .. N -> V] : Ran(g, step, N, base)
  <1> USE DEF Turns, Ran
  <1> DEFINE Loop(m) == {g \in [0 .. m -> V] :
                           g[0] = base /\ \A n \in 1 .. m : g[n] = step[<<n, g[n - 1]>>]}
             reached == {m \in 0 .. N : Loop(m) # {}}
  <1>1. 0 \in reached
    <2>1. [k \in 0 .. 0 |-> base] \in Loop(0)
      OBVIOUS
    <2> QED
      BY <2>1
  <1>2. ASSUME NEW m \in 1 .. N, m - 1 \in reached
        PROVE  m \in reached
    <2>1. PICK g : g \in Loop(m - 1)
      BY <1>2
    <2>2. /\ g \in [0 .. (m - 1) -> V] /\ g[0] = base
          /\ \A n \in 1 .. (m - 1) : g[n] = step[<<n, g[n - 1]>>]
      BY <2>1
    <2> DEFINE last == step[<<m, g[m - 1]>>]
               h == [k \in 0 .. m |-> IF k = m THEN last ELSE g[k]]
    <2>3. m - 1 \in 0 .. (m - 1) /\ m - 1 \in 0 .. m /\ m - 1 # m
      BY <1>2
    <2>4. last \in V
      BY <2>2, <2>3
    <2> HIDE DEF last
    <2>5. /\ h \in [0 .. m -> V] /\ h[m] = last
          /\ \A k \in 0 .. (m - 1) : h[k] = g[k]
      BY <1>2, <2>2, <2>4
    <2> HIDE DEF h
    <2>6. h[0] = base
      BY <1>2, <2>2, <2>5
    <2>7. ASSUME NEW n \in 1 .. m PROVE h[n] = step[<<n, h[n - 1]>>]
      <3>1. CASE n = m
        BY <2>3, <2>5, <3>1 DEF last
      <3>2. CASE n # m
        <4>1. n \in 1 .. (m - 1) /\ n \in 0 .. (m - 1) /\ n - 1 \in 0 .. (m - 1)
          BY <2>7, <3>2
        <4> QED
          BY <2>2, <2>5, <4>1
      <3> QED
        BY <3>1, <3>2
    <2>8. h \in Loop(m)
      BY <2>5, <2>6, <2>7
    <2> QED
      BY <1>2, <2>8
  <1> HIDE DEF reached
  <1>3. \A m \in 0 .. N : m \in reached
    BY <1>1, <1>2, Inductively
  <1>4. N \in reached
    BY <1>3
  <1> QED
    BY <1>4 DEF reached

LEMMA AppendElements ==
  ASSUME NEW T, NEW q \in Seq(T), NEW x \in T
  PROVE  Append(q, x) \in Seq(T) /\ ToSet(Append(q, x)) = ToSet(q) \cup {x}
  <1>1. /\ Append(q, x) \in Seq(T) /\ Len(Append(q, x)) = Len(q) + 1 /\ Len(q) \in Nat
        /\ \A k \in 1 .. Len(q) : Append(q, x)[k] = q[k]
        /\ Append(q, x)[Len(q) + 1] = x
    BY AppendProperties, LenProperties
  <1>2. DOMAIN q = 1 .. Len(q) /\ DOMAIN Append(q, x) = 1 .. (Len(q) + 1)
    BY <1>1, LenProperties
  <1>3. \A k \in 1 .. (Len(q) + 1) : k \in 1 .. Len(q) \/ k = Len(q) + 1
    BY <1>1
  <1>4. (Len(q) + 1) \in 1 .. (Len(q) + 1) /\ \A k \in 1 .. Len(q) : k \in 1 .. (Len(q) + 1)
    BY <1>1
  <1> QED
    BY <1>1, <1>2, <1>3, <1>4 DEF ToSet

LEMMA ConcatElements ==
  ASSUME NEW T, NEW p \in Seq(T), NEW q \in Seq(T)
  PROVE  p \o q \in Seq(T) /\ ToSet(p \o q) = ToSet(p) \cup ToSet(q)
  <1> DEFINE m == Len(p)
             n == Len(q)
             both == p \o q
  <1>1. /\ both \in Seq(T) /\ Len(both) = m + n
        /\ \A i \in 1 .. (m + n) : both[i] = IF i <= m THEN p[i] ELSE q[i - m]
    BY ConcatProperties
  <1>2. m \in Nat /\ n \in Nat /\ DOMAIN p = 1 .. m /\ DOMAIN q = 1 .. n
    BY LenProperties
  <1>3. DOMAIN both = 1 .. (m + n)
    BY <1>1, LenProperties
  <1> HIDE DEF m, n, both
  <1>4. ASSUME NEW i \in 1 .. (m + n)
        PROVE  both[i] \in ToSet(p) \cup ToSet(q)
    <2>1. CASE i <= m
      <3>1. i \in 1 .. m /\ both[i] = p[i]
        BY <1>1, <1>2, <2>1
      <3> QED
        BY <1>2, <3>1 DEF ToSet
    <2>2. CASE ~(i <= m)
      <3>1. i - m \in 1 .. n /\ both[i] = q[i - m]
        BY <1>1, <1>2, <2>2
      <3> QED
        BY <1>2, <3>1 DEF ToSet
    <2> QED
      BY <2>1, <2>2
  <1>5. ASSUME NEW i \in 1 .. m
        PROVE  p[i] \in ToSet(both)
    <2>1. i \in 1 .. (m + n) /\ i <= m
      BY <1>2
    <2>2. both[i] = p[i]
      BY <1>1, <2>1
    <2> QED
      BY <1>3, <2>1, <2>2 DEF ToSet
  <1>6. ASSUME NEW i \in 1 .. n
        PROVE  q[i] \in ToSet(both)
    <2>1. i + m \in 1 .. (m + n) /\ ~(i + m <= m) /\ (i + m) - m = i
      BY <1>2
    <2>2. both[i + m] = q[i]
      BY <1>1, <2>1
    <2> QED
      BY <1>3, <2>1, <2>2 DEF ToSet
  <1>7. ToSet(both) = ToSet(p) \cup ToSet(q)
    BY <1>2, <1>3, <1>4, <1>5, <1>6 DEF ToSet
  <1> QED
    BY <1>1, <1>7 DEF both

LEMMA ConcatAppend ==
  ASSUME NEW T, NEW p \in Seq(T), NEW q \in Seq(T), NEW x \in T
  PROVE  p \o Append(q, x) = Append(p \o q, x)
  <1> DEFINE a == p \o Append(q, x)
             b == Append(p \o q, x)
             m == Len(p)
             n == Len(q)
  <1>1. m \in Nat /\ n \in Nat
    BY LenProperties
  <1>2. /\ Append(q, x) \in Seq(T) /\ Len(Append(q, x)) = n + 1
        /\ Append(q, x)[n + 1] = x /\ \A k \in 1 .. n : Append(q, x)[k] = q[k]
    BY AppendProperties
  <1>3. /\ a \in Seq(T) /\ Len(a) = m + (n + 1)
        /\ \A k \in 1 .. m + (n + 1) : a[k] = IF k <= m THEN p[k] ELSE Append(q, x)[k - m]
    BY <1>2, ConcatProperties
  <1>4. /\ p \o q \in Seq(T) /\ Len(p \o q) = m + n
        /\ \A k \in 1 .. m + n : (p \o q)[k] = IF k <= m THEN p[k] ELSE q[k - m]
    BY ConcatProperties
  <1>5. /\ b \in Seq(T) /\ Len(b) = (m + n) + 1
        /\ b[(m + n) + 1] = x /\ \A k \in 1 .. m + n : b[k] = (p \o q)[k]
    BY <1>4, AppendProperties
  <1> HIDE DEF a, b, m, n
  <1>6. ASSUME NEW k \in 1 .. m + (n + 1) PROVE a[k] = b[k]
    <2>1. CASE k <= m
      <3>1. k \in 1 .. m + n
        BY <1>1, <2>1
      <3> QED
        BY <1>3, <1>4, <1>5, <2>1, <3>1
    <2>2. CASE ~(k <= m) /\ k <= m + n
      <3>1. k \in 1 .. m + n /\ k - m \in 1 .. n
        BY <1>1, <2>2
      <3> QED
        BY <1>2, <1>3, <1>4, <1>5, <2>2, <3>1
    <2>3. CASE ~(k <= m + n)
      <3>1. k = (m + n) + 1 /\ k - m = n + 1 /\ ~(k <= m)
        BY <1>1, <2>3
      <3> QED
        BY <1>2, <1>3, <1>5, <3>1
    <2> QED
      BY <2>1, <2>2, <2>3
  <1>7. Len(a) = Len(b)
    BY <1>1, <1>3, <1>5
  <1>8. a = b
    BY <1>3, <1>5, <1>6, <1>7, SeqEqual
  <1> QED
    BY <1>8 DEF a, b

LEMMA LastIsIn ==
  ASSUME NEW T, NEW q \in Seq(T), q # << >>
  PROVE  /\ Len(q) \in 1 .. Len(q) /\ Last(q) \in T /\ Last(q) \in ToSet(q)
         /\ Front(q) \in Seq(T)
         /\ ToSet(q) = ToSet(Front(q)) \cup {Last(q)}
  <1>1. Len(q) \in Nat /\ DOMAIN q = 1 .. Len(q) /\ \A k \in 1 .. Len(q) : q[k] \in T
    BY LenProperties
  <1>2. Len(q) # 0
    BY EmptySeq
  <1>3. Len(q) \in 1 .. Len(q)
    BY <1>1, <1>2
  <1> DEFINE m == Len(q) - 1
  <1>4. m \in Nat /\ \A k \in 1 .. m : k \in 1 .. Len(q)
    BY <1>1, <1>2
  <1>5. /\ Front(q) \in Seq(T) /\ Len(Front(q)) = m /\ DOMAIN Front(q) = 1 .. m
        /\ \A k \in 1 .. m : Front(q)[k] = q[k]
    <2>1. 1 \in Int /\ m \in Int /\ \A k \in 1 .. m : q[k] \in T
      BY <1>1, <1>4
    <2>2. Front(q) = SubSeq(q, 1, m)
      BY DEF Front
    <2> HIDE DEF m
    <2>3. /\ SubSeq(q, 1, m) \in Seq(T)
          /\ Len(SubSeq(q, 1, m)) = IF 1 <= m THEN m - 1 + 1 ELSE 0
          /\ \A k \in 1 .. (m - 1 + 1) : SubSeq(q, 1, m)[k] = q[1 + k - 1]
      BY <2>1, SubSeqProperties
    <2>4. Len(SubSeq(q, 1, m)) = m /\ \A k \in 1 .. m : SubSeq(q, 1, m)[k] = q[k]
      BY <1>4, <2>3
    <2>5. DOMAIN SubSeq(q, 1, m) = 1 .. Len(SubSeq(q, 1, m))
      BY <2>3, LenProperties
    <2> QED
      BY <2>2, <2>3, <2>4, <2>5
  <1>6. \A k \in 1 .. Len(q) : k \in 1 .. m \/ k = Len(q)
    <2>1. \A n \in Nat : \A k \in 1 .. n : k \in 1 .. (n - 1) \/ k = n
      OBVIOUS
    <2>2. Len(q) \in Nat
      BY <1>1
    <2> QED
      BY <2>1, <2>2
  <1>7. ToSet(q) = ToSet(Front(q)) \cup {Last(q)}
    <2> HIDE DEF m
    <2>1. ToSet(q) = {q[k] : k \in 1 .. Len(q)} /\ ToSet(Front(q)) = {q[k] : k \in 1 .. m}
      BY <1>1, <1>5 DEF ToSet
    <2>2. 1 .. Len(q) = (1 .. m) \cup {Len(q)}
      BY <1>1, <1>3, <1>4, <1>6
    <2>3. {q[k] : k \in (1 .. m) \cup {Len(q)}} = {q[k] : k \in 1 .. m} \cup {q[Len(q)]}
      OBVIOUS
    <2> QED
      BY <2>1, <2>2, <2>3 DEF Last
  <1> QED
    BY <1>1, <1>3, <1>5, <1>7 DEF Last

(* The function that Only is the last value of. *)
KeepsOnly(kept, q, I) ==
  kept = [n \in 0 .. Len(q) |->
            IF n = 0 THEN << >> ELSE IF n \in I THEN Append(kept[n - 1], q[n]) ELSE kept[n - 1]]

(* The loop behind Only, turn by turn. *)
LEMMA OnlyRuns ==
  ASSUME NEW T, NEW q \in Seq(T), NEW I
  PROVE  \E kept : /\ Only(q, I) = kept[Len(q)]
                   /\ kept[0] = << >>
                   /\ \A n \in 1 .. Len(q) :
                        kept[n] = IF n \in I THEN Append(kept[n - 1], q[n]) ELSE kept[n - 1]
  <1> DEFINE N == Len(q)
             step == [p \in (1 .. N) \X Seq(T) |-> IF p[1] \in I THEN Append(p[2], q[p[1]]) ELSE p[2]]
             kept == CHOOSE g : KeepsOnly(g, q, I)
  <1>1. N \in Nat /\ DOMAIN q = 1 .. N /\ \A n \in 1 .. N : q[n] \in T
    BY LenProperties
  <1>2. \A n \in 1 .. N, v \in Seq(T) : step[<<n, v>>] = IF n \in I THEN Append(v, q[n]) ELSE v
    OBVIOUS
  <1>12. ASSUME NEW n \in 1 .. N, NEW v \in Seq(T)
         PROVE  step[<<n, v>>] \in Seq(T)
    <2>1. q[n] \in T /\ step[<<n, v>>] = IF n \in I THEN Append(v, q[n]) ELSE v
      BY <1>1, <1>2
    <2> HIDE DEF step, N
    <2> QED
      BY <2>1, AppendProperties
  <1>3. << >> \in Seq(T)
    OBVIOUS
  <1> HIDE DEF step, N
  <1>4. PICK g \in [0 .. N -> Seq(T)] : g[0] = << >> /\ \A n \in 1 .. N : g[n] = step[<<n, g[n - 1]>>]
    <2>1. Turns(step, N, Seq(T))
      BY <1>12 DEF Turns
    <2>2. PICK g \in [0 .. N -> Seq(T)] : Ran(g, step, N, << >>)
      BY <1>1, <1>3, <2>1, LoopExists
    <2> QED
      BY <2>2 DEF Ran
  <1>5. ASSUME NEW n \in 1 .. N
        PROVE  n # 0 /\ n - 1 \in 0 .. N /\ n \in 0 .. N
    BY <1>1
  <1>6. ASSUME NEW n \in 1 .. N
        PROVE  g[n] = IF n \in I THEN Append(g[n - 1], q[n]) ELSE g[n - 1]
    BY <1>2, <1>4, <1>5
  <1>7. \A n \in 0 .. N : n = 0 \/ n \in 1 .. N
    BY <1>1
  <1>8. KeepsOnly(g, q, I)
    <2> DEFINE h == [n \in 0 .. N |->
            IF n = 0 THEN << >> ELSE IF n \in I THEN Append(g[n - 1], q[n]) ELSE g[n - 1]]
    <2>1. \A n \in 0 .. N : g[n] = h[n]
      BY <1>4, <1>5, <1>6, <1>7
    <2>2. g = h
      BY <1>4, <2>1
    <2> QED
      BY <2>2 DEF KeepsOnly, N
  <1>9. KeepsOnly(kept, q, I)
    BY <1>8
  <1>10. Only(q, I) = kept[N]
    BY DEF Only, KeepsOnly, N
  <1> HIDE DEF kept
  <1>11. /\ kept[0] = << >>
         /\ \A n \in 1 .. N : kept[n] = IF n \in I THEN Append(kept[n - 1], q[n]) ELSE kept[n - 1]
    <2>1. \A n \in 0 .. N : kept[n] = IF n = 0 THEN << >>
                            ELSE IF n \in I THEN Append(kept[n - 1], q[n]) ELSE kept[n - 1]
      BY <1>9, Zenon DEF KeepsOnly, N
    <2>2. 0 \in 0 .. N
      BY <1>1
    <2> QED
      BY <1>5, <2>1, <2>2
  <1> QED
    BY <1>10, <1>11 DEF N

(* Only keeps the elements at the places of I, and no others. *)
LEMMA OnlyKeeps ==
  ASSUME NEW T, NEW q \in Seq(T), NEW I
  PROVE  /\ Only(q, I) \in Seq(T)
         /\ ToSet(Only(q, I)) = {q[k] : k \in DOMAIN q \cap I}
  <1> DEFINE N == Len(q)
  <1>1. N \in Nat /\ DOMAIN q = 1 .. N /\ \A n \in 1 .. N : q[n] \in T
    BY LenProperties
  <1>3. << >> \in Seq(T)
    OBVIOUS
  <1>5. ASSUME NEW n \in 1 .. N
        PROVE  n # 0 /\ n - 1 \in 0 .. N /\ n \in 0 .. N
    BY <1>1
  <1>10. PICK kept : /\ Only(q, I) = kept[N]
                     /\ kept[0] = << >>
                     /\ \A n \in 1 .. N : kept[n] = IF n \in I THEN Append(kept[n - 1], q[n]) ELSE kept[n - 1]
    BY OnlyRuns
  <1> HIDE DEF N
  <1> DEFINE good == {n \in 0 .. N : /\ kept[n] \in Seq(T)
                                     /\ ToSet(kept[n]) = {q[k] : k \in (1 .. n) \cap I}}
  <1>12. 0 \in good
    <2>1. DOMAIN << >> = {} /\ (1 .. 0) \cap I = {} /\ 0 \in 0 .. N
      BY <1>1
    <2>2. ToSet(kept[0]) = {} /\ {q[k] : k \in (1 .. 0) \cap I} = {}
      BY <1>10, <2>1 DEF ToSet
    <2> QED
      BY <1>3, <1>10, <2>1, <2>2
  <1>13. ASSUME NEW n \in 1 .. N, n - 1 \in good
         PROVE  n \in good
    <2>1. /\ kept[n - 1] \in Seq(T) /\ q[n] \in T
          /\ ToSet(kept[n - 1]) = {q[k] : k \in (1 .. (n - 1)) \cap I}
      BY <1>1, <1>13
    <2>2. 1 .. n = (1 .. (n - 1)) \cup {n}
      BY <1>1
    <2>3. CASE n \in I
      <3>1. kept[n] = Append(kept[n - 1], q[n])
        BY <1>10, <2>3
      <3>2. kept[n] \in Seq(T) /\ ToSet(kept[n]) = ToSet(kept[n - 1]) \cup {q[n]}
        BY <2>1, <3>1, AppendElements
      <3>3. {q[k] : k \in (1 .. n) \cap I} = {q[k] : k \in (1 .. (n - 1)) \cap I} \cup {q[n]}
        BY <2>2, <2>3
      <3> QED
        BY <1>5, <2>1, <3>2, <3>3
    <2>4. CASE n \notin I
      <3>1. kept[n] = kept[n - 1]
        BY <1>10, <2>4
      <3>2. (1 .. n) \cap I = (1 .. (n - 1)) \cap I
        BY <2>2, <2>4
      <3> QED
        BY <1>5, <2>1, <3>1, <3>2
    <2> QED
      BY <2>3, <2>4
  <1> HIDE DEF good
  <1>14. \A n \in 0 .. N : n \in good
    BY <1>1, <1>12, <1>13, Inductively
  <1>15. N \in good
    BY <1>1, <1>14
  <1> QED
    BY <1>1, <1>10, <1>15 DEF good

(* The elements that come after x. *)
Following(q, x) == {q[j] : j \in {j \in DOMAIN q : \E i \in DOMAIN q : i < j /\ q[i] = x}}

(* r has z at its end, after all of q.                                     *)
EndsWith(r, q, z) ==
  \A x : Following(r, x) = IF x \in ToSet(q) THEN Following(q, x) \cup {z} ELSE Following(q, x)

LEMMA AppendFollowing ==
  ASSUME NEW T, NEW q \in Seq(T), NEW z \in T
  PROVE  EndsWith(Append(q, z), q, z)
  <1> DEFINE r == Append(q, z)
             m == Len(q)
  <1>1. /\ m \in Nat /\ DOMAIN q = 1 .. m /\ Len(r) = m + 1 /\ r \in Seq(T)
        /\ \A k \in 1 .. m : r[k] = q[k]
        /\ r[m + 1] = z
    BY AppendProperties, LenProperties
  <1>2. DOMAIN r = 1 .. (m + 1)
    BY <1>1, LenProperties
  <1> HIDE DEF r, m
  <1>3. \A k \in 1 .. (m + 1) : k \in 1 .. m \/ k = m + 1
    BY <1>1
  <1>4. \A k \in 1 .. m : k \in 1 .. (m + 1) /\ k < m + 1 /\ ~(m + 1 < k)
    BY <1>1
  <1>5. m + 1 \in 1 .. (m + 1) /\ ~(m + 1 < m + 1)
    BY <1>1
  <1>6. ASSUME NEW x, NEW y \in Following(r, x)
        PROVE  y \in Following(q, x) \/ (y = z /\ x \in ToSet(q))
    <2>1. PICK i \in 1 .. (m + 1), j \in 1 .. (m + 1) : i < j /\ r[i] = x /\ r[j] = y
      BY <1>2 DEF Following
    <2>2. i \in 1 .. m
      BY <1>1, <1>3, <1>5, <2>1
    <2>3. CASE j = m + 1
      BY <1>1, <2>1, <2>2, <2>3 DEF ToSet
    <2>4. CASE j \in 1 .. m
      BY <1>1, <2>1, <2>2, <2>4 DEF Following
    <2> QED
      BY <1>3, <2>3, <2>4
  <1>7. ASSUME NEW x, NEW y \in Following(q, x)
        PROVE  y \in Following(r, x)
    <2>1. PICK i \in 1 .. m, j \in 1 .. m : i < j /\ q[i] = x /\ q[j] = y
      BY <1>1 DEF Following
    <2>2. i \in DOMAIN r /\ j \in DOMAIN r /\ r[i] = x /\ r[j] = y
      BY <1>1, <1>2, <1>4, <2>1
    <2> QED
      BY <2>1, <2>2 DEF Following
  <1>8. ASSUME NEW x \in ToSet(q)
        PROVE  z \in Following(r, x)
    <2>1. PICK i \in 1 .. m : q[i] = x
      BY <1>1 DEF ToSet
    <2>2. i \in DOMAIN r /\ m + 1 \in DOMAIN r /\ i < m + 1 /\ r[i] = x /\ r[m + 1] = z
      BY <1>1, <1>2, <1>4, <1>5, <2>1
    <2> QED
      BY <2>2 DEF Following
  <1> QED
    BY <1>6, <1>7, <1>8 DEF EndsWith, r

LEMMA PrefixAppends ==
  ASSUME NEW T, NEW q \in Seq(T)
  PROVE  /\ SubSeq(q, 1, 0) = << >>
         /\ SubSeq(q, 1, Len(q)) = q
         /\ \A n \in 1 .. Len(q) : /\ SubSeq(q, 1, n) = Append(SubSeq(q, 1, n - 1), q[n])
                                   /\ SubSeq(q, 1, n) \in Seq(T) /\ SubSeq(q, 1, n - 1) \in Seq(T)
                                   /\ q[n] \in T
  <1>1. Len(q) \in Nat /\ \A k \in 1 .. Len(q) : q[k] \in T
    BY LenProperties
  <1>2. ASSUME NEW n \in 1 .. Len(q)
        PROVE  /\ SubSeq(q, 1, n) = Append(SubSeq(q, 1, n - 1), q[n])
               /\ SubSeq(q, 1, n) \in Seq(T) /\ SubSeq(q, 1, n - 1) \in Seq(T)
               /\ q[n] \in T
    BY <1>1
  <1>3. SubSeq(q, 1, 0) = << >>
    BY SubSeqEmpty
  <1>4. SubSeq(q, 1, Len(q)) = q
    BY <1>1
  <1> QED
    BY <1>2, <1>3, <1>4

(* Removing elements leaves the others in their order. *)
LEMMA OnlyOrder ==
  ASSUME NEW T, NEW q \in Seq(T), NEW A
  PROVE  LET r == Only(q, {k \in DOMAIN q : q[k] \in A}) IN
         /\ r \in Seq(T)
         /\ ToSet(r) = ToSet(q) \cap A
         /\ \A x \in A : Following(r, x) = Following(q, x) \cap A
  <1> DEFINE N == Len(q)
             I == {k \in DOMAIN q : q[k] \in A}
             prefix(n) == SubSeq(q, 1, n)
  <1>1. N \in Nat /\ DOMAIN q = 1 .. N
    BY LenProperties
  <1>2. PICK kept : /\ Only(q, I) = kept[N]
                    /\ kept[0] = << >>
                    /\ \A n \in 1 .. N : kept[n] = IF n \in I THEN Append(kept[n - 1], q[n]) ELSE kept[n - 1]
    <2> HIDE DEF I
    <2> QED
      BY OnlyRuns
  <1>3. prefix(0) = << >> /\ prefix(N) = q
    BY PrefixAppends
  <1>4. \A n \in 1 .. N : /\ prefix(n) = Append(prefix(n - 1), q[n]) /\ prefix(n) \in Seq(T)
                          /\ prefix(n - 1) \in Seq(T) /\ q[n] \in T
    BY PrefixAppends
  <1>5. \A n \in 1 .. N : n \in I <=> q[n] \in A
    BY <1>1
  <1> HIDE DEF N, I, prefix
  <1> DEFINE good == {n \in 0 .. N :
                        /\ kept[n] \in Seq(T)
                        /\ ToSet(kept[n]) = ToSet(prefix(n)) \cap A
                        /\ \A x \in A : Following(kept[n], x) = Following(prefix(n), x) \cap A}
  <1>6. 0 \in good
    <2>1. 0 \in 0 .. N /\ << >> \in Seq(T) /\ ToSet(<< >>) = {}
      BY <1>1 DEF ToSet
    <2>2. \A x : Following(<< >>, x) = {}
      BY DEF Following
    <2> QED
      BY <1>2, <1>3, <2>1, <2>2
  <1>7. ASSUME NEW n \in 1 .. N, n - 1 \in good
        PROVE  n \in good
    <2> DEFINE before == kept[n - 1]
               past == prefix(n - 1)
    <2>1. /\ before \in Seq(T) /\ ToSet(before) = ToSet(past) \cap A
          /\ \A x \in A : Following(before, x) = Following(past, x) \cap A
      BY <1>7
    <2>2. n \in 0 .. N /\ past \in Seq(T) /\ q[n] \in T
      BY <1>1, <1>4
    <2>3. prefix(n) = Append(past, q[n])
      BY <1>4
    <2>4. kept[n] = IF q[n] \in A THEN Append(before, q[n]) ELSE before
      BY <1>2, <1>5
    <2> HIDE DEF before, past, good
    <2>5. ToSet(prefix(n)) = ToSet(past) \cup {q[n]} /\ EndsWith(prefix(n), past, q[n])
      <3>1. ToSet(Append(past, q[n])) = ToSet(past) \cup {q[n]}
        BY <2>2, AppendElements
      <3>2. EndsWith(Append(past, q[n]), past, q[n])
        BY <2>2, AppendFollowing
      <3> QED
        BY <2>3, <3>1, <3>2
    <2>6. CASE q[n] \in A
      <3>1. before \in Seq(T) /\ q[n] \in T
        BY <2>1, <2>2
      <3>2. /\ kept[n] \in Seq(T) /\ ToSet(kept[n]) = ToSet(before) \cup {q[n]}
            /\ EndsWith(kept[n], before, q[n])
        <4>1. kept[n] = Append(before, q[n])
          BY <2>4, <2>6
        <4>2. Append(before, q[n]) \in Seq(T) /\ ToSet(Append(before, q[n])) = ToSet(before) \cup {q[n]}
          BY <3>1, AppendElements
        <4>3. EndsWith(Append(before, q[n]), before, q[n])
          BY <3>1, AppendFollowing
        <4> QED
          BY <4>1, <4>2, <4>3
      <3>3. ASSUME NEW x \in A
            PROVE  Following(kept[n], x) = Following(prefix(n), x) \cap A
        <4>1. Following(before, x) = Following(past, x) \cap A /\ (x \in ToSet(before) <=> x \in ToSet(past))
          BY <2>1
        <4>2. Following(kept[n], x) = IF x \in ToSet(before) THEN Following(before, x) \cup {q[n]}
                                      ELSE Following(before, x)
          BY <3>2 DEF EndsWith
        <4>3. Following(prefix(n), x) = IF x \in ToSet(past) THEN Following(past, x) \cup {q[n]}
                                        ELSE Following(past, x)
          BY <2>5 DEF EndsWith
        <4> QED
          BY <2>6, <4>1, <4>2, <4>3
      <3>4. ToSet(kept[n]) = ToSet(prefix(n)) \cap A
        BY <2>1, <2>5, <2>6, <3>2
      <3> QED
        BY <2>2, <3>2, <3>3, <3>4 DEF good
    <2>7. CASE q[n] \notin A
      <3>1. kept[n] = before
        BY <2>4, <2>7
      <3>2. ASSUME NEW x \in A
            PROVE  Following(kept[n], x) = Following(prefix(n), x) \cap A
        <4>1. Following(prefix(n), x) = IF x \in ToSet(past) THEN Following(past, x) \cup {q[n]}
                                        ELSE Following(past, x)
          BY <2>5 DEF EndsWith
        <4> QED
          BY <2>1, <2>7, <3>1, <4>1
      <3>3. ToSet(kept[n]) = ToSet(prefix(n)) \cap A
        BY <2>1, <2>5, <2>7, <3>1
      <3> QED
        BY <2>1, <2>2, <3>1, <3>2, <3>3 DEF good
    <2> QED
      BY <2>6, <2>7
  <1> HIDE DEF good
  <1>8. \A n \in 0 .. N : n \in good
    BY <1>1, <1>6, <1>7, Inductively
  <1>9. N \in good
    BY <1>1, <1>8
  <1> QED
    BY <1>2, <1>3, <1>9 DEF good, I

(* The first element, and what comes after it. *)
LEMMA TailFollowing ==
  ASSUME NEW T, NEW q \in Seq(T), q # << >>
  PROVE  /\ Tail(q) \in Seq(T) /\ Len(q) # 0 /\ Len(Tail(q)) = Len(q) - 1 /\ Head(q) \in T
         /\ ToSet(q) = {Head(q)} \cup ToSet(Tail(q))
         /\ Following(q, Head(q)) = ToSet(Tail(q))
         /\ \A x : x # Head(q) => Following(q, x) = Following(Tail(q), x)
  <1> DEFINE r == Tail(q)
             m == Len(r)
  <1>1. /\ r \in Seq(T) /\ Len(q) = m + 1 /\ m \in Nat /\ Head(q) = q[1] /\ Head(q) \in T
        /\ \A k \in 1 .. m : r[k] = q[k + 1]
    BY HeadTailProperties, LenProperties
  <1>2. DOMAIN q = 1 .. (m + 1) /\ DOMAIN r = 1 .. m
    BY <1>1, LenProperties
  <1> HIDE DEF r, m
  <1>3. \A k \in 1 .. (m + 1) : k = 1 \/ (k - 1 \in 1 .. m /\ k = (k - 1) + 1 /\ 1 < k)
    BY <1>1
  <1>4. \A k \in 1 .. m : k + 1 \in 1 .. (m + 1) /\ 1 < k + 1
    BY <1>1
  <1>5. 1 \in 1 .. (m + 1)
    BY <1>1
  <1>6. ToSet(q) = {Head(q)} \cup ToSet(r)
    <2>1. \A y \in ToSet(r) : y \in ToSet(q)
      BY <1>1, <1>2, <1>4 DEF ToSet
    <2>2. Head(q) \in ToSet(q)
      BY <1>1, <1>2, <1>5 DEF ToSet
    <2>3. ASSUME NEW k \in 1 .. (m + 1)
          PROVE  q[k] \in {Head(q)} \cup ToSet(r)
      <3>1. CASE k = 1
        BY <1>1, <3>1
      <3>2. CASE k - 1 \in 1 .. m /\ k = (k - 1) + 1
        <4>1. r[k - 1] = q[k]
          BY <1>1, <3>2
        <4> QED
          BY <1>2, <3>2, <4>1 DEF ToSet
      <3> QED
        BY <1>3, <3>1, <3>2
    <2>4. \A y \in ToSet(q) : y \in {Head(q)} \cup ToSet(r)
      BY <1>2, <2>3 DEF ToSet
    <2> QED
      BY <2>1, <2>2, <2>4
  <1>7. Following(q, Head(q)) = ToSet(r)
    <2>1. ASSUME NEW y \in ToSet(r)
          PROVE  y \in Following(q, Head(q))
      <3>1. PICK k \in 1 .. m : r[k] = y
        BY <1>2 DEF ToSet
      <3>2. k + 1 \in DOMAIN q /\ 1 \in DOMAIN q /\ 1 < k + 1 /\ q[1] = Head(q) /\ q[k + 1] = y
        BY <1>1, <1>2, <1>4, <1>5, <3>1
      <3> QED
        BY <3>2 DEF Following
    <2>2. ASSUME NEW y \in Following(q, Head(q))
          PROVE  y \in ToSet(r)
      <3>1. PICK i \in 1 .. (m + 1), j \in 1 .. (m + 1) : i < j /\ q[j] = y
        BY <1>2 DEF Following
      <3>2. j - 1 \in 1 .. m /\ (j - 1) + 1 = j
        BY <1>1, <3>1
      <3>3. r[j - 1] = y
        BY <1>1, <3>1, <3>2
      <3> QED
        BY <1>2, <3>2, <3>3 DEF ToSet
    <2> QED
      BY <2>1, <2>2
  <1>8. ASSUME NEW x, x # Head(q)
        PROVE  Following(q, x) = Following(r, x)
    <2>1. ASSUME NEW y \in Following(r, x)
          PROVE  y \in Following(q, x)
      <3>1. PICK i \in 1 .. m, j \in 1 .. m : i < j /\ r[i] = x /\ r[j] = y
        BY <1>2 DEF Following
      <3>2. i + 1 \in DOMAIN q /\ j + 1 \in DOMAIN q /\ i + 1 < j + 1
        BY <1>1, <1>2, <1>4, <3>1
      <3>3. q[i + 1] = x /\ q[j + 1] = y
        BY <1>1, <3>1
      <3> QED
        BY <3>2, <3>3 DEF Following
    <2>2. ASSUME NEW y \in Following(q, x)
          PROVE  y \in Following(r, x)
      <3>1. PICK i \in 1 .. (m + 1), j \in 1 .. (m + 1) : i < j /\ q[i] = x /\ q[j] = y
        BY <1>2 DEF Following
      <3>2. i # 1
        BY <1>1, <1>8, <3>1
      <3>3. /\ i - 1 \in 1 .. m /\ (i - 1) + 1 = i /\ j - 1 \in 1 .. m /\ (j - 1) + 1 = j
            /\ i - 1 < j - 1
        BY <1>1, <3>1, <3>2
      <3>4. r[i - 1] = x /\ r[j - 1] = y
        BY <1>1, <3>1, <3>3
      <3> QED
        BY <1>2, <3>3, <3>4 DEF Following
    <2> QED
      BY <2>1, <2>2
  <1>9. Len(q) # 0 /\ m = Len(q) - 1
    BY <1>1
  <1> QED
    BY <1>1, <1>6, <1>7, <1>8, <1>9 DEF r, m

(* A list without repetitions is as long as it has elements. *)
Distinct(q) == \A x \in ToSet(q) : x \notin Following(q, x)

LEMMA DistinctLength ==
  ASSUME NEW T, NEW q \in Seq(T), Distinct(q)
  PROVE  IsFiniteSet(ToSet(q)) /\ Cardinality(ToSet(q)) = Len(q)
  <1> DEFINE N == Len(q)
  <1>1. N \in Nat /\ q \in [1 .. N -> T] /\ DOMAIN q = 1 .. N
    BY LenProperties
  <1> HIDE DEF N
  <1>2. IsFiniteSet(1 .. N) /\ Cardinality(1 .. N) = N
    BY <1>1, FS_Interval
  <1>3. q \in Surjection(1 .. N, ToSet(q))
    BY <1>1 DEF Surjection, ToSet
  <1>4. q \in Injection(1 .. N, ToSet(q))
    <2>1. ASSUME NEW a \in 1 .. N, NEW b \in 1 .. N, q[a] = q[b], a < b
          PROVE  FALSE
      <3>1. q[b] \in Following(q, q[a]) /\ q[a] \in ToSet(q)
        BY <1>1, <2>1 DEF Following, ToSet
      <3> QED
        BY <2>1, <3>1 DEF Distinct
    <2>2. \A a, b \in 1 .. N : q[a] = q[b] => a = b
      BY <1>1, <2>1
    <2>3. q \in [1 .. N -> ToSet(q)]
      BY <1>1 DEF ToSet
    <2> QED
      BY <1>1, <2>2, <2>3 DEF Injection, IsInjective
  <1> QED
    BY <1>2, <1>3, <1>4, FS_Surjection DEF N

-----------------------------------------------------------------------------
(* The function that Total is the last value of. *)
SumsUp(sum, q) == sum = [n \in 0 .. Len(q) |-> IF n = 0 THEN 0 ELSE sum[n - 1] + q[n]]

(* The loop behind Total, turn by turn. *)
LEMMA TotalRuns ==
  ASSUME NEW q \in Seq(Nat)
  PROVE  \E sum \in [0 .. Len(q) -> Nat] :
           /\ Total(q) = sum[Len(q)]
           /\ sum[0] = 0
           /\ \A n \in 1 .. Len(q) : sum[n] = sum[n - 1] + q[n]
  <1> DEFINE N == Len(q)
             step == [p \in (1 .. N) \X Nat |-> p[2] + q[p[1]]]
             sum == CHOOSE g : SumsUp(g, q)
  <1>1. N \in Nat /\ DOMAIN q = 1 .. N /\ \A n \in 1 .. N : q[n] \in Nat
    BY LenProperties
  <1>2. \A n \in 1 .. N, v \in Nat : step[<<n, v>>] = v + q[n]
    OBVIOUS
  <1> HIDE DEF step, N
  <1>3. PICK g \in [0 .. N -> Nat] : g[0] = 0 /\ \A n \in 1 .. N : g[n] = step[<<n, g[n - 1]>>]
    <2>1. \A n \in 1 .. N, v \in Nat : v + q[n] \in Nat
      BY <1>1
    <2>3. Turns(step, N, Nat)
      BY <1>2, <2>1 DEF Turns
    <2>2. PICK g \in [0 .. N -> Nat] : Ran(g, step, N, 0)
      BY <1>1, <2>3, LoopExists
    <2> QED
      BY <2>2 DEF Ran
  <1>4. ASSUME NEW n \in 1 .. N
        PROVE  n # 0 /\ n - 1 \in 0 .. N /\ n \in 0 .. N
    BY <1>1
  <1>5. ASSUME NEW n \in 1 .. N
        PROVE  g[n] = g[n - 1] + q[n]
    BY <1>2, <1>3, <1>4
  <1>6. \A n \in 0 .. N : n = 0 \/ n \in 1 .. N
    BY <1>1
  <1>7. SumsUp(g, q)
    <2> DEFINE h == [n \in 0 .. N |-> IF n = 0 THEN 0 ELSE g[n - 1] + q[n]]
    <2>1. \A n \in 0 .. N : g[n] = h[n]
      BY <1>3, <1>4, <1>5, <1>6
    <2>2. g = h
      BY <1>3, <2>1
    <2> QED
      BY <2>2 DEF SumsUp, N
  <1>8. SumsUp(sum, q)
    BY <1>7
  <1>9. Total(q) = sum[N]
    BY DEF Total, SumsUp, N
  <1> HIDE DEF sum
  <1>10. sum[0] = 0 /\ \A n \in 1 .. N : sum[n] = sum[n - 1] + q[n]
    <2>1. \A n \in 0 .. N : sum[n] = IF n = 0 THEN 0 ELSE sum[n - 1] + q[n]
      BY <1>8, Zenon DEF SumsUp, N
    <2>2. 0 \in 0 .. N
      BY <1>1
    <2> QED
      BY <1>4, <2>1, <2>2
  <1>11. \A n \in 0 .. N : sum[n] \in Nat
    <2> DEFINE good == {n \in 0 .. N : sum[n] \in Nat}
    <2>1. 0 \in good
      BY <1>1, <1>10
    <2>2. ASSUME NEW n \in 1 .. N, n - 1 \in good PROVE n \in good
      BY <1>1, <1>4, <1>10, <2>2
    <2> HIDE DEF good
    <2>3. \A n \in 0 .. N : n \in good
      BY <1>1, <2>1, <2>2, Inductively
    <2> QED
      BY <2>3 DEF good
  <1>12. sum \in [0 .. N -> Nat]
    <2>1. sum = [n \in 0 .. N |-> IF n = 0 THEN 0 ELSE sum[n - 1] + q[n]]
      BY <1>8 DEF SumsUp, N
    <2>2. sum = [n \in 0 .. N |-> sum[n]]
      BY <2>1, Zenon
    <2> QED
      BY <1>11, <2>2
  <1> QED
    BY <1>9, <1>10, <1>12 DEF N

(* Whatever adds the numbers up one by one arrives at their total. *)
LEMMA TotalIs ==
  ASSUME NEW q \in Seq(Nat), NEW g,
         g[0] = 0, \A n \in 1 .. Len(q) : g[n] = g[n - 1] + q[n]
  PROVE  Total(q) = g[Len(q)]
  <1> DEFINE N == Len(q)
  <1>1. N \in Nat
    BY LenProperties
  <1>2. PICK sum \in [0 .. N -> Nat] :
          Total(q) = sum[N] /\ sum[0] = 0 /\ \A n \in 1 .. N : sum[n] = sum[n - 1] + q[n]
    BY TotalRuns
  <1>3. \A n \in 1 .. N : g[n] = g[n - 1] + q[n]
    OBVIOUS
  <1> HIDE DEF N
  <1> DEFINE good == {n \in 0 .. N : g[n] = sum[n]}
  <1>4. 0 \in good
    BY <1>1, <1>2
  <1>5. ASSUME NEW n \in 1 .. N, n - 1 \in good PROVE n \in good
    BY <1>1, <1>2, <1>3, <1>5
  <1> HIDE DEF good
  <1>6. \A n \in 0 .. N : n \in good
    BY <1>1, <1>4, <1>5, Inductively
  <1> QED
    BY <1>1, <1>2, <1>6 DEF good, N

LEMMA TotalOfAppend ==
  ASSUME NEW q \in Seq(Nat), NEW x \in Nat
  PROVE  /\ Total(<< >>) = 0 /\ Total(q) \in Nat
         /\ Append(q, x) \in Seq(Nat) /\ Total(Append(q, x)) = Total(q) + x
  <1> DEFINE N == Len(q)
             r == Append(q, x)
  <1>1. /\ N \in Nat /\ r \in Seq(Nat) /\ Len(r) = N + 1
        /\ \A k \in 1 .. N : r[k] = q[k]
        /\ r[N + 1] = x
    BY AppendProperties, LenProperties
  <1>2. PICK sum \in [0 .. N -> Nat] :
          Total(q) = sum[N] /\ sum[0] = 0 /\ \A n \in 1 .. N : sum[n] = sum[n - 1] + q[n]
    BY TotalRuns
  <1>3. Total(<< >>) = 0
    <2>1. PICK none \in [0 .. Len(<< >>) -> Nat] : Total(<< >>) = none[Len(<< >>)] /\ none[0] = 0
      <3>1. << >> \in Seq(Nat)
        OBVIOUS
      <3> QED
        BY <3>1, TotalRuns
    <2>2. Len(<< >>) = 0
      OBVIOUS
    <2> QED
      BY <2>1, <2>2
  <1> HIDE DEF N, r
  <1> DEFINE g == [n \in 0 .. (N + 1) |-> IF n = N + 1 THEN sum[N] + x ELSE sum[n]]
  <1>4. g[0] = 0 /\ g[N + 1] = sum[N] + x
    BY <1>1, <1>2
  <1>5. \A n \in 1 .. (N + 1) : g[n] = g[n - 1] + r[n]
    BY <1>1, <1>2
  <1> HIDE DEF g
  <1>6. Total(r) = g[N + 1]
    BY <1>1, <1>4, <1>5, TotalIs
  <1> QED
    BY <1>1, <1>2, <1>3, <1>4, <1>6 DEF r

(* What the last elements of a list add up to, when what does not count is *)
(* at its beginning: as much as all of it, or one for each.                *)
CountsLate(q) == \A i, j \in DOMAIN q : i < j /\ q[i] > 0 => q[j] > 0

LEMMA TotalOfSuffix ==
  ASSUME NEW q \in Seq(Nat), NEW a \in 0 .. Len(q), CountsLate(q)
  PROVE  LET r == SubSeq(q, a + 1, Len(q)) IN
         /\ r \in Seq(Nat) /\ Len(r) = Len(q) - a
         /\ Total(r) \in Nat /\ Total(r) <= Total(q)
         /\ Total(r) = Total(q) \/ Total(r) >= Len(q) - a
  <1> DEFINE N == Len(q)
             M == N - a
             r == SubSeq(q, a + 1, N)
  <1>1. N \in Nat /\ a \in Nat /\ a <= N /\ M \in Nat /\ DOMAIN q = 1 .. N
    BY LenProperties
  <1>2. PICK sum \in [0 .. N -> Nat] :
          Total(q) = sum[N] /\ sum[0] = 0 /\ \A n \in 1 .. N : sum[n] = sum[n - 1] + q[n]
    BY TotalRuns
  <1>3. \A n \in 1 .. N : q[n] \in Nat
    BY LenProperties
  <1>4. r \in Seq(Nat) /\ Len(r) = M /\ \A k \in 1 .. M : r[k] = q[a + k]
    <2>1. a + 1 \in 1 .. (N + 1) /\ N \in Int /\ a + 1 \in Int
      BY <1>1
    <2>2. \A k \in (a + 1) .. N : q[k] \in Nat
      BY <1>1, <1>3
    <2>3. /\ r \in Seq(Nat)
          /\ Len(r) = IF a + 1 <= N THEN N - (a + 1) + 1 ELSE 0
          /\ \A k \in 1 .. (N - (a + 1) + 1) : r[k] = q[(a + 1) + k - 1]
      <3> HIDE DEF N
      <3> QED
        BY <1>1, <2>1, <2>2, SubSeqProperties
    <2> HIDE DEF N, r
    <2>4. N - (a + 1) + 1 = M /\ (a + 1 <= N \/ M = 0) /\ \A k \in 1 .. M : (a + 1) + k - 1 = a + k
      BY <1>1
    <2> QED
      BY <2>3, <2>4
  <1> HIDE DEF N, r
  <1> DEFINE g == [k \in 0 .. M |-> sum[a + k] - sum[a]]
  <1>5. g[0] = 0 /\ g[M] = sum[N] - sum[a]
    BY <1>1, <1>2
  <1>6. \A k \in 1 .. M : g[k] = g[k - 1] + r[k]
    <2> SUFFICES ASSUME NEW k \in 1 .. M PROVE g[k] = g[k - 1] + r[k]
      OBVIOUS
    <2>1. a + k \in 1 .. N /\ a + (k - 1) = (a + k) - 1 /\ a \in 0 .. N /\ k \in 0 .. M /\ k - 1 \in 0 .. M
      BY <1>1
    <2>2. sum[a + k] = sum[(a + k) - 1] + q[a + k] /\ r[k] = q[a + k]
      BY <1>2, <1>4, <2>1
    <2>3. g[k] = sum[a + k] - sum[a] /\ g[k - 1] = sum[(a + k) - 1] - sum[a]
      BY <2>1
    <2>4. sum[a] \in Nat /\ sum[(a + k) - 1] \in Nat /\ q[a + k] \in Nat
      BY <1>1, <1>2, <1>3, <2>1
    <2> HIDE DEF g
    <2> QED
      BY <2>2, <2>3, <2>4
  <1>7. Total(r) = sum[N] - sum[a]
    <2> HIDE DEF g, M
    <2> QED
      BY <1>4, <1>5, <1>6, TotalIs
  <1>8. sum[a] \in Nat /\ sum[N] \in Nat
    BY <1>1, <1>2
  <1>9. sum[N] - sum[a] \in Nat
    <2> DEFINE up == {k \in 0 .. M : sum[a + k] >= sum[a]}
    <2>1. 0 \in up
      BY <1>1, <1>8
    <2>2. ASSUME NEW k \in 1 .. M, k - 1 \in up PROVE k \in up
      <3>1. a + k \in 1 .. N /\ a + (k - 1) = (a + k) - 1 /\ (a + k) - 1 \in 0 .. N
        BY <1>1
      <3>2. sum[a + k] = sum[(a + k) - 1] + q[a + k] /\ q[a + k] \in Nat /\ sum[(a + k) - 1] \in Nat
        BY <1>2, <1>3, <3>1
      <3>3. sum[(a + k) - 1] >= sum[a]
        BY <2>2, <3>1
      <3> QED
        BY <1>8, <3>2, <3>3
    <2> HIDE DEF up
    <2>3. \A k \in 0 .. M : k \in up
      BY <1>1, <2>1, <2>2, Inductively
    <2>4. M \in up
      BY <1>1, <2>3
    <2> QED
      BY <1>1, <1>8, <2>4 DEF up
  <1>10. sum[a] = 0 \/ sum[N] - sum[a] >= M
    <2>1. CASE \E i \in 1 .. a : q[i] > 0
      <3>1. PICK i \in 1 .. a : q[i] > 0
        BY <2>1
      <3>2. ASSUME NEW k \in 1 .. M PROVE q[a + k] >= 1
        <4>1. a + k \in 1 .. N /\ i \in 1 .. N /\ i < a + k
          BY <1>1
        <4>2. q[a + k] > 0 /\ q[a + k] \in Nat
          BY <1>1, <1>3, <3>1, <4>1 DEF CountsLate
        <4> QED
          BY <4>2
      <3> DEFINE up == {k \in 0 .. M : sum[a + k] >= sum[a] + k}
      <3>3. 0 \in up
        BY <1>1, <1>8
      <3>4. ASSUME NEW k \in 1 .. M, k - 1 \in up PROVE k \in up
        <4>1. a + k \in 1 .. N /\ a + (k - 1) = (a + k) - 1 /\ (a + k) - 1 \in 0 .. N
          BY <1>1
        <4>2. sum[a + k] = sum[(a + k) - 1] + q[a + k] /\ q[a + k] \in Nat /\ sum[(a + k) - 1] \in Nat
          BY <1>2, <1>3, <4>1
        <4>3. sum[(a + k) - 1] >= sum[a] + (k - 1)
          BY <3>4, <4>1
        <4>4. q[a + k] >= 1 /\ k \in 0 .. M
          BY <3>2
        <4>5. sum[a + k] >= sum[a] + k
          BY <1>8, <4>2, <4>3, <4>4
        <4> QED
          BY <4>4, <4>5
      <3> HIDE DEF up
      <3>5. \A k \in 0 .. M : k \in up
        BY <1>1, <3>3, <3>4, Inductively
      <3>6. M \in up
        BY <1>1, <3>5
      <3> QED
        BY <1>1, <1>8, <3>6 DEF up
    <2>2. CASE \A i \in 1 .. a : ~(q[i] > 0)
      <3> DEFINE flat == {n \in 0 .. a : sum[n] = 0}
      <3>1. 0 \in flat
        BY <1>1, <1>2
      <3>2. ASSUME NEW n \in 1 .. a, n - 1 \in flat PROVE n \in flat
        <4>1. n \in 1 .. N
          BY <1>1
        <4>2. q[n] = 0 /\ sum[n] = sum[n - 1] + q[n]
          BY <1>2, <1>3, <2>2, <4>1
        <4> QED
          BY <3>2, <4>2
      <3> HIDE DEF flat
      <3>3. \A n \in 0 .. a : n \in flat
        BY <1>1, <3>1, <3>2, Inductively
      <3>4. a \in flat
        BY <1>1, <3>3
      <3> QED
        BY <3>4 DEF flat
    <2> QED
      BY <2>1, <2>2
  <1>11. Len(q) - a = M /\ r = SubSeq(q, a + 1, Len(q))
    BY DEF r, N
  <1>12. Total(r) \in Nat /\ Total(r) <= Total(q) /\ (Total(r) = Total(q) \/ Total(r) >= M)
    BY <1>2, <1>7, <1>8, <1>9, <1>10
  <1> QED
    BY <1>4, <1>11, <1>12

(* The size of a set of places is the total of ones at them. *)
Ones(N, I) == [k \in 1 .. N |-> IF k \in I THEN 1 ELSE 0]

LEMMA CardinalityIsTotal ==
  ASSUME NEW N \in Nat, NEW I \in SUBSET (1 .. N)
  PROVE  Ones(N, I) \in Seq(Nat) /\ IsFiniteSet(I) /\ Cardinality(I) = Total(Ones(N, I))
  <1> DEFINE q == Ones(N, I)
  <1>1. /\ q \in Seq(Nat) /\ Len(q) = N
        /\ \A k \in 1 .. N : q[k] = IF k \in I THEN 1 ELSE 0
    BY DEF Ones
  <1>2. IsFiniteSet(1 .. N)
    BY FS_Interval
  <1>3. IsFiniteSet(I) /\ I = I \cap (1 .. N)
    BY <1>2, FS_Subset
  <1> HIDE DEF q
  <1>4. PICK sum \in [0 .. N -> Nat] :
          Total(q) = sum[N] /\ sum[0] = 0 /\ \A n \in 1 .. N : sum[n] = sum[n - 1] + q[n]
    BY <1>1, TotalRuns
  <1> DEFINE good == {n \in 0 .. N : Cardinality(I \cap (1 .. n)) = sum[n]}
  <1>5. 0 \in good
    <2>1. I \cap (1 .. 0) = {} /\ 0 \in 0 .. N
      OBVIOUS
    <2> QED
      BY <1>4, <2>1, FS_EmptySet
  <1>6. ASSUME NEW n \in 1 .. N, n - 1 \in good PROVE n \in good
    <2> DEFINE J == I \cap (1 .. (n - 1))
    <2>1. IsFiniteSet(J) /\ n \notin J /\ Cardinality(J) = sum[n - 1]
      <3>1. J \subseteq I /\ n \notin J
        OBVIOUS
      <3> QED
        BY <1>3, <1>6, <3>1, FS_Subset
    <2>2. I \cap (1 .. n) = IF n \in I THEN J \cup {n} ELSE J
      OBVIOUS
    <2> HIDE DEF J
    <2>3. Cardinality(J \cup {n}) = Cardinality(J) + 1
      BY <2>1, FS_AddElement
    <2>4. sum[n] = sum[n - 1] + q[n] /\ sum[n - 1] \in Nat /\ n \in 0 .. N
      BY <1>4
    <2>5. q[n] = IF n \in I THEN 1 ELSE 0
      BY <1>1
    <2>6. Cardinality(I \cap (1 .. n)) = sum[n]
      <3>1. CASE n \in I
        <4>1. I \cap (1 .. n) = J \cup {n} /\ q[n] = 1
          BY <2>2, <2>5, <3>1
        <4> QED
          BY <2>1, <2>3, <2>4, <4>1
      <3>2. CASE n \notin I
        <4>1. I \cap (1 .. n) = J /\ q[n] = 0
          BY <2>2, <2>5, <3>2
        <4>2. sum[n] = sum[n - 1]
          BY <2>4, <4>1
        <4> QED
          BY <2>1, <4>1, <4>2, Zenon
      <3> QED
        BY <3>1, <3>2
    <2> QED
      BY <2>4, <2>6
  <1> HIDE DEF good
  <1>7. \A n \in 0 .. N : n \in good
    BY <1>5, <1>6, Inductively
  <1> QED
    BY <1>1, <1>3, <1>4, <1>7 DEF good, q

(* The values of a function on a finite set, and the elements of a list. *)
LEMMA FiniteImage ==
  ASSUME NEW S, IsFiniteSet(S), NEW f
  PROVE  IsFiniteSet({f[x] : x \in S}) /\ Cardinality({f[x] : x \in S}) <= Cardinality(S)
  <1> DEFINE T == {f[x] : x \in S}
             g == [x \in S |-> f[x]]
  <1>1. g \in Surjection(S, T)
    <2>1. g \in [S -> T] /\ \A x \in S : g[x] = f[x]
      OBVIOUS
    <2>2. \A t \in T : \E x \in S : g[x] = t
      OBVIOUS
    <2> QED
      BY <2>1, <2>2 DEF Surjection
  <1> HIDE DEF T, g
  <1>2. IsFiniteSet(T) /\ Cardinality(T) <= Cardinality(S)
    BY <1>1, FS_Surjection
  <1> QED
    BY <1>2 DEF T

LEMMA ElementsFinite ==
  ASSUME NEW T, NEW q \in Seq(T)
  PROVE  ToSet(q) \subseteq T /\ IsFiniteSet(ToSet(q))
  <1>1. Len(q) \in Nat /\ DOMAIN q = 1 .. Len(q) /\ \A k \in 1 .. Len(q) : q[k] \in T
    BY LenProperties, ElementOfSeq
  <1>2. IsFiniteSet(1 .. Len(q))
    BY <1>1, FS_Interval
  <1>3. IsFiniteSet({q[k] : k \in 1 .. Len(q)})
    BY <1>2, FiniteImage
  <1> QED
    BY <1>1, <1>3 DEF ToSet

-----------------------------------------------------------------------------
(* Lining up a finite set by a strict linear order, as list.sort() does.   *)
LinearOn(R, S) ==
  /\ \A a \in S : <<a, a>> \notin R
  /\ \A a, b, c \in S : <<a, b>> \in R /\ <<b, c>> \in R => <<a, c>> \in R
  /\ \A a, b \in S : a = b \/ <<a, b>> \in R \/ <<b, a>> \in R

Before(R, S, r) == {o \in S : <<o, r>> \in R}

Lined(R, S) == [i \in 1 .. Cardinality(S) |-> CHOOSE r \in S : Cardinality(Before(R, S, r)) = i - 1]

(* Each element comes after as many as precede it. *)
LEMMA LinedUp ==
  ASSUME NEW S, IsFiniteSet(S), NEW R, LinearOn(R, S)
  PROVE  LET q == Lined(R, S) IN
         /\ Cardinality(S) \in Nat /\ q \in Seq(S) /\ Len(q) = Cardinality(S) /\ ToSet(q) = S
         /\ \A i, k \in 1 .. Len(q) : i < k => <<q[i], q[k]>> \in R
         /\ \A r \in S : /\ IsFiniteSet(Before(R, S, r)) /\ Cardinality(Before(R, S, r)) \in Nat
                         /\ Cardinality(Before(R, S, r)) + 1 \in 1 .. Len(q)
                         /\ q[Cardinality(Before(R, S, r)) + 1] = r
  <1> DEFINE N == Cardinality(S)
             q == Lined(R, S)
             B(r) == Before(R, S, r)
             place == [r \in S |-> Cardinality(B(r)) + 1]
  <1>1. N \in Nat /\ IsFiniteSet(1 .. N) /\ Cardinality(1 .. N) = N
    <2>1. N \in Nat
      BY FS_CardinalityType
    <2> HIDE DEF N
    <2> QED
      BY <2>1, FS_Interval
  <1>2. ASSUME NEW r \in S
        PROVE  /\ B(r) \in SUBSET S /\ r \notin B(r)
               /\ IsFiniteSet(B(r)) /\ Cardinality(B(r)) \in Nat /\ Cardinality(B(r)) < N
    <2>1. B(r) \in SUBSET S /\ r \notin B(r)
      BY DEF Before, LinearOn
    <2> HIDE DEF B
    <2>2. IsFiniteSet(B(r)) /\ Cardinality(B(r)) <= N /\ (Cardinality(B(r)) = N => B(r) = S)
      BY <2>1, FS_Subset
    <2>3. Cardinality(B(r)) \in Nat
      BY <2>2, FS_CardinalityType
    <2> QED
      BY <1>1, <2>1, <2>2, <2>3
  <1>3. ASSUME NEW r \in S, NEW p \in S, <<r, p>> \in R
        PROVE  Cardinality(B(r)) < Cardinality(B(p))
    <2>1. B(r) \in SUBSET B(p) /\ r \in B(p) /\ r \notin B(r)
      BY <1>3 DEF Before, LinearOn
    <2> HIDE DEF B
    <2>2. Cardinality(B(r)) <= Cardinality(B(p)) /\ (Cardinality(B(r)) = Cardinality(B(p)) => B(r) = B(p))
      BY <1>2, <2>1, FS_Subset
    <2> QED
      BY <1>2, <2>1, <2>2
  <1>4. \A r, p \in S : Cardinality(B(r)) = Cardinality(B(p)) => r = p
    <2> SUFFICES ASSUME NEW r \in S, NEW p \in S, Cardinality(B(r)) = Cardinality(B(p)), r # p
                 PROVE  FALSE
      OBVIOUS
    <2>1. <<r, p>> \in R \/ <<p, r>> \in R
      BY DEF LinearOn
    <2>2. Cardinality(B(r)) < Cardinality(B(p)) \/ Cardinality(B(p)) < Cardinality(B(r))
      BY <1>3, <2>1
    <2>3. Cardinality(B(r)) \in Nat
      BY <1>2
    <2> HIDE DEF B
    <2> QED
      BY <2>2, <2>3
  <1> HIDE DEF B
  <1>5. place \in Surjection(S, 1 .. N)
    <2>1. place \in [S -> 1 .. N]
      <3>1. ASSUME NEW r \in S PROVE Cardinality(B(r)) + 1 \in 1 .. N
        BY <1>1, <1>2
      <3> QED
        BY <3>1
    <2>2. ASSUME NEW r \in S, NEW p \in S, place[r] = place[p] PROVE r = p
      <3>1. Cardinality(B(r)) + 1 = Cardinality(B(p)) + 1
        BY <2>2
      <3>2. Cardinality(B(r)) = Cardinality(B(p))
        BY <1>2, <3>1
      <3> QED
        BY <1>4, <3>2
    <2> HIDE DEF place
    <2>3. place \in Injection(S, 1 .. N)
      BY <2>1, <2>2 DEF Injection, IsInjective
    <2> QED
      BY <1>1, <2>3, FS_Injection
  <1>6. ASSUME NEW k \in 1 .. N
        PROVE  q[k] \in S /\ Cardinality(B(q[k])) = k - 1
    <2>1. PICK r \in S : place[r] = k
      BY <1>5 DEF Surjection
    <2>2. Cardinality(B(r)) = k - 1
      BY <1>1, <1>2, <2>1
    <2>3. q[k] = CHOOSE p \in S : Cardinality(B(p)) = k - 1
      BY DEF Lined, B
    <2> QED
      BY <2>2, <2>3
  <1>7. q \in Seq(S) /\ Len(q) = N /\ DOMAIN q = 1 .. N
    <2>1. q \in [1 .. N -> S]
      <3>1. q = [k \in 1 .. N |-> q[k]]
        BY DEF Lined
      <3> HIDE DEF q
      <3> QED
        BY <1>6, <3>1
    <2> HIDE DEF q, N
    <2> QED
      BY <1>1, <2>1
  <1>8. ASSUME NEW r \in S
        PROVE  Cardinality(B(r)) + 1 \in 1 .. N /\ q[Cardinality(B(r)) + 1] = r
    <2> DEFINE k == Cardinality(B(r)) + 1
    <2>1. k \in 1 .. N /\ k - 1 = Cardinality(B(r))
      BY <1>1, <1>2
    <2> HIDE DEF k
    <2>2. q[k] \in S /\ Cardinality(B(q[k])) = Cardinality(B(r))
      BY <1>6, <2>1
    <2>3. q[k] = r
      BY <1>4, <2>2
    <2> QED
      BY <2>1, <2>3 DEF k
  <1>9. ASSUME NEW i \in 1 .. N, NEW k \in 1 .. N, i < k
        PROVE  <<q[i], q[k]>> \in R
    <2>1. /\ q[i] \in S /\ Cardinality(B(q[i])) = i - 1
          /\ q[k] \in S /\ Cardinality(B(q[k])) = k - 1
      BY <1>6
    <2>2. q[i] = q[k] \/ <<q[i], q[k]>> \in R \/ <<q[k], q[i]>> \in R
      BY <2>1 DEF LinearOn
    <2>3. q[i] # q[k]
      BY <1>1, <1>9, <2>1
    <2>4. <<q[k], q[i]>> \notin R
      <3>1. <<q[k], q[i]>> \in R => k - 1 < i - 1
        BY <1>3, <2>1
      <3> QED
        BY <1>1, <1>9, <3>1
    <2> QED
      BY <2>2, <2>3, <2>4
  <1>10. ToSet(q) = S
    <2>1. \A r \in S : r \in ToSet(q)
      BY <1>7, <1>8 DEF ToSet
    <2>2. \A x \in ToSet(q) : x \in S
      BY <1>6, <1>7 DEF ToSet
    <2> QED
      BY <2>1, <2>2
  <1> QED
    BY <1>1, <1>2, <1>7, <1>8, <1>9, <1>10 DEF B

(* The first m of a list. *)
LEMMA FirstOfList ==
  ASSUME NEW T, NEW q \in Seq(T), NEW m \in Nat, m <= Len(q)
  PROVE  /\ SubSeq(q, 1, m) \in Seq(T) /\ Len(SubSeq(q, 1, m)) = m
         /\ \A k \in 1 .. m : SubSeq(q, 1, m)[k] = q[k]
         /\ ToSet(SubSeq(q, 1, m)) = {q[k] : k \in 1 .. m}
<1>1. Len(q) \in Nat /\ \A k \in 1 .. m : q[k] \in T
  BY LenProperties, ElementOfSeq
<1>2. /\ SubSeq(q, 1, m) \in Seq(T)
      /\ Len(SubSeq(q, 1, m)) = IF 1 <= m THEN m - 1 + 1 ELSE 0
      /\ \A k \in 1 .. (m - 1 + 1) : SubSeq(q, 1, m)[k] = q[1 + k - 1]
  BY <1>1, SubSeqProperties
<1>3. Len(SubSeq(q, 1, m)) = m /\ \A k \in 1 .. m : SubSeq(q, 1, m)[k] = q[k]
  BY <1>2
<1>4. DOMAIN SubSeq(q, 1, m) = 1 .. m
  BY <1>2, <1>3, LenProperties
<1> QED
  BY <1>2, <1>3, <1>4 DEF ToSet

(* Where an element is in a line. *)
LEMMA PlaceInLine ==
  ASSUME NEW S, IsFiniteSet(S), NEW R, LinearOn(R, S), NEW k \in 1 .. Len(Lined(R, S))
  PROVE  Lined(R, S)[k] \in S /\ k = Cardinality(Before(R, S, Lined(R, S)[k])) + 1
<1> DEFINE q == Lined(R, S)
           x == q[k]
           c == Cardinality(Before(R, S, x)) + 1
<1>1. /\ q \in Seq(S) /\ Len(q) \in Nat
      /\ \A i, j \in 1 .. Len(q) : i < j => <<q[i], q[j]>> \in R
      /\ \A r \in S : /\ Cardinality(Before(R, S, r)) + 1 \in 1 .. Len(q)
                      /\ q[Cardinality(Before(R, S, r)) + 1] = r
  BY LinedUp
<1>2. x \in S
  <2> HIDE DEF q
  <2> QED
    BY <1>1, ElementOfSeq DEF q
<1>3. c \in 1 .. Len(q) /\ q[c] = x
  <2> HIDE DEF q, x
  <2> QED
    BY <1>1, <1>2
<1>4. <<x, x>> \notin R
  BY <1>2 DEF LinearOn
<1> HIDE DEF q, c
<1>5. k \in 1 .. Len(q)
  BY DEF q
<1>6. ~(k < c) /\ ~(c < k)
  BY <1>1, <1>3, <1>4, <1>5
<1>7. k = c
  BY <1>1, <1>3, <1>5, <1>6
<1> QED
  BY <1>2, <1>7 DEF q, c

(* A finite set of numbers has a maximum. *)
LEMMA MaxIs ==
  ASSUME NEW S \in SUBSET Nat, IsFiniteSet(S), S # {}
  PROVE  Max(S) \in S /\ \A y \in S : y <= Max(S)
<1> DEFINE R == {p \in S \X S : p[1] < p[2]}
           q == Lined(R, S)
<1>1. LinearOn(R, S)
  <2>1. \A a, b \in S : <<a, b>> \in R <=> a < b
    OBVIOUS
  <2> HIDE DEF R
  <2>2. \A a, b, c \in S : a < b /\ b < c => a < c
    OBVIOUS
  <2>3. \A a, b \in S : a = b \/ a < b \/ b < a
    OBVIOUS
  <2>4. \A a \in S : ~(a < a)
    OBVIOUS
  <2> QED
    BY <2>1, <2>2, <2>3, <2>4 DEF LinearOn
<1>2. /\ Cardinality(S) \in Nat /\ Len(q) = Cardinality(S) /\ q \in Seq(S) /\ ToSet(q) = S
      /\ \A i, k \in 1 .. Len(q) : i < k => <<q[i], q[k]>> \in R
  BY <1>1, LinedUp
<1>3. Cardinality(S) # 0
  BY FS_EmptySet
<1> DEFINE m == q[Len(q)]
<1>4. Len(q) \in 1 .. Len(q) /\ DOMAIN q = 1 .. Len(q)
  <2> HIDE DEF q
  <2> QED
    BY <1>2, <1>3, LenProperties
<1>5. m \in S
  <2> HIDE DEF q
  <2> QED
    BY <1>2, <1>4, ElementOfSeq
<1>6. ASSUME NEW y \in S PROVE m >= y
  <2> HIDE DEF q
  <2>1. PICK k \in 1 .. Len(q) : q[k] = y
    BY <1>2, <1>4 DEF ToSet
  <2>4. m \in Nat /\ y \in Nat
    BY <1>5
  <2>2. CASE k = Len(q)
    <3>1. m = y
      BY <2>1, <2>2
    <3> HIDE DEF m
    <3> QED
      BY <2>4, <3>1
  <2>3. CASE k # Len(q)
    <3>1. k < Len(q)
      BY <1>2, <1>4, <2>3
    <3>2. <<y, m>> \in R
      <4> HIDE DEF R
      <4> QED
        BY <1>2, <1>4, <2>1, <3>1
    <3>3. y < m
      <4> HIDE DEF m
      <4> QED
        BY <3>2
    <3> HIDE DEF m
    <3> QED
      BY <2>4, <3>3
  <2> QED
    BY <2>2, <2>3
<1>7. \E x \in S : \A y \in S : x >= y
  <2> HIDE DEF m
  <2> QED
    BY <1>5, <1>6
<1>8. Max(S) \in S /\ \A y \in S : Max(S) >= y
  BY <1>7, Zenon DEF Max
<1> QED
  BY <1>8
=============================================================================
