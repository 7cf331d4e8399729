------------------------------ MODULE SpoolProofs ------------------------------
(***************************************************************************)
(* Proofs about the enforcement spool, for any rows, writers, homes and    *)
(* segments, any cap, and any number of torn lines, failed reads, refused  *)
(* renames and removals, restarts and changes of the binding: a drain      *)
(* loses only what the rotation protocol excuses, and the file protocol    *)
(* implements the log of EnforcementLog.                                   *)
(***************************************************************************)
EXTENDS Spool, SequenceTheorems, WellFoundedInduction, TLAPS

-----------------------------------------------------------------------------
(* What a read of a file returns.                                          *)

LEMMA GreatestElement ==
  ASSUME NEW n \in Nat, NEW S \in SUBSET (1 .. n), S # {}
  PROVE  \E x \in S : \A y \in S : y <= x
<1> DEFINE T == {n - x : x \in S}
<1>1. T \in SUBSET Nat /\ T # {}
  <2>1. PICK a \in S : TRUE
    OBVIOUS
  <2>2. n - a \in T
    BY <2>1
  <2>3. \A x \in S : n - x \in Nat
    OBVIOUS
  <2> QED BY <2>2, <2>3
<1>2. PICK x \in T : \A y \in T : <<y, x>> \notin OpToRel(<, Nat)
  <2> HIDE DEF T
  <2> QED BY <1>1, NatLessThanWellFounded, WFMin, Zenon
<1>3. \A y \in T : ~(y < x)
  <2> HIDE DEF T
  <2>1. \A y \in T : <<y, x>> \in OpToRel(<, Nat) <=> y < x
    BY <1>1 DEF OpToRel
  <2> QED BY <1>2, <2>1, Zenon
<1>4. PICK m \in S : x = n - m
  BY <1>2
<1>5. \A y \in S : y <= m
  <2> TAKE y \in S
  <2>1. ~(n - y < n - m)
    BY <1>3, <1>4
  <2> QED BY <2>1
<1> QED BY <1>5

LEMMA Max0Is ==
  ASSUME NEW n \in Nat, NEW S \in SUBSET (1 .. n)
  PROVE  /\ Max0(S) \in 0 .. n
         /\ Max0(S) \in S \/ Max0(S) = 0
         /\ \A k \in S : k <= Max0(S)
<1>1. CASE S = {}
  BY <1>1 DEF Max0
<1>2. CASE S # {}
  <2>1. \E x \in S : \A y \in S : y <= x
    BY <1>2, GreatestElement
  <2>2. Max0(S) \in S /\ \A k \in S : k <= Max0(S)
    BY <1>2, <2>1 DEF Max0
  <2>3. \A k \in S : k \in 0 .. n
    OBVIOUS
  <2> QED BY <2>2, <2>3
<1> QED BY <1>1, <1>2

LEMMA LastLineIs ==
  ASSUME NEW s \in Seq(Piece)
  PROVE  /\ LastLine(s) \in 0 .. Len(s)
         /\ LastLine(s) # 0 => EndsLine(s[LastLine(s)])
         /\ \A i \in 1 .. Len(s) : EndsLine(s[i]) => i <= LastLine(s)
<1> DEFINE S == {i \in 1 .. Len(s) : EndsLine(s[i])}
<1>1. Len(s) \in Nat /\ S \in SUBSET (1 .. Len(s)) /\ LastLine(s) = Max0(S)
  BY DEF LastLine
<1> HIDE DEF S
<1>2. /\ Max0(S) \in 0 .. Len(s)
      /\ Max0(S) \in S \/ Max0(S) = 0
      /\ \A k \in S : k <= Max0(S)
  BY <1>1, Max0Is
<1> QED BY <1>1, <1>2 DEF S

(* A read always starts where a line has ended.                            *)
Aligned(s, off) == off = 0 \/ (off \in 1 .. Len(s) /\ EndsLine(s[off]))

(* The row is on a line past the offset.                                   *)
WaitsIn(s, off, r) == \E i \in 1 .. Len(s) : i > off /\ Parses(s, i) /\ s[i].row = r

(* A line that parses has ended.                                           *)
LEMMA ParsedEnds ==
  ASSUME NEW s, NEW i, Parses(s, i)
  PROVE  EndsLine(s[i])
BY DEF Parses, EndsLine

(* What follows on a line leaves it as it is.                              *)
LEMMA AppendParses ==
  ASSUME NEW s \in Seq(Piece), NEW x \in Piece, NEW i \in 1 .. Len(s)
  PROVE  Parses(Append(s, x), i) <=> Parses(s, i)
<1>1. \A k \in 1 .. Len(s) : Append(s, x)[k] = s[k]
  BY AppendProperties
<1>2. i > 1 => i - 1 \in 1 .. Len(s) /\ (i - 1 # 1 => i - 1 - 1 \in 1 .. Len(s))
  OBVIOUS
<1> QED BY <1>1, <1>2 DEF Parses, Starts

LEMMA ParsesHere ==
  ASSUME NEW s, NEW i, NEW t, NEW j, s[i] = t[j],
         i > 1 <=> j > 1, i > 1 => s[i - 1] = t[j - 1],
         Starts(s, i) <=> Starts(t, j), i > 1 => (Starts(s, i - 1) <=> Starts(t, j - 1))
  PROVE  Parses(s, i) <=> Parses(t, j)
BY DEF Parses

LEMMA ParsesFirst ==
  ASSUME NEW s, NEW i, Starts(s, i), i > 1 => s[i - 1].part # "head"
  PROVE  Parses(s, i) <=> s[i].part = "whole"
BY DEF Parses

(* From an offset that is aligned, a read sees the lines of the file.      *)
LEMMA SuffixParses ==
  ASSUME NEW s \in Seq(Piece), NEW off \in Nat, Aligned(s, off), NEW j \in 1 .. Len(s) - off
  PROVE  LET read == SubSeq(s, off + 1, Len(s)) IN
         /\ read[j] = s[off + j]
         /\ Parses(read, j) <=> Parses(s, off + j)
<1> DEFINE read == SubSeq(s, off + 1, Len(s))
<1>0. Len(s) \in Nat /\ j \in Nat /\ j >= 1
  OBVIOUS
<1>1. \A k \in 1 .. Len(s) - off : read[k] = s[off + k]
  <2>1. \A k \in off + 1 .. Len(s) : s[k] \in Piece
    BY <1>0, ElementOfSeq
  <2>2. \A k \in 1 .. Len(s) - (off + 1) + 1 : SubSeq(s, off + 1, Len(s))[k] = s[off + 1 + k - 1]
    BY <1>0, <2>1, SubSeqProperties
  <2> QED BY <1>0, <2>2
<1> HIDE DEF read
<1>2. \A k \in 2 .. Len(s) - off : read[k - 1] = s[off + k - 1]
  <2> TAKE k \in 2 .. Len(s) - off
  <2>1. k - 1 \in 1 .. Len(s) - off /\ off + (k - 1) = off + k - 1
    BY <1>0
  <2> QED BY <1>1, <2>1
<1>3. \A k \in 1 .. Len(s) - off : Starts(read, k) <=> Starts(s, off + k)
  <2> TAKE k \in 1 .. Len(s) - off
  <2>1. CASE k = 1 /\ off = 0
    BY <2>1 DEF Starts
  <2>2. CASE k = 1 /\ off # 0
    <3>1. EndsLine(s[off]) /\ off + k - 1 = off
      BY <2>2 DEF Aligned
    <3> QED BY <2>2, <3>1 DEF Starts
  <2>3. CASE k # 1
    <3>1. k \in 2 .. Len(s) - off /\ off + k # 1
      BY <2>3, <1>0
    <3>2. read[k - 1] = s[off + k - 1]
      BY <1>2, <3>1
    <3> QED BY <2>3, <3>1, <3>2 DEF Starts
  <2> QED BY <2>1, <2>2, <2>3
<1>4. ASSUME j = 1 PROVE Parses(read, j) <=> Parses(s, off + j)
  <2>1. Starts(read, j) /\ Starts(s, off + j) /\ ~(j > 1)
    BY <1>3, <1>4 DEF Starts
  <2>2. off + j > 1 => s[off + j - 1].part # "head"
    <3> HAVE off + j > 1
    <3>1. EndsLine(s[off]) /\ off + j - 1 = off
      BY <1>4 DEF Aligned
    <3> QED BY <3>1 DEF EndsLine
  <2>3. Parses(read, j) <=> read[j].part = "whole"
    BY <2>1, ParsesFirst
  <2>4. Parses(s, off + j) <=> s[off + j].part = "whole"
    BY <2>1, <2>2, ParsesFirst
  <2> QED BY <1>1, <2>3, <2>4
<1>5. ASSUME j # 1 PROVE Parses(read, j) <=> Parses(s, off + j)
  <2>1. j - 1 \in 1 .. Len(s) - off /\ off + (j - 1) = off + j - 1 /\ j > 1 /\ off + j > 1
    BY <1>5, <1>0
  <2>2. Starts(read, j) <=> Starts(s, off + j)
    BY <1>3
  <2>3. Starts(read, j - 1) <=> Starts(s, off + j - 1)
    BY <1>3, <2>1
  <2>4. read[j] = s[off + j] /\ read[j - 1] = s[off + j - 1]
    BY <1>1, <2>1
  <2> QED BY <2>1, <2>2, <2>3, <2>4, ParsesHere
<1>6. read[j] = s[off + j]
  BY <1>1
<1> QED BY <1>4, <1>5, <1>6 DEF read

LEMMA DrainedIs ==
  ASSUME NEW s \in Seq(Piece), NEW off \in Nat, Aligned(s, off)
  PROVE  /\ Drained(s, off) \subseteq Rows
         /\ \A r : r \in Drained(s, off) <=> WaitsIn(s, off, r)
<1> DEFINE read == SubSeq(s, off + 1, Len(s))
           n == Len(s) - off
<1>0. Len(s) \in Nat /\ off <= Len(s) /\ n \in Nat
  BY DEF Aligned
<1>1. read \in Seq(Piece) /\ Len(read) = n
  <2>1. \A k \in off + 1 .. Len(s) : s[k] \in Piece
    BY <1>0, ElementOfSeq
  <2>2. /\ SubSeq(s, off + 1, Len(s)) \in Seq(Piece)
        /\ Len(SubSeq(s, off + 1, Len(s))) = IF off + 1 <= Len(s) THEN Len(s) - (off + 1) + 1 ELSE 0
    BY <1>0, <2>1, SubSeqProperties
  <2> QED BY <1>0, <2>2
<1>2. \A j \in 1 .. n : read[j] = s[off + j] /\ (Parses(read, j) <=> Parses(s, off + j))
  BY SuffixParses
<1>3. LastLine(read) \in 0 .. n /\ \A j \in 1 .. n : Parses(read, j) => j <= LastLine(read)
  <2> HIDE DEF read, n
  <2> QED BY <1>0, <1>1, LastLineIs, ParsedEnds
<1>4. Drained(s, off) = {read[i].row : i \in {j \in 1 .. LastLine(read) : Parses(read, j)}}
  BY DEF Drained
<1>5. Drained(s, off) = {s[off + i].row : i \in {j \in 1 .. n : Parses(s, off + j)}}
  <2> HIDE DEF read, n
  <2>1. {j \in 1 .. LastLine(read) : Parses(read, j)} = {j \in 1 .. n : Parses(s, off + j)}
    BY <1>0, <1>2, <1>3
  <2> QED BY <1>2, <1>4, <2>1
<1>6. \A k \in 1 .. Len(s) : s[k].row \in Rows
  <2> TAKE k \in 1 .. Len(s)
  <2>1. s[k] \in Piece
    BY ElementOfSeq
  <2> QED BY <2>1 DEF Piece
<1>7. \A i \in 1 .. n : off + i \in 1 .. Len(s) /\ off + i > off
  BY <1>0
<1>8. \A i \in 1 .. Len(s) : i > off => i - off \in 1 .. n /\ off + (i - off) = i
  BY <1>0
<1>9. ASSUME NEW r, r \in Drained(s, off) PROVE WaitsIn(s, off, r)
  <2>1. PICK i \in 1 .. n : Parses(s, off + i) /\ s[off + i].row = r
    BY <1>5, <1>9
  <2> QED BY <1>7, <2>1 DEF WaitsIn
<1>10. ASSUME NEW r, WaitsIn(s, off, r) PROVE r \in Drained(s, off)
  <2>1. PICK i \in 1 .. Len(s) : i > off /\ Parses(s, i) /\ s[i].row = r
    BY <1>10 DEF WaitsIn
  <2>2. i - off \in 1 .. n /\ off + (i - off) = i
    BY <1>8, <2>1
  <2> QED BY <1>5, <2>1, <2>2
<1>11. Drained(s, off) \subseteq Rows
  BY <1>5, <1>6, <1>7
<1> QED BY <1>9, <1>10, <1>11

(* The offset a read leaves is aligned, and behind everything that parses. *)
LEMMA NewOffsetIs ==
  ASSUME NEW s \in Seq(Piece), NEW off \in Nat, Aligned(s, off)
  PROVE  /\ NewOffset(s, off) \in Nat
         /\ Aligned(s, NewOffset(s, off))
         /\ \A i \in 1 .. Len(s) : Parses(s, i) => i <= NewOffset(s, off)
<1>1. /\ LastLine(s) \in 0 .. Len(s)
      /\ LastLine(s) # 0 => EndsLine(s[LastLine(s)])
      /\ \A i \in 1 .. Len(s) : EndsLine(s[i]) => i <= LastLine(s)
  BY LastLineIs
<1>2. Len(s) \in Nat
  OBVIOUS
<1>3. \A i \in 1 .. Len(s) : Parses(s, i) => i <= LastLine(s)
  BY <1>1, ParsedEnds
<1> QED BY <1>1, <1>2, <1>3 DEF NewOffset, Aligned

-----------------------------------------------------------------------------
(* The inductive invariant: types; a line under way has a row and a file;  *)
(* no file is linked twice; a row is written at most once, and not by two  *)
(* writers; the offsets are aligned; what lies before them has been shown  *)
(* and what lies behind them has not; and a row behind the offset of a     *)
(* segment about to be removed came too late, unless the read failed.      *)

Steps == {"idle", "orphan", "clear", "live", "bounding", "rotated", "finish"}

Handles == [row : Rows \cup {None}, seg : Segments \cup {None}, half : BOOLEAN]

SpoolTypeOK ==
  /\ content \in [Segments -> Seq(Piece)]
  /\ live \in [Paths -> Segments \cup {None}]
  /\ rot \in [Paths -> Segments \cup {None}]
  /\ unsent \in SUBSET Rows
  /\ handle \in [Writers -> Handles]
  /\ tardy \in SUBSET Rows
  /\ binding \in Paths /\ bound \in Paths \cup {None}
  /\ offset \in Nat /\ rotOffset \in Nat
  /\ step \in Steps
  /\ unread \in BOOLEAN
  /\ shown \in [Rows -> Nat]
  /\ step # "idle" => bound # None

Writes(w) == handle[w] # NoHandle

HandlesOpen ==
  \A w \in Writers : Writes(w) => handle[w].row \in Rows /\ handle[w].seg \in Segments

(* The two files of a home, what they hold and where a drain of the bound  *)
(* home would start to read them.                                          *)
Kinds == {"rot", "live"}
FileOf(k, p) == IF k = "rot" THEN rot[p] ELSE live[p]
Lines(k, p)  == IF FileOf(k, p) = None THEN <<>> ELSE content[FileOf(k, p)]
From(k, p)   == IF k = "rot" THEN RotFrom(p) ELSE LiveFrom(p)

FilesApart ==
  \A k, l \in Kinds, p, q \in Paths :
    FileOf(k, p) # None /\ FileOf(k, p) = FileOf(l, q) => k = l /\ p = q

Emitted(r) == r \notin unsent /\ \A w \in Writers : Writes(w) => handle[w].row # r

WrittenOnce ==
  /\ \A w \in Writers : Writes(w) => handle[w].row \notin unsent
  /\ \A v, w \in Writers : Writes(v) /\ Writes(w) /\ handle[v].row = handle[w].row => v = w
  /\ \A r \in Rows : shown[r] > 0 => Emitted(r)

LinesAreEmitted ==
  \A g \in Segments : \A i \in 1 .. Len(content[g]) :
    EndsLine(content[g][i]) => Emitted(content[g][i].row)

LinesDiffer ==
  \A g, h \in Segments : \A i \in 1 .. Len(content[g]), j \in 1 .. Len(content[h]) :
    EndsLine(content[g][i]) /\ EndsLine(content[h][j]) /\ content[g][i].row = content[h][j].row
      => g = h /\ i = j

RowsOnce == WrittenOnce /\ LinesAreEmitted /\ LinesDiffer

OffsetsAligned == \A k \in Kinds, p \in Paths : Aligned(Lines(k, p), From(k, p))

IsPending(r) == \E k \in Kinds, p \in Paths : WaitsIn(Lines(k, p), From(k, p), r)

PendingUnshown == \A r \in Rows : IsPending(r) => shown[r] = 0

ShownUpTo(s, off, sh) == \A i \in 1 .. Len(s) : i <= off /\ Parses(s, i) => sh[s[i].row] > 0

Consumed == \A k \in Kinds, p \in Paths : ShownUpTo(Lines(k, p), From(k, p), shown)

Removing(p) == p = bound /\ step \in {"clear", "finish"} /\ ~unread

ReadBeforeRemoval ==
  \A p \in Paths, r \in Rows :
    Removing(p) /\ WaitsIn(Lines("rot", p), From("rot", p), r) => r \in tardy

Shape == SpoolTypeOK /\ HandlesOpen /\ FilesApart

SpoolIInv ==
  /\ Shape
  /\ RowsOnce
  /\ OffsetsAligned
  /\ PendingUnshown
  /\ Consumed
  /\ ReadBeforeRemoval

-----------------------------------------------------------------------------
(* Lines and files.                                                        *)

LEMMA EmptyFile ==
  /\ <<>> \in Seq(Piece)
  /\ \A off, r : ~WaitsIn(<<>>, off, r)
  /\ \A off : Aligned(<<>>, off) <=> off = 0
  /\ \A off, sh : ShownUpTo(<<>>, off, sh)
<1>1. \A i : i \notin 1 .. Len(<<>>)
  OBVIOUS
<1>2. <<>> \in Seq(Piece)
  OBVIOUS
<1> QED BY <1>1, <1>2, Zenon DEF WaitsIn, Aligned, ShownUpTo

LEMMA AppendViews ==
  ASSUME NEW s \in Seq(Piece), NEW x \in Piece, NEW off \in Nat
  PROVE  /\ \A r : WaitsIn(s, off, r) => WaitsIn(Append(s, x), off, r)
         /\ \A r : WaitsIn(Append(s, x), off, r) => WaitsIn(s, off, r) \/ (r = x.row /\ EndsLine(x))
         /\ Aligned(s, off) => Aligned(Append(s, x), off)
         /\ \A sh : Aligned(s, off) /\ ShownUpTo(s, off, sh) => ShownUpTo(Append(s, x), off, sh)
<1> DEFINE t == Append(s, x)
<1>1. /\ Len(s) \in Nat /\ Len(t) = Len(s) + 1
      /\ \A i \in 1 .. Len(s) : t[i] = s[i]
      /\ t[Len(s) + 1] = x
  BY AppendProperties
<1>2. \A i \in 1 .. Len(s) : Parses(t, i) <=> Parses(s, i)
  BY AppendParses
<1> HIDE DEF t
<1>3. \A r : WaitsIn(s, off, r) => WaitsIn(t, off, r)
  BY <1>1, <1>2 DEF WaitsIn
<1>4. ASSUME NEW r, WaitsIn(t, off, r) PROVE WaitsIn(s, off, r) \/ (r = x.row /\ EndsLine(x))
  <2>1. PICK i \in 1 .. Len(t) : i > off /\ Parses(t, i) /\ t[i].row = r
    BY <1>4 DEF WaitsIn
  <2>2. CASE i \in 1 .. Len(s)
    BY <1>1, <1>2, <2>1, <2>2 DEF WaitsIn
  <2>3. CASE i = Len(s) + 1
    BY <1>1, <2>1, <2>3, ParsedEnds
  <2> QED BY <1>1, <2>2, <2>3
<1>5. Aligned(s, off) => Aligned(t, off)
  BY <1>1 DEF Aligned
<1>6. ASSUME NEW sh, Aligned(s, off), ShownUpTo(s, off, sh) PROVE ShownUpTo(t, off, sh)
  <2> SUFFICES ASSUME NEW i \in 1 .. Len(t), i <= off, Parses(t, i) PROVE sh[t[i].row] > 0
    BY DEF ShownUpTo
  <2>1. i \in 1 .. Len(s)
    BY <1>1, <1>6 DEF Aligned
  <2>2. sh[s[i].row] > 0
    BY <1>2, <1>6, <2>1 DEF ShownUpTo
  <2> QED BY <1>1, <2>1, <2>2
<1> QED BY <1>3, <1>4, <1>5, <1>6 DEF t

LEMMA FilesAreLines ==
  ASSUME Shape, NEW k \in Kinds, NEW p \in Paths
  PROVE  Lines(k, p) \in Seq(Piece) /\ From(k, p) \in Nat
<1>1. Lines(k, p) \in Seq(Piece)
  BY EmptyFile DEF Shape, SpoolTypeOK, Lines, FileOf
<1>2. From(k, p) \in Nat
  BY DEF Shape, SpoolTypeOK, From, RotFrom, LiveFrom
<1> QED BY <1>1, <1>2

LEMMA PendingIs == SpoolIInv => Pending = {r \in Rows : IsPending(r)}
<1> SUFFICES ASSUME SpoolIInv PROVE Pending = {r \in Rows : IsPending(r)}
  OBVIOUS
<1>1. ASSUME NEW k \in Kinds, NEW p \in Paths
      PROVE  /\ Beyond(FileOf(k, p), From(k, p)) \subseteq Rows
             /\ \A r : r \in Beyond(FileOf(k, p), From(k, p)) <=>
                      WaitsIn(Lines(k, p), From(k, p), r)
  <2>1. Lines(k, p) \in Seq(Piece) /\ From(k, p) \in Nat /\ Aligned(Lines(k, p), From(k, p))
    BY FilesAreLines DEF SpoolIInv, OffsetsAligned
  <2>2. CASE FileOf(k, p) = None
    BY <2>2, EmptyFile DEF Beyond, Lines
  <2>3. CASE FileOf(k, p) # None
    BY <2>1, <2>3, DrainedIs DEF Beyond, Lines
  <2> QED BY <2>2, <2>3
<1>2. \A r : r \in Pending <=>
        \E p \in Paths : r \in Beyond(rot[p], RotFrom(p)) \/ r \in Beyond(live[p], LiveFrom(p))
  BY DEF Pending, PendingAt
<1>3. \A r : r \in Pending <=>
        \E k \in Kinds, p \in Paths : r \in Beyond(FileOf(k, p), From(k, p))
  BY <1>2 DEF Kinds, FileOf, From
<1>4. Pending \subseteq Rows
  BY <1>1, <1>3
<1>5. \A r : r \in Pending <=> IsPending(r)
  BY <1>1, <1>3 DEF IsPending
<1> QED BY <1>4, <1>5

LEMMA PendingIsNext == SpoolIInv' => Pending' = {r \in Rows : IsPending(r)'}
<1>1. SpoolIInv' => (Pending = {r \in Rows : IsPending(r)})'
  BY PendingIs, PTL
<1> QED BY <1>1

(* A row waits in one place.                                               *)
LEMMA OnePlace ==
  ASSUME Shape, LinesDiffer, NEW r,
         NEW k \in Kinds, NEW p \in Paths, NEW a, WaitsIn(Lines(k, p), a, r),
         NEW l \in Kinds, NEW q \in Paths, NEW b, WaitsIn(Lines(l, q), b, r)
  PROVE  k = l /\ p = q
<1>1. \A s, off : WaitsIn(s, off, r) => s # <<>>
  BY EmptyFile
<1>2. FileOf(k, p) \in Segments /\ FileOf(k, p) # None /\ WaitsIn(content[FileOf(k, p)], a, r)
  BY <1>1 DEF Shape, SpoolTypeOK, Lines, FileOf
<1>3. FileOf(l, q) \in Segments /\ FileOf(l, q) # None /\ WaitsIn(content[FileOf(l, q)], b, r)
  BY <1>1 DEF Shape, SpoolTypeOK, Lines, FileOf
<1>4. ASSUME NEW g \in Segments, NEW h \in Segments,
             WaitsIn(content[g], a, r), WaitsIn(content[h], b, r)
      PROVE  g = h
  <2>1. PICK i \in 1 .. Len(content[g]) : Parses(content[g], i) /\ content[g][i].row = r
    BY <1>4 DEF WaitsIn
  <2>2. PICK j \in 1 .. Len(content[h]) : Parses(content[h], j) /\ content[h][j].row = r
    BY <1>4 DEF WaitsIn
  <2>3. EndsLine(content[g][i]) /\ EndsLine(content[h][j])
    BY <2>1, <2>2, ParsedEnds
  <2> QED BY <2>1, <2>2, <2>3, Zenon DEF LinesDiffer
<1>5. FileOf(k, p) = FileOf(l, q)
  BY <1>2, <1>3, <1>4
<1> QED BY <1>2, <1>5 DEF Shape, FilesApart

(* A row that waits was emitted.                                           *)
LEMMA WaitingIsEmitted ==
  ASSUME Shape, LinesAreEmitted, NEW r,
         NEW k \in Kinds, NEW p \in Paths, NEW a, WaitsIn(Lines(k, p), a, r)
  PROVE  Emitted(r)
<1>1. \A s, off : WaitsIn(s, off, r) => s # <<>>
  BY EmptyFile
<1>2. FileOf(k, p) \in Segments /\ WaitsIn(content[FileOf(k, p)], a, r)
  BY <1>1 DEF Shape, SpoolTypeOK, Lines, FileOf
<1>3. PICK i \in 1 .. Len(content[FileOf(k, p)]) :
        Parses(content[FileOf(k, p)], i) /\ content[FileOf(k, p)][i].row = r
  BY <1>2 DEF WaitsIn
<1> QED BY <1>2, <1>3, ParsedEnds DEF LinesAreEmitted

-----------------------------------------------------------------------------
(* What a step does to the files as the drain sees them.                   *)

SameLines == \A k \in Kinds, p \in Paths : Lines(k, p)' = Lines(k, p)
SameFrom  == \A k \in Kinds, p \in Paths : From(k, p)' = From(k, p)

(* A removal is announced by a read that succeeded.                        *)
SameRemoval == \A p \in Paths : Removing(p)' => Removing(p)

(* Nothing the drain sees changes.                                         *)
LEMMA QuietKeeps ==
  ASSUME SpoolIInv, Shape', RowsOnce', SameLines, SameFrom, SameRemoval, UNCHANGED <<shown, tardy>>
  PROVE  SpoolIInv' /\ Pending' = Pending
<1>1. \A r : IsPending(r)' <=> IsPending(r)
  BY DEF SameLines, SameFrom, IsPending
<1>2. OffsetsAligned' /\ Consumed' /\ ReadBeforeRemoval'
  BY DEF SpoolIInv, SameLines, SameFrom, SameRemoval, OffsetsAligned, Consumed, ReadBeforeRemoval,
         Kinds
<1>3. PendingUnshown'
  BY <1>1 DEF SpoolIInv, PendingUnshown
<1>4. SpoolIInv'
  BY <1>2, <1>3 DEF SpoolIInv
<1>5. Pending' = {r \in Rows : IsPending(r)'} /\ Pending = {r \in Rows : IsPending(r)}
  BY <1>4, PendingIs, PendingIsNext
<1> QED BY <1>1, <1>4, <1>5

(* The offset of one file moves to the end of what was read, and the rows  *)
(* between are surfaced.                                                   *)
LEMMA ReadKeeps ==
  ASSUME SpoolIInv, Shape', RowsOnce', SameLines, UNCHANGED tardy,
         NEW k \in Kinds, NEW p \in Paths,
         From(k, p)' = NewOffset(Lines(k, p), From(k, p)),
         \A l \in Kinds, q \in Paths : l # k \/ q # p => From(l, q)' = From(l, q),
         Surfaced(Drained(Lines(k, p), From(k, p))),
         \A q \in Paths : Removing(q)' => k = "rot" /\ q = p
  PROVE  /\ SpoolIInv'
         /\ Drained(Lines(k, p), From(k, p)) \subseteq Pending
         /\ Pending' = Pending \ Drained(Lines(k, p), From(k, p))
<1> DEFINE s == Lines(k, p)
           off == From(k, p)
           new == NewOffset(s, off)
           S == Drained(s, off)
<1>1. s \in Seq(Piece) /\ off \in Nat /\ Aligned(s, off)
  BY FilesAreLines DEF SpoolIInv, OffsetsAligned
<1>2. /\ new \in Nat /\ Aligned(s, new)
      /\ \A i \in 1 .. Len(s) : Parses(s, i) => i <= new
  <2> HIDE DEF s, off
  <2> QED BY <1>1, NewOffsetIs
<1>3. S \subseteq Rows /\ \A r : r \in S <=> WaitsIn(s, off, r)
  <2> HIDE DEF s, off
  <2> QED BY <1>1, DrainedIs
<1>4. /\ \A r \in S : shown'[r] = shown[r] + 1
      /\ \A r \in Rows \ S : shown'[r] = shown[r]
      /\ \A r \in Rows : shown[r] \in Nat
  <2>1. Surfaced(S)
    OBVIOUS
  <2> HIDE DEF S
  <2> QED BY <1>3, <2>1 DEF Surfaced, SpoolIInv, Shape, SpoolTypeOK
<1>5. \A r : ~WaitsIn(s, new, r)
  BY <1>1, <1>2 DEF WaitsIn
<1>6. Lines(k, p)' = s /\ From(k, p)' = new
  BY DEF SameLines
<1> HIDE DEF s, off, new, S
<1>7. ASSUME NEW r PROVE IsPending(r)' <=> IsPending(r) /\ r \notin S
  <2>1. ASSUME IsPending(r)' PROVE IsPending(r) /\ r \notin S
    <3>1. PICK l \in Kinds, q \in Paths : WaitsIn(Lines(l, q)', From(l, q)', r)
      BY <2>1 DEF IsPending
    <3>2. l # k \/ q # p
      BY <1>5, <1>6, <3>1
    <3>3. WaitsIn(Lines(l, q), From(l, q), r)
      BY <3>1, <3>2 DEF SameLines
    <3>4. r \in S => l = k /\ q = p
      BY <1>3, <3>3, OnePlace DEF SpoolIInv, RowsOnce, s
    <3> QED BY <3>2, <3>3, <3>4 DEF IsPending
  <2>2. ASSUME IsPending(r), r \notin S PROVE IsPending(r)'
    <3>1. PICK l \in Kinds, q \in Paths : WaitsIn(Lines(l, q), From(l, q), r)
      BY <2>2 DEF IsPending
    <3>2. l # k \/ q # p
      BY <1>3, <2>2, <3>1 DEF s, off
    <3> QED BY <3>1, <3>2 DEF IsPending, SameLines
  <2> QED BY <2>1, <2>2
<1>8. OffsetsAligned'
  <2> SUFFICES ASSUME NEW l \in Kinds, NEW q \in Paths PROVE Aligned(Lines(l, q)', From(l, q)')
    BY DEF OffsetsAligned
  <2>1. CASE l = k /\ q = p
    BY <1>2, <1>6, <2>1
  <2>2. CASE l # k \/ q # p
    BY <2>2 DEF SpoolIInv, OffsetsAligned, SameLines
  <2> QED BY <2>1, <2>2
<1>9. Consumed'
  <2> SUFFICES ASSUME NEW l \in Kinds, NEW q \in Paths
               PROVE  ShownUpTo(Lines(l, q)', From(l, q)', shown')
    BY DEF Consumed
  <2>0. Lines(l, q) \in Seq(Piece) /\ ShownUpTo(Lines(l, q), From(l, q), shown)
    BY FilesAreLines DEF SpoolIInv, Consumed
  <2>1. \A i \in 1 .. Len(Lines(l, q)) : Lines(l, q)[i].row \in Rows
    <3> TAKE i \in 1 .. Len(Lines(l, q))
    <3>1. Lines(l, q)[i] \in Piece
      BY <2>0, ElementOfSeq
    <3> QED BY <3>1 DEF Piece
  <2>2. \A r \in Rows : shown[r] > 0 => shown'[r] > 0
    BY <1>4
  <2>3. CASE l = k /\ q = p
    <3> SUFFICES ASSUME NEW i \in 1 .. Len(s), Parses(s, i) PROVE shown'[s[i].row] > 0
      BY <1>6, <2>3 DEF ShownUpTo
    <3>1. s[i].row \in Rows
      BY <2>1, <2>3 DEF s
    <3>2. CASE i <= off
      <4>1. shown[s[i].row] > 0
        BY <2>0, <2>3, <3>2 DEF ShownUpTo, s, off
      <4> QED BY <2>2, <3>1, <4>1
    <3>3. CASE ~(i <= off)
      <4>1. WaitsIn(s, off, s[i].row)
        BY <1>1, <3>3 DEF WaitsIn
      <4>2. s[i].row \in S
        BY <1>3, <4>1
      <4> QED BY <1>4, <3>1, <4>2
    <3> QED BY <3>2, <3>3
  <2>4. CASE l # k \/ q # p
    <3>1. Lines(l, q)' = Lines(l, q) /\ From(l, q)' = From(l, q)
      BY <2>4 DEF SameLines
    <3>2. ShownUpTo(Lines(l, q), From(l, q), shown')
      BY <2>0, <2>1, <2>2 DEF ShownUpTo
    <3> QED BY <3>1, <3>2
  <2> QED BY <2>3, <2>4
<1>10. PendingUnshown'
  BY <1>4, <1>7 DEF PendingUnshown, SpoolIInv
<1>11. ReadBeforeRemoval'
  <2> SUFFICES ASSUME NEW q \in Paths, NEW r \in Rows, Removing(q)',
                      WaitsIn(Lines("rot", q)', From("rot", q)', r)
               PROVE  FALSE
    BY DEF ReadBeforeRemoval
  <2>1. k = "rot" /\ q = p
    OBVIOUS
  <2> QED BY <1>5, <1>6, <2>1
<1>12. SpoolIInv'
  BY <1>8, <1>9, <1>10, <1>11 DEF SpoolIInv
<1>13. Pending' = {r \in Rows : IsPending(r)'} /\ Pending = {r \in Rows : IsPending(r)}
  BY <1>12, PendingIs, PendingIsNext
<1>14. \A r \in S : IsPending(r)
  BY <1>3 DEF IsPending, s, off
<1> QED BY <1>3, <1>7, <1>12, <1>13, <1>14 DEF S, s, off

(* A removed segment takes with it what was not read.                      *)
LEMMA RemoveKeeps ==
  ASSUME SpoolIInv, Shape', RowsOnce', UNCHANGED <<shown, tardy>>,
         NEW p \in Paths, Lines("rot", p)' = <<>>, From("rot", p)' = 0,
         \A k \in Kinds, q \in Paths : k # "rot" \/ q # p =>
           Lines(k, q)' = Lines(k, q) /\ From(k, q)' = From(k, q),
         \A q \in Paths : ~Removing(q)'
  PROVE  /\ SpoolIInv'
         /\ Pending' \subseteq Pending
         /\ \A r \in Pending \ Pending' : WaitsIn(Lines("rot", p), From("rot", p), r)
<1>0. "rot" \in Kinds
  BY DEF Kinds
<1>1. ASSUME NEW r, IsPending(r)' PROVE IsPending(r)
  <2>1. PICK k \in Kinds, q \in Paths : WaitsIn(Lines(k, q)', From(k, q)', r)
    BY <1>1 DEF IsPending
  <2>2. k # "rot" \/ q # p
    BY <2>1, EmptyFile
  <2> QED BY <2>1, <2>2 DEF IsPending
<1>2. ASSUME NEW r, IsPending(r), ~WaitsIn(Lines("rot", p), From("rot", p), r) PROVE IsPending(r)'
  <2>1. PICK k \in Kinds, q \in Paths : WaitsIn(Lines(k, q), From(k, q), r)
    BY <1>2 DEF IsPending
  <2> QED BY <1>2, <2>1 DEF IsPending
<1>3. ASSUME NEW k \in Kinds, NEW q \in Paths
      PROVE  Aligned(Lines(k, q)', From(k, q)') /\ ShownUpTo(Lines(k, q)', From(k, q)', shown')
  <2>1. CASE k = "rot" /\ q = p
    BY <2>1, EmptyFile
  <2>2. CASE k # "rot" \/ q # p
    BY <2>2 DEF SpoolIInv, OffsetsAligned, Consumed
  <2> QED BY <2>1, <2>2
<1>4. OffsetsAligned' /\ Consumed' /\ ReadBeforeRemoval'
  BY <1>3 DEF OffsetsAligned, Consumed, ReadBeforeRemoval
<1>5. PendingUnshown'
  BY <1>1 DEF SpoolIInv, PendingUnshown
<1>6. SpoolIInv'
  BY <1>4, <1>5 DEF SpoolIInv
<1>7. Pending' = {r \in Rows : IsPending(r)'} /\ Pending = {r \in Rows : IsPending(r)}
  BY <1>6, PendingIs, PendingIsNext
<1> QED BY <1>1, <1>2, <1>6, <1>7

(* A rotation moves what was not read with the file that holds it.         *)
LEMMA RotateKeeps ==
  ASSUME SpoolIInv, Shape', RowsOnce', UNCHANGED <<shown, tardy>>,
         NEW p \in Paths, Lines("rot", p) = <<>>,
         Lines("rot", p)' = Lines("live", p), From("rot", p)' = From("live", p),
         Lines("live", p)' = <<>>, From("live", p)' = 0,
         \A k \in Kinds, q \in Paths : q # p =>
           Lines(k, q)' = Lines(k, q) /\ From(k, q)' = From(k, q),
         \A q \in Paths : ~Removing(q)'
  PROVE  SpoolIInv' /\ Pending' = Pending
<1>0. Kinds = {"rot", "live"}
  BY DEF Kinds
<1>1. ASSUME NEW r, IsPending(r)' PROVE IsPending(r)
  <2>1. PICK k \in Kinds, q \in Paths : WaitsIn(Lines(k, q)', From(k, q)', r)
    BY <1>1 DEF IsPending
  <2>2. CASE q = p
    <3>1. k = "rot"
      BY <1>0, <2>1, <2>2, EmptyFile
    <3>2. WaitsIn(Lines("live", p), From("live", p), r)
      BY <2>1, <2>2, <3>1
    <3> QED BY <1>0, <3>2 DEF IsPending
  <2>3. CASE q # p
    BY <2>1, <2>3 DEF IsPending
  <2> QED BY <2>2, <2>3
<1>2. ASSUME NEW r, IsPending(r) PROVE IsPending(r)'
  <2>1. PICK k \in Kinds, q \in Paths : WaitsIn(Lines(k, q), From(k, q), r)
    BY <1>2 DEF IsPending
  <2>2. CASE q = p
    <3>1. k = "live"
      BY <1>0, <2>1, <2>2, EmptyFile
    <3>2. WaitsIn(Lines("rot", p)', From("rot", p)', r)
      BY <2>1, <2>2, <3>1
    <3> QED BY <1>0, <3>2 DEF IsPending
  <2>3. CASE q # p
    BY <2>1, <2>3 DEF IsPending
  <2> QED BY <2>2, <2>3
<1>3. ASSUME NEW k \in Kinds, NEW q \in Paths
      PROVE  Aligned(Lines(k, q)', From(k, q)') /\ ShownUpTo(Lines(k, q)', From(k, q)', shown')
  <2>1. CASE q = p /\ k = "rot"
    BY <1>0, <2>1 DEF SpoolIInv, OffsetsAligned, Consumed
  <2>2. CASE q = p /\ k = "live"
    BY <2>2, EmptyFile
  <2>3. CASE q # p
    BY <2>3 DEF SpoolIInv, OffsetsAligned, Consumed
  <2> QED BY <1>0, <2>1, <2>2, <2>3
<1>4. OffsetsAligned' /\ Consumed' /\ ReadBeforeRemoval'
  BY <1>3 DEF OffsetsAligned, Consumed, ReadBeforeRemoval
<1>5. PendingUnshown'
  BY <1>1 DEF SpoolIInv, PendingUnshown
<1>6. SpoolIInv'
  BY <1>4, <1>5 DEF SpoolIInv
<1>7. Pending' = {r \in Rows : IsPending(r)'} /\ Pending = {r \in Rows : IsPending(r)}
  BY <1>6, PendingIs, PendingIsNext
<1> QED BY <1>1, <1>2, <1>6, <1>7

(* Offsets that start again surface again what the ring forgot, and no     *)
(* more.                                                                   *)
LEMMA ForgetKeeps ==
  ASSUME SpoolIInv, Shape', RowsOnce', SameLines, UNCHANGED tardy,
         \A k \in Kinds, p \in Paths : From(k, p)' = 0,
         shown' = [r \in Rows |-> 0],
         \A q \in Paths : ~Removing(q)'
  PROVE  /\ SpoolIInv'
         /\ Pending \subseteq Pending'
         /\ \A r \in Pending' \ Pending : r \in Rows /\ shown[r] > 0
<1>1. ASSUME NEW k \in Kinds, NEW p \in Paths, NEW r, WaitsIn(Lines(k, p), From(k, p), r)
      PROVE  WaitsIn(Lines(k, p)', From(k, p)', r)
  <2>1. From(k, p) \in Nat
    BY FilesAreLines DEF SpoolIInv
  <2>2. WaitsIn(Lines(k, p), 0, r)
    BY <1>1, <2>1 DEF WaitsIn
  <2> QED BY <2>2 DEF SameLines
<1>2. ASSUME NEW r, IsPending(r) PROVE IsPending(r)'
  BY <1>1, <1>2 DEF IsPending
<1>3. ASSUME NEW r, IsPending(r)', ~IsPending(r) PROVE shown[r] > 0
  <2>1. PICK k \in Kinds, p \in Paths : WaitsIn(Lines(k, p)', From(k, p)', r)
    BY <1>3 DEF IsPending
  <2>2. WaitsIn(Lines(k, p), 0, r) /\ ~WaitsIn(Lines(k, p), From(k, p), r)
    BY <1>3, <2>1 DEF IsPending, SameLines
  <2>3. From(k, p) \in Nat /\ ShownUpTo(Lines(k, p), From(k, p), shown)
    BY FilesAreLines DEF SpoolIInv, Consumed
  <2>4. PICK i \in 1 .. Len(Lines(k, p)) : Parses(Lines(k, p), i) /\ Lines(k, p)[i].row = r
    BY <2>2 DEF WaitsIn
  <2>5. i <= From(k, p)
    BY <2>2, <2>3, <2>4 DEF WaitsIn
  <2> QED BY <2>3, <2>4, <2>5 DEF ShownUpTo
<1>4. OffsetsAligned' /\ ReadBeforeRemoval'
  BY DEF OffsetsAligned, ReadBeforeRemoval, Aligned
<1>5. Consumed'
  <2>1. \A s, sh : ShownUpTo(s, 0, sh)
    BY DEF ShownUpTo
  <2> QED BY <2>1 DEF Consumed
<1>6. PendingUnshown'
  BY DEF PendingUnshown
<1>7. SpoolIInv'
  BY <1>4, <1>5, <1>6 DEF SpoolIInv
<1>8. Pending' = {r \in Rows : IsPending(r)'} /\ Pending = {r \in Rows : IsPending(r)}
  BY <1>7, PendingIs, PendingIsNext
<1> QED BY <1>2, <1>3, <1>7, <1>8

(* A piece that is appended makes at most its own row wait, and in a       *)
(* rotated segment only a tardy one.                                       *)
LEMMA AppendKeeps ==
  ASSUME SpoolIInv, Shape', RowsOnce', SameFrom, SameRemoval,
         UNCHANGED shown, tardy \subseteq tardy',
         NEW x \in Piece, EndsLine(x) => ~Emitted(x.row),
         \A k \in Kinds, p \in Paths :
           Lines(k, p)' = Lines(k, p) \/ Lines(k, p)' = Append(Lines(k, p), x),
         \A p \in Paths : EndsLine(x) /\ Lines("rot", p)' # Lines("rot", p) => x.row \in tardy'
  PROVE  /\ SpoolIInv'
         /\ Pending' # Pending =>
              /\ Pending' = Pending \cup {x.row}
              /\ x.row \in Rows \ Pending /\ shown[x.row] = 0
<1>0. "rot" \in Kinds
  BY DEF Kinds
<1>1. ASSUME NEW k \in Kinds, NEW p \in Paths
      PROVE  /\ \A r : WaitsIn(Lines(k, p), From(k, p), r) => WaitsIn(Lines(k, p)', From(k, p)', r)
             /\ \A r : WaitsIn(Lines(k, p)', From(k, p)', r) =>
                      \/ WaitsIn(Lines(k, p), From(k, p), r)
                      \/ r = x.row /\ EndsLine(x) /\ Lines(k, p)' # Lines(k, p)
             /\ Aligned(Lines(k, p)', From(k, p)')
             /\ ShownUpTo(Lines(k, p)', From(k, p)', shown')
  <2>1. /\ Lines(k, p) \in Seq(Piece) /\ From(k, p) \in Nat
        /\ Aligned(Lines(k, p), From(k, p)) /\ ShownUpTo(Lines(k, p), From(k, p), shown)
    BY FilesAreLines DEF SpoolIInv, OffsetsAligned, Consumed
  <2>2. From(k, p)' = From(k, p)
    BY DEF SameFrom
  <2>3. CASE Lines(k, p)' = Lines(k, p)
    BY <2>1, <2>2, <2>3
  <2>4. CASE Lines(k, p)' = Append(Lines(k, p), x) /\ Lines(k, p)' # Lines(k, p)
    BY <2>1, <2>2, <2>4, AppendViews
  <2> QED BY <2>3, <2>4
<1>2. \A r : IsPending(r) => IsPending(r)'
  BY <1>1 DEF IsPending
<1>3. \A r : IsPending(r)' => IsPending(r) \/ (r = x.row /\ EndsLine(x))
  BY <1>1 DEF IsPending
<1>4. OffsetsAligned' /\ Consumed'
  BY <1>1 DEF OffsetsAligned, Consumed
<1>5. ReadBeforeRemoval'
  <2> SUFFICES ASSUME NEW p \in Paths, NEW r \in Rows, Removing(p)',
                      WaitsIn(Lines("rot", p)', From("rot", p)', r)
               PROVE  r \in tardy'
    BY DEF ReadBeforeRemoval
  <2>1. CASE WaitsIn(Lines("rot", p), From("rot", p), r)
    BY <2>1 DEF SpoolIInv, ReadBeforeRemoval, SameRemoval
  <2>2. CASE r = x.row /\ EndsLine(x) /\ Lines("rot", p)' # Lines("rot", p)
    BY <2>2
  <2> QED BY <1>0, <1>1, <2>1, <2>2
<1>6. x.row \in Rows
  BY DEF Piece
<1>7. EndsLine(x) => shown[x.row] = 0
  BY <1>6 DEF SpoolIInv, RowsOnce, WrittenOnce, Shape, SpoolTypeOK
<1>8. PendingUnshown'
  BY <1>3, <1>7 DEF SpoolIInv, PendingUnshown
<1>9. SpoolIInv'
  BY <1>4, <1>5, <1>8 DEF SpoolIInv
<1>10. Pending' = {r \in Rows : IsPending(r)'} /\ Pending = {r \in Rows : IsPending(r)}
  BY <1>9, PendingIs, PendingIsNext
<1>11. CASE EndsLine(x) /\ IsPending(x.row)' /\ ~IsPending(x.row)
  <2>1. Pending' = Pending \cup {x.row}
    BY <1>2, <1>3, <1>6, <1>10, <1>11
  <2>2. x.row \in Rows \ Pending
    BY <1>6, <1>10, <1>11
  <2> QED BY <1>7, <1>9, <1>11, <2>1, <2>2
<1>12. CASE ~(EndsLine(x) /\ IsPending(x.row)' /\ ~IsPending(x.row))
  <2>1. Pending' = Pending
    BY <1>2, <1>3, <1>10, <1>12
  <2> QED BY <1>9, <2>1
<1> QED BY <1>11, <1>12

-----------------------------------------------------------------------------
(* Every step keeps the invariant, loses only what is excused, and is a    *)
(* step of the log or none.                                                *)

Ring == {r \in Rows : shown[r] > 0}

Excused == \A r \in Pending \ Pending' : shown'[r] > shown[r] \/ r \in tardy \/ unread
Logged  == Log!LogNext \/ UNCHANGED <<Pending, Ring>>
Good    == SpoolIInv' /\ Excused /\ Logged

LEMMA InitIInv == SpoolInit => SpoolIInv
<1> SUFFICES ASSUME SpoolInit PROVE SpoolIInv
  OBVIOUS
<1>1. SpoolTypeOK
  BY SpoolAssumption, EmptyFile DEF SpoolInit, SpoolTypeOK, Steps, NoHandle, Handles
<1>2. \A w \in Writers : ~Writes(w)
  BY DEF SpoolInit, Writes
<1>3. \A k, p : p \in Paths => FileOf(k, p) = None
  BY DEF SpoolInit, FileOf
<1>4. Shape
  BY <1>1, <1>2, <1>3 DEF Shape, HandlesOpen, FilesApart
<1>5. RowsOnce
  <2>1. \A g \in Segments : \A i : i \notin 1 .. Len(content[g])
    BY DEF SpoolInit
  <2>2. \A r \in Rows : ~(shown[r] > 0)
    BY DEF SpoolInit
  <2> QED BY <1>2, <2>1, <2>2 DEF RowsOnce, WrittenOnce, LinesAreEmitted, LinesDiffer
<1>6. \A k, p : p \in Paths => Lines(k, p) = <<>> /\ From(k, p) = 0
  BY <1>3 DEF Lines, From, RotFrom, LiveFrom, SpoolInit
<1>7. \A k, p, r : p \in Paths => ~WaitsIn(Lines(k, p), From(k, p), r)
  BY <1>6, EmptyFile
<1>8. OffsetsAligned /\ Consumed
  BY <1>6, EmptyFile DEF OffsetsAligned, Consumed
<1>9. PendingUnshown /\ ReadBeforeRemoval
  BY <1>7 DEF PendingUnshown, IsPending, ReadBeforeRemoval
<1> QED BY <1>4, <1>5, <1>8, <1>9 DEF SpoolIInv

(* The drain reads lines, it writes none.                                  *)
LEMMA ReaderRows ==
  ASSUME SpoolIInv, UNCHANGED <<content, handle, unsent>>,
         \A r \in Rows : shown'[r] > 0 => Emitted(r)
  PROVE  RowsOnce'
<1>1. \A r : Emitted(r)' <=> Emitted(r)
  BY DEF Emitted, Writes
<1>2. \A w : Writes(w)' <=> Writes(w)
  BY DEF Writes
<1>3. WrittenOnce'
  BY <1>1, <1>2 DEF SpoolIInv, RowsOnce, WrittenOnce
<1>4. LinesAreEmitted'
  BY <1>1 DEF SpoolIInv, RowsOnce, LinesAreEmitted
<1>5. LinesDiffer'
  BY DEF SpoolIInv, RowsOnce, LinesDiffer
<1> QED BY <1>3, <1>4, <1>5 DEF RowsOnce

LEMMA SameShown ==
  ASSUME SpoolIInv, UNCHANGED <<content, handle, unsent, shown>>
  PROVE  RowsOnce'
<1>1. \A r \in Rows : shown'[r] > 0 => Emitted(r)
  BY DEF SpoolIInv, RowsOnce, WrittenOnce
<1> QED BY <1>1, ReaderRows

LEMMA QuietStep ==
  ASSUME SpoolIInv, Shape', RowsOnce', SameLines, SameFrom, SameRemoval, UNCHANGED <<shown, tardy>>
  PROVE  Good
<1>1. SpoolIInv' /\ Pending' = Pending
  BY QuietKeeps
<1>2. Ring' = Ring
  BY DEF Ring
<1> QED BY <1>1, <1>2 DEF Good, Excused, Logged

(* The files keep their names and their lines.                             *)
LEMMA SameFiles ==
  ASSUME UNCHANGED fileVars
  PROVE  SameLines
BY DEF fileVars, SameLines, Lines, FileOf

LEMMA SameFilesApart ==
  ASSUME Shape, UNCHANGED <<live, rot>>
  PROVE  FilesApart'
BY DEF Shape, FilesApart, FileOf

LEMMA SameHandles ==
  ASSUME Shape, UNCHANGED handle
  PROVE  HandlesOpen'
BY DEF Shape, HandlesOpen, Writes

LEMMA SameOffsets ==
  ASSUME UNCHANGED <<bound, offset, rotOffset>>, step' \notin {"rotated", "finish"},
         step \notin {"rotated", "finish"}
  PROVE  SameFrom
BY DEF SameFrom, From, RotFrom, LiveFrom

LEMMA NoOrphanStep == SpoolIInv /\ NoOrphan => Good
<1> SUFFICES ASSUME SpoolIInv, NoOrphan PROVE Good
  OBVIOUS
<1> USE DEF NoOrphan, fileVars, writerVars, envVars
<1>1. Shape'
  BY SameFilesApart, SameHandles DEF SpoolIInv, Shape, SpoolTypeOK, Steps
<1>2. SameLines /\ SameFrom /\ SameRemoval
  BY SameFiles, SameOffsets DEF SameRemoval, Removing
<1> QED BY <1>1, <1>2, SameShown, QuietStep

LEMMA WithinCapStep == SpoolIInv /\ WithinCap => Good
<1> SUFFICES ASSUME SpoolIInv, WithinCap PROVE Good
  OBVIOUS
<1> USE DEF WithinCap, fileVars, writerVars, envVars
<1>1. Shape'
  BY SameFilesApart, SameHandles DEF SpoolIInv, Shape, SpoolTypeOK, Steps
<1>2. SameLines /\ SameFrom /\ SameRemoval
  BY SameFiles, SameOffsets DEF SameRemoval, Removing
<1> QED BY <1>1, <1>2, SameShown, QuietStep

LEMMA RotationRefusedStep == SpoolIInv /\ RotationRefused => Good
<1> SUFFICES ASSUME SpoolIInv, RotationRefused PROVE Good
  OBVIOUS
<1> USE DEF RotationRefused, fileVars, writerVars, envVars
<1>1. Shape'
  BY SameFilesApart, SameHandles DEF SpoolIInv, Shape, SpoolTypeOK, Steps
<1>2. SameLines /\ SameFrom /\ SameRemoval
  BY SameFiles, SameOffsets DEF SameRemoval, Removing
<1> QED BY <1>1, <1>2, SameShown, QuietStep

LEMMA RebindStep == SpoolIInv /\ Rebind => Good
<1> SUFFICES ASSUME SpoolIInv, Rebind PROVE Good
  OBVIOUS
<1> USE DEF Rebind, fileVars, writerVars, readerVars
<1>1. Shape'
  BY SameFilesApart, SameHandles DEF SpoolIInv, Shape, SpoolTypeOK, Steps
<1>2. SameLines /\ SameFrom /\ SameRemoval
  BY SameFiles DEF SameRemoval, Removing, SameFrom, From, RotFrom, LiveFrom
<1> QED BY <1>1, <1>2, SameShown, QuietStep

(* The ring is cleared and both files will be read from their start.       *)
LEMMA ForgetStep ==
  ASSUME SpoolIInv, Shape', UNCHANGED <<fileVars, writerVars>>,
         \A k \in Kinds, p \in Paths : From(k, p)' = 0,
         shown' = [r \in Rows |-> 0],
         \A q \in Paths : ~Removing(q)'
  PROVE  Good
<1>1. RowsOnce'
  BY ReaderRows DEF fileVars, writerVars
<1>2. /\ SpoolIInv'
      /\ Pending \subseteq Pending'
      /\ \A r \in Pending' \ Pending : r \in Rows /\ shown[r] > 0
  <2>1. SameLines /\ UNCHANGED tardy
    BY SameFiles DEF writerVars
  <2> QED BY <1>1, <2>1, ForgetKeeps
<1>3. Ring' = {}
  BY DEF Ring
<1>4. \E S \in SUBSET Rows : S \subseteq Ring /\ Pending' = Pending \cup S
  <2>1. Pending' \ Pending \in SUBSET Rows
    BY <1>2
  <2> QED BY <1>2, <2>1 DEF Ring
<1>5. PICK S \in SUBSET Rows : S \subseteq Ring /\ Pending' = Pending \cup S
  BY <1>4
<1>6. Log!Forget(S)
  BY <1>3, <1>5 DEF Log!Forget, Ring
<1>7. Log!LogNext
  BY <1>6 DEF Log!LogNext
<1> QED BY <1>2, <1>7 DEF Good, Excused, Logged

LEMMA RestartStep == SpoolIInv /\ Restart => Good
<1> SUFFICES ASSUME SpoolIInv, Restart PROVE Good
  OBVIOUS
<1>1. Shape'
  BY SameFilesApart, SameHandles
     DEF Restart, fileVars, writerVars, SpoolIInv, Shape, SpoolTypeOK, Steps
<1>2. \A k \in Kinds, p \in Paths : From(k, p)' = 0
  BY DEF Restart, From, RotFrom, LiveFrom
<1>3. \A q \in Paths : ~Removing(q)'
  BY DEF Restart, Removing
<1> QED BY <1>1, <1>2, <1>3, ForgetStep DEF Restart

LEMMA BeginDrainStep == SpoolIInv /\ BeginDrain => Good
<1> SUFFICES ASSUME SpoolIInv, BeginDrain PROVE Good
  OBVIOUS
<1>1. Shape'
  <2>1. /\ UNCHANGED <<fileVars, writerVars, envVars>>
        /\ bound' = binding /\ step' = "orphan" /\ unread' = FALSE
    BY DEF BeginDrain
  <2>2. offset' \in Nat /\ rotOffset' \in Nat /\ shown' \in [Rows -> Nat]
    BY DEF BeginDrain, SpoolIInv, Shape, SpoolTypeOK
  <2>3. bound' # None
    BY <2>1, SpoolAssumption DEF SpoolIInv, Shape, SpoolTypeOK
  <2>4. SpoolTypeOK'
    BY <2>1, <2>2, <2>3 DEF fileVars, writerVars, envVars, SpoolIInv, Shape, SpoolTypeOK, Steps
  <2> QED BY <2>1, <2>4, SameFilesApart, SameHandles DEF fileVars, writerVars, SpoolIInv, Shape
<1>2. \A q \in Paths : ~Removing(q)'
  BY DEF BeginDrain, Removing
<1>3. CASE binding = bound
  <2>1. SameLines /\ SameFrom /\ SameRemoval
    BY <1>2, <1>3, SameFiles, SameOffsets DEF BeginDrain, SameRemoval
  <2>2. UNCHANGED <<content, handle, unsent, shown, tardy>>
    BY <1>3 DEF BeginDrain, fileVars, writerVars
  <2> QED BY <1>1, <2>1, <2>2, SameShown, QuietStep
<1>4. CASE binding # bound /\ bound = None
  <2>1. SameFrom
    BY <1>4, SpoolAssumption DEF BeginDrain, SameFrom, From, RotFrom, LiveFrom
  <2>2. SameLines /\ SameRemoval
    BY <1>2, SameFiles DEF BeginDrain, SameRemoval
  <2>3. UNCHANGED <<content, handle, unsent, shown, tardy>>
    BY <1>4 DEF BeginDrain, fileVars, writerVars
  <2> QED BY <1>1, <2>1, <2>2, <2>3, SameShown, QuietStep
<1>5. CASE binding # bound /\ bound # None
  <2>1. \A k \in Kinds, p \in Paths : From(k, p)' = 0
    BY <1>5 DEF BeginDrain, From, RotFrom, LiveFrom
  <2> QED BY <1>1, <1>2, <1>5, <2>1, ForgetStep DEF BeginDrain
<1> QED BY <1>3, <1>4, <1>5

-----------------------------------------------------------------------------
(* The reads and the removals.                                             *)

LEMMA ReadStep ==
  ASSUME SpoolIInv, Shape', UNCHANGED <<fileVars, writerVars>>,
         NEW k \in Kinds, NEW p \in Paths,
         From(k, p)' = NewOffset(Lines(k, p), From(k, p)),
         \A l \in Kinds, q \in Paths : l # k \/ q # p => From(l, q)' = From(l, q),
         Surfaced(Drained(Lines(k, p), From(k, p))),
         \A q \in Paths : Removing(q)' => k = "rot" /\ q = p
  PROVE  Good
<1>0. \E T : T = Drained(Lines(k, p), From(k, p))
  OBVIOUS
<1>1. PICK S : S = Drained(Lines(k, p), From(k, p))
  BY <1>0
<1>2. S \in SUBSET Rows /\ \A r : r \in S <=> WaitsIn(Lines(k, p), From(k, p), r)
  BY <1>1, FilesAreLines, DrainedIs DEF SpoolIInv, OffsetsAligned
<1>3. /\ \A r \in S : shown'[r] = shown[r] + 1
      /\ \A r \in Rows \ S : shown'[r] = shown[r]
      /\ \A r \in Rows : shown[r] \in Nat
  <2>1. Surfaced(S)
    BY <1>1
  <2> QED BY <1>2, <2>1 DEF Surfaced, SpoolIInv, Shape, SpoolTypeOK
<1>4. RowsOnce'
  <2> SUFFICES ASSUME NEW r \in Rows, shown'[r] > 0 PROVE Emitted(r)
    BY ReaderRows DEF fileVars, writerVars
  <2>1. CASE r \in S
    BY <1>2, <2>1, WaitingIsEmitted DEF SpoolIInv, RowsOnce
  <2>2. CASE r \notin S
    BY <1>3, <2>2 DEF SpoolIInv, RowsOnce, WrittenOnce
  <2> QED BY <2>1, <2>2
<1>5. SpoolIInv' /\ S \subseteq Pending /\ Pending' = Pending \ S
  <2>1. SameLines /\ UNCHANGED tardy
    BY SameFiles DEF writerVars
  <2> QED BY <1>1, <1>4, <2>1, ReadKeeps
<1>6. Ring' = Ring \cup S
  BY <1>2, <1>3 DEF Ring
<1>7. Excused
  <2> SUFFICES ASSUME NEW r \in Pending \ Pending' PROVE shown'[r] > shown[r]
    BY DEF Excused
  <2>1. r \in S
    BY <1>5
  <2> QED BY <1>2, <1>3, <2>1
<1>8. Log!Surface(S)
  BY <1>5, <1>6 DEF Log!Surface, Ring
<1>9. Log!LogNext
  BY <1>2, <1>8 DEF Log!LogNext
<1> QED BY <1>5, <1>7, <1>9 DEF Good, Logged

LEMMA RemoveStep ==
  ASSUME SpoolIInv, Shape', UNCHANGED <<content, writerVars, shown>>,
         bound \in Paths, step \in {"clear", "finish"},
         Lines("rot", bound)' = <<>>, From("rot", bound)' = 0,
         \A k \in Kinds, q \in Paths : k # "rot" \/ q # bound =>
           Lines(k, q)' = Lines(k, q) /\ From(k, q)' = From(k, q),
         \A q \in Paths : ~Removing(q)',
         UNCHANGED bound
  PROVE  Good
<1>1. PICK p \in Paths : p = bound
  OBVIOUS
<1>2. RowsOnce'
  BY SameShown DEF writerVars
<1>3. Lines("rot", p)' = <<>> /\ From("rot", p)' = 0
  BY <1>1 DEF Lines, FileOf, From, RotFrom
<1>4. /\ SpoolIInv'
      /\ Pending' \subseteq Pending
      /\ \A r \in Pending \ Pending' : WaitsIn(Lines("rot", p), From("rot", p), r)
  <2>1. UNCHANGED <<shown, tardy>>
    BY DEF writerVars
  <2>2. \A k \in Kinds, q \in Paths : k # "rot" \/ q # p =>
          Lines(k, q)' = Lines(k, q) /\ From(k, q)' = From(k, q)
    BY <1>1
  <2> QED BY <1>2, <1>3, <2>1, <2>2, RemoveKeeps
<1>5. Pending \subseteq Rows
  BY PendingIs
<1>6. Excused
  <2> SUFFICES ASSUME NEW r \in Pending \ Pending', ~unread PROVE r \in tardy
    BY DEF Excused
  <2>1. Removing(p)
    BY <1>1 DEF Removing
  <2> QED BY <1>4, <1>5, <2>1 DEF SpoolIInv, ReadBeforeRemoval
<1>7. \E S \in SUBSET Rows : S \subseteq Pending /\ Pending' = Pending \ S
  <2>1. Pending \ Pending' \in SUBSET Rows
    BY <1>5
  <2>2. Pending' = Pending \ (Pending \ Pending')
    BY <1>4
  <2> QED BY <2>1, <2>2
<1>8. PICK S \in SUBSET Rows : S \subseteq Pending /\ Pending' = Pending \ S
  BY <1>7
<1>9. Log!Lose(S)
  BY <1>8 DEF Log!Lose
<1>10. Log!LogNext
  BY <1>9 DEF Log!LogNext
<1> QED BY <1>4, <1>6, <1>10 DEF Good, Logged

LEMMA ReadRotStep ==
  ASSUME SpoolIInv, NEW ok \in BOOLEAN, NEW from, NEW to, ReadRot(from, to, ok),
         <<from, to>> \in {<<"orphan", "clear">>, <<"rotated", "finish">>}
  PROVE  Good
<1>0. /\ step = from /\ step' = to /\ bound # None /\ bound \in Paths
      /\ (from = "orphan" /\ to = "clear") \/ (from = "rotated" /\ to = "finish")
      /\ unread' = ~ok
      /\ UNCHANGED <<fileVars, writerVars, envVars, bound, offset>>
  BY DEF ReadRot, SpoolIInv, Shape, SpoolTypeOK
<1>1. PICK p \in Paths : p = bound
  BY <1>0
<1>2. Lines("rot", p) = content[rot[bound]] /\ From("rot", p) = rotOffset /\ "rot" \in Kinds
  BY <1>1 DEF ReadRot, Lines, FileOf, From, RotFrom, Kinds
<1>3. /\ From("rot", p)' = rotOffset'
      /\ \A l \in Kinds, q \in Paths : l # "rot" \/ q # p => From(l, q)' = From(l, q)
  BY <1>0, <1>1 DEF From, RotFrom, LiveFrom, Kinds
<1>4. /\ HandlesOpen' /\ FilesApart'
      /\ (rotOffset' \in Nat /\ shown' \in [Rows -> Nat] => SpoolTypeOK')
  <2>1. rotOffset' \in Nat /\ shown' \in [Rows -> Nat] => SpoolTypeOK'
    BY <1>0 DEF fileVars, writerVars, envVars, SpoolIInv, Shape, SpoolTypeOK, Steps
  <2> QED BY <1>0, <2>1, SameFilesApart, SameHandles DEF fileVars, writerVars, SpoolIInv, Shape
<1>5. CASE ok
  <2>1. /\ rotOffset' = NewOffset(Lines("rot", p), From("rot", p))
        /\ Surfaced(Drained(Lines("rot", p), From("rot", p)))
    BY <1>2, <1>5 DEF ReadRot
  <2>2. rotOffset' \in Nat
    BY <1>2, <2>1, FilesAreLines, NewOffsetIs DEF SpoolIInv, OffsetsAligned
  <2>3. shown' \in [Rows -> Nat]
    BY <2>1 DEF Surfaced, SpoolIInv, Shape, SpoolTypeOK
  <2>4. Shape'
    BY <1>4, <2>2, <2>3 DEF Shape
  <2>5. \A q \in Paths : Removing(q)' => q = p
    BY <1>0, <1>1 DEF Removing
  <2> QED BY <1>0, <1>2, <1>3, <2>1, <2>4, <2>5, ReadStep
<1>6. CASE ~ok
  <2>1. rotOffset' = rotOffset /\ UNCHANGED shown
    BY <1>6 DEF ReadRot
  <2>2. Shape'
    BY <1>4, <2>1 DEF SpoolIInv, Shape, SpoolTypeOK
  <2>3. SameFrom
    BY <1>2, <1>3, <2>1 DEF SameFrom
  <2>4. SameRemoval
    BY <1>0, <1>6 DEF SameRemoval, Removing
  <2>5. UNCHANGED <<content, handle, unsent, shown, tardy>>
    BY <1>0, <2>1 DEF fileVars, writerVars
  <2> QED BY <1>0, <2>2, <2>3, <2>4, <2>5, SameFiles, SameShown, QuietStep
<1> QED BY <1>5, <1>6

LEMMA ReadLiveStep == ASSUME SpoolIInv, NEW ok \in BOOLEAN, ReadLive(ok) PROVE Good
<1>0. /\ step = "live" /\ step' = "bounding" /\ bound # None /\ bound \in Paths
      /\ UNCHANGED <<fileVars, writerVars, envVars, bound, rotOffset, unread>>
  BY DEF ReadLive, SpoolIInv, Shape, SpoolTypeOK
<1>1. PICK p \in Paths : p = bound
  BY <1>0
<1>2. /\ Lines("live", p) = IF live[bound] = None THEN <<>> ELSE content[live[bound]]
      /\ From("live", p) = offset /\ "live" \in Kinds
  BY <1>0, <1>1 DEF Lines, FileOf, From, LiveFrom, Kinds
<1>3. /\ From("live", p)' = offset'
      /\ \A l \in Kinds, q \in Paths : l # "live" \/ q # p => From(l, q)' = From(l, q)
  BY <1>0, <1>1 DEF From, RotFrom, LiveFrom, Kinds
<1>4. /\ HandlesOpen' /\ FilesApart'
      /\ (offset' \in Nat /\ shown' \in [Rows -> Nat] => SpoolTypeOK')
  <2>1. offset' \in Nat /\ shown' \in [Rows -> Nat] => SpoolTypeOK'
    BY <1>0 DEF fileVars, writerVars, envVars, SpoolIInv, Shape, SpoolTypeOK, Steps
  <2> QED BY <1>0, <2>1, SameFilesApart, SameHandles DEF fileVars, writerVars, SpoolIInv, Shape
<1>5. \A q \in Paths : ~Removing(q)'
  BY <1>0 DEF Removing
<1>6. CASE ok
  <2>1. /\ offset' = NewOffset(Lines("live", p), From("live", p))
        /\ Surfaced(Drained(Lines("live", p), From("live", p)))
    BY <1>2, <1>6 DEF ReadLive
  <2>2. offset' \in Nat
    BY <1>2, <2>1, FilesAreLines, NewOffsetIs DEF SpoolIInv, OffsetsAligned
  <2>3. shown' \in [Rows -> Nat]
    BY <2>1 DEF Surfaced, SpoolIInv, Shape, SpoolTypeOK
  <2>4. Shape'
    BY <1>4, <2>2, <2>3 DEF Shape
  <2> QED BY <1>0, <1>2, <1>3, <1>5, <2>1, <2>4, ReadStep
<1>7. CASE ~ok
  <2>1. offset' = offset /\ UNCHANGED shown
    BY <1>7 DEF ReadLive
  <2>2. Shape'
    BY <1>4, <2>1 DEF SpoolIInv, Shape, SpoolTypeOK
  <2>3. SameFrom
    BY <1>2, <1>3, <2>1 DEF SameFrom
  <2>4. SameRemoval
    BY <1>5 DEF SameRemoval
  <2>5. UNCHANGED <<content, handle, unsent, shown, tardy>>
    BY <1>0, <2>1 DEF fileVars, writerVars
  <2> QED BY <1>0, <2>2, <2>3, <2>4, <2>5, SameFiles, SameShown, QuietStep
<1> QED BY <1>6, <1>7

(* An Unlink() that succeeds takes one name away.                          *)
LEMMA UnlinkShape ==
  ASSUME Shape, bound \in Paths, rot' = [rot EXCEPT ![bound] = None], UNCHANGED live
  PROVE  /\ rot' \in [Paths -> Segments \cup {None}]
         /\ FilesApart'
         /\ \A k \in Kinds, q \in Paths :
              FileOf(k, q)' = IF k = "rot" /\ q = bound THEN None ELSE FileOf(k, q)
<1>1. rot' \in [Paths -> Segments \cup {None}]
  BY DEF Shape, SpoolTypeOK
<1>2. \A k \in Kinds, q \in Paths :
        FileOf(k, q)' = IF k = "rot" /\ q = bound THEN None ELSE FileOf(k, q)
  BY DEF FileOf, Kinds, Shape, SpoolTypeOK
<1>3. FilesApart'
  BY <1>2 DEF FilesApart, Shape
<1> QED BY <1>1, <1>2, <1>3

LEMMA ClearOrphanStep == ASSUME SpoolIInv, NEW ok \in BOOLEAN, ClearOrphan(ok) PROVE Good
<1>0. /\ step = "clear" /\ step' = "live" /\ bound # None /\ bound \in Paths
      /\ UNCHANGED <<content, live, writerVars, envVars, bound, offset, unread, shown>>
  BY DEF ClearOrphan, SpoolIInv, Shape, SpoolTypeOK
<1>1. \A q \in Paths : ~Removing(q)'
  BY <1>0 DEF Removing
<1>2. CASE ok
  <2>1. rot' = [rot EXCEPT ![bound] = None] /\ rotOffset' = 0
    BY <1>2 DEF ClearOrphan, Unlink
  <2>2. /\ rot' \in [Paths -> Segments \cup {None}]
        /\ FilesApart'
        /\ \A k \in Kinds, q \in Paths :
              FileOf(k, q)' = IF k = "rot" /\ q = bound THEN None ELSE FileOf(k, q)
    BY <1>0, <2>1, UnlinkShape DEF SpoolIInv
  <2>3. Shape'
    <3>1. SpoolTypeOK'
      BY <1>0, <2>1, <2>2 DEF writerVars, envVars, SpoolIInv, Shape, SpoolTypeOK, Steps
    <3> QED BY <1>0, <2>2, <3>1, SameHandles DEF writerVars, SpoolIInv, Shape
  <2>4. Lines("rot", bound)' = <<>> /\ From("rot", bound)' = 0
    BY <1>0, <2>1, <2>2 DEF Lines, FileOf, From, RotFrom, Kinds, SpoolIInv, Shape, SpoolTypeOK
  <2>5. \A k \in Kinds, q \in Paths : k # "rot" \/ q # bound =>
          Lines(k, q)' = Lines(k, q) /\ From(k, q)' = From(k, q)
    BY <1>0, <2>2 DEF Lines, From, RotFrom, LiveFrom, Kinds
  <2> QED BY <1>0, <1>1, <2>3, <2>4, <2>5, RemoveStep
<1>3. CASE ~ok
  <2>1. UNCHANGED <<rot, rotOffset>>
    BY <1>3 DEF ClearOrphan, Unlink
  <2>2. Shape'
    BY <1>0, <2>1, SameFilesApart, SameHandles
       DEF writerVars, envVars, SpoolIInv, Shape, SpoolTypeOK, Steps
  <2>3. SameLines /\ SameFrom /\ SameRemoval
    BY <1>0, <1>1, <2>1, SameFiles, SameOffsets DEF fileVars, SameRemoval
  <2> QED BY <1>0, <2>2, <2>3, SameShown, QuietStep DEF writerVars
<1> QED BY <1>2, <1>3

LEMMA FinishRotationStep == ASSUME SpoolIInv, NEW ok \in BOOLEAN, FinishRotation(ok) PROVE Good
<1>0. /\ step = "finish" /\ step' = "idle" /\ bound # None /\ bound \in Paths
      /\ offset' = 0
      /\ UNCHANGED <<content, live, writerVars, envVars, bound, unread, shown>>
  BY DEF FinishRotation, SpoolIInv, Shape, SpoolTypeOK
<1>1. \A q \in Paths : ~Removing(q)'
  BY <1>0 DEF Removing
<1>2. \A q \in Paths : LiveFrom(q)' = LiveFrom(q)
  BY <1>0 DEF LiveFrom
<1>3. CASE ok
  <2>1. rot' = [rot EXCEPT ![bound] = None] /\ rotOffset' = 0
    BY <1>3 DEF FinishRotation, Unlink
  <2>2. /\ rot' \in [Paths -> Segments \cup {None}]
        /\ FilesApart'
        /\ \A k \in Kinds, q \in Paths :
              FileOf(k, q)' = IF k = "rot" /\ q = bound THEN None ELSE FileOf(k, q)
    BY <1>0, <2>1, UnlinkShape DEF SpoolIInv
  <2>3. Shape'
    <3>1. SpoolTypeOK'
      BY <1>0, <2>1, <2>2 DEF writerVars, envVars, SpoolIInv, Shape, SpoolTypeOK, Steps
    <3> QED BY <1>0, <2>2, <3>1, SameHandles DEF writerVars, SpoolIInv, Shape
  <2>4. Lines("rot", bound)' = <<>> /\ From("rot", bound)' = 0
    BY <1>0, <2>1, <2>2 DEF Lines, FileOf, From, RotFrom, Kinds, SpoolIInv, Shape, SpoolTypeOK
  <2>5. \A k \in Kinds, q \in Paths : k # "rot" \/ q # bound =>
          Lines(k, q)' = Lines(k, q) /\ From(k, q)' = From(k, q)
    BY <1>0, <1>2, <2>2 DEF Lines, From, RotFrom, Kinds
  <2> QED BY <1>0, <1>1, <2>3, <2>4, <2>5, RemoveStep
<1>4. CASE ~ok
  <2>1. UNCHANGED <<rot, rotOffset>>
    BY <1>4 DEF FinishRotation, Unlink
  <2>2. Shape'
    BY <1>0, <2>1, SameFilesApart, SameHandles
       DEF writerVars, envVars, SpoolIInv, Shape, SpoolTypeOK, Steps
  <2>3. SameLines /\ SameFrom /\ SameRemoval
    BY <1>0, <1>1, <1>2, <2>1, SameFiles DEF fileVars, SameRemoval, SameFrom, From, RotFrom
  <2> QED BY <1>0, <2>2, <2>3, SameShown, QuietStep DEF writerVars
<1> QED BY <1>3, <1>4

LEMMA RotateStep == SpoolIInv /\ Rotate => Good
<1> SUFFICES ASSUME SpoolIInv, Rotate PROVE Good
  OBVIOUS
<1>0. /\ step = "bounding" /\ step' = "rotated" /\ bound # None /\ bound \in Paths
      /\ rot[bound] = None
      /\ rot' = [rot EXCEPT ![bound] = live[bound]]
      /\ live' = [live EXCEPT ![bound] = None]
      /\ rotOffset' = offset
      /\ UNCHANGED <<content, writerVars, envVars, bound, offset, unread, shown>>
  BY DEF Rotate, SpoolIInv, Shape, SpoolTypeOK
<1>1. PICK p \in Paths : p = bound
  BY <1>0
<1>2. /\ rot' \in [Paths -> Segments \cup {None}] /\ live' \in [Paths -> Segments \cup {None}]
      /\ FileOf("rot", p)' = FileOf("live", p) /\ FileOf("live", p)' = None
      /\ FileOf("rot", p) = None
      /\ \A k \in Kinds, q \in Paths : q # p => FileOf(k, q)' = FileOf(k, q)
  BY <1>0, <1>1 DEF FileOf, Kinds, SpoolIInv, Shape, SpoolTypeOK
<1>3. FilesApart'
  BY <1>2 DEF FilesApart, SpoolIInv, Shape, Kinds
<1>4. Shape'
  <2>1. SpoolTypeOK'
    BY <1>0, <1>2 DEF writerVars, envVars, SpoolIInv, Shape, SpoolTypeOK, Steps
  <2> QED BY <1>0, <1>3, <2>1, SameHandles DEF writerVars, SpoolIInv, Shape
<1>5. /\ Lines("rot", p) = <<>>
      /\ Lines("rot", p)' = Lines("live", p) /\ Lines("live", p)' = <<>>
      /\ \A k \in Kinds, q \in Paths : q # p => Lines(k, q)' = Lines(k, q)
  BY <1>0, <1>2 DEF Lines
<1>6. /\ From("rot", p)' = From("live", p) /\ From("live", p)' = 0
      /\ \A k \in Kinds, q \in Paths : q # p => From(k, q)' = From(k, q)
  BY <1>0, <1>1 DEF From, RotFrom, LiveFrom
<1>7. \A q \in Paths : ~Removing(q)'
  BY <1>0 DEF Removing
<1>8. SpoolIInv' /\ Pending' = Pending
  <2>1. UNCHANGED <<shown, tardy>> /\ RowsOnce'
    BY <1>0, SameShown DEF writerVars
  <2> QED BY <1>4, <1>5, <1>6, <1>7, <2>1, RotateKeeps
<1>9. Ring' = Ring
  BY <1>0 DEF Ring
<1> QED BY <1>8, <1>9 DEF Good, Excused, Logged

-----------------------------------------------------------------------------
(* The writers.                                                            *)

(* What was emitted stays emitted, whatever a writer begins or ends.       *)
LEMMA OpenRows ==
  ASSUME SpoolIInv, NEW w \in Writers, NEW r \in unsent, ~Writes(w),
         unsent' = unsent \ {r}, NEW g,
         handle' = [handle EXCEPT ![w] = [row |-> r, seg |-> g, half |-> FALSE]],
         UNCHANGED <<content, shown>>
  PROVE  RowsOnce'
<1>1. \A v \in Writers : v # w => handle'[v] = handle[v]
  BY DEF SpoolIInv, Shape, SpoolTypeOK
<1>2. handle'[w].row = r
  BY DEF SpoolIInv, Shape, SpoolTypeOK
<1>3. \A v \in Writers : Writes(v) => handle[v].row # r
  BY DEF SpoolIInv, RowsOnce, WrittenOnce
<1>4. \A q : Emitted(q) => Emitted(q)'
  BY <1>1, <1>2 DEF Emitted, Writes
<1>5. /\ \A v \in Writers : Writes(v)' => handle'[v].row \notin unsent'
      /\ \A v, u \in Writers :
           Writes(v)' /\ Writes(u)' /\ handle'[v].row = handle'[u].row => v = u
  BY <1>1, <1>2, <1>3 DEF SpoolIInv, RowsOnce, WrittenOnce, Writes
<1>6. WrittenOnce'
  BY <1>4, <1>5 DEF SpoolIInv, RowsOnce, WrittenOnce
<1>7. LinesAreEmitted'
  BY <1>4 DEF SpoolIInv, RowsOnce, LinesAreEmitted
<1>8. LinesDiffer'
  BY DEF SpoolIInv, RowsOnce, LinesDiffer
<1> QED BY <1>6, <1>7, <1>8 DEF RowsOnce

LEMMA OpenStep ==
  ASSUME SpoolIInv, NEW w \in Writers, NEW r \in Rows, Open(w, r) PROVE Good
<1> DEFINE p == Home[w]
<1>0. /\ p \in Paths /\ r \in unsent /\ unsent' = unsent \ {r} /\ ~Writes(w)
      /\ UNCHANGED <<content, rot, tardy, readerVars, envVars>>
  BY SpoolAssumption DEF Open, Writes
<1>1. PICK g \in Segments :
        /\ handle' = [handle EXCEPT ![w] = [row |-> r, seg |-> g, half |-> FALSE]]
        /\ \/ live[p] = g /\ UNCHANGED live
           \/ live[p] = None /\ g \notin Used /\ live' = [live EXCEPT ![p] = g]
  <2>1. live[p] \in Segments \cup {None}
    BY <1>0 DEF SpoolIInv, Shape, SpoolTypeOK
  <2> QED BY <2>1 DEF Open
<1> HIDE DEF p
<1>2. RowsOnce'
  BY <1>0, <1>1, OpenRows DEF readerVars
<1>3. HandlesOpen'
  BY <1>0, <1>1 DEF HandlesOpen, Writes, SpoolIInv, Shape, SpoolTypeOK
<1>4. SpoolTypeOK'
  <2>1. handle' \in [Writers -> Handles]
    BY <1>1 DEF Handles, SpoolIInv, Shape, SpoolTypeOK
  <2>2. live' \in [Paths -> Segments \cup {None}]
    BY <1>1 DEF SpoolIInv, Shape, SpoolTypeOK
  <2> QED BY <1>0, <2>1, <2>2 DEF readerVars, envVars, SpoolIInv, Shape, SpoolTypeOK
<1>5. SameFrom /\ SameRemoval /\ UNCHANGED <<shown, tardy>>
  BY <1>0 DEF readerVars, SameFrom, From, RotFrom, LiveFrom, SameRemoval, Removing
<1>6. CASE UNCHANGED live
  <2>1. FilesApart' /\ SameLines
    BY <1>0, <1>6, SameFilesApart, SameFiles DEF SpoolIInv, fileVars
  <2> QED BY <1>2, <1>3, <1>4, <1>5, <2>1, QuietStep DEF Shape
<1>7. CASE live[p] = None /\ g \notin Used /\ live' = [live EXCEPT ![p] = g]
  <2>1. /\ content[g] = <<>> /\ g # None
        /\ \A q \in Paths : live[q] # g /\ rot[q] # g
    BY <1>7, SpoolAssumption DEF Used, Linked
  <2>2. /\ FileOf("live", p) = None /\ FileOf("live", p)' = g
        /\ \A k \in Kinds, q \in Paths : k # "live" \/ q # p => FileOf(k, q)' = FileOf(k, q)
        /\ \A k \in Kinds, q \in Paths : FileOf(k, q) # g
    BY <1>0, <1>7, <2>1 DEF FileOf, Kinds, SpoolIInv, Shape, SpoolTypeOK
  <2>3. FilesApart'
    BY <2>2 DEF FilesApart, SpoolIInv, Shape
  <2>4. SameLines
    <3> SUFFICES ASSUME NEW k \in Kinds, NEW q \in Paths PROVE Lines(k, q)' = Lines(k, q)
      BY DEF SameLines
    <3>1. CASE k = "live" /\ q = p
      BY <1>0, <2>1, <2>2, <3>1 DEF Lines
    <3>2. CASE k # "live" \/ q # p
      BY <1>0, <2>2, <3>2 DEF Lines
    <3> QED BY <3>1, <3>2
  <2> QED BY <1>2, <1>3, <1>4, <1>5, <2>3, <2>4, QuietStep DEF Shape
<1> QED BY <1>1, <1>6, <1>7

LEMMA AbandonLineStep ==
  ASSUME SpoolIInv, NEW w \in Writers, AbandonLine(w) PROVE Good
<1>0. /\ handle' = [handle EXCEPT ![w] = NoHandle]
      /\ UNCHANGED <<fileVars, unsent, tardy, readerVars, envVars>>
  BY DEF AbandonLine
<1>1. /\ ~Writes(w)'
      /\ \A v \in Writers : v # w => handle'[v] = handle[v]
  BY <1>0 DEF Writes, SpoolIInv, Shape, SpoolTypeOK
<1>2. \A q : Emitted(q) => Emitted(q)'
  BY <1>0, <1>1 DEF Emitted, Writes
<1>3. RowsOnce'
  <2>1. WrittenOnce'
    BY <1>0, <1>1, <1>2 DEF readerVars, SpoolIInv, RowsOnce, WrittenOnce, Writes
  <2>2. LinesAreEmitted'
    BY <1>0, <1>2 DEF fileVars, SpoolIInv, RowsOnce, LinesAreEmitted
  <2>3. LinesDiffer'
    BY <1>0 DEF fileVars, SpoolIInv, RowsOnce, LinesDiffer
  <2> QED BY <2>1, <2>2, <2>3 DEF RowsOnce
<1>4. Shape'
  <2>1. handle' \in [Writers -> Handles]
    BY <1>0 DEF Handles, NoHandle, SpoolIInv, Shape, SpoolTypeOK
  <2>2. SpoolTypeOK'
    BY <1>0, <2>1 DEF fileVars, readerVars, envVars, SpoolIInv, Shape, SpoolTypeOK
  <2>3. HandlesOpen'
    BY <1>1 DEF HandlesOpen, Writes, SpoolIInv, Shape
  <2>4. FilesApart'
    BY <1>0, SameFilesApart DEF fileVars, SpoolIInv
  <2> QED BY <2>2, <2>3, <2>4 DEF Shape
<1>5. SameLines /\ SameFrom /\ SameRemoval /\ UNCHANGED <<shown, tardy>>
  BY <1>0, SameFiles DEF readerVars, SameFrom, From, RotFrom, LiveFrom, SameRemoval, Removing
<1> QED BY <1>3, <1>4, <1>5, QuietStep

(* A piece goes to the end of the file the writer holds open.              *)
LEMMA PutLines ==
  ASSUME SpoolIInv, NEW w \in Writers, Writes(w), NEW part \in {"whole", "head", "tail"},
         Put(w, part), UNCHANGED <<live, rot>>
  PROVE  LET x == [row |-> handle[w].row, part |-> part]
             seg == handle[w].seg
         IN  /\ x \in Piece
             /\ content' \in [Segments -> Seq(Piece)]
             /\ \A g \in Segments : \A i \in 1 .. Len(content'[g]) :
                  \/ i \in 1 .. Len(content[g]) /\ content'[g][i] = content[g][i]
                  \/ g = seg /\ i = Len(content[g]) + 1 /\ content'[g][i] = x
             /\ \A k \in Kinds, p \in Paths :
                  \/ Lines(k, p)' = Lines(k, p)
                  \/ FileOf(k, p) = seg /\ Lines(k, p)' = Append(Lines(k, p), x)
<1> DEFINE x == [row |-> handle[w].row, part |-> part]
           seg == handle[w].seg
<1>0. seg \in Segments /\ handle[w].row \in Rows /\ seg # None
  BY SpoolAssumption DEF SpoolIInv, Shape, HandlesOpen
<1>1. x \in Piece
  BY <1>0 DEF Piece
<1>2. content' = [content EXCEPT ![seg] = Append(content[seg], x)]
  BY DEF Put
<1> HIDE DEF x, seg
<1>3. /\ content' \in [Segments -> Seq(Piece)] /\ content \in [Segments -> Seq(Piece)]
      /\ content'[seg] = Append(content[seg], x)
      /\ \A g \in Segments : g # seg => content'[g] = content[g]
  BY <1>0, <1>1, <1>2 DEF SpoolIInv, Shape, SpoolTypeOK
<1>4. /\ Len(Append(content[seg], x)) = Len(content[seg]) + 1
      /\ \A i \in 1 .. Len(content[seg]) : Append(content[seg], x)[i] = content[seg][i]
      /\ Append(content[seg], x)[Len(content[seg]) + 1] = x
      /\ Len(content[seg]) \in Nat
  BY <1>0, <1>1, <1>3, AppendProperties
<1>5. ASSUME NEW g \in Segments, NEW i \in 1 .. Len(content'[g])
      PROVE  \/ i \in 1 .. Len(content[g]) /\ content'[g][i] = content[g][i]
             \/ g = seg /\ i = Len(content[g]) + 1 /\ content'[g][i] = x
  BY <1>3, <1>4
<1>6. ASSUME NEW k \in Kinds, NEW p \in Paths
      PROVE  \/ Lines(k, p)' = Lines(k, p)
             \/ FileOf(k, p) = seg /\ Lines(k, p)' = Append(Lines(k, p), x)
  <2>1. FileOf(k, p)' = FileOf(k, p) /\ FileOf(k, p) \in Segments \cup {None}
    BY DEF FileOf, SpoolIInv, Shape, SpoolTypeOK
  <2> QED BY <1>0, <1>3, <2>1 DEF Lines
<1> QED BY <1>1, <1>3, <1>5, <1>6 DEF x, seg

(* Adding a piece is a step of the log, or none.                           *)
LEMMA AppendStep ==
  ASSUME SpoolIInv, Shape', RowsOnce', SameFrom, SameRemoval, UNCHANGED shown,
         tardy \subseteq tardy', NEW x \in Piece, EndsLine(x) => ~Emitted(x.row),
         \A k \in Kinds, p \in Paths :
           Lines(k, p)' = Lines(k, p) \/ Lines(k, p)' = Append(Lines(k, p), x),
         \A p \in Paths : EndsLine(x) /\ Lines("rot", p)' # Lines("rot", p) => x.row \in tardy'
  PROVE  Good
<1>1. /\ SpoolIInv'
      /\ Pending' # Pending =>
           /\ Pending' = Pending \cup {x.row}
           /\ x.row \in Rows \ Pending /\ shown[x.row] = 0
  BY AppendKeeps
<1>2. Ring' = Ring
  BY DEF Ring
<1>3. Excused
  BY <1>1 DEF Excused
<1>4. CASE Pending' = Pending
  BY <1>1, <1>2, <1>3, <1>4 DEF Good, Logged
<1>5. CASE Pending' # Pending
  <2>1. x.row \in Rows /\ x.row \notin Pending \cup Ring /\ Pending' = Pending \cup {x.row}
    BY <1>1, <1>5 DEF Ring
  <2>2. PICK r \in Rows : r = x.row
    BY <2>1
  <2>3. Log!Append(r)
    BY <1>2, <2>1, <2>2 DEF Log!Append, Ring
  <2>4. Log!LogNext
    BY <2>3 DEF Log!LogNext
  <2> QED BY <1>1, <1>3, <2>4 DEF Good, Logged
<1> QED BY <1>4, <1>5

(* A line that ends: its row was under way, and is tardy if the file is no *)
(* longer the live one.                                                    *)
LEMMA EndedStep ==
  ASSUME SpoolIInv, NEW w \in Writers, Writes(w), NEW part \in {"whole", "tail"},
         Put(w, part), EndLine(w), UNCHANGED <<live, rot, unsent, readerVars, envVars>>
  PROVE  Good
<1> DEFINE x == [row |-> handle[w].row, part |-> part]
           seg == handle[w].seg
<1>0. /\ handle' = [handle EXCEPT ![w] = NoHandle]
      /\ tardy' = IF seg = live[Home[w]] THEN tardy ELSE tardy \cup {x.row}
      /\ seg \in Segments /\ seg # None /\ x.row = handle[w].row /\ x.row \in Rows
      /\ Home[w] \in Paths
  BY SpoolAssumption DEF EndLine, SpoolIInv, Shape, HandlesOpen
<1>1. /\ x \in Piece
      /\ content' \in [Segments -> Seq(Piece)]
      /\ \A g \in Segments : \A i \in 1 .. Len(content'[g]) :
           \/ i \in 1 .. Len(content[g]) /\ content'[g][i] = content[g][i]
           \/ g = seg /\ i = Len(content[g]) + 1 /\ content'[g][i] = x
      /\ \A k \in Kinds, p \in Paths :
           \/ Lines(k, p)' = Lines(k, p)
           \/ FileOf(k, p) = seg /\ Lines(k, p)' = Append(Lines(k, p), x)
  <2>1. part \in {"whole", "head", "tail"}
    OBVIOUS
  <2> QED BY <2>1, PutLines
<1>2. ~Emitted(x.row)
  BY DEF Emitted
<1> HIDE DEF x, seg
<1>3. /\ ~Writes(w)'
      /\ \A v \in Writers : v # w => handle'[v] = handle[v]
  BY <1>0 DEF Writes, SpoolIInv, Shape, SpoolTypeOK
<1>4. \A q : Emitted(q) => Emitted(q)'
  BY <1>0, <1>3 DEF Emitted, Writes
<1>5. \A q : q = x.row => Emitted(q)'
  BY <1>0, <1>3 DEF Emitted, Writes, SpoolIInv, RowsOnce, WrittenOnce
<1>6. RowsOnce'
  <2>1. WrittenOnce'
    BY <1>0, <1>3, <1>4 DEF readerVars, SpoolIInv, RowsOnce, WrittenOnce, Writes
  <2>2. LinesAreEmitted'
    <3>1. ASSUME NEW g \in Segments, NEW i \in 1 .. Len(content'[g]),
                 EndsLine(content'[g][i]), NEW q, q = content'[g][i].row
          PROVE  Emitted(q)'
      <4>1. CASE i \in 1 .. Len(content[g]) /\ content'[g][i] = content[g][i]
        BY <1>4, <3>1, <4>1 DEF SpoolIInv, RowsOnce, LinesAreEmitted
      <4>2. CASE content'[g][i] = x
        BY <1>5, <3>1, <4>2
      <4> QED BY <1>1, <4>1, <4>2
    <3> QED BY <3>1 DEF LinesAreEmitted, Emitted, Writes
  <2>3. LinesDiffer'
    <3>1. ASSUME NEW g \in Segments, NEW i \in 1 .. Len(content[g]), EndsLine(content[g][i])
          PROVE  content[g][i].row # x.row
      BY <1>2, <3>1 DEF SpoolIInv, RowsOnce, LinesAreEmitted
    <3> SUFFICES ASSUME NEW g \in Segments, NEW h \in Segments,
                        NEW i \in 1 .. Len(content'[g]), NEW j \in 1 .. Len(content'[h]),
                        EndsLine(content'[g][i]), EndsLine(content'[h][j]),
                        content'[g][i].row = content'[h][j].row
                 PROVE  g = h /\ i = j
      BY DEF LinesDiffer
    <3>2. CASE i \in 1 .. Len(content[g]) /\ content'[g][i] = content[g][i]
               /\ j \in 1 .. Len(content[h]) /\ content'[h][j] = content[h][j]
      BY <3>2 DEF SpoolIInv, RowsOnce, LinesDiffer
    <3>3. CASE i \in 1 .. Len(content[g]) /\ content'[g][i] = content[g][i] /\ content'[h][j] = x
      BY <3>1, <3>3
    <3>4. CASE content'[g][i] = x /\ j \in 1 .. Len(content[h]) /\ content'[h][j] = content[h][j]
      BY <3>1, <3>4
    <3>5. CASE g = seg /\ i = Len(content[g]) + 1 /\ h = seg /\ j = Len(content[h]) + 1
      BY <3>5
    <3> QED BY <1>1, <3>2, <3>3, <3>4, <3>5
  <2> QED BY <2>1, <2>2, <2>3 DEF RowsOnce
<1>7. Shape'
  <2>1. handle' \in [Writers -> Handles] /\ tardy' \in SUBSET Rows
    BY <1>0 DEF Handles, NoHandle, SpoolIInv, Shape, SpoolTypeOK
  <2>2. SpoolTypeOK'
    BY <1>1, <2>1 DEF readerVars, envVars, SpoolIInv, Shape, SpoolTypeOK
  <2>3. HandlesOpen'
    BY <1>3 DEF HandlesOpen, Writes, SpoolIInv, Shape
  <2>4. FilesApart'
    BY SameFilesApart DEF SpoolIInv
  <2> QED BY <2>2, <2>3, <2>4 DEF Shape
<1>8. SameFrom /\ SameRemoval /\ UNCHANGED shown /\ tardy \subseteq tardy'
  BY <1>0 DEF readerVars, SameFrom, From, RotFrom, LiveFrom, SameRemoval, Removing
<1>9. \A p \in Paths : Lines("rot", p)' # Lines("rot", p) => x.row \in tardy'
  <2> SUFFICES ASSUME NEW p \in Paths, Lines("rot", p)' # Lines("rot", p) PROVE x.row \in tardy'
    OBVIOUS
  <2>1. FileOf("rot", p) = seg
    BY <1>1 DEF Kinds
  <2>2. live[Home[w]] # seg
    BY <1>0, <2>1 DEF SpoolIInv, Shape, FilesApart, FileOf, Kinds
  <2> QED BY <1>0, <2>2
<1> QED BY <1>1, <1>2, <1>6, <1>7, <1>8, <1>9, AppendStep

LEMMA WriteLineStep ==
  ASSUME SpoolIInv, NEW w \in Writers, WriteLine(w) PROVE Good
BY EndedStep DEF WriteLine, Writes

LEMMA WriteTailStep ==
  ASSUME SpoolIInv, NEW w \in Writers, WriteTail(w) PROVE Good
<1>1. Writes(w)
  BY DEF WriteTail, Writes, NoHandle
<1> QED BY <1>1, EndedStep DEF WriteTail

LEMMA WriteHeadStep ==
  ASSUME SpoolIInv, NEW w \in Writers, WriteHead(w) PROVE Good
<1> DEFINE x == [row |-> handle[w].row, part |-> "head"]
<1>0. /\ Writes(w) /\ Put(w, "head")
      /\ handle' = [handle EXCEPT ![w].half = TRUE]
      /\ UNCHANGED <<live, rot, unsent, tardy, readerVars, envVars>>
  BY DEF WriteHead, Writes
<1>1. /\ x \in Piece
      /\ content' \in [Segments -> Seq(Piece)]
      /\ \A g \in Segments : \A i \in 1 .. Len(content'[g]) :
           \/ i \in 1 .. Len(content[g]) /\ content'[g][i] = content[g][i]
           \/ g = handle[w].seg /\ i = Len(content[g]) + 1 /\ content'[g][i] = x
      /\ \A k \in Kinds, p \in Paths :
           \/ Lines(k, p)' = Lines(k, p)
           \/ FileOf(k, p) = handle[w].seg /\ Lines(k, p)' = Append(Lines(k, p), x)
  BY <1>0, PutLines
<1>2. ~EndsLine(x)
  BY DEF EndsLine
<1> HIDE DEF x
<1>3. /\ handle' \in [Writers -> Handles]
      /\ handle'[w].row = handle[w].row /\ handle'[w].seg = handle[w].seg
      /\ \A v \in Writers : v # w => handle'[v] = handle[v]
  BY <1>0 DEF Handles, SpoolIInv, Shape, SpoolTypeOK
<1>4. \A v \in Writers : handle'[v].row = handle[v].row /\ (Writes(v)' => Writes(v))
  BY <1>0, <1>3 DEF Writes
<1>5. \A q : Emitted(q) => Emitted(q)'
  BY <1>0, <1>4 DEF Emitted
<1>6. RowsOnce'
  <2>1. WrittenOnce'
    BY <1>0, <1>4, <1>5 DEF readerVars, SpoolIInv, RowsOnce, WrittenOnce
  <2>2. \A g \in Segments : \A i \in 1 .. Len(content'[g]) :
          EndsLine(content'[g][i]) => i \in 1 .. Len(content[g]) /\ content'[g][i] = content[g][i]
    BY <1>1, <1>2
  <2>3. LinesAreEmitted'
    <3>1. ASSUME NEW g \in Segments, NEW i \in 1 .. Len(content'[g]),
                 EndsLine(content'[g][i]), NEW q, q = content'[g][i].row
          PROVE  Emitted(q)'
      BY <1>5, <2>2, <3>1 DEF SpoolIInv, RowsOnce, LinesAreEmitted
    <3> QED BY <3>1 DEF LinesAreEmitted, Emitted, Writes
  <2>4. LinesDiffer'
    BY <2>2 DEF SpoolIInv, RowsOnce, LinesDiffer
  <2> QED BY <2>1, <2>3, <2>4 DEF RowsOnce
<1>7. Shape'
  <2>1. SpoolTypeOK'
    BY <1>0, <1>1, <1>3 DEF readerVars, envVars, SpoolIInv, Shape, SpoolTypeOK
  <2>2. HandlesOpen'
    BY <1>0, <1>3, <1>4 DEF HandlesOpen, Writes, SpoolIInv, Shape
  <2>3. FilesApart'
    BY <1>0, SameFilesApart DEF SpoolIInv
  <2> QED BY <2>1, <2>2, <2>3 DEF Shape
<1>8. SameFrom /\ SameRemoval /\ UNCHANGED shown /\ tardy \subseteq tardy'
  BY <1>0 DEF readerVars, SameFrom, From, RotFrom, LiveFrom, SameRemoval, Removing
<1> QED BY <1>1, <1>2, <1>6, <1>7, <1>8, AppendStep

LEMMA SpoolStutters == SpoolIInv /\ UNCHANGED spoolVars => Good
<1> SUFFICES ASSUME SpoolIInv, UNCHANGED spoolVars PROVE Good
  OBVIOUS
<1> USE DEF spoolVars, fileVars, writerVars, readerVars, envVars
<1>1. Shape'
  BY SameFilesApart, SameHandles DEF SpoolIInv, Shape, SpoolTypeOK, Steps
<1>2. SameLines /\ SameFrom /\ SameRemoval
  BY SameFiles DEF SameRemoval, Removing, SameFrom, From, RotFrom, LiveFrom
<1> QED BY <1>1, <1>2, SameShown, QuietStep

LEMMA SpoolStep == SpoolIInv /\ [SpoolNext]_spoolVars => Good
<1> SUFFICES ASSUME SpoolIInv, [SpoolNext]_spoolVars PROVE Good
  OBVIOUS
<1>1. ASSUME NEW w \in Writers, NEW r \in Rows, Open(w, r) PROVE Good
  BY <1>1, OpenStep
<1>2. ASSUME NEW w \in Writers,
             WriteLine(w) \/ WriteHead(w) \/ WriteTail(w) \/ AbandonLine(w)
      PROVE  Good
  BY <1>2, WriteLineStep, WriteHeadStep, WriteTailStep, AbandonLineStep
<1>3. CASE BeginDrain \/ NoOrphan \/ WithinCap \/ Rotate \/ RotationRefused \/ Restart \/ Rebind
  BY <1>3, BeginDrainStep, NoOrphanStep, WithinCapStep, RotateStep, RotationRefusedStep,
     RestartStep, RebindStep
<1>4. ASSUME NEW ok \in BOOLEAN, ReadOrphan(ok) PROVE Good
  BY <1>4, ReadRotStep DEF ReadOrphan
<1>5. ASSUME NEW ok \in BOOLEAN, ReadRotated(ok) PROVE Good
  BY <1>5, ReadRotStep DEF ReadRotated
<1>6. ASSUME NEW ok \in BOOLEAN, ClearOrphan(ok) \/ ReadLive(ok) \/ FinishRotation(ok) PROVE Good
  BY <1>6, ClearOrphanStep, ReadLiveStep, FinishRotationStep
<1>7. CASE UNCHANGED spoolVars
  BY <1>7, SpoolStutters
<1> QED BY <1>1, <1>2, <1>3, <1>4, <1>5, <1>6, <1>7 DEF SpoolNext, WriterNext, ReaderNext

LEMMA SpoolInductive == SpoolSpec => []SpoolIInv
<1>1. SpoolIInv /\ [SpoolNext]_spoolVars => SpoolIInv'
  BY SpoolStep DEF Good
<1> QED BY <1>1, InitIInv, PTL DEF SpoolSpec

(* Every loss is excused: a row that a drain would have surfaced goes      *)
(* unseen only if its line ended in a file that had already been rotated   *)
(* away, or the read before the removal failed, whatever the writers, the  *)
(* drain, restarts and changes of the binding do in between                *)
(* (server.py:1257-1268).                                                  *)
THEOREM LossesAreExcused == SpoolSpec => LossIsExcused
<1>1. SpoolIInv /\ [SpoolNext]_spoolVars =>
        [\A r \in Pending \ Pending' : shown'[r] > shown[r] \/ r \in tardy \/ unread]_spoolVars
  BY SpoolStep DEF Good, Excused
<1> QED BY <1>1, SpoolInductive, PTL DEF SpoolSpec, LossIsExcused

(* The drain implements the log: every step of the files and the offsets   *)
(* appends, surfaces, loses or forgets rows, or changes nothing of them;   *)
(* no row is invented and none is shown twice by one ring                  *)
(* (_drain_enforcement_into_history, drain_enforcement_events).            *)
THEOREM SpoolImplementsLog == SpoolSpec => ImplementsLog
<1>1. SpoolInit => Log!LogInit
  <2> SUFFICES ASSUME SpoolInit PROVE Log!LogInit
    OBVIOUS
  <2>1. SpoolIInv
    BY InitIInv
  <2>2. \A k, p : p \in Paths => Lines(k, p) = <<>>
    BY DEF SpoolInit, Lines, FileOf
  <2>3. \A r : ~IsPending(r)
    BY <2>2, EmptyFile DEF IsPending
  <2>4. Pending = {}
    BY <2>1, <2>3, PendingIs
  <2>5. {r \in Rows : shown[r] > 0} = {}
    BY DEF SpoolInit
  <2> QED BY <2>4, <2>5 DEF Log!LogInit
<1>2. SpoolIInv /\ [SpoolNext]_spoolVars => [Log!LogNext]_(Log!logVars)
  <2> SUFFICES ASSUME SpoolIInv, [SpoolNext]_spoolVars PROVE [Log!LogNext]_(Log!logVars)
    OBVIOUS
  <2>1. Log!LogNext \/ UNCHANGED <<Pending, Ring>>
    BY SpoolStep DEF Good, Logged
  <2> QED BY <2>1 DEF Log!logVars, Ring
<1> QED BY <1>1, <1>2, SpoolInductive, PTL DEF SpoolSpec, ImplementsLog, Log!LogSpec
=============================================================================
