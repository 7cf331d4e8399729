------------------------------ MODULE ScanDetail ------------------------------
(***************************************************************************)
(* The detail a playground scan keeps (server.py, _build_playground_detail)*)
(* under a cap on findings and a cap on bytes.  Sizes stand for serialized *)
(* bytes; a finding has a rank (its severity) and a size.                  *)
(***************************************************************************)
EXTENDS Integers, Sequences, FiniteSets, SequencesExt

CONSTANTS MaxFindings, MaxBytes, MaxPreview, Overhead

(* What the scan offers: findings in order, the size of the per-scanner    *)
(* results, the length of the normalized text.                             *)
Scan == [findings : Seq([rank : Nat, size : Nat]), scanners : Nat, text : Nat]

(* The first n positions of s in the order of before.                      *)
Leading(s, n, before(_, _)) == {i \in DOMAIN s : Cardinality({j \in DOMAIN s : before(j, i)}) < n}

(* Over the cap on findings the most severe stay, the earlier first.       *)
CapFindings(s) ==
  LET severer(j, i) == s[j].rank > s[i].rank \/ (s[j].rank = s[i].rank /\ j < i)
  IN  IF Len(s) > MaxFindings THEN Leading(s, MaxFindings, severer) ELSE DOMAIN s

DetailBytes(s, kept, scanners, text) ==
  Overhead + scanners + text + FoldLeft(LAMBDA a, i : a + (IF i \in kept THEN s[i].size ELSE 0),
                                        0, [i \in 1..Len(s) |-> i])

(* The longest prefix of the preview that fits; none of it if none does.   *)
FitPreview(s, kept, scanners, text) ==
  LET fits == {n \in 0..text : DetailBytes(s, kept, scanners, n) <= MaxBytes}
  IN  IF fits = {} THEN 0 ELSE CHOOSE n \in fits : \A k \in fits : k <= n

(* Findings go last, the least severe and the latest first, until it fits. *)
ShedFindings(s, kept, scanners, text) ==
  LET sooner(j, i) == j \in kept /\ (s[j].rank < s[i].rank \/ (s[j].rank = s[i].rank /\ j > i))
      without(n) == kept \ {i \in kept : Cardinality({j \in kept : sooner(j, i)}) < n}
      fits == {n \in 0..Cardinality(kept) :
                 DetailBytes(s, without(n), scanners, text) <= MaxBytes}
  IN  without(IF fits = {} THEN Cardinality(kept) ELSE CHOOSE n \in fits : \A k \in fits : n <= k)

(* The preview is cut first, then the scanner results become a count (one  *)
(* byte here), then findings are shed.                                     *)
Detail(scan) ==
  LET s == scan.findings
      preview == IF scan.text > MaxPreview THEN MaxPreview ELSE scan.text
      capped == CapFindings(s)
      text == FitPreview(s, capped, scan.scanners, preview)
      scanners == IF DetailBytes(s, capped, scan.scanners, text) > MaxBytes
                    THEN 1 ELSE scan.scanners
      kept == ShedFindings(s, capped, scanners, text)
  IN  [kept |-> kept, omitted |-> Len(s) - Cardinality(kept), text |-> text,
       scanners |-> scanners, bytes |-> DetailBytes(s, kept, scanners, text)]
=============================================================================
