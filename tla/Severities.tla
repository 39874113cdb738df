----------------------------- MODULE Severities -----------------------------
(***************************************************************************)
(* Severities, confidences and locations of findings, and the stable       *)
(* sorting that several components rank them with.                         *)
(***************************************************************************)
EXTENDS Naturals, Sequences, FiniteSets, SequencesExt

Severity == {"info", "low", "medium", "high", "critical"}
Confidence == {"low", "medium", "high"}

SeverityRank(s) ==
    CASE s = "info" -> 0 [] s = "low" -> 1 [] s = "medium" -> 2
      [] s = "high" -> 3 [] s = "critical" -> 4
ConfidenceRank(c) == CASE c = "low" -> 0 [] c = "medium" -> 1 [] c = "high" -> 2

(* Ranges of lines, both ends included. *)
Overlap(a, b) == a.file = b.file /\ a.start <= b.end /\ b.start <= a.end

(* Tuples of numbers in lexicographic order. *)
Precedes(a, b) ==
    \E i \in DOMAIN a : a[i] < b[i] /\ \A j \in 1..(i - 1) : a[j] = b[j]

(* The elements of a set, each once, in some order. *)
Listed(S) == FoldSet(LAMBDA x, seq : Append(seq, x), <<>>, S)

(* sorted(key=...): the positions of s in order of their keys, and those   *)
(* with the same key as they were.                                         *)
SortedPositions(S, Key(_)) ==
    SortSeq(Listed(S), LAMBDA i, j : Precedes(Key(i) \o <<i>>, Key(j) \o <<j>>))
=============================================================================
