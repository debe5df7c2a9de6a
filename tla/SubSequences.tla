---------------------------- MODULE SubSequences -----------------------------
(***************************************************************************)
(* The part of a sequence that the code's append loops keep, the elements  *)
(* that pass a test, in order; and the sums its counting loops have.  The  *)
(* test is a set, so that the lemmas of SequenceProofs can be stated for   *)
(* every test.                                                             *)
(***************************************************************************)
EXTENDS Integers, Sequences

(* The elements of s that are in T, in the order of s.                     *)
Keep(s, T) ==
  LET kept[n \in 0 .. Len(s)] ==
        IF n = 0 THEN <<>> ELSE IF s[n] \in T THEN Append(kept[n - 1], s[n]) ELSE kept[n - 1]
  IN  kept[Len(s)]

(* The sums of the first numbers of f, of all lengths.                     *)
Sums(f) == LET sum[k \in 0 .. Len(f)] == IF k = 0 THEN 0 ELSE sum[k - 1] + f[k] IN sum
=============================================================================
