---------------------------- MODULE Subsequence ----------------------------
(* Part of a sequence, in its order. *)
EXTENDS Naturals, Sequences

(* What is left of s when the elements outside keep are lost: SelectSeq for *)
(* a set, as a recursive function, about which one can prove something.     *)
Kept(s, keep) ==
    LET upTo[n \in 0 .. Len(s)] ==
            IF n = 0 THEN << >>
            ELSE IF s[n] \in keep THEN Append(upTo[n - 1], s[n])
            ELSE upTo[n - 1]
    IN  upTo[Len(s)]
=============================================================================
