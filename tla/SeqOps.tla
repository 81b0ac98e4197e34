------------------------------- MODULE SeqOps -------------------------------
(***************************************************************************)
(* What the code does to vectors with iterators: filter, and the loop over *)
(* the elements of all vectors of a vector.  Recursive functions, so that  *)
(* the proof modules can reason about them.                                *)
(***************************************************************************)
EXTENDS Naturals, Sequences

(* The elements of s at the positions in I, in their order. *)
Pick(s, I) ==
    LET pick[n \in 0 .. Len(s)] ==
            IF n = 0 THEN <<>>
            ELSE IF n \in I THEN Append(pick[n - 1], s[n]) ELSE pick[n - 1]
    IN pick[Len(s)]

(* The sequences in ss, one behind the other. *)
Concatenated(ss) ==
    LET cat[n \in 0 .. Len(ss)] == IF n = 0 THEN <<>> ELSE cat[n - 1] \o ss[n]
    IN cat[Len(ss)]
=============================================================================
