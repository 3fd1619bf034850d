-------------------------- MODULE LogicalIndexing --------------------------
(***************************************************************************)
(* MATLAB's s(mask): the elements of s at the positions in mask, in their  *)
(* order, as a loop that appends them one by one would build it.           *)
(***************************************************************************)
EXTENDS Integers, Sequences

Masked(s, mask) ==
  LET upTo[i \in 0 .. Len(s)] ==
        IF i = 0 THEN <<>>
        ELSE IF i \in mask THEN Append(upTo[i - 1], s[i]) ELSE upTo[i - 1]
  IN  upTo[Len(s)]
=============================================================================
