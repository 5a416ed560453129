--------------------------------- MODULE Lists ---------------------------------
(***************************************************************************)
(* What the loops that go through a list and append what they keep to      *)
(* another one make of it: `if keep(x) { kept = append(kept, x) }`.        *)
(***************************************************************************)
EXTENDS Integers, Sequences

\* The members of s that are in kept, in their order.
Only(s, kept) ==
  LET of[n \in 0..Len(s)] ==
        IF n = 0 THEN <<>> ELSE IF s[n] \in kept THEN Append(of[n - 1], s[n]) ELSE of[n - 1]
  IN of[Len(s)]
=============================================================================
