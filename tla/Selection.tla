------------------------------- MODULE Selection -------------------------------
(***************************************************************************)
(* The subsequence of the members of a set: SelectSeq for a membership     *)
(* test, by a recursive function, which module SelectionProofs reasons     *)
(* about.                                                                  *)
(***************************************************************************)
EXTENDS Naturals, Sequences

Keep(s, T) ==
  LET kept[n \in 0 .. Len(s)] ==
        IF n = 0 THEN << >>
        ELSE IF s[n] \in T THEN Append(kept[n - 1], s[n]) ELSE kept[n - 1]
  IN kept[Len(s)]
=============================================================================
