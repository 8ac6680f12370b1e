------------------------------- MODULE Filtering -------------------------------
(***************************************************************************)
(* The list comprehension [x for x in seq if x not in gone], with which    *)
(* the dead letters and the settings take entries out of a list.           *)
(***************************************************************************)
EXTENDS Naturals, Sequences

\* What is left of the first n entries is the last entry, if it stays, behind
\* what is left of the others.  (SelectSeq would do for TLC; this form can be
\* unfolded in proofs.)
Dropping(seq, gone) ==
  LET left[n \in 0 .. Len(seq)] ==
        IF n = 0 THEN <<>>
        ELSE IF seq[n] \in gone THEN left[n - 1] ELSE Append(left[n - 1], seq[n])
  IN  left[Len(seq)]

================================================================================
