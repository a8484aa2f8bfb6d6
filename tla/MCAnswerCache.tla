---------------------------- MODULE MCAnswerCache ----------------------------
(***************************************************************************)
(* Values for the constants of AnswerCache: windows of two slots that       *)
(* overlap, so that keys compete for slots, vacancies move, and the window  *)
(* of two of the keys can be full of live entries of the others.            *)
(***************************************************************************)
EXTENDS AnswerCache, TLC

CONSTANTS n1, n2, A, AAAA, a1, a2, r1, r2

Keys == {<<n1, A>>, <<n1, AAAA>>, <<n2, A>>}

Overlapping == [k \in Keys |-> IF k[2] = A THEN 0 ELSE 1]

Symmetry == Permutations(Reader) \cup Permutations(Answer)
=============================================================================
