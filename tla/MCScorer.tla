------------------------------- MODULE MCScorer ------------------------------
(***************************************************************************)
(* Values for the constants of Scorer: names on both sides of the bounds of *)
(* every check.                                                             *)
(***************************************************************************)
EXTENDS Scorer, TLC

CONSTANTS w1, w2

Chars(s) == [k \in 1 .. Len(s) |-> SubSeq(s, k, k)]

Of(c, n) == [k \in 1 .. n |-> c]

\* n labels of one letter
Deep(n) == [k \in 1 .. 2 * n - 1 |-> IF k % 2 = 1 THEN "a" ELSE "."]

Written ==
    <<"", "com", "googleusercontent.com", "cloud-api.auth.com", "static.mail.com",
      "samsraal.com", "a-b-c-d-e-f.com", "a-b-c.d-e.com", "ln-0007.ln-msedge.net",
      "abcdefghijkl.net", "abcdefghijka.net", "bcdf.net", "bcdfg.net",
      "bbabbeccacc.net", "bbabbaccbcc.net", "aaabb.net", "aaaab.net",
      "1234abc.net", "1234abcd.net", "1234abcdef.net",
      "b1c2d3f4ghjklm567.x", "b1c2d3f4ghjklm567.api.x",
      "b1c2d3f4-ghj-klm-567.api-user.x", "b1c2d3f4-ghj-klm-56-7.x">>

Texts == [k \in DOMAIN Written |-> Chars(Written[k])]
         \o <<Deep(6), Deep(7), Deep(33), Of("x", 63),
              Of("x", 22) \o Chars(".a.x"), Of("x", 21) \o Chars(".a.x")>>

Names == DOMAIN Texts

\* The root, a name, one below it, and one that is flagged
FewNames == {1, 2, 3, 24}

Mixes == SUBSET FewNames \cup {{d} : d \in Names}

Symmetry == Permutations(Worker)
=============================================================================
