----------------------------- MODULE MCRadixTree -----------------------------
(***************************************************************************)
(* Values for the constants of RadixTree: three names under one, enough for *)
(* the binary search to go both ways, and names that are only looked up;    *)
(* the statuses meet on the path from <<1>> to <<1, 2>>.                    *)
(***************************************************************************)
EXTENDS RadixTree

Names == {<<1>>, <<1, 1>>, <<1, 2>>, <<1, 3>>, <<1, 2, 1>>, <<2>>}

Rows ==
    ({<<1>>, <<1, 2>>} \X Status) \cup ({<<1, 1>>, <<1, 3>>} \X {"B"})
=============================================================================
