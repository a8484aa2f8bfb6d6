--------------------------- MODULE RadixTree_proofs ---------------------------
(***************************************************************************)
(* RadixTree, for any names, rows and bounds: the nodes always form a tree   *)
(* whose sorted flags can be believed, the binary search and the sort do     *)
(* what they are there for, a lookup follows the precedence of BlockTree,    *)
(* and every step is, entry by entry, one of BlockTree's.                    *)
(***************************************************************************)
EXTENDS RadixTree, TLAPS, FiniteSetTheorems, SequenceTheorems, WellFoundedInduction

-----------------------------------------------------------------------------
(***************************************************************************)
(* Induction, in a form that names no operator: a set of numbers that holds *)
(* 0 and the successor of what it holds is all of them.                     *)
(***************************************************************************)
LEMMA Least ==
    ASSUME NEW S, S \subseteq Nat, S # {}
    PROVE  \E i \in S : \A j \in S : i <= j
<1> DEFINE R == OpToRel(<, Nat)
<1>1. IsWellFoundedOn(R, Nat)
  BY NatLessThanWellFounded
<1>2. \A x, y \in Nat : x < y => <<x, y>> \in R
  BY DEF OpToRel
<1> HIDE DEF R
<1>3. PICK i \in S : \A j \in S : ~(<<j, i>> \in R)
  BY <1>1, WFMin
<1>4. \A j \in S : i <= j
  <2>1. \A j \in S : j \in Nat /\ i \in Nat /\ ~(j < i)
    BY <1>2, <1>3
  <2> QED
    BY <2>1
<1> QED
  BY <1>4

LEMMA Induction ==
    ASSUME NEW S, 0 \in S, \A n \in Nat : n \in S => n + 1 \in S
    PROVE  \A n \in Nat : n \in S
<1> DEFINE T == Nat \ S
<1>1. SUFFICES ASSUME T # {} PROVE FALSE
  OBVIOUS
<1>2. PICK n \in T : \A m \in T : n <= m
  BY <1>1, Least
<1>3. n - 1 \in Nat /\ n - 1 \notin T
  BY <1>2
<1> QED
  BY <1>2, <1>3

\* A function on 0 .. N may be defined by its first value and by each from the one
\* before.
Iterates(f, a, N, G) == f[0] = a /\ \A n \in 1 .. N : f[n] = G[n][f[n - 1]]

LEMMA Recursion ==
    ASSUME NEW X, NEW a \in X, NEW N \in Nat, NEW G \in [1 .. N -> [X -> X]]
    PROVE  \E f \in [0 .. N -> X] : Iterates(f, a, N, G)
<1> USE DEF Iterates
<1> DEFINE Is(f, k) == Iterates(f, a, k, G)
           S == {k \in Nat : k <= N => \E f \in [0 .. k -> X] : Is(f, k)}
<1>1. 0 \in S
  <2>1. Is([n \in 0 .. 0 |-> a], 0)
    OBVIOUS
  <2> QED
    BY <2>1
<1>2. ASSUME NEW k \in Nat, k \in S PROVE k + 1 \in S
  <2> SUFFICES ASSUME k + 1 <= N PROVE \E f \in [0 .. k + 1 -> X] : Is(f, k + 1)
    OBVIOUS
  <2>1. PICK f \in [0 .. k -> X] : Is(f, k)
    BY <1>2
  <2> DEFINE y == G[k + 1][f[k]]
             g == [n \in 0 .. k + 1 |-> IF n = k + 1 THEN y ELSE f[n]]
  <2>2. y \in X
    BY <2>1
  <2>3. g \in [0 .. k + 1 -> X] /\ g[k + 1] = y /\ \A n \in 0 .. k : g[n] = f[n]
    BY <2>2
  <2> HIDE DEF g
  <2>4. Is(g, k + 1)
    <3>1. g[0] = a
      BY <2>1, <2>3
    <3>2. ASSUME NEW n \in 1 .. k PROVE g[n] = G[n][g[n - 1]]
      BY <2>1, <2>3, <3>2
    <3>3. g[k + 1] = G[k + 1][g[k]]
      BY <2>3
    <3> QED
      BY <3>1, <3>2, <3>3
  <2> QED
    BY <2>3, <2>4
<1> HIDE DEF S
<1>3. N \in S
  BY <1>1, <1>2, Induction
<1> QED
  BY <1>3 DEF S

-----------------------------------------------------------------------------
(***************************************************************************)
(* find_child's binary search.                                              *)
(***************************************************************************)
Bounds(c) == [lo : 0 .. Len(c), hi : 0 .. Len(c)]

Ascending(c) == \A i, j \in DOMAIN c : i < j => c[i] < c[j]

\* A turn of the loop keeps the place of l, and the bounds come closer.
LEMMA TurnOfLoop ==
    ASSUME NEW c \in Seq(Nat), NEW l \in Nat, Ascending(c), NEW b \in Bounds(c)
    PROVE  /\ Narrowed(c, l, b) \in Bounds(c)
           /\ \A i \in DOMAIN c : (c[i] = l /\ b.lo < i /\ i <= b.hi)
                => Narrowed(c, l, b).lo < i /\ i <= Narrowed(c, l, b).hi
           /\ \/ Narrowed(c, l, b) = b /\ (b.lo >= b.hi \/ IsAt(c, l, b))
              \/ Narrowed(c, l, b).hi - Narrowed(c, l, b).lo < b.hi - b.lo
<1>1. CASE b.lo >= b.hi \/ IsAt(c, l, b)
  BY <1>1 DEF Narrowed
<1>2. CASE ~(b.lo >= b.hi \/ IsAt(c, l, b))
  <2> DEFINE m == Mid(b)
  <2>1. b.lo \in Nat /\ b.hi \in 0 .. Len(c) /\ b.lo < b.hi
    BY <1>2 DEF Bounds
  <2>2. m \in b.lo .. b.hi - 1
    BY <2>1 DEF Mid
  <2>3. m + 1 \in DOMAIN c /\ c[m + 1] \in Nat /\ c[m + 1] # l
    BY <1>2, <2>1, <2>2 DEF IsAt
  <2>4. Narrowed(c, l, b) = IF c[m + 1] < l THEN [b EXCEPT !.lo = m + 1]
                            ELSE [b EXCEPT !.hi = m]
    BY <1>2 DEF Narrowed
  <2> HIDE DEF m
  <2>5. CASE c[m + 1] < l
    <3>1. Narrowed(c, l, b) = [b EXCEPT !.lo = m + 1]
      BY <2>4, <2>5
    <3>2. ASSUME NEW i \in DOMAIN c, c[i] = l PROVE m + 1 < i
      <4>1. i \in Nat /\ m + 1 \in Nat /\ c[i] \in Nat
        BY <2>3, <3>2
      <4>2. ~(i < m + 1) /\ i # m + 1
        BY <2>3, <2>5, <3>2, <4>1 DEF Ascending
      <4> QED
        BY <4>1, <4>2
    <3>3. /\ [b EXCEPT !.lo = m + 1].lo = m + 1 /\ [b EXCEPT !.lo = m + 1].hi = b.hi
          /\ [b EXCEPT !.lo = m + 1] \in Bounds(c)
      <4>1. m + 1 \in 0 .. Len(c)
        BY <2>1, <2>2
      <4> QED
        BY <4>1 DEF Bounds
    <3>4. b.hi - (m + 1) < b.hi - b.lo
      BY <2>1, <2>2
    <3> QED
      BY <3>1, <3>2, <3>3, <3>4
  <2>6. CASE ~(c[m + 1] < l)
    <3>1. Narrowed(c, l, b) = [b EXCEPT !.hi = m]
      BY <2>4, <2>6
    <3>2. ASSUME NEW i \in DOMAIN c, c[i] = l PROVE i <= m
      <4>1. i \in Nat /\ m \in Nat /\ c[i] \in Nat
        BY <2>2, <2>1, <3>2
      <4>2. ~(m + 1 < i) /\ i # m + 1
        BY <2>3, <2>6, <3>2, <4>1 DEF Ascending
      <4> QED
        BY <4>1, <4>2
    <3>3. /\ [b EXCEPT !.hi = m].lo = b.lo /\ [b EXCEPT !.hi = m].hi = m
          /\ [b EXCEPT !.hi = m] \in Bounds(c)
      BY <2>1, <2>2 DEF Bounds
    <3>4. m - b.lo < b.hi - b.lo
      BY <2>1, <2>2
    <3> QED
      BY <3>1, <3>2, <3>3, <3>4
  <2> QED
    BY <2>5, <2>6
<1> QED
  BY <1>1, <1>2

\* The bounds of every turn are as the definition says, for any list.
LEMMA BoundsOfLoop ==
    ASSUME NEW c \in Seq(Nat), NEW l \in Nat, Ascending(c)
    PROVE  \E B \in [0 .. Len(c) -> Bounds(c)] :
             /\ B[0] = [lo |-> 0, hi |-> Len(c)]
             /\ \A n \in 1 .. Len(c) : B[n] = Narrowed(c, l, B[n - 1])
             /\ BinarySearch(c, l) <=> IsAt(c, l, B[Len(c)])
<1> DEFINE X == Bounds(c)
           N == Len(c)
           a == [lo |-> 0, hi |-> N]
           G == [n \in 1 .. N |-> [x \in X |-> Narrowed(c, l, x)]]
           Rec(f) == f = [n \in 0 .. N |-> IF n = 0 THEN a ELSE Narrowed(c, l, f[n - 1])]
           B == CHOOSE f : Rec(f)
<1>1. N \in Nat /\ a \in X
  BY DEF Bounds
<1>2. \A n \in 1 .. N, x \in X : G[n][x] = Narrowed(c, l, x) /\ G[n][x] \in X
  BY TurnOfLoop
<1>10. G \in [1 .. N -> [X -> X]]
  BY <1>2
<1> HIDE DEF G, X, N, a
<1>11. PICK f \in [0 .. N -> X] : Iterates(f, a, N, G)
  BY <1>1, <1>10, Recursion
<1>3. f[0] = a /\ \A n \in 1 .. N : f[n] = G[n][f[n - 1]]
  BY <1>11 DEF Iterates
<1>4. f = [n \in 0 .. N |-> IF n = 0 THEN a ELSE Narrowed(c, l, f[n - 1])]
  <2>1. \A n \in 1 .. N : f[n] = Narrowed(c, l, f[n - 1])
    <3> TAKE n \in 1 .. N
    <3>1. n - 1 \in 0 .. N
      BY <1>1
    <3> QED
      BY <1>2, <1>3, <3>1
  <2> QED
    BY <1>1, <1>3, <2>1
<1>5. Rec(B)
  BY <1>4, Zenon
<1>6. BinarySearch(c, l) <=> IsAt(c, l, B[N])
  BY Zenon DEF BinarySearch, N, a
<1> HIDE DEF B
<1>7. B[0] = a /\ \A n \in 1 .. N : B[n] = Narrowed(c, l, B[n - 1])
  BY <1>1, <1>5
<1>8. \A n \in Nat : n \in {k \in Nat : k <= N => B[k] \in X}
  <2> DEFINE S == {k \in Nat : k <= N => B[k] \in X}
  <2>1. 0 \in S
    BY <1>1, <1>7
  <2>2. ASSUME NEW n \in Nat, n \in S PROVE n + 1 \in S
    <3> SUFFICES ASSUME n + 1 <= N PROVE B[n + 1] \in X
      OBVIOUS
    <3>1. B[n] \in X /\ B[n + 1] = Narrowed(c, l, B[n])
      BY <1>1, <1>7, <2>2
    <3> QED
      BY <3>1, TurnOfLoop DEF X
  <2> HIDE DEF S
  <2>3. \A n \in Nat : n \in S
    BY <2>1, <2>2, Induction
  <2> QED
    BY <2>3 DEF S
<1>9. B \in [0 .. N -> X]
  BY <1>5, <1>8
<1> QED
  BY <1>6, <1>7, <1>9 DEF X, N, a

\* The binary search finds what is in an ascending list, and nothing else.
LEMMA StepCloser ==
    ASSUME NEW before \in Int, NEW after \in Int, NEW bound \in Int, NEW n \in Int,
           before <= bound - n, after < before
    PROVE  after <= bound - (n + 1)
OBVIOUS

LEMMA BinarySearchFinds ==
    ASSUME NEW c \in Seq(Nat), NEW l \in Nat, Ascending(c)
    PROVE  BinarySearch(c, l) <=> \E i \in DOMAIN c : c[i] = l
<1> DEFINE N == Len(c)
<1>1. PICK B \in [0 .. N -> Bounds(c)] :
        /\ B[0] = [lo |-> 0, hi |-> N]
        /\ \A n \in 1 .. N : B[n] = Narrowed(c, l, B[n - 1])
        /\ BinarySearch(c, l) <=> IsAt(c, l, B[N])
  BY BoundsOfLoop
<1> DEFINE Done(b) == b.lo >= b.hi \/ IsAt(c, l, b)
           Holds(n) == /\ \A i \in DOMAIN c : c[i] = l => B[n].lo < i /\ i <= B[n].hi
                       /\ Done(B[n]) \/ B[n].hi - B[n].lo <= N - n
           S == {n \in Nat : n <= N => Holds(n)}
<1>2. 0 \in S
  BY <1>1
<1>3. ASSUME NEW n \in Nat, n \in S PROVE n + 1 \in S
  <2> SUFFICES ASSUME n + 1 <= N PROVE Holds(n + 1)
    OBVIOUS
  <2>1. B[n] \in Bounds(c) /\ B[n + 1] = Narrowed(c, l, B[n]) /\ Holds(n)
    <3>1. n \in 0 .. N /\ n + 1 \in 1 .. N
      OBVIOUS
    <3>2. Holds(n)
      BY <1>3, <3>1
    <3>3. B[n + 1] = Narrowed(c, l, B[n + 1 - 1]) /\ n + 1 - 1 = n
      BY <1>1, <3>1
    <3>4. B[n] \in Bounds(c)
      BY <1>1, <3>1
    <3> HIDE DEF Holds
    <3> QED
      BY <3>2, <3>3, <3>4
  <2> DEFINE b == B[n]
             d == Narrowed(c, l, b)
  <2>2. /\ d \in Bounds(c)
        /\ \A i \in DOMAIN c : (c[i] = l /\ b.lo < i /\ i <= b.hi) => d.lo < i /\ i <= d.hi
        /\ \/ d = b /\ Done(b)
           \/ d.hi - d.lo < b.hi - b.lo
    BY <2>1, TurnOfLoop
  <2>3. ASSUME NEW i \in DOMAIN c, c[i] = l PROVE d.lo < i /\ i <= d.hi
    BY <2>1, <2>2, <2>3
  <2>4. Done(d) \/ d.hi - d.lo <= N - (n + 1)
    <3>1. CASE Done(b)
      <4>1. d = b
        BY <3>1 DEF Narrowed
      <4> QED
        BY <3>1, <4>1
    <3>2. CASE ~Done(b)
      <4>1. b.hi - b.lo <= N - n /\ d.hi - d.lo < b.hi - b.lo
        BY <2>1, <2>2, <3>2
      <4> HIDE DEF d, b, Done
      <4>2. b.hi - b.lo \in Int /\ d.hi - d.lo \in Int
        BY <2>1, <2>2 DEF Bounds, b
      <4>3. N \in Int /\ n \in Int
        OBVIOUS
      <4> QED
        BY <4>1, <4>2, <4>3, StepCloser
    <3> QED
      BY <3>1, <3>2
  <2> QED
    BY <2>1, <2>3, <2>4
<1> HIDE DEF S
<1>4. N \in Nat /\ N \in S
  <2>1. \A n \in Nat : n \in S
    BY <1>2, <1>3, Induction
  <2> QED
    BY <2>1
<1>5. Holds(N) /\ B[N] \in Bounds(c)
  BY <1>1, <1>4 DEF S
<1>6. ASSUME NEW i \in DOMAIN c, c[i] = l PROVE IsAt(c, l, B[N])
  <2>1. B[N].lo < i /\ i <= B[N].hi
    BY <1>5, <1>6
  <2> QED
    BY <1>5, <2>1 DEF Bounds
<1>7. ASSUME IsAt(c, l, B[N]) PROVE \E i \in DOMAIN c : c[i] = l
  <2>1. Mid(B[N]) + 1 \in DOMAIN c
    BY <1>5, <1>7 DEF IsAt, Mid, Bounds
  <2> QED
    BY <1>7, <2>1 DEF IsAt
<1> QED
  BY <1>1, <1>6, <1>7

\* So does find_child, whether the children are sorted or not.
LEMMA FindChildFinds ==
    ASSUME NEW n \in NodeType, NEW l \in Nat, Label \subseteq Nat,
           n.sorted => Ascending(n.children)
    PROVE  FindChild(n, l) <=> \E i \in DOMAIN n.children : n.children[i] = l
<1>1. n.children \in Seq(Nat)
  <2>1. n.children \in Seq(Label)
    BY DEF NodeType
  <2> QED
    BY <2>1, SeqMonotonic
<1>2. CASE n.sorted
  BY <1>1, <1>2, BinarySearchFinds DEF FindChild
<1>3. CASE ~n.sorted
  BY <1>3 DEF FindChild
<1> QED
  BY <1>2, <1>3

-----------------------------------------------------------------------------
(***************************************************************************)
(* Paths and their prefixes.                                                *)
(***************************************************************************)
Path == Seq(Nat)

LEMMA PrefixIs ==
    ASSUME NEW p \in Path, NEW i \in 0 .. Len(p)
    PROVE  /\ Prefix(p, i) \in Path /\ Len(Prefix(p, i)) = i
           /\ \A j \in 1 .. i : Prefix(p, i)[j] = p[j]
<1>1. i \in Int /\ \A j \in 1 .. i : p[j] \in Nat
  BY DEF Path
<1>2. /\ SubSeq(p, 1, i) \in Seq(Nat)
      /\ Len(SubSeq(p, 1, i)) = IF 1 <= i THEN i - 1 + 1 ELSE 0
      /\ \A j \in 1 .. i - 1 + 1 : SubSeq(p, 1, i)[j] = p[1 + j - 1]
  BY <1>1, SubSeqProperties
<1>3. \A j \in 1 .. i : SubSeq(p, 1, i)[j] = p[j]
  <2> TAKE j \in 1 .. i
  <2>1. j \in 1 .. i - 1 + 1 /\ 1 + j - 1 = j
    OBVIOUS
  <2> QED
    BY <1>2, <2>1
<1> QED
  BY <1>2, <1>3 DEF Prefix, Path

LEMMA AppendIs ==
    ASSUME NEW p \in Path, NEW l \in Nat
    PROVE  /\ Append(p, l) \in Path /\ Len(Append(p, l)) = Len(p) + 1
           /\ Append(p, l)[Len(p) + 1] = l
           /\ \A j \in 1 .. Len(p) : Append(p, l)[j] = p[j]
BY DEF Path

LEMMA SamePath ==
    ASSUME NEW p \in Path, NEW q \in Path, Len(p) = Len(q),
           \A j \in 1 .. Len(p) : p[j] = q[j]
    PROVE  p = q
BY SeqEqual DEF Path

LEMMA AppendOnce ==
    ASSUME NEW p \in Path, NEW q \in Path, NEW l \in Nat, NEW k \in Nat,
           Append(p, l) = Append(q, k)
    PROVE  p = q /\ l = k
<1>1. Len(p) = Len(q)
  <2>1. Len(p) + 1 = Len(q) + 1 /\ Len(p) \in Nat /\ Len(q) \in Nat
    BY AppendIs DEF Path
  <2> QED
    BY <2>1
<1>2. l = k
  BY <1>1, AppendIs
<1>3. ASSUME NEW j \in 1 .. Len(p) PROVE p[j] = q[j]
  <2>1. Append(p, l)[j] = p[j]
    BY AppendIs
  <2>2. Append(q, k)[j] = q[j]
    BY <1>1, AppendIs
  <2> QED
    BY <2>1, <2>2
<1> QED
  BY <1>1, <1>2, <1>3, SamePath

LEMMA PrefixEnds ==
    ASSUME NEW p \in Path
    PROVE  /\ Len(p) \in Nat
           /\ Prefix(p, 0) = <<>> /\ <<>> \in Path /\ Prefix(p, Len(p)) = p
           /\ p # <<>> => Len(p) > 0
           /\ \A i \in 1 .. Len(p) : p[i] \in Nat
<1>1. Len(p) \in Nat /\ <<>> \in Path /\ Len(<<>>) = 0
  BY EmptySeq DEF Path
<1>2. Prefix(p, 0) = <<>>
  BY <1>1, PrefixIs, SamePath
<1>3. Prefix(p, Len(p)) = p
  BY <1>1, PrefixIs, SamePath
<1>4. p # <<>> => Len(p) > 0
  BY EmptySeq DEF Path
<1>5. \A i \in 1 .. Len(p) : p[i] \in Nat
  BY DEF Path
<1> QED
  BY <1>1, <1>2, <1>3, <1>4, <1>5

LEMMA PrefixGrows ==
    ASSUME NEW p \in Path, NEW i \in 1 .. Len(p)
    PROVE  Append(Prefix(p, i - 1), p[i]) = Prefix(p, i)
<1>0. i \in 0 .. Len(p) /\ i - 1 \in 0 .. Len(p) /\ i - 1 + 1 = i /\ p[i] \in Nat
  BY PrefixEnds
<1> DEFINE a == Prefix(p, i - 1)
           b == Prefix(p, i)
<1>1. /\ a \in Path /\ Len(a) = i - 1
      /\ \A j \in 1 .. i - 1 : a[j] = p[j]
  BY <1>0, PrefixIs
<1>2. /\ b \in Path /\ Len(b) = i
      /\ \A j \in 1 .. i : b[j] = p[j]
  BY <1>0, PrefixIs
<1> HIDE DEF a, b
<1>3. /\ Append(a, p[i]) \in Path /\ Len(Append(a, p[i])) = i
      /\ Append(a, p[i])[i] = p[i]
      /\ \A j \in 1 .. i - 1 : Append(a, p[i])[j] = p[j]
  <2>1. /\ Append(a, p[i]) \in Path /\ Len(Append(a, p[i])) = Len(a) + 1
        /\ Append(a, p[i])[Len(a) + 1] = p[i]
        /\ \A j \in 1 .. Len(a) : Append(a, p[i])[j] = a[j]
    BY <1>0, <1>1, AppendIs, Zenon
  <2>2. Len(a) + 1 = i
    BY <1>0, <1>1
  <2> QED
    BY <1>1, <2>1, <2>2
<1>4. ASSUME NEW j \in 1 .. i PROVE Append(a, p[i])[j] = b[j]
  <2>1. j \in 1 .. i - 1 \/ j = i
    OBVIOUS
  <2>2. b[j] = p[j]
    BY <1>2
  <2> QED
    BY <1>3, <2>1, <2>2
<1>5. Append(a, p[i]) = b
  BY <1>2, <1>3, <1>4, SamePath
<1> QED
  BY <1>5 DEF a, b

-----------------------------------------------------------------------------
(***************************************************************************)
(* The shape of a tree, and what the walk from its root finds.              *)
(***************************************************************************)
Lists(n, l) == \E i \in DOMAIN n.children : n.children[i] = l

Shaped(t) ==
    /\ t \in [DOMAIN t -> NodeType] /\ DOMAIN t \subseteq Path /\ <<>> \in DOMAIN t
    /\ \A q \in DOMAIN t :
         /\ \A i \in DOMAIN t[q].children : Append(q, t[q].children[i]) \in DOMAIN t
         /\ \A i, j \in DOMAIN t[q].children :
              t[q].children[i] = t[q].children[j] => i = j
         /\ t[q].sorted => Ascending(t[q].children)
         /\ t[q].entry # "none" => q \in Name
         /\ q # <<>> => \E o \in DOMAIN t : \E i \in DOMAIN t[o].children :
                          q = Append(o, t[o].children[i])

LEMMA LabelsAreNat == /\ Label \subseteq Nat
                      /\ \A p \in Name : p \in Path /\ p # <<>>
                      /\ \A p \in Name : \A i \in 1 .. Len(p) : p[i] \in Label
<1>1. \A p \in Name : p \in Path /\ p # <<>> /\ DOMAIN p = 1 .. Len(p)
                      /\ \A i \in DOMAIN p : p[i] \in Nat
  BY RadixAssumption DEF Path
<1> QED
  BY <1>1 DEF Label

LEMMA NodeFacts ==
    ASSUME NEW t, Shaped(t), NEW q \in DOMAIN t
    PROVE  /\ q \in Path /\ t[q] \in NodeType
           /\ t[q].children \in Seq(Label) /\ t[q].children \in Seq(Nat)
           /\ \A i \in DOMAIN t[q].children : t[q].children[i] \in Nat
           /\ t[q].sorted => Ascending(t[q].children)
<1>1. q \in Path /\ t[q] \in NodeType /\ (t[q].sorted => Ascending(t[q].children))
  BY DEF Shaped
<1>2. t[q].children \in Seq(Label)
  BY <1>1 DEF NodeType
<1>3. t[q].children \in Seq(Nat)
  BY <1>2, LabelsAreNat, SeqMonotonic
<1>4. \A i \in DOMAIN t[q].children : t[q].children[i] \in Nat
  BY <1>3, LenProperties, ElementOfSeq
<1> QED
  BY <1>1, <1>2, <1>3, <1>4

LEMMA ListedIsNode ==
    ASSUME NEW t, Shaped(t), NEW q \in DOMAIN t, NEW l \in Nat
    PROVE  Append(q, l) \in DOMAIN t <=> Lists(t[q], l)
<1>1. ASSUME Lists(t[q], l) PROVE Append(q, l) \in DOMAIN t
  BY <1>1 DEF Shaped, Lists
<1>2. ASSUME Append(q, l) \in DOMAIN t PROVE Lists(t[q], l)
  <2>1. q \in Path /\ Append(q, l) # <<>>
    <3>1. q \in Path /\ Len(q) \in Nat
      BY NodeFacts, PrefixEnds
    <3>2. Append(q, l) # <<>>
      BY <3>1 DEF Path
    <3> QED
      BY <3>1, <3>2
  <2>2. PICK o \in DOMAIN t : \E i \in DOMAIN t[o].children :
                                 Append(q, l) = Append(o, t[o].children[i])
    BY <1>2, <2>1 DEF Shaped
  <2>3. PICK i \in DOMAIN t[o].children : Append(q, l) = Append(o, t[o].children[i])
    BY <2>2
  <2>4. o \in Path /\ t[o].children[i] \in Nat
    BY <2>3, NodeFacts
  <2>5. q = o /\ l = t[o].children[i]
    BY <2>1, <2>3, <2>4, AppendOnce
  <2> QED
    BY <2>3, <2>5 DEF Lists
<1> QED
  BY <1>1, <1>2

LEMMA FindsNode ==
    ASSUME NEW t, Shaped(t), NEW p \in Path, NEW i \in 1 .. Len(p)
    PROVE  Finds(t, p, i) <=> Prefix(p, i - 1) \in DOMAIN t /\ Prefix(p, i) \in DOMAIN t
<1>1. CASE Prefix(p, i - 1) \notin DOMAIN t
  BY <1>1 DEF Finds
<1>2. CASE Prefix(p, i - 1) \in DOMAIN t
  <2> DEFINE q == Prefix(p, i - 1)
  <2>1. p[i] \in Nat /\ Append(q, p[i]) = Prefix(p, i)
    BY PrefixEnds, PrefixGrows
  <2>2. FindChild(t[q], p[i]) <=> Lists(t[q], p[i])
    BY <1>2, <2>1, NodeFacts, FindChildFinds, LabelsAreNat DEF Lists
  <2>3. Append(q, p[i]) \in DOMAIN t <=> Lists(t[q], p[i])
    BY <1>2, <2>1, ListedIsNode
  <2> QED
    BY <1>2, <2>1, <2>2, <2>3 DEF Finds
<1> QED
  BY <1>1, <1>2

\* No node without the nodes above it.
LEMMA NodesAbove ==
    ASSUME NEW t, Shaped(t), NEW p \in Path, NEW i \in 0 .. Len(p),
           Prefix(p, i) \in DOMAIN t, NEW j \in 0 .. i
    PROVE  Prefix(p, j) \in DOMAIN t
<1> DEFINE S == {n \in Nat : n <= i => Prefix(p, i - n) \in DOMAIN t}
<1>0. Len(p) \in Nat /\ i \in Nat /\ i - 0 = i
  BY PrefixEnds
<1>1. 0 \in S
  BY <1>0
<1>2. ASSUME NEW n \in Nat, n \in S PROVE n + 1 \in S
  <2> SUFFICES ASSUME n + 1 <= i PROVE Prefix(p, i - (n + 1)) \in DOMAIN t
    OBVIOUS
  <2> DEFINE k == i - n
  <2>1. k \in 1 .. Len(p) /\ k \in 0 .. Len(p) /\ k - 1 \in 0 .. Len(p) /\ i - (n + 1) = k - 1
    BY <1>0
  <2>2. Prefix(p, k) \in DOMAIN t
    BY <1>0, <1>2
  <2> HIDE DEF k
  <2>3. Prefix(p, k) = Append(Prefix(p, k - 1), p[k]) /\ p[k] \in Nat
        /\ Prefix(p, k - 1) \in Path
    BY <2>1, PrefixGrows, PrefixEnds, PrefixIs
  <2>4. Prefix(p, k) # <<>>
    BY <2>1, PrefixIs, EmptySeq
  <2>5. PICK o \in DOMAIN t : \E x \in DOMAIN t[o].children :
                                 Prefix(p, k) = Append(o, t[o].children[x])
    BY <2>2, <2>4 DEF Shaped
  <2>6. PICK x \in DOMAIN t[o].children : Prefix(p, k) = Append(o, t[o].children[x])
    BY <2>5
  <2>7. o \in Path /\ t[o].children[x] \in Nat
    BY <2>6, NodeFacts
  <2>8. Prefix(p, k - 1) = o
    BY <2>3, <2>6, <2>7, AppendOnce
  <2> QED
    BY <2>1, <2>8
<1> HIDE DEF S
<1>3. \A n \in Nat : n \in S
  BY <1>1, <1>2, Induction
<1>4. i - j \in Nat /\ i - j <= i /\ i - (i - j) = j
  BY <1>0
<1> QED
  BY <1>3, <1>4 DEF S

\* The walk goes as far down as there are nodes.
LEMMA KnownNodes ==
    ASSUME NEW t, Shaped(t), NEW p \in Path
    PROVE  /\ Known(t, p) \in 0 .. Len(p)
           /\ \A i \in 0 .. Len(p) : Prefix(p, i) \in DOMAIN t <=> i <= Known(t, p)
<1> DEFINE N == Len(p)
           Stops(k) == /\ \A i \in 1 .. k : Finds(t, p, i)
                       /\ k < N => ~Finds(t, p, k + 1)
           S == {k \in 0 .. N : k < N => ~Finds(t, p, k + 1)}
           K == CHOOSE k \in 0 .. N : Stops(k)
<1>0. N \in Nat
  BY PrefixEnds
<1>1. \E k \in 0 .. N : Stops(k)
  <2>1. S \subseteq Nat /\ S # {}
    <3>1. N \in S
      BY <1>0
    <3> QED
      BY <3>1
  <2> HIDE DEF S
  <2>2. PICK k \in S : \A m \in S : k <= m
    BY <2>1, Least
  <2> USE DEF S
  <2>3. ASSUME NEW i \in 1 .. k PROVE Finds(t, p, i)
    <3>1. i - 1 \in 0 .. N /\ i - 1 < N /\ i - 1 < k /\ i - 1 + 1 = i
      BY <1>0, <2>2
    <3>2. i - 1 \notin S
      BY <2>2, <3>1
    <3> QED
      BY <3>1, <3>2
  <2> QED
    BY <2>2, <2>3
<1>2. K \in 0 .. N /\ Stops(K)
  BY <1>1
<1>3. Known(t, p) = K
  BY DEF Known
<1> HIDE DEF K
<1>4. ASSUME NEW i \in 0 .. N, i <= K PROVE Prefix(p, i) \in DOMAIN t
  <2>1. CASE i = 0
    BY <2>1, PrefixEnds DEF Shaped
  <2>2. CASE i # 0
    <3>1. i \in 1 .. K /\ i \in 1 .. N
      BY <1>2, <1>4, <2>2
    <3> QED
      BY <1>2, <3>1, FindsNode
  <2> QED
    BY <2>1, <2>2
<1>5. ASSUME NEW i \in 0 .. N, i > K, Prefix(p, i) \in DOMAIN t PROVE FALSE
  <2>1. /\ K \in 0 .. i /\ K + 1 \in 0 .. i /\ K + 1 \in 1 .. N /\ K < N
        /\ K + 1 - 1 = K
    BY <1>0, <1>2, <1>5
  <2>2. Prefix(p, K) \in DOMAIN t /\ Prefix(p, K + 1) \in DOMAIN t
    BY <1>5, <2>1, NodesAbove
  <2> QED
    BY <1>2, <2>1, <2>2, FindsNode
<1>6. \A i \in 0 .. N : Prefix(p, i) \in DOMAIN t <=> i <= K
  BY <1>0, <1>2, <1>4, <1>5
<1> QED
  BY <1>2, <1>3, <1>6

-----------------------------------------------------------------------------
(***************************************************************************)
(* Insertions keep the shape, also those that fail.                         *)
(***************************************************************************)
LEMMA NewNodeType == NewNode \in NodeType /\ NewNode.children = <<>> /\ NewNode.entry = "none"
<1>1. <<>> \in Seq(Label)
  BY EmptySeq
<1> QED
  BY <1>1 DEF NewNode, NodeType, Entry

LEMMA JustRootShaped == Shaped(JustRoot)
<1>1. DOMAIN JustRoot = {<<>>} /\ JustRoot[<<>>] = NewNode
      /\ JustRoot \in [DOMAIN JustRoot -> NodeType]
  BY NewNodeType DEF JustRoot
<1>2. <<>> \in Path
  BY EmptySeq DEF Path
<1>3. DOMAIN NewNode.children = {}
  BY NewNodeType
<1> QED
  BY <1>1, <1>2, <1>3, NewNodeType DEF Shaped, Ascending

LEMMA SameLinks ==
    ASSUME NEW t, Shaped(t), NEW u \in [DOMAIN t -> NodeType],
           \A q \in DOMAIN t : /\ u[q].children = t[q].children
                               /\ u[q].sorted => t[q].sorted
                               /\ u[q].entry # "none" => q \in Name
    PROVE  Shaped(u)
<1>1. DOMAIN u = DOMAIN t /\ u \in [DOMAIN u -> NodeType]
      /\ DOMAIN u \subseteq Path /\ <<>> \in DOMAIN u
  BY DEF Shaped
<1>2. ASSUME NEW q \in DOMAIN t
      PROVE  /\ \A i \in DOMAIN u[q].children : Append(q, u[q].children[i]) \in DOMAIN t
             /\ \A i, j \in DOMAIN u[q].children :
                  u[q].children[i] = u[q].children[j] => i = j
  BY DEF Shaped
<1>3. ASSUME NEW q \in DOMAIN t
      PROVE  u[q].sorted => Ascending(u[q].children)
  BY DEF Shaped
<1>4. ASSUME NEW q \in DOMAIN t, q # <<>>
      PROVE  \E o \in DOMAIN t : \E i \in DOMAIN u[o].children :
               q = Append(o, u[o].children[i])
  <2>1. PICK o \in DOMAIN t : \E i \in DOMAIN t[o].children :
               q = Append(o, t[o].children[i])
    BY <1>4 DEF Shaped
  <2>2. u[o].children = t[o].children
    OBVIOUS
  <2> QED
    BY <2>1, <2>2
<1>5. \A q \in DOMAIN u :
         /\ \A i \in DOMAIN u[q].children : Append(q, u[q].children[i]) \in DOMAIN u
         /\ \A i, j \in DOMAIN u[q].children :
              u[q].children[i] = u[q].children[j] => i = j
         /\ u[q].sorted => Ascending(u[q].children)
         /\ u[q].entry # "none" => q \in Name
         /\ q # <<>> => \E o \in DOMAIN u : \E i \in DOMAIN u[o].children :
                          q = Append(o, u[o].children[i])
  BY <1>1, <1>2, <1>3, <1>4
<1> QED
  BY <1>1, <1>5 DEF Shaped

LEMMA UnsortedShaped ==
    ASSUME NEW t, Shaped(t), NEW o \in DOMAIN t
    PROVE  Shaped([t EXCEPT ![o].sorted = FALSE])
<1> DEFINE u == [t EXCEPT ![o].sorted = FALSE]
<1>1. t \in [DOMAIN t -> NodeType]
  BY DEF Shaped
<1>2. u \in [DOMAIN t -> NodeType]
  BY <1>1 DEF NodeType
<1>3. ASSUME NEW q \in DOMAIN t
      PROVE  /\ u[q].children = t[q].children
             /\ u[q].sorted => t[q].sorted
             /\ u[q].entry = t[q].entry
  <2>1. CASE q = o
    <3>1. u[q] = [t[o] EXCEPT !.sorted = FALSE] /\ t[o] \in NodeType
      BY <1>1, <2>1
    <3> QED
      BY <2>1, <3>1 DEF NodeType
  <2>2. CASE q # o
    <3>1. u[q] = t[q]
      BY <1>1, <2>2
    <3> QED
      BY <3>1
  <2> QED
    BY <2>1, <2>2
<1> HIDE DEF u
<1>4. \A q \in DOMAIN t : t[q].entry # "none" => q \in Name
  BY DEF Shaped
<1>5. Shaped(u)
  BY <1>2, <1>3, <1>4, SameLinks
<1> QED
  BY <1>5 DEF u

LEMMA EntryShaped ==
    ASSUME NEW t, Shaped(t), NEW o \in DOMAIN t, o \in Name, NEW e \in Entry
    PROVE  Shaped([t EXCEPT ![o].entry = e])
<1> DEFINE u == [t EXCEPT ![o].entry = e]
<1>1. t \in [DOMAIN t -> NodeType]
  BY DEF Shaped
<1>2. u \in [DOMAIN t -> NodeType]
  BY <1>1 DEF NodeType
<1>3. ASSUME NEW q \in DOMAIN t
      PROVE  /\ u[q].children = t[q].children
             /\ u[q].sorted = t[q].sorted
             /\ q = o \/ u[q].entry = t[q].entry
  <2>1. CASE q = o
    <3>1. u[q] = [t[o] EXCEPT !.entry = e] /\ t[o] \in NodeType
      BY <1>1, <2>1
    <3> QED
      BY <2>1, <3>1 DEF NodeType
  <2>2. CASE q # o
    <3>1. u[q] = t[q]
      BY <1>1, <2>2
    <3> QED
      BY <3>1
  <2> QED
    BY <2>1, <2>2
<1> HIDE DEF u
<1>4. \A q \in DOMAIN t : t[q].entry # "none" => q \in Name
  BY DEF Shaped
<1>5. Shaped(u)
  BY <1>2, <1>3, <1>4, SameLinks
<1> QED
  BY <1>5 DEF u

LEMMA AppendChildIs ==
    ASSUME NEW n \in NodeType, NEW l \in Label
    PROVE  LET a == AppendChild(n, l)
               N == Len(n.children)
           IN  /\ a \in NodeType /\ a.entry = n.entry /\ a.sorted = FALSE
               /\ N \in Nat /\ DOMAIN n.children = 1 .. N /\ DOMAIN a.children = 1 .. N + 1
               /\ a.children[N + 1] = l /\ \A i \in 1 .. N : a.children[i] = n.children[i]
<1> DEFINE a == AppendChild(n, l)
           c == n.children
<1>1. c \in Seq(Label) /\ n.entry \in Entry
  BY DEF NodeType
<1>2. /\ Append(c, l) \in Seq(Label) /\ Len(c) \in Nat
      /\ DOMAIN c = 1 .. Len(c) /\ DOMAIN Append(c, l) = 1 .. Len(c) + 1
      /\ Append(c, l)[Len(c) + 1] = l /\ \A i \in 1 .. Len(c) : Append(c, l)[i] = c[i]
  BY <1>1
<1>3. a.children = Append(c, l) /\ a.sorted = FALSE /\ a.entry = n.entry
  BY DEF AppendChild, NodeType
<1>4. a \in NodeType
  BY <1>1, <1>2 DEF AppendChild, NodeType
<1> QED
  BY <1>2, <1>3, <1>4

\* The new nodes of a path: what becomes of each node, old and new.
LEMMA WithPathNodes ==
    ASSUME NEW t, Shaped(t), NEW p \in Name, Known(t, p) < Len(p)
    PROVE  LET u == WithPath(t, p)
               k == Known(t, p)
           IN  /\ DOMAIN u = DOMAIN t \cup {Prefix(p, i) : i \in k + 1 .. Len(p)}
               /\ \A q \in DOMAIN t : q # Prefix(p, k) => u[q] = t[q]
               /\ Prefix(p, k) \in DOMAIN t
               /\ u[Prefix(p, k)] = AppendChild(t[Prefix(p, k)], p[k + 1])
               /\ \A i \in k + 1 .. Len(p) - 1 :
                    Prefix(p, i) \notin DOMAIN t
                    /\ u[Prefix(p, i)] = AppendChild(NewNode, p[i + 1])
               /\ p \notin DOMAIN t /\ u[p] = NewNode
<1> DEFINE u == WithPath(t, p)
           k == Known(t, p)
           N == Len(p)
           Made(q) == IF q \in DOMAIN t THEN t[q] ELSE NewNode
           Parents == {Prefix(p, i) : i \in k .. N - 1}
           Nodes == DOMAIN t \cup {Prefix(p, i) : i \in k .. N}
<1>0. p \in Path /\ N \in Nat /\ Prefix(p, N) = p
  BY LabelsAreNat, PrefixEnds
<1>1. /\ k \in 0 .. N /\ k < N
      /\ \A i \in 0 .. N : Prefix(p, i) \in DOMAIN t <=> i <= k
  BY <1>0, KnownNodes
<1>2. u = [q \in Nodes |-> IF q \in Parents THEN AppendChild(Made(q), p[Len(q) + 1])
                           ELSE Made(q)]
  BY DEF WithPath
<1> HIDE DEF u, k
<1>3. \A i \in 0 .. N : Len(Prefix(p, i)) = i
  BY <1>0, PrefixIs
<1>4. Prefix(p, k) \in DOMAIN t
  BY <1>0, <1>1
<1>5. \A i \in k + 1 .. N : i \in 0 .. N /\ Prefix(p, i) \notin DOMAIN t
  BY <1>0, <1>1
<1>6. DOMAIN u = DOMAIN t \cup {Prefix(p, i) : i \in k + 1 .. N}
  <2>1. \A i \in k .. N : i = k \/ i \in k + 1 .. N
    BY <1>0, <1>1
  <2>2. \A i \in k + 1 .. N : i \in k .. N
    BY <1>0, <1>1
  <2>3. DOMAIN u = Nodes
    BY <1>2
  <2> QED
    BY <1>4, <2>1, <2>2, <2>3
<1>7. \A q \in DOMAIN t : q # Prefix(p, k) => u[q] = t[q]
  <2>1. \A i \in k .. N - 1 : i = k \/ i \in k + 1 .. N
    BY <1>0, <1>1
  <2>2. \A q \in DOMAIN t : q # Prefix(p, k) => q \notin Parents
    BY <1>5, <2>1
  <2> QED
    BY <1>2, <2>2
<1>8. ASSUME NEW i \in k .. N - 1
      PROVE  u[Prefix(p, i)] = AppendChild(Made(Prefix(p, i)), p[i + 1])
  <2>1. i \in 0 .. N /\ i \in k .. N
    BY <1>0, <1>1
  <2>2. Prefix(p, i) \in Parents /\ Prefix(p, i) \in Nodes /\ Len(Prefix(p, i)) = i
    BY <1>3, <2>1
  <2> HIDE DEF Made, Parents, Nodes
  <2> QED
    BY <1>2, <2>2
<1>9. u[Prefix(p, k)] = AppendChild(t[Prefix(p, k)], p[k + 1])
  <2>1. k \in k .. N - 1
    BY <1>0, <1>1
  <2>2. Made(Prefix(p, k)) = t[Prefix(p, k)]
    BY <1>4
  <2> HIDE DEF Made
  <2> QED
    BY <1>8, <2>1, <2>2
<1>10. ASSUME NEW i \in k + 1 .. N - 1
       PROVE  Prefix(p, i) \notin DOMAIN t /\ u[Prefix(p, i)] = AppendChild(NewNode, p[i + 1])
  <2>1. i \in k .. N - 1 /\ i \in k + 1 .. N
    BY <1>0, <1>1
  <2>2. Prefix(p, i) \notin DOMAIN t
    BY <1>5, <2>1
  <2>3. Made(Prefix(p, i)) = NewNode
    BY <2>2
  <2> HIDE DEF Made
  <2> QED
    BY <1>8, <2>1, <2>2, <2>3
<1>11. p \notin DOMAIN t /\ u[p] = NewNode
  <2>1. N \in k + 1 .. N /\ N \in k .. N
    BY <1>0, <1>1
  <2>2. p \notin DOMAIN t /\ p \in Nodes
    BY <1>0, <1>5, <2>1
  <2>3. p \notin Parents
    <3>1. \A i \in k .. N - 1 : i \in 0 .. N /\ i # N
      BY <1>0, <1>1
    <3>2. \A i \in k .. N - 1 : Len(Prefix(p, i)) # N
      BY <1>3, <3>1
    <3> QED
      BY <3>2
  <2> QED
    BY <1>2, <2>2, <2>3
<1> QED
  BY <1>4, <1>6, <1>7, <1>9, <1>10, <1>11 DEF u, k

LEMMA WithPathShaped ==
    ASSUME NEW t, Shaped(t), NEW p \in Name
    PROVE  LET u == WithPath(t, p)
           IN  /\ Shaped(u) /\ p \in DOMAIN u /\ DOMAIN t \subseteq DOMAIN u
               /\ \A q \in DOMAIN u :
                    u[q].entry = IF q \in DOMAIN t THEN t[q].entry ELSE "none"
<1> DEFINE u == WithPath(t, p)
           k == Known(t, p)
           N == Len(p)
<1>0. p \in Path /\ N \in Nat /\ Prefix(p, N) = p /\ t \in [DOMAIN t -> NodeType]
  BY LabelsAreNat, PrefixEnds DEF Shaped
<1>1. k \in 0 .. N /\ \A i \in 0 .. N : Prefix(p, i) \in DOMAIN t <=> i <= k
  BY <1>0, KnownNodes
<1>2. CASE k = N
  <2>1. p \in DOMAIN t
    BY <1>0, <1>1, <1>2
  <2>2. \A q : q \notin {Prefix(p, i) : i \in k .. N - 1}
    BY <1>0, <1>2
  <2>3. \A i \in k .. N : Prefix(p, i) = p
    BY <1>0, <1>2
  <2>4. DOMAIN t \cup {Prefix(p, i) : i \in k .. N} = DOMAIN t
    BY <2>1, <2>3
  <2>5. u = [q \in DOMAIN t |-> t[q]]
    BY <2>2, <2>4 DEF WithPath
  <2>6. u = t
    BY <1>0, <2>5
  <2> HIDE DEF u
  <2> QED
    BY <2>1, <2>6 DEF u
<1>3. CASE k < N
  <2> DEFINE top == Prefix(p, k)
             New == {Prefix(p, i) : i \in k + 1 .. N}
  <2>1. /\ DOMAIN u = DOMAIN t \cup New
        /\ \A q \in DOMAIN t : q # top => u[q] = t[q]
        /\ top \in DOMAIN t
        /\ u[top] = AppendChild(t[top], p[k + 1])
        /\ \A i \in k + 1 .. N - 1 :
             Prefix(p, i) \notin DOMAIN t /\ u[Prefix(p, i)] = AppendChild(NewNode, p[i + 1])
        /\ p \notin DOMAIN t /\ u[p] = NewNode
    BY <1>3, WithPathNodes, Zenon
  <2>2. u = [q \in DOMAIN u |-> u[q]]
    BY DEF WithPath
  <2> HIDE DEF u, k
  <2>3. \A i \in 1 .. N : p[i] \in Label /\ p[i] \in Nat
    BY <1>0, LabelsAreNat, PrefixEnds
  <2>4. k + 1 \in 1 .. N /\ k + 1 - 1 = k /\ top \in Path /\ k \in Nat
    BY <1>0, <1>1, <1>3, PrefixIs
  <2> DEFINE c == t[top].children
             m == Len(c)
             d == u[top].children
  <2>5. /\ u[top] \in NodeType /\ u[top].entry = t[top].entry /\ ~u[top].sorted
        /\ m \in Nat /\ DOMAIN c = 1 .. m /\ DOMAIN d = 1 .. m + 1
        /\ d[m + 1] = p[k + 1] /\ \A i \in 1 .. m : d[i] = c[i]
    <3> DEFINE l == p[k + 1]
               n == t[top]
               a == AppendChild(n, l)
    <3>1. n \in NodeType /\ l \in Label
      BY <1>0, <2>1, <2>3, <2>4
    <3>2. u[top] = a
      BY <2>1
    <3> HIDE DEF l, n, a, top
    <3>3. /\ a \in NodeType /\ a.entry = n.entry /\ a.sorted = FALSE
          /\ Len(n.children) \in Nat /\ DOMAIN n.children = 1 .. Len(n.children)
          /\ DOMAIN a.children = 1 .. Len(n.children) + 1
          /\ a.children[Len(n.children) + 1] = l
          /\ \A i \in 1 .. Len(n.children) : a.children[i] = n.children[i]
      BY <3>1, AppendChildIs DEF a
    <3> QED
      BY <3>2, <3>3 DEF n, l
  <2>6. Append(top, p[k + 1]) = Prefix(p, k + 1)
    <3>1. \A i \in 1 .. N : Append(Prefix(p, i - 1), p[i]) = Prefix(p, i)
      BY <1>0, PrefixGrows
    <3> DEFINE i == k + 1
    <3>2. i \in 1 .. N /\ i - 1 = k
      BY <2>4
    <3> HIDE DEF i
    <3>3. Append(top, p[i]) = Prefix(p, i)
      BY <3>1, <3>2
    <3> QED
      BY <3>3 DEF i
  <2>7. Prefix(p, k + 1) \in New /\ Prefix(p, k + 1) \notin DOMAIN t
    BY <1>0, <1>1, <1>3
  \* A node in the middle of the new part has one child, its last has none.
  <2>8. ASSUME NEW i \in k + 1 .. N - 1
        PROVE  LET q == Prefix(p, i)
               IN  /\ q \notin DOMAIN t
                   /\ u[q] \in NodeType /\ u[q].entry = "none" /\ ~u[q].sorted
                   /\ DOMAIN u[q].children = {1} /\ u[q].children[1] = p[i + 1]
                   /\ Append(q, p[i + 1]) = Prefix(p, i + 1)
                   /\ Prefix(p, i + 1) \in New
    <3> DEFINE q == Prefix(p, i)
               a == AppendChild(NewNode, p[i + 1])
    <3>1. i + 1 \in 1 .. N /\ i + 1 - 1 = i /\ i + 1 \in k + 1 .. N
      BY <1>0, <2>4
    <3>2. /\ a \in NodeType /\ a.entry = "none" /\ a.sorted = FALSE
          /\ Len(NewNode.children) = 0 /\ DOMAIN a.children = 1 .. 0 + 1
          /\ a.children[0 + 1] = p[i + 1]
      BY <2>3, <3>1, NewNodeType, AppendChildIs, EmptySeq
    <3>3. 1 .. 0 + 1 = {1} /\ 0 + 1 = 1
      OBVIOUS
    <3>4. u[q] = a /\ q \notin DOMAIN t
      BY <2>1
    <3>5. Append(q, p[i + 1]) = Prefix(p, i + 1)
      BY <1>0, <3>1, PrefixGrows
    <3> HIDE DEF a
    <3> QED
      BY <3>1, <3>2, <3>3, <3>4, <3>5
  <2>9. /\ u[p] \in NodeType /\ u[p].entry = "none"
        /\ DOMAIN u[p].children = {}
    BY <2>1, NewNodeType
  \* So a node is one of four.
  <2>10. \A q \in DOMAIN u :
            \/ q \in DOMAIN t /\ q # top /\ u[q] = t[q]
            \/ q = top
            \/ \E i \in k + 1 .. N - 1 : q = Prefix(p, i)
            \/ q = p
    <3>1. \A i \in k + 1 .. N : i = N \/ i \in k + 1 .. N - 1
      BY <1>0, <2>4
    <3> QED
      BY <1>0, <2>1, <3>1
  <2>11. u \in [DOMAIN u -> NodeType]
    <3>1. \A q \in DOMAIN t : t[q] \in NodeType
      BY <1>0
    <3>2. \A q \in DOMAIN u : u[q] \in NodeType
      BY <2>5, <2>8, <2>9, <2>10, <3>1
    <3> QED
      BY <2>2, <3>2
  <2>12. DOMAIN u \subseteq Path /\ <<>> \in DOMAIN u
    <3>1. \A i \in k + 1 .. N : i \in 0 .. N
      BY <1>0, <2>4
    <3>2. \A i \in k + 1 .. N : Prefix(p, i) \in Path
      BY <1>0, <3>1, PrefixIs
    <3> QED
      BY <2>1, <3>2 DEF Shaped
  <2>13. ASSUME NEW q \in DOMAIN u
         PROVE  /\ \A i \in DOMAIN u[q].children : Append(q, u[q].children[i]) \in DOMAIN u
                /\ \A i, j \in DOMAIN u[q].children :
                     u[q].children[i] = u[q].children[j] => i = j
                /\ u[q].sorted => Ascending(u[q].children)
    <3>1. CASE q \in DOMAIN t /\ q # top /\ u[q] = t[q]
      BY <2>1, <3>1 DEF Shaped
    <3>2. CASE q = top
      <4>1. \A i \in 1 .. m : Append(top, c[i]) \in DOMAIN t /\ c[i] \in Nat
        BY <2>1, <2>5, NodeFacts DEF Shaped
      <4>2. \A i \in 1 .. m : c[i] # p[k + 1]
        BY <2>6, <2>7, <4>1
      <4>3. \A i, j \in 1 .. m : c[i] = c[j] => i = j
        BY <2>1, <2>5 DEF Shaped
      <4> HIDE DEF c, m, d
      <4>4. \A i \in 1 .. m + 1 : i \in 1 .. m \/ i = m + 1
        BY <2>5
      <4>5. \A i \in 1 .. m + 1 : Append(top, d[i]) \in DOMAIN u
        BY <2>1, <2>5, <2>6, <2>7, <4>1, <4>4
      <4>6. \A i, j \in 1 .. m + 1 : d[i] = d[j] => i = j
        BY <2>5, <4>2, <4>3, <4>4
      <4>7. DOMAIN u[top].children = 1 .. m + 1 /\ u[top].children = d /\ ~u[top].sorted
        BY <2>5 DEF d
      <4> QED
        BY <3>2, <4>5, <4>6, <4>7
    <3>3. CASE \E i \in k + 1 .. N - 1 : q = Prefix(p, i)
      <4>1. PICK i \in k + 1 .. N - 1 : q = Prefix(p, i)
        BY <3>3
      <4>2. /\ ~u[q].sorted /\ DOMAIN u[q].children = {1} /\ u[q].children[1] = p[i + 1]
            /\ Append(q, p[i + 1]) \in New
        BY <2>8, <4>1
      <4>3. Append(q, p[i + 1]) \in DOMAIN u
        BY <2>1, <4>2
      <4> QED
        BY <4>2, <4>3
    <3>4. CASE q = p
      BY <2>9, <3>4 DEF Ascending
    <3> QED
      BY <2>10, <3>1, <3>2, <3>3, <3>4
  <2>14. ASSUME NEW q \in DOMAIN u
         PROVE  u[q].entry = IF q \in DOMAIN t THEN t[q].entry ELSE "none"
    BY <2>1, <2>5, <2>8, <2>9, <2>10
  <2>15. \A q \in DOMAIN u : u[q].entry # "none" => q \in Name
    BY <2>14 DEF Shaped
  <2>16. ASSUME NEW q \in DOMAIN t, NEW i \in DOMAIN t[q].children
         PROVE  i \in DOMAIN u[q].children /\ u[q].children[i] = t[q].children[i]
    <3>1. CASE q = top
      <4> HIDE DEF c, m, d
      <4>1. i \in 1 .. m
        BY <2>5, <2>16, <3>1 DEF c
      <4>2. i \in 1 .. m + 1 /\ d[i] = c[i]
        BY <2>5, <4>1
      <4> QED
        BY <2>5, <3>1, <4>2 DEF c, d
    <3>2. CASE q # top
      BY <2>1, <3>2
    <3> QED
      BY <3>1, <3>2
  <2>17. ASSUME NEW q \in DOMAIN u, q # <<>>
         PROVE  \E o \in DOMAIN u : \E i \in DOMAIN u[o].children :
                  q = Append(o, u[o].children[i])
    <3>1. CASE q \in DOMAIN t
      <4>1. PICK o \in DOMAIN t : \E i \in DOMAIN t[o].children :
                                    q = Append(o, t[o].children[i])
        BY <2>17, <3>1 DEF Shaped
      <4>2. PICK i \in DOMAIN t[o].children : q = Append(o, t[o].children[i])
        BY <4>1
      <4>3. o \in DOMAIN u /\ i \in DOMAIN u[o].children /\ q = Append(o, u[o].children[i])
        BY <2>1, <2>16, <4>2
      <4> QED
        BY <4>3
    <3>2. CASE q = Prefix(p, k + 1)
      <4>1. m + 1 \in DOMAIN u[top].children /\ q = Append(top, u[top].children[m + 1])
        BY <2>5, <2>6, <3>2
      <4>2. top \in DOMAIN u
        BY <2>1
      <4> HIDE DEF top, m
      <4> QED
        BY <4>1, <4>2
    <3>3. ASSUME NEW i \in k + 2 .. N, q = Prefix(p, i)
          PROVE  \E o \in DOMAIN u : \E j \in DOMAIN u[o].children :
                   q = Append(o, u[o].children[j])
      <4>1. i - 1 \in k + 1 .. N - 1 /\ i - 1 + 1 = i /\ i - 1 \in k + 1 .. N
        BY <1>0, <2>4
      <4>2. /\ 1 \in DOMAIN u[Prefix(p, i - 1)].children
            /\ q = Append(Prefix(p, i - 1), u[Prefix(p, i - 1)].children[1])
        BY <2>8, <3>3, <4>1
      <4>3. Prefix(p, i - 1) \in DOMAIN u
        BY <2>1, <4>1
      <4> QED
        BY <4>2, <4>3
    <3>4. \A i \in k + 1 .. N : i = k + 1 \/ i \in k + 2 .. N
      BY <1>0, <2>4
    <3> QED
      BY <2>1, <3>1, <3>2, <3>3, <3>4
  <2>18. Shaped(u)
    BY <2>11, <2>12, <2>13, <2>15, <2>17, Zenon DEF Shaped
  <2>19. p \in DOMAIN u /\ DOMAIN t \subseteq DOMAIN u
    <3>1. N \in k + 1 .. N
      BY <1>0, <1>3, <2>4
    <3> QED
      BY <1>0, <2>1, <3>1
  <2> QED
    BY <2>14, <2>18, <2>19 DEF u
<1> QED
  BY <1>0, <1>1, <1>2, <1>3

-----------------------------------------------------------------------------
(***************************************************************************)
(* What an insertion does, entry by entry, is what BlockTree says.          *)
(***************************************************************************)
LEMMA OnOwnPath == \A p \in Name : IsOnPath(p, p)
<1> TAKE p \in Name
<1>1. p \in Path /\ Len(p) \in Nat /\ Prefix(p, Len(p)) = p
  BY LabelsAreNat, PrefixEnds
<1> QED
  BY <1>1 DEF IsOnPath

LEMMA AbstractInsert ==
    ASSUME NEW f, NEW p \in Name, NEW s, NEW e, e = s \/ e = f[p] \/ e = "none"
    PROVE  \E o \in BT!InsertLive(f, p, s) : o.tree = [f EXCEPT ![p] = e]
<1>1. BT!Insertable(p)
  BY OnOwnPath DEF BT!Insertable
<1>2. BT!AfterFailedInsert(f[p]) = {f[p], "none"}
  BY DEF BT!AfterFailedInsert
<1>3. CASE e = s
  <2>1. [tree |-> [f EXCEPT ![p] = s], ok |-> TRUE] \in BT!InsertLive(f, p, s)
    BY <1>1 DEF BT!InsertLive
  <2> QED
    BY <1>3, <2>1
<1>4. CASE e = f[p] \/ e = "none"
  <2>1. [tree |-> [f EXCEPT ![p] = e], ok |-> FALSE] \in BT!InsertLive(f, p, s)
    BY <1>1, <1>2, <1>4 DEF BT!InsertLive
  <2> QED
    BY <2>1
<1> QED
  BY <1>3, <1>4

\* u says of the names what t does, but for p.
Becomes(t, u, p, e) == \A q \in Name : Flat(u)[q] = IF q = p THEN e ELSE Flat(t)[q]

LEMMA InsertOutcome ==
    ASSUME NEW t, Shaped(t), NEW p \in Name, NEW s \in Status, NEW u \in InsertPath(t, p, s)
    PROVE  /\ Shaped(u)
           /\ \E o \in BT!InsertLive(Flat(t), p, s) : Flat(u) = o.tree
<1> DEFINE k == Known(t, p)
<1>0. p \in Path /\ Len(p) \in Nat /\ Prefix(p, Len(p)) = p
  BY LabelsAreNat, PrefixEnds
<1>1. k \in 0 .. Len(p) /\ \A i \in 0 .. Len(p) : Prefix(p, i) \in DOMAIN t <=> i <= k
  BY <1>0, KnownNodes
<1>2. t \in [DOMAIN t -> NodeType]
  BY DEF Shaped
<1>3. SUFFICES Shaped(u) /\ \E e : /\ (e = s \/ e = Flat(t)[p] \/ e = "none")
                                   /\ Becomes(t, u, p, e)
  <2>1. PICK e : (e = s \/ e = Flat(t)[p] \/ e = "none") /\ Becomes(t, u, p, e)
    BY <1>3
  <2>2. Flat(u) = [Flat(t) EXCEPT ![p] = e]
    BY <2>1 DEF Flat, Becomes
  <2> DEFINE f == Flat(t)
  <2>3. e = s \/ e = f[p] \/ e = "none"
    BY <2>1
  <2> HIDE DEF f
  <2>4. PICK o \in BT!InsertLive(f, p, s) : o.tree = [f EXCEPT ![p] = e]
    BY <2>3, AbstractInsert
  <2> QED
    BY <1>3, <2>2, <2>4 DEF f
<1>4. CASE u = Inserted(t, p, s)
  <2> DEFINE w == WithPath(t, p)
  <2>1. /\ Shaped(w) /\ p \in DOMAIN w /\ DOMAIN t \subseteq DOMAIN w
        /\ \A q \in DOMAIN w : w[q].entry = IF q \in DOMAIN t THEN t[q].entry ELSE "none"
    BY WithPathShaped
  <2>2. u = [w EXCEPT ![p].entry = s] /\ s \in Entry
    BY <1>4 DEF Inserted, Entry
  <2> HIDE DEF w
  <2>3. Shaped(u)
    BY <2>1, <2>2, EntryShaped
  <2>4. DOMAIN u = DOMAIN w /\ w[p] \in NodeType
    BY <2>1, <2>2 DEF Shaped
  <2>5. \A q \in DOMAIN w : u[q].entry = IF q = p THEN s ELSE w[q].entry
    BY <2>1, <2>2, <2>4 DEF NodeType
  <2>6. ASSUME NEW q \in Name PROVE Flat(u)[q] = IF q = p THEN s ELSE Flat(t)[q]
    BY <2>1, <2>4, <2>5 DEF Flat
  <2>7. Becomes(t, u, p, s)
    BY <2>6 DEF Becomes
  <2> QED
    BY <2>3, <2>7
<1>5. CASE u = t
  <2>1. \A q \in Name : Flat(u)[q] = IF q = p THEN Flat(t)[p] ELSE Flat(t)[q]
    BY <1>5
  <2>2. Becomes(t, u, p, Flat(t)[p])
    BY <2>1 DEF Becomes
  <2> QED
    BY <1>5, <2>2
<1>6. CASE k < Len(p) /\ u = [t EXCEPT ![Prefix(p, k)].sorted = FALSE]
  <2> DEFINE top == Prefix(p, k)
  <2>1. top \in DOMAIN t
    BY <1>1
  <2>2. u = [t EXCEPT ![top].sorted = FALSE]
    BY <1>6
  <2> HIDE DEF top
  <2>3. Shaped(u)
    BY <2>1, <2>2, UnsortedShaped
  <2>4. DOMAIN u = DOMAIN t /\ \A q \in DOMAIN t : u[q].entry = t[q].entry
    BY <1>2, <2>1, <2>2 DEF NodeType
  <2>5. ASSUME NEW q \in Name PROVE Flat(u)[q] = IF q = p THEN Flat(t)[p] ELSE Flat(t)[q]
    BY <2>4 DEF Flat
  <2>6. Becomes(t, u, p, Flat(t)[p])
    BY <2>5 DEF Becomes
  <2> QED
    BY <2>3, <2>6
<1>7. CASE ~(k < Len(p)) /\ u = [t EXCEPT ![p].entry = "none"]
  <2>1. p \in DOMAIN t
    BY <1>0, <1>1, <1>7
  <2>2. "none" \in Entry
    BY DEF Entry
  <2>3. Shaped(u)
    BY <1>7, <2>1, <2>2, EntryShaped
  <2>4. DOMAIN u = DOMAIN t
        /\ \A q \in DOMAIN t : u[q].entry = IF q = p THEN "none" ELSE t[q].entry
    BY <1>2, <1>7, <2>1 DEF NodeType
  <2>5. ASSUME NEW q \in Name PROVE Flat(u)[q] = IF q = p THEN "none" ELSE Flat(t)[q]
    BY <2>4 DEF Flat
  <2>6. Becomes(t, u, p, "none")
    BY <2>5 DEF Becomes
  <2> QED
    BY <2>3, <2>6
<1> QED
  BY <1>4, <1>5, <1>6, <1>7 DEF InsertPath, InsertFailed

-----------------------------------------------------------------------------
(***************************************************************************)
(* The sort puts children in order and loses none.                          *)
(***************************************************************************)
Distinct(c) == \A i, j \in DOMAIN c : c[i] = c[j] => i = j

\* Of some places of c that are left, one has the least label.
LEMMA LeastLabel ==
    ASSUME NEW c, NEW S, S # {}, \A i \in S : c[i] \in Nat
    PROVE  \E i \in S : \A j \in S : c[i] <= c[j]
<1> DEFINE T == {c[i] : i \in S}
<1>1. T \subseteq Nat /\ T # {}
  OBVIOUS
<1>2. PICK x \in T : \A y \in T : x <= y
  BY <1>1, Least
<1>3. PICK i \in S : c[i] = x
  BY <1>2
<1>4. \A j \in S : c[i] <= c[j]
  BY <1>2, <1>3
<1> QED
  BY <1>4

\* A list of n places of N, with n < N, leaves one out.
LEMMA PlaceLeft ==
    ASSUME NEW n \in Nat, NEW N \in Nat, n < N, NEW d \in [1 .. n -> 1 .. N]
    PROVE  \E x \in 1 .. N : \A i \in 1 .. n : d[i] # x
<1> SUFFICES ASSUME \A x \in 1 .. N : \E i \in 1 .. n : d[i] = x PROVE FALSE
  OBVIOUS
<1>1. d \in Surjection(1 .. n, 1 .. N)
  BY DEF Surjection
<1>2. ExistsSurjection(1 .. n, 1 .. N)
  BY <1>1 DEF ExistsSurjection
<1>3. Cardinality(1 .. N) <= n
  BY <1>2, FS_SurjCardinalityBound
<1>4. Cardinality(1 .. N) = N
  BY FS_Interval
<1> QED
  BY <1>3, <1>4

\* The places of c in the order of their labels: there is such an order.
LEMMA OrderExists ==
    ASSUME NEW c \in Seq(Nat), Distinct(c)
    PROVE  Orders(c) # {}
<1> DEFINE N == Len(c)
           Sorts(d, n) == /\ \A i, j \in 1 .. n : i < j => c[d[i]] < c[d[j]]
                          /\ \A x \in 1 .. N : (\A i \in 1 .. n : d[i] # x)
                               => \A i \in 1 .. n : c[d[i]] < c[x]
           Sortable(n) == \E d \in [1 .. n -> 1 .. N] : Sorts(d, n)
           S == {n \in Nat : n <= N => Sortable(n)}
<1>0. N \in Nat /\ DOMAIN c = 1 .. N /\ \A i \in 1 .. N : c[i] \in Nat
  BY LenProperties, ElementOfSeq
<1>1. 0 \in S
  <2>1. [i \in 1 .. 0 |-> 0] \in [1 .. 0 -> 1 .. N] /\ \A i \in 1 .. 0 : FALSE
    OBVIOUS
  <2> QED
    BY <2>1
<1>2. ASSUME NEW n \in Nat, n \in S PROVE n + 1 \in S
  <2> HIDE DEF Sortable
  <2> SUFFICES ASSUME n + 1 <= N PROVE Sortable(n + 1)
    OBVIOUS
  <2>0. Sortable(n)
    <3>1. n <= N
      BY <1>0
    <3> QED
      BY <1>2, <3>1
  <2> HIDE DEF Sorts
  <2>1. PICK d \in [1 .. n -> 1 .. N] : Sorts(d, n)
    BY <2>0 DEF Sortable
  <2> USE DEF Sorts
  <2> DEFINE L == {x \in 1 .. N : \A i \in 1 .. n : d[i] # x}
  <2>2. L # {}
    <3>1. n < N
      BY <1>0
    <3>2. PICK x \in 1 .. N : \A i \in 1 .. n : d[i] # x
      BY <1>0, <3>1, PlaceLeft
    <3> QED
      BY <3>2
  <2>3. PICK y \in L : \A x \in L : c[y] <= c[x]
    BY <1>0, <2>2, LeastLabel
  <2> DEFINE e == [i \in 1 .. n + 1 |-> IF i = n + 1 THEN y ELSE d[i]]
  <2>4. \A i \in 1 .. n + 1 : i \in 1 .. n \/ i = n + 1
    OBVIOUS
  <2>5. /\ e \in [1 .. n + 1 -> 1 .. N]
        /\ e[n + 1] = y /\ \A i \in 1 .. n : e[i] = d[i] /\ d[i] \in 1 .. N
    BY <2>3, <2>4
  <2>6. y \in 1 .. N /\ \A i \in 1 .. n : d[i] # y
    BY <2>3
  <2> HIDE DEF e
  <2>7. ASSUME NEW i \in 1 .. n + 1, NEW j \in 1 .. n + 1, i < j
        PROVE  c[e[i]] < c[e[j]]
    <3>1. i \in 1 .. n
      BY <2>7
    <3>2. CASE j = n + 1
      BY <2>1, <2>5, <2>6, <3>1, <3>2
    <3>3. CASE j \in 1 .. n
      BY <2>1, <2>5, <2>7, <3>1, <3>3
    <3> QED
      BY <2>4, <3>2, <3>3
  <2>8. ASSUME NEW x \in 1 .. N, \A i \in 1 .. n + 1 : e[i] # x, NEW i \in 1 .. n + 1
        PROVE  c[e[i]] < c[x]
    <3>1. \A j \in 1 .. n : j \in 1 .. n + 1
      OBVIOUS
    <3>2. (\A j \in 1 .. n : d[j] # x) /\ x # y
      BY <2>5, <2>8, <3>1
    <3>3. x \in L /\ c[y] <= c[x]
      BY <2>3, <3>2
    <3>4. c[y] # c[x] /\ c[y] \in Nat /\ c[x] \in Nat
      BY <1>0, <2>6, <3>2 DEF Distinct
    <3>5. c[y] < c[x]
      BY <3>3, <3>4
    <3>6. CASE i = n + 1
      BY <2>5, <3>5, <3>6
    <3>7. CASE i \in 1 .. n
      BY <2>1, <2>5, <3>2, <3>7
    <3> QED
      BY <2>4, <3>6, <3>7
  <2>9. Sorts(e, n + 1)
    BY <2>7, <2>8
  <2> HIDE DEF Sorts
  <2> QED
    BY <2>5, <2>9 DEF Sortable
<1> HIDE DEF S, Sortable, Sorts
<1>3. N \in S
  BY <1>0, <1>1, <1>2, Induction
<1>4. PICK d \in [1 .. N -> 1 .. N] : Sorts(d, N)
  BY <1>0, <1>3 DEF S, Sortable
<1> USE DEF Sorts
<1>5. ASSUME NEW i \in 1 .. N, NEW j \in 1 .. N, i < j
      PROVE  d[i] # d[j] /\ c[d[i]] <= c[d[j]]
  <2>1. c[d[i]] < c[d[j]] /\ d[i] \in 1 .. N /\ d[j] \in 1 .. N
    BY <1>4, <1>5
  <2>2. c[d[i]] \in Nat /\ c[d[j]] \in Nat
    BY <1>0, <2>1
  <2>3. \A x, y \in Nat : x < y => x # y /\ x <= y
    OBVIOUS
  <2>4. c[d[i]] # c[d[j]] /\ c[d[i]] <= c[d[j]]
    BY <2>1, <2>2, <2>3, Zenon
  <2> QED
    BY <2>4
<1>6. d \in Orders(c)
  BY <1>0, <1>5 DEF Orders
<1> QED
  BY <1>6

LEMMA InOrderIs ==
    ASSUME NEW c \in Seq(Label), Distinct(c)
    PROVE  /\ InOrder(c) \in Seq(Label) /\ Ascending(InOrder(c))
           /\ \A l : (\E i \in DOMAIN InOrder(c) : InOrder(c)[i] = l)
                       <=> \E i \in DOMAIN c : c[i] = l
<1> DEFINE N == Len(c)
           f == CHOOSE g \in Orders(c) : TRUE
           d == InOrder(c)
<1>0. c \in Seq(Nat)
  BY LabelsAreNat, SeqMonotonic
<1>1. N \in Nat /\ DOMAIN c = 1 .. N
      /\ \A i \in 1 .. N : c[i] \in Nat /\ c[i] \in Label
  BY <1>0, LenProperties, ElementOfSeq
<1>2. f \in Orders(c)
  BY <1>0, OrderExists
<1>3. d = [i \in 1 .. N |-> c[f[i]]]
  BY <1>1 DEF InOrder
<1> HIDE DEF f, d
<1>4. /\ f \in [1 .. N -> 1 .. N]
      /\ \A i, j \in 1 .. N : i < j => f[i] # f[j] /\ c[f[i]] <= c[f[j]]
  BY <1>1, <1>2 DEF Orders
<1>5. ASSUME NEW x \in 1 .. N PROVE \E i \in 1 .. N : f[i] = x
  <2>1. \A i, j \in 1 .. N : f[i] = f[j] => i = j
    <3>1. \A i, j \in 1 .. N : i = j \/ i < j \/ j < i
      BY <1>1
    <3> QED
      BY <1>4, <3>1
  <2>2. f \in Injection(1 .. N, 1 .. N)
    BY <1>4, <2>1 DEF Injection, IsInjective
  <2>3. IsFiniteSet(1 .. N)
    BY <1>1, FS_Interval
  <2>4. f \in Surjection(1 .. N, 1 .. N)
    BY <2>2, <2>3, FS_Injection
  <2> QED
    BY <2>4 DEF Surjection
<1>6. \A i \in 1 .. N : d[i] = c[f[i]] /\ f[i] \in 1 .. N /\ d[i] \in Label /\ d[i] \in Nat
  BY <1>1, <1>3, <1>4
<1>7. d \in Seq(Label) /\ DOMAIN d = 1 .. N
  <2>1. d \in [1 .. N -> Label]
    BY <1>3, <1>6
  <2> QED
    BY <1>1, <1>3, <2>1, SeqDef
<1>8. ASSUME NEW i \in 1 .. N, NEW j \in 1 .. N, i < j PROVE d[i] < d[j]
  <2>1. f[i] # f[j] /\ c[f[i]] <= c[f[j]]
    BY <1>4, <1>8
  <2>2. c[f[i]] # c[f[j]]
    BY <1>1, <1>6, <2>1 DEF Distinct
  <2> QED
    BY <1>6, <2>1, <2>2
<1>9. ASSUME NEW l
      PROVE  (\E i \in 1 .. N : d[i] = l) <=> \E i \in 1 .. N : c[i] = l
  <2>1. ASSUME NEW i \in 1 .. N, d[i] = l PROVE \E j \in 1 .. N : c[j] = l
    BY <1>6, <2>1
  <2>2. ASSUME NEW j \in 1 .. N, c[j] = l PROVE \E i \in 1 .. N : d[i] = l
    <3>1. PICK i \in 1 .. N : f[i] = j
      BY <1>5
    <3> QED
      BY <1>6, <2>2, <3>1
  <2> QED
    BY <2>1, <2>2
<1> QED
  BY <1>1, <1>7, <1>8, <1>9 DEF Ascending, d

LEMMA SortShaped ==
    ASSUME NEW t, Shaped(t)
    PROVE  Shaped(SortChildren(t)) /\ Flat(SortChildren(t)) = Flat(t)
<1> DEFINE u == SortChildren(t)
<1>1. t \in [DOMAIN t -> NodeType]
  BY DEF Shaped
<1>2. DOMAIN u = DOMAIN t /\ u = [q \in DOMAIN t |-> u[q]]
  BY DEF SortChildren
<1>3. ASSUME NEW q \in DOMAIN t
      PROVE  /\ u[q].children = InOrder(t[q].children) /\ u[q].entry = t[q].entry
             /\ u[q].children \in Seq(Label) /\ Ascending(u[q].children)
             /\ \A l : Lists(u[q], l) <=> Lists(t[q], l)
             /\ u[q] \in NodeType
  <2> DEFINE c == t[q].children
             d == InOrder(c)
  <2>1. t[q] \in NodeType /\ c \in Seq(Label) /\ Distinct(c)
    BY <1>1, NodeFacts DEF Shaped, Distinct
  <2>2. /\ d \in Seq(Label) /\ Ascending(d)
        /\ \A l : (\E i \in DOMAIN d : d[i] = l) <=> \E i \in DOMAIN c : c[i] = l
    BY <2>1, InOrderIs
  <2>3. u[q] = [t[q] EXCEPT !.children = d, !.sorted = TRUE]
    BY <1>1 DEF SortChildren, NodeType
  <2> HIDE DEF u, d
  <2>4. u[q].children = d /\ u[q].entry = t[q].entry /\ u[q] \in NodeType
    BY <2>1, <2>2, <2>3 DEF NodeType
  <2>5. \A l : Lists(u[q], l) <=> Lists(t[q], l)
    BY <2>2, <2>4 DEF Lists
  <2> QED
    BY <2>2, <2>4, <2>5 DEF d
<1> HIDE DEF u
<1>4. u \in [DOMAIN u -> NodeType] /\ DOMAIN u \subseteq Path /\ <<>> \in DOMAIN u
  <2>1. \A q \in DOMAIN u : u[q] \in NodeType
    BY <1>2, <1>3
  <2> QED
    BY <1>2, <2>1 DEF Shaped
<1>5. ASSUME NEW q \in DOMAIN u
      PROVE  /\ \A i \in DOMAIN u[q].children : Append(q, u[q].children[i]) \in DOMAIN u
             /\ \A i, j \in DOMAIN u[q].children :
                  u[q].children[i] = u[q].children[j] => i = j
             /\ Ascending(u[q].children)
             /\ u[q].entry # "none" => q \in Name
  <2>0. q \in DOMAIN t
    BY <1>2
  <2>1. ASSUME NEW i \in DOMAIN u[q].children
        PROVE  Append(q, u[q].children[i]) \in DOMAIN u
    <3>1. Lists(u[q], u[q].children[i])
      BY <2>1 DEF Lists
    <3>2. Lists(t[q], u[q].children[i])
      BY <1>3, <2>0, <3>1
    <3>3. PICK j \in DOMAIN t[q].children : t[q].children[j] = u[q].children[i]
      BY <3>2 DEF Lists
    <3> QED
      BY <1>2, <2>0, <3>3 DEF Shaped
  <2>2. ASSUME NEW i \in DOMAIN u[q].children, NEW j \in DOMAIN u[q].children,
               u[q].children[i] = u[q].children[j]
        PROVE  i = j
    <3> DEFINE d == u[q].children
    <3>1. d \in Seq(Nat) /\ Ascending(d)
      BY <1>3, <2>0, LabelsAreNat, SeqMonotonic
    <3> HIDE DEF d
    <3>2. i \in DOMAIN d /\ j \in DOMAIN d /\ d[i] = d[j]
      BY <2>2 DEF d
    <3>3. i \in Nat /\ j \in Nat /\ d[i] \in Nat
      BY <3>1, <3>2
    <3>4. ~(i < j) /\ ~(j < i)
      BY <3>1, <3>2, <3>3 DEF Ascending
    <3> QED
      BY <3>3, <3>4
  <2>3. u[q].entry # "none" => q \in Name
    BY <1>3, <2>0 DEF Shaped
  <2> QED
    BY <1>3, <2>0, <2>1, <2>2, <2>3
<1>6. ASSUME NEW q \in DOMAIN u, q # <<>>
      PROVE  \E o \in DOMAIN u : \E i \in DOMAIN u[o].children :
               q = Append(o, u[o].children[i])
  <2>1. PICK o \in DOMAIN t : \E i \in DOMAIN t[o].children : q = Append(o, t[o].children[i])
    BY <1>2, <1>6 DEF Shaped
  <2>2. PICK i \in DOMAIN t[o].children : q = Append(o, t[o].children[i])
    BY <2>1
  <2>3. Lists(u[o], t[o].children[i])
    BY <1>3, <2>2 DEF Lists
  <2>4. PICK j \in DOMAIN u[o].children : u[o].children[j] = t[o].children[i]
    BY <2>3 DEF Lists
  <2>5. o \in DOMAIN u /\ q = Append(o, u[o].children[j])
    BY <1>2, <2>2, <2>4
  <2> QED
    BY <2>5
<1>7. Shaped(u)
  BY <1>4, <1>5, <1>6, Zenon DEF Shaped
<1>8. Flat(u) = Flat(t)
  BY <1>2, <1>3 DEF Flat
<1> QED
  BY <1>7, <1>8 DEF u

-----------------------------------------------------------------------------
(***************************************************************************)
(* The entry that a lookup holds on to, label by label.                     *)
(***************************************************************************)
Found == [status : Entry, depth : Nat]

LEMMA TakeIs ==
    ASSUME NEW b \in Found, NEW e, NEW i \in Nat
    PROVE  /\ Take(b, e, i) \in Found
           /\ Take(b, e, i) \in {b, [status |-> e, depth |-> i]}
<1>1. CASE e \in Status
  <2>1. e \in Entry
    BY <1>1 DEF Entry
  <2>2. [status |-> e, depth |-> i] \in Found
    BY <2>1 DEF Found
  <2> QED
    BY <2>2 DEF Take
<1>2. CASE e \notin Status
  <2>1. Take(b, e, i) = b
    BY <1>2 DEF Take, Status
  <2> QED
    BY <2>1
<1> QED
  BY <1>1, <1>2

\* The walk, turn by turn, for anything that is taken for a tree.
LEMMA WalkTurns ==
    ASSUME NEW t, NEW p \in Path
    PROVE  \E B \in [0 .. Len(p) -> Found] :
             /\ B[0] = [status |-> "none", depth |-> 0]
             /\ \A i \in 1 .. Len(p) : B[i] = Take(B[i - 1], t[Prefix(p, i)].entry, i)
             /\ Walk(t, p) = B[Known(t, p)]
<1> DEFINE X == Found
           N == Len(p)
           a == [status |-> "none", depth |-> 0]
           Turn(b, i) == Take(b, t[Prefix(p, i)].entry, i)
           G == [i \in 1 .. N |-> [x \in X |-> Turn(x, i)]]
           Rec(f) == f = [i \in 0 .. N |-> IF i = 0 THEN a ELSE Turn(f[i - 1], i)]
           B == CHOOSE f : Rec(f)
<1>1. N \in Nat /\ a \in X
  BY PrefixEnds DEF Found, Entry
<1>2. \A i \in 1 .. N, x \in X : G[i][x] = Turn(x, i) /\ Turn(x, i) \in X
  BY <1>1, TakeIs
<1>10. G \in [1 .. N -> [X -> X]]
  BY <1>2
<1>6. Walk(t, p) = B[Known(t, p)]
  BY Zenon DEF Walk
<1> HIDE DEF G, X, N, a, Turn
<1>11. PICK f \in [0 .. N -> X] : Iterates(f, a, N, G)
  BY <1>1, <1>10, Recursion
<1>3. f[0] = a /\ \A i \in 1 .. N : f[i] = G[i][f[i - 1]]
  BY <1>11 DEF Iterates
<1>4. f = [i \in 0 .. N |-> IF i = 0 THEN a ELSE Turn(f[i - 1], i)]
  <2>1. \A i \in 1 .. N : f[i] = Turn(f[i - 1], i)
    <3> TAKE i \in 1 .. N
    <3>1. i - 1 \in 0 .. N
      BY <1>1
    <3> QED
      BY <1>2, <1>3, <3>1
  <2> QED
    BY <1>1, <1>3, <2>1
<1>5. Rec(B)
  BY <1>4, Zenon
<1> HIDE DEF B
<1>7. B[0] = a /\ \A i \in 1 .. N : B[i] = Turn(B[i - 1], i)
  BY <1>1, <1>5
<1>8. \A i \in Nat : i \in {k \in Nat : k <= N => B[k] \in X}
  <2> DEFINE S == {k \in Nat : k <= N => B[k] \in X}
  <2>1. 0 \in S
    BY <1>1, <1>7
  <2>2. ASSUME NEW i \in Nat, i \in S PROVE i + 1 \in S
    <3> SUFFICES ASSUME i + 1 <= N PROVE B[i + 1] \in X
      OBVIOUS
    <3>1. B[i] \in X /\ B[i + 1] = Turn(B[i], i + 1) /\ i + 1 \in 1 .. N
      BY <1>1, <1>7, <2>2
    <3> QED
      BY <1>2, <3>1
  <2> HIDE DEF S
  <2>3. \A i \in Nat : i \in S
    BY <2>1, <2>2, Induction
  <2> QED
    BY <2>3 DEF S
<1>9. B \in [0 .. N -> X]
  BY <1>5, <1>8
<1> QED
  BY <1>6, <1>7, <1>9 DEF X, N, a, Turn

\* What has been found after i labels: the precedence of the statuses on the way, and
\* the deepest entry of the one that wins.
Has(e, i, s) == \E j \in 1 .. i : e[j] = s

Wins(e, i, s) ==
    \/ s = "A" /\ Has(e, i, "A")
    \/ s = "B" /\ Has(e, i, "B") /\ ~Has(e, i, "A")
    \/ s = "R" /\ Has(e, i, "R") /\ ~Has(e, i, "A") /\ ~Has(e, i, "B")
    \/ s = "none" /\ ~Has(e, i, "A") /\ ~Has(e, i, "B") /\ ~Has(e, i, "R")

DeepestOf(e, i, b) ==
    b.status # "none" =>
        b.depth \in 1 .. i /\ e[b.depth] = b.status
        /\ \A j \in 1 .. i : j > b.depth => e[j] # b.status

LEMMA HasNext ==
    ASSUME NEW e, NEW i \in Nat, NEW s
    PROVE  Has(e, i + 1, s) <=> Has(e, i, s) \/ e[i + 1] = s
<1>1. \A j \in 1 .. i + 1 : j \in 1 .. i \/ j = i + 1
  OBVIOUS
<1>2. i + 1 \in 1 .. i + 1 /\ \A j \in 1 .. i : j \in 1 .. i + 1
  OBVIOUS
<1> QED
  BY <1>1, <1>2 DEF Has

LEMMA TurnKeepsDeepest ==
    ASSUME NEW e, NEW i \in Nat, NEW b \in Found, Wins(e, i, b.status), DeepestOf(e, i, b)
    PROVE  LET d == Take(b, e[i + 1], i + 1)
           IN  Wins(e, i + 1, d.status) /\ DeepestOf(e, i + 1, d)
<1> DEFINE x == e[i + 1]
           d == Take(b, x, i + 1)
<1>1. \A j \in 1 .. i + 1 : j \in 1 .. i \/ j = i + 1
  OBVIOUS
<1>2. b.status \in Entry /\ b.depth \in Nat
  BY DEF Found
<1>3. /\ Has(e, i + 1, "A") <=> Has(e, i, "A") \/ x = "A"
      /\ Has(e, i + 1, "B") <=> Has(e, i, "B") \/ x = "B"
      /\ Has(e, i + 1, "R") <=> Has(e, i, "R") \/ x = "R"
  BY HasNext
<1>4. CASE \/ x = "A"
           \/ x = "B" /\ b.status # "A"
           \/ x = "R" /\ b.status \notin {"A", "B"}
  <2>1. d = [status |-> x, depth |-> i + 1]
    BY <1>4 DEF Take
  <2>2. d.status = x /\ d.depth = i + 1
    BY <2>1
  <2> HIDE DEF d
  <2>3. Wins(e, i + 1, x)
    BY <1>3, <1>4 DEF Wins
  <2>4. \A j \in 1 .. i + 1 : ~(j > i + 1)
    OBVIOUS
  <2>5. i + 1 \in 1 .. i + 1 /\ e[i + 1] = x
    OBVIOUS
  <2> QED
    BY <2>2, <2>3, <2>4, <2>5 DEF DeepestOf, d
<1>5. CASE ~(\/ x = "A"
             \/ x = "B" /\ b.status # "A"
             \/ x = "R" /\ b.status \notin {"A", "B"})
  <2>1. d = b
    BY <1>5 DEF Take
  <2> HIDE DEF d
  <2>2. Wins(e, i + 1, b.status)
    BY <1>3, <1>5 DEF Wins
  <2>3. b.status # "none" => x # b.status
    BY <1>2, <1>5 DEF Entry, Status
  <2>4. DeepestOf(e, i + 1, b)
    BY <1>1, <1>2, <2>3 DEF DeepestOf
  <2> QED
    BY <2>1, <2>2, <2>4 DEF d
<1> QED
  BY <1>4, <1>5

LEMMA WalkFinds ==
    ASSUME NEW t, NEW p \in Path, Known(t, p) \in 0 .. Len(p)
    PROVE  LET e == [j \in 1 .. Len(p) |-> t[Prefix(p, j)].entry]
               k == Known(t, p)
           IN  /\ Walk(t, p) \in Found
               /\ Wins(e, k, Walk(t, p).status) /\ DeepestOf(e, k, Walk(t, p))
<1> DEFINE N == Len(p)
           e == [j \in 1 .. N |-> t[Prefix(p, j)].entry]
<1>1. PICK B \in [0 .. N -> Found] :
        /\ B[0] = [status |-> "none", depth |-> 0]
        /\ \A i \in 1 .. N : B[i] = Take(B[i - 1], t[Prefix(p, i)].entry, i)
        /\ Walk(t, p) = B[Known(t, p)]
  BY WalkTurns
<1>2. \A i \in 1 .. N : e[i] = t[Prefix(p, i)].entry
  OBVIOUS
<1>3. N \in Nat
  BY PrefixEnds
<1> HIDE DEF e
<1> DEFINE Holds(i) == Wins(e, i, B[i].status) /\ DeepestOf(e, i, B[i])
           S == {i \in Nat : i <= N => Holds(i)}
<1>4. 0 \in S
  <2>1. \A s : ~Has(e, 0, s)
    BY DEF Has
  <2>2. B[0].status = "none"
    BY <1>1
  <2> QED
    BY <2>1, <2>2 DEF Wins, DeepestOf
<1>5. ASSUME NEW i \in Nat, i \in S PROVE i + 1 \in S
  <2> HIDE DEF Holds
  <2> SUFFICES ASSUME i + 1 <= N PROVE Holds(i + 1)
    OBVIOUS
  <2>1. i + 1 \in 1 .. N /\ i \in 0 .. N /\ i + 1 - 1 = i /\ i <= N
    BY <1>3
  <2>2. Holds(i) /\ B[i] \in Found
    BY <1>1, <1>5, <2>1
  <2>3. B[i + 1] = Take(B[i], e[i + 1], i + 1)
    BY <1>1, <1>2, <2>1
  <2>4. Wins(e, i, B[i].status) /\ DeepestOf(e, i, B[i])
    BY <2>2 DEF Holds
  <2> DEFINE d == Take(B[i], e[i + 1], i + 1)
  <2>5. Wins(e, i + 1, d.status) /\ DeepestOf(e, i + 1, d)
    BY <2>2, <2>4, TurnKeepsDeepest
  <2> HIDE DEF d
  <2> QED
    BY <2>3, <2>5 DEF Holds, d
<1> HIDE DEF S, Holds
<1>6. \A i \in Nat : i \in S
  BY <1>4, <1>5, Induction
<1>7. Known(t, p) \in Nat /\ Known(t, p) <= N
  BY <1>3
<1>8. Holds(Known(t, p))
  BY <1>6, <1>7 DEF S
<1> QED
  BY <1>1, <1>8 DEF Holds, e

-----------------------------------------------------------------------------
(***************************************************************************)
(* The inductive invariant: there is no tree or one with its shape.         *)
(***************************************************************************)
Tree(t) == t = NoRoot \/ Shaped(t)

IInv ==
    /\ Tree(tree) /\ Tree(builder)
    /\ loaded \in 0 .. MaxRows /\ live \in 0 .. MaxLive

LEMMA NoNodes == DOMAIN NoRoot = {}
BY DEF NoRoot

LEMMA ShapedHasRoot ==
    ASSUME NEW t, Tree(t)
    PROVE  t # NoRoot <=> Shaped(t)
BY NoNodes DEF Tree, Shaped

LEMMA InitInv == Init => IInv
BY RadixAssumption DEF Init, IInv, Tree

LEMMA StepInv == IInv /\ [Next]_vars => IInv'
<1> SUFFICES ASSUME IInv, [Next]_vars PROVE IInv'
  OBVIOUS
<1> USE RadixAssumption
<1>1. CASE BuilderInit
  <2>1. Tree(builder')
    BY <1>1, JustRootShaped DEF BuilderInit, Tree
  <2> QED
    BY <1>1, <2>1 DEF BuilderInit, IInv
<1>2. ASSUME NEW r \in Row, BuilderInsert(r[1], r[2]) PROVE IInv'
  <2>1. r[1] \in Name /\ r[2] \in Status
    OBVIOUS
  <2>2. Shaped(builder) /\ builder' \in InsertPath(builder, r[1], r[2])
    BY <1>2, ShapedHasRoot DEF BuilderInsert, IInv
  <2>3. Tree(builder')
    BY <2>1, <2>2, InsertOutcome DEF Tree
  <2>4. loaded' \in 0 .. MaxRows
    BY <1>2 DEF BuilderInsert, IInv
  <2> QED
    BY <1>2, <2>3, <2>4 DEF BuilderInsert, IInv
<1>3. CASE Swap
  <2>1. Shaped(builder)
    BY <1>3, ShapedHasRoot DEF Swap, IInv
  <2>2. Tree(tree') /\ Tree(builder')
    BY <1>3, <2>1, SortShaped DEF Swap, Tree
  <2> QED
    BY <1>3, <2>2 DEF Swap, IInv
<1>4. ASSUME NEW r \in Row, InsertLive(r[1], r[2]) PROVE IInv'
  <2>1. r[1] \in Name /\ r[2] \in Status
    OBVIOUS
  <2>2. Shaped(tree) /\ tree' \in InsertPath(tree, r[1], r[2])
    BY <1>4, ShapedHasRoot DEF InsertLive, IInv
  <2>3. Tree(tree')
    BY <2>1, <2>2, InsertOutcome DEF Tree
  <2>4. live' \in 0 .. MaxLive
    BY <1>4 DEF InsertLive, IInv
  <2> QED
    BY <1>4, <2>3, <2>4 DEF InsertLive, IInv
<1>5. CASE UNCHANGED vars
  BY <1>5 DEF vars, IInv
<1> QED
  BY <1>1, <1>2, <1>3, <1>4, <1>5 DEF Next

\* Whatever is inserted, where memory runs out and whenever trees are exchanged, both
\* trees keep the shape that every walk over them relies on.
THEOREM Invariance == Spec => []IInv
BY InitInv, StepInv, PTL DEF Spec

LEMMA TreeShape ==
    ASSUME NEW t, Shaped(t)
    PROVE  DOMAIN t = {<<>>} \cup
             UNION {{Append(q, t[q].children[i]) : i \in DOMAIN t[q].children} :
                      q \in DOMAIN t}
<1> DEFINE Below(q) == {Append(q, t[q].children[i]) : i \in DOMAIN t[q].children}
<1>1. ASSUME NEW q \in DOMAIN t PROVE Below(q) \subseteq DOMAIN t
  <2>1. \A i \in DOMAIN t[q].children : Append(q, t[q].children[i]) \in DOMAIN t
    BY DEF Shaped
  <2> QED
    BY <2>1
<1>2. ASSUME NEW x \in DOMAIN t, x # <<>> PROVE \E q \in DOMAIN t : x \in Below(q)
  <2>1. PICK o \in DOMAIN t : \E i \in DOMAIN t[o].children : x = Append(o, t[o].children[i])
    BY <1>2 DEF Shaped
  <2>2. x \in Below(o)
    BY <2>1
  <2> QED
    BY <2>2
<1> HIDE DEF Below
<1>3. DOMAIN t = {<<>>} \cup UNION {Below(q) : q \in DOMAIN t}
  <2>1. <<>> \in DOMAIN t
    BY DEF Shaped
  <2> QED
    BY <1>1, <1>2, <2>1
<1> QED
  BY <1>3 DEF Below

\* The trees are always what the code takes for granted of them.
THEOREM WellFormedHolds == Spec => []WellFormed
<1>1. IInv => WellFormed
  <2> SUFFICES ASSUME IInv PROVE WellFormed
    OBVIOUS
  <2>1. TypeOK
    <3>1. ASSUME NEW t \in {tree, builder}, NEW q \in DOMAIN t PROVE t[q] \in NodeType
      <4>1. Shaped(t)
        BY NoNodes DEF IInv, Tree
      <4> QED
        BY <4>1, NodeFacts
    <3> QED
      BY <3>1 DEF TypeOK, IInv
  <2>2. TreeShaped
    <3> SUFFICES ASSUME NEW t \in {tree, builder}, t # NoRoot
                 PROVE  /\ DOMAIN t = {<<>>} \cup
                             UNION {{Append(q, t[q].children[i]) : i \in DOMAIN t[q].children} :
                                      q \in DOMAIN t}
                        /\ \A q \in DOMAIN t : \A i, j \in DOMAIN t[q].children :
                             t[q].children[i] = t[q].children[j] => i = j
      BY DEF TreeShaped
    <3>1. Shaped(t)
      BY DEF IInv, Tree
    <3>2. \A q \in DOMAIN t : \A i, j \in DOMAIN t[q].children :
             t[q].children[i] = t[q].children[j] => i = j
      BY <3>1 DEF Shaped
    <3> QED
      BY <3>1, <3>2, TreeShape
  <2>3. SortedMeansSorted
    <3>1. ASSUME NEW t \in {tree, builder}, NEW q \in DOMAIN t, t[q].sorted
          PROVE  \A i, j \in DOMAIN t[q].children :
                   i < j => t[q].children[i] < t[q].children[j]
      <4>1. Shaped(t)
        BY NoNodes DEF IInv, Tree
      <4>2. Ascending(t[q].children)
        BY <3>1, <4>1, NodeFacts
      <4> QED
        BY <4>2 DEF Ascending
    <3> QED
      BY <3>1 DEF SortedMeansSorted
  <2> QED
    BY <2>1, <2>2, <2>3 DEF WellFormed
<1> QED
  BY <1>1, Invariance, PTL

-----------------------------------------------------------------------------
(***************************************************************************)
(* What the entries on the path of a name are, by their depth or by the     *)
(* names that carry them.                                                   *)
(***************************************************************************)
LEMMA KnownEither ==
    ASSUME NEW t, Tree(t), NEW p \in Path
    PROVE  /\ Known(t, p) \in 0 .. Len(p)
           /\ \A i \in 1 .. Len(p) : Prefix(p, i) \in DOMAIN t <=> i <= Known(t, p)
<1>0. Len(p) \in Nat
  BY PrefixEnds
<1>1. CASE Shaped(t)
  BY <1>1, KnownNodes
<1>2. CASE t = NoRoot
  <2> DEFINE Stops(k) == /\ \A i \in 1 .. k : Finds(t, p, i)
                         /\ k < Len(p) => ~Finds(t, p, k + 1)
             K == CHOOSE k \in 0 .. Len(p) : Stops(k)
  <2>1. \A i : ~Finds(t, p, i)
    BY <1>2, NoNodes DEF Finds
  <2>2. 0 \in 0 .. Len(p) /\ Stops(0)
    BY <1>0, <2>1
  <2> HIDE DEF Stops
  <2>3. K \in 0 .. Len(p) /\ Stops(K)
    BY <2>2
  <2>4. Known(t, p) = K
    BY DEF Known, Stops
  <2> HIDE DEF K
  <2>5. K = 0
    BY <1>0, <2>1, <2>3 DEF Stops
  <2> QED
    BY <1>0, <1>2, <2>3, <2>4, <2>5, NoNodes
<1> QED
  BY <1>1, <1>2 DEF Tree

EntriesOn(t, p) == [j \in 1 .. Len(p) |-> t[Prefix(p, j)].entry]

LEMMA NameOnPath ==
    ASSUME NEW t, Tree(t), NEW p \in Name, NEW a \in Name, IsOnPath(a, p),
           Flat(t)[a] # "none"
    PROVE  /\ Len(a) \in 1 .. Known(t, p) /\ a = Prefix(p, Len(a))
           /\ EntriesOn(t, p)[Len(a)] = Flat(t)[a]
<1>1. p \in Path /\ a \in Path /\ Len(a) \in Nat /\ Len(a) > 0 /\ Len(p) \in Nat
  BY LabelsAreNat, PrefixEnds
<1>2. Len(a) \in 1 .. Len(p) /\ Prefix(p, Len(a)) = a
  BY <1>1 DEF IsOnPath
<1>3. a \in DOMAIN t /\ Flat(t)[a] = t[a].entry
  BY DEF Flat
<1>4. Len(a) <= Known(t, p) /\ Known(t, p) \in Nat
  BY <1>1, <1>2, <1>3, KnownEither
<1> QED
  BY <1>1, <1>2, <1>3, <1>4 DEF EntriesOn

LEMMA EntryHasName ==
    ASSUME NEW t, Tree(t), NEW p \in Name, NEW j \in 1 .. Known(t, p),
           EntriesOn(t, p)[j] # "none"
    PROVE  /\ Prefix(p, j) \in Name /\ IsOnPath(Prefix(p, j), p)
           /\ Len(Prefix(p, j)) = j
           /\ Flat(t)[Prefix(p, j)] = EntriesOn(t, p)[j]
<1>1. p \in Path /\ Len(p) \in Nat /\ Known(t, p) \in 0 .. Len(p)
  BY LabelsAreNat, PrefixEnds, KnownEither
<1>2. j \in 1 .. Len(p) /\ j \in 0 .. Len(p) /\ j <= Known(t, p)
  BY <1>1
<1>3. Prefix(p, j) \in DOMAIN t
  BY <1>1, <1>2, KnownEither
<1>4. EntriesOn(t, p)[j] = t[Prefix(p, j)].entry
  BY <1>2 DEF EntriesOn
<1>5. Shaped(t)
  BY <1>3, NoNodes DEF Tree
<1>6. Prefix(p, j) \in Name
  BY <1>3, <1>4, <1>5 DEF Shaped
<1>7. Len(Prefix(p, j)) = j
  BY <1>1, <1>2, PrefixIs
<1> QED
  BY <1>2, <1>3, <1>4, <1>6, <1>7 DEF IsOnPath, Flat

LEMMA OnPathIsHas ==
    ASSUME NEW t, Tree(t), NEW p \in Name, NEW s, s # "none"
    PROVE  BT!OnPath(Flat(t), p, s) <=> Has(EntriesOn(t, p), Known(t, p), s)
<1>1. BT!OnPath(Flat(t), p, s) <=> \E a \in Name : IsOnPath(a, p) /\ Flat(t)[a] = s
  BY DEF BT!OnPath
<1>2. ASSUME NEW a \in Name, IsOnPath(a, p), Flat(t)[a] = s
      PROVE  Has(EntriesOn(t, p), Known(t, p), s)
  BY <1>2, NameOnPath DEF Has
<1>3. ASSUME NEW j \in 1 .. Known(t, p), EntriesOn(t, p)[j] = s
      PROVE  \E a \in Name : IsOnPath(a, p) /\ Flat(t)[a] = s
  BY <1>3, EntryHasName
<1> QED
  BY <1>1, <1>2, <1>3 DEF Has

LEMMA LookupIs ==
    ASSUME NEW t, Tree(t), NEW p \in Name
    PROVE  LET found == Walk(t, p)
               deeper == {q \in Name : IsOnPath(q, p) /\ Len(q) > found.depth}
           IN  /\ found.status = BT!Lookup(Flat(t), p)
               /\ found.status # "none" =>
                    /\ Flat(t)[Prefix(p, found.depth)] = found.status
                    /\ \A q \in deeper : Flat(t)[q] # found.status
<1> DEFINE found == Walk(t, p)
           e == EntriesOn(t, p)
           k == Known(t, p)
<1>1. p \in Path /\ k \in 0 .. Len(p) /\ Len(p) \in Nat
  BY LabelsAreNat, PrefixEnds, KnownEither
<1>2. found \in Found /\ Wins(e, k, found.status) /\ DeepestOf(e, k, found)
  BY <1>1, WalkFinds DEF EntriesOn
<1>3. /\ BT!OnPath(Flat(t), p, "A") <=> Has(e, k, "A")
      /\ BT!OnPath(Flat(t), p, "B") <=> Has(e, k, "B")
      /\ BT!OnPath(Flat(t), p, "R") <=> Has(e, k, "R")
  BY OnPathIsHas
<1>4. \A q \in Name : IsOnPath(q, p) /\ Flat(t)[q] # "none" =>
        Len(q) \in 1 .. k /\ e[Len(q)] = Flat(t)[q]
  BY NameOnPath
<1>5. \A j \in 1 .. k : e[j] # "none" => Flat(t)[Prefix(p, j)] = e[j]
  BY EntryHasName
<1> HIDE DEF found, e, k
<1>6. found.status = BT!Lookup(Flat(t), p)
  BY <1>2, <1>3 DEF BT!Lookup, Wins
<1>7. ASSUME found.status # "none"
      PROVE  /\ Flat(t)[Prefix(p, found.depth)] = found.status
             /\ \A q \in Name : IsOnPath(q, p) /\ Len(q) > found.depth =>
                  Flat(t)[q] # found.status
  BY <1>2, <1>4, <1>5, <1>7 DEF DeepestOf
<1> QED
  BY <1>6, <1>7 DEF found

\* The walk of radix_lookup reports, in every reachable tree, also one that a failed or
\* a live insertion left unsorted, the status that the entries on the path call for, and
\* its deepest entry.
THEOREM LookupIsPrecedenceHolds == Spec => []LookupIsPrecedence
<1>1. IInv => LookupIsPrecedence
  <2> SUFFICES ASSUME IInv PROVE LookupIsPrecedence
    OBVIOUS
  <2>1. \A t \in {tree, builder} : Tree(t)
    BY DEF IInv
  <2> QED
    BY <2>1, LookupIs DEF LookupIsPrecedence
<1> QED
  BY <1>1, Invariance, PTL

LEMMA StepIsBlockTrees ==
    IInv /\ [Next]_vars =>
      [IF builder' = builder
       THEN \E r \in Row : \E o \in BT!InsertLive(Flat(tree), r[1], r[2]) :
              Flat(tree') = o.tree
       ELSE IF builder' = NoRoot THEN Flat(tree') = Flat(builder)
       ELSE /\ tree' = tree
            /\ builder # NoRoot =>
                 \E r \in Row : \E o \in BT!InsertLive(Flat(builder), r[1], r[2]) :
                   Flat(builder') = o.tree]_<<tree, builder>>
<1> SUFFICES ASSUME IInv, [Next]_vars, <<tree, builder>>' # <<tree, builder>>
             PROVE  IF builder' = builder
                    THEN \E r \in Row : \E o \in BT!InsertLive(Flat(tree), r[1], r[2]) :
                           Flat(tree') = o.tree
                    ELSE IF builder' = NoRoot THEN Flat(tree') = Flat(builder)
                    ELSE /\ tree' = tree
                         /\ builder # NoRoot =>
                              \E r \in Row :
                                \E o \in BT!InsertLive(Flat(builder), r[1], r[2]) :
                                  Flat(builder') = o.tree
  OBVIOUS
<1> USE RadixAssumption
<1>0. ~Shaped(NoRoot)
  BY NoNodes DEF Shaped
<1>1. CASE BuilderInit
  <2>1. Shaped(builder') /\ builder' # NoRoot /\ builder = NoRoot /\ tree' = tree
    BY <1>0, <1>1, JustRootShaped DEF BuilderInit
  <2> QED
    BY <2>1
<1>2. ASSUME NEW r \in Row, BuilderInsert(r[1], r[2])
      PROVE  /\ builder' # builder /\ builder' # NoRoot /\ tree' = tree
             /\ \E o \in BT!InsertLive(Flat(builder), r[1], r[2]) : Flat(builder') = o.tree
  <2>1. r[1] \in Name /\ r[2] \in Status
    OBVIOUS
  <2>2. Shaped(builder) /\ builder' \in InsertPath(builder, r[1], r[2]) /\ tree' = tree
    BY <1>2, ShapedHasRoot DEF BuilderInsert, IInv
  <2>3. Shaped(builder')
        /\ \E o \in BT!InsertLive(Flat(builder), r[1], r[2]) : Flat(builder') = o.tree
    BY <2>1, <2>2, InsertOutcome
  <2> QED
    BY <1>0, <2>2, <2>3
<1>3. CASE Swap
  <2>1. Shaped(builder) /\ tree' = SortChildren(builder) /\ builder' = NoRoot
    BY <1>3, ShapedHasRoot DEF Swap, IInv
  <2>2. Flat(tree') = Flat(builder)
    BY <2>1, SortShaped
  <2> QED
    BY <1>0, <2>1, <2>2
<1>4. ASSUME NEW r \in Row, InsertLive(r[1], r[2])
      PROVE  /\ builder' = builder
             /\ \E o \in BT!InsertLive(Flat(tree), r[1], r[2]) : Flat(tree') = o.tree
  <2>1. r[1] \in Name /\ r[2] \in Status
    OBVIOUS
  <2>2. Shaped(tree) /\ tree' \in InsertPath(tree, r[1], r[2]) /\ builder' = builder
    BY <1>4, ShapedHasRoot DEF InsertLive, IInv
  <2> QED
    BY <2>1, <2>2, InsertOutcome
<1>5. CASE UNCHANGED vars
  BY <1>5 DEF vars
<1> QED
  BY <1>1, <1>2, <1>3, <1>4, <1>5 DEF Next

\* Every step of the trie of nodes is one that the proxy's model, which sees entries only,
\* allows: failed insertions touch no entry but their own, a swap changes no entry of
\* the list that was built.
THEOREM StepsOfBlockTreeHolds == Spec => StepsOfBlockTree
<1>1. IInv /\ [Next]_vars =>
      [IF builder' = builder
       THEN \E r \in Row : \E o \in BT!InsertLive(Flat(tree), r[1], r[2]) :
              Flat(tree') = o.tree
       ELSE IF builder' = NoRoot THEN Flat(tree') = Flat(builder)
       ELSE /\ tree' = tree
            /\ builder # NoRoot =>
                 \E r \in Row : \E o \in BT!InsertLive(Flat(builder), r[1], r[2]) :
                   Flat(builder') = o.tree]_<<tree, builder>>
  BY StepIsBlockTrees
<1> QED
  BY <1>1, Invariance, PTL DEF Spec, StepsOfBlockTree
=============================================================================
