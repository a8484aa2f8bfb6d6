------------------------------ MODULE RadixTree ------------------------------
(***************************************************************************)
(* radix_tree.c: the trie of labels behind the blocklist, node by node.  A  *)
(* name is a path of labels, the top-level domain first (split_domain_rtl), *)
(* and labels are integers in the order of label_compare.                   *)
(*                                                                          *)
(* A tree under construction belongs to one thread and insert_live runs     *)
(* under the exclusive lock, so an insertion is one step with several        *)
(* outcomes: memory may run out at each of its allocations.  A lookup holds *)
(* the lock shared and changes only the statistics of the entry it reports: *)
(* it is the operator Walk.                                                 *)
(***************************************************************************)
EXTENDS Integers, Sequences

CONSTANTS
    Name,       \* paths that are looked up
    Row,        \* <<path, status>> pairs that may be inserted
    MaxRows,    \* bound: the rows of one list
    MaxLive     \* bound: the live insertions into one published tree

Status == {"A", "B", "R"}
Entry  == Status \cup {"none"}
Label  == UNION {{p[i] : i \in DOMAIN p} : p \in Name}

ASSUME RadixAssumption ==
    /\ Name \subseteq Seq(Nat) \ {<<>>}
    /\ Row \subseteq Name \X Status
    /\ MaxRows \in Nat /\ MaxLive \in Nat

VARIABLES
    tree,       \* the published tree: path -> node; no node before publication
    builder,    \* the tree under construction, if there is one
    loaded,     \* the rows of it
    live        \* the live insertions since the tree was published

vars == <<tree, builder, loaded, live>>

NodeType == [children : Seq(Label), sorted : BOOLEAN, entry : Entry]

NoRoot  == <<>>

\* node_create.
NewNode == [children |-> <<>>, sorted |-> TRUE, entry |-> "none"]
JustRoot == [q \in {<<>>} |-> NewNode]

Prefix(p, i) == SubSeq(p, 1, i)

-----------------------------------------------------------------------------
\* A slip: append_child leaves the flag alone.  (Like the others marked so below it
\* is no part of the specification: it takes the place of a definition when a
\* property is tested for being able to fail.)
AppendQuietly(n, l) == [n EXCEPT !.children = Append(@, l)]

\* append_child: whatever order there was, it is no longer relied upon.
AppendChild(n, l) == [n EXCEPT !.children = Append(@, l), !.sorted = FALSE]

\* find_child: the binary search, by the bounds of its loop, or the scan.
Mid(b)       == b.lo + (b.hi - b.lo) \div 2
IsAt(c, l, b) == b.lo < b.hi /\ c[Mid(b) + 1] = l

\* One turn of the loop; the bounds stay as they are once it has ended.
Narrowed(c, l, b) ==
    IF b.lo >= b.hi \/ IsAt(c, l, b) THEN b
    ELSE IF c[Mid(b) + 1] < l THEN [b EXCEPT !.lo = Mid(b) + 1]
    ELSE [b EXCEPT !.hi = Mid(b)]

BinarySearch(c, l) ==
    LET bounds[n \in 0 .. Len(c)] ==
          IF n = 0 THEN [lo |-> 0, hi |-> Len(c)] ELSE Narrowed(c, l, bounds[n - 1])
    IN  IsAt(c, l, bounds[Len(c)])

FindChild(n, l) ==
    IF n.sorted THEN BinarySearch(n.children, l)
    ELSE \E i \in DOMAIN n.children : n.children[i] = l

\* The i-th label of p is found where the walk has got to.
Finds(t, p, i) ==
    Prefix(p, i - 1) \in DOMAIN t /\ FindChild(t[Prefix(p, i - 1)], p[i])

\* How many labels of p the walk from the root finds before one is missing.
Known(t, p) ==
    CHOOSE k \in 0 .. Len(p) :
        /\ \A i \in 1 .. k : Finds(t, p, i)
        /\ k < Len(p) => ~Finds(t, p, k + 1)

-----------------------------------------------------------------------------
(***************************************************************************)
(* insert_path: the missing nodes of the path are made and appended, then   *)
(* the entry is replaced.                                                   *)
(***************************************************************************)
WithPath(t, p) ==
    LET k == Known(t, p)
        Made(q) == IF q \in DOMAIN t THEN t[q] ELSE NewNode
        Parents == {Prefix(p, i) : i \in k .. Len(p) - 1}
    IN  [q \in DOMAIN t \cup {Prefix(p, i) : i \in k .. Len(p)} |->
           IF q \in Parents THEN AppendChild(Made(q), p[Len(q) + 1]) ELSE Made(q)]

Inserted(t, p, s) == [WithPath(t, p) EXCEPT ![p].entry = s]

\* A slip: the rollback takes the last child away even when the walk added none.
FailedUnlinking(t, p) ==
    LET parent == Prefix(p, Len(p) - 1)
    IN  {t} \cup
        (IF Known(t, p) < Len(p) \/ t[parent].children = <<>> THEN {}
         ELSE LET c == t[parent].children
                  gone == Append(parent, c[Len(c)])
              IN  {[q \in {x \in DOMAIN t : Len(x) < Len(gone)
                                               \/ Prefix(x, Len(gone)) # gone} |->
                      IF q = parent THEN [t[q] EXCEPT !.children = Prefix(c, Len(c) - 1)]
                      ELSE t[q]]})

\* Memory runs out before anything is changed; or after nodes were made, and
\* they are unlinked again; or after the entry to be replaced was freed.
InsertFailed(t, p) ==
    {t} \cup
    (IF Known(t, p) < Len(p)
     THEN {[t EXCEPT ![Prefix(p, Known(t, p))].sorted = FALSE]}
     ELSE {[t EXCEPT ![p].entry = "none"]})

InsertPath(t, p, s) == {Inserted(t, p, s)} \cup InsertFailed(t, p)

\* qsort of the children by label.
Orders(c) == {f \in [DOMAIN c -> DOMAIN c] : \A i, j \in DOMAIN c :
                 i < j => f[i] # f[j] /\ c[f[i]] <= c[f[j]]}
InOrder(c) == LET f == CHOOSE f \in Orders(c) : TRUE
              IN  [i \in DOMAIN c |-> c[f[i]]]

\* sort_children_recursive.
SortChildren(t) ==
    [q \in DOMAIN t |-> [t[q] EXCEPT !.children = InOrder(@), !.sorted = TRUE]]

-----------------------------------------------------------------------------
(***************************************************************************)
(* radix_lookup: the walk down the path, which stops at the first label     *)
(* that is not found, and the entry it holds on to.                         *)
(***************************************************************************)
\* A slip: the deepest entry wins, whatever it says.
TakeDeepest(best, e, i) == IF e = "none" THEN best ELSE [status |-> e, depth |-> i]

Take(best, e, i) ==
    IF \/ e = "A"
       \/ e = "B" /\ best.status # "A"
       \/ e = "R" /\ best.status \notin {"A", "B"}
    THEN [status |-> e, depth |-> i]
    ELSE best

Walk(t, p) ==
    LET Best[i \in 0 .. Len(p)] ==
          IF i = 0 THEN [status |-> "none", depth |-> 0]
          ELSE Take(Best[i - 1], t[Prefix(p, i)].entry, i)
    IN  Best[Known(t, p)]

-----------------------------------------------------------------------------
Init == tree = NoRoot /\ builder = NoRoot /\ loaded = 0 /\ live = 0

\* radix_builder_init: one thread at a time builds a tree.
BuilderInit ==
    /\ builder = NoRoot
    /\ builder' = JustRoot /\ loaded' = 0
    /\ UNCHANGED <<tree, live>>

\* radix_insert.
BuilderInsert(p, s) ==
    /\ builder # NoRoot /\ loaded < MaxRows
    /\ builder' \in InsertPath(builder, p, s)
    /\ loaded' = loaded + 1
    /\ UNCHANGED <<tree, live>>

\* radix_publish and radix_tree_swap: no reader is inside, so the old tree is
\* freed at once.
Swap ==
    /\ builder # NoRoot
    /\ tree' = SortChildren(builder)
    /\ builder' = NoRoot /\ loaded' = 0 /\ live' = 0

\* radix_tree_insert_live.
InsertLive(p, s) ==
    /\ tree # NoRoot /\ live < MaxLive
    /\ live' = live + 1
    /\ tree' \in InsertPath(tree, p, s)
    /\ UNCHANGED <<builder, loaded>>

Next ==
    \/ BuilderInit \/ Swap
    \/ \E r \in Row : BuilderInsert(r[1], r[2]) \/ InsertLive(r[1], r[2])

Spec == Init /\ [][Next]_vars

-----------------------------------------------------------------------------
(***************************************************************************)
(* What BlockTree, the tree as the proxy's model sees it, says of this one. *)
(***************************************************************************)
IsOnPath(q, p) == Len(q) <= Len(p) /\ Prefix(p, Len(q)) = q

BT == INSTANCE BlockTree WITH
        Domain   <- Name,
        Suffixes <- [p \in Name |-> {q \in Name : IsOnPath(q, p)}],
        Faults   <- {"alloc"}

Flat(t) == [p \in Name |-> IF p \in DOMAIN t THEN t[p].entry ELSE "none"]

-----------------------------------------------------------------------------
(***************************************************************************)
(* Properties.                                                              *)
(***************************************************************************)
\* Every variable has its type.
TypeOK ==
    /\ \A t \in {tree, builder} : \A q \in DOMAIN t : t[q] \in NodeType
    /\ loaded \in 0 .. MaxRows /\ live \in 0 .. MaxLive

\* The nodes of a tree are the root and the children of its nodes, each listed
\* once: no node is reachable twice (it would be freed twice), none is lost by a
\* rollback, and no label has a second node that hides the first.
TreeShaped ==
    \A t \in {tree, builder} : t # NoRoot =>
        /\ DOMAIN t = {<<>>} \cup
             UNION {{Append(q, t[q].children[i]) : i \in DOMAIN t[q].children} :
                      q \in DOMAIN t}
        /\ \A q \in DOMAIN t : \A i, j \in DOMAIN t[q].children :
             t[q].children[i] = t[q].children[j] => i = j

\* A node that says its children are sorted has them in order: the binary search
\* of find_child is never let loose on a list that a live insert appended to.
SortedMeansSorted ==
    \A t \in {tree, builder} : \A q \in DOMAIN t :
        t[q].sorted => \A i, j \in DOMAIN t[q].children :
                         i < j => t[q].children[i] < t[q].children[j]

\* What the code takes for granted of a tree: nodes with their fields, linked into
\* a tree, with flags that can be believed.
WellFormed == TypeOK /\ TreeShaped /\ SortedMeansSorted

\* A lookup reports what the entries on the path of the name say: an allowing
\* entry wins over a blocking one and that over one in review, at any depth, and
\* of two of the same status the deeper is the one whose details are reported
\* ("ALLOWED anywhere on the path wins").  So the proxy's model may take a lookup
\* to be BlockTree's, whatever the layout of the nodes.
LookupIsPrecedence ==
    \A t \in {tree, builder}, p \in Name :
        LET found == Walk(t, p)
            deeper == {q \in Name : IsOnPath(q, p) /\ Len(q) > found.depth}
        IN  /\ found.status = BT!Lookup(Flat(t), p)
            /\ found.status # "none" =>
                 /\ Flat(t)[Prefix(p, found.depth)] = found.status
                 /\ \A q \in deeper : Flat(t)[q] # found.status

\* Every step is, entry by entry, one that BlockTree allows: an insertion, also
\* one that fails part of the way, touches the entry of its own name at most; a
\* swap shows readers exactly the list that was built.
StepsOfBlockTree ==
    [][IF builder' = builder
       THEN \E r \in Row : \E o \in BT!InsertLive(Flat(tree), r[1], r[2]) :
              Flat(tree') = o.tree
       ELSE IF builder' = NoRoot THEN Flat(tree') = Flat(builder)
       ELSE /\ tree' = tree
            /\ builder # NoRoot =>
                 \E r \in Row : \E o \in BT!InsertLive(Flat(builder), r[1], r[2]) :
                   Flat(builder') = o.tree]_<<tree, builder>>
=============================================================================
