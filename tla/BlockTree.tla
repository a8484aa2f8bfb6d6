------------------------------ MODULE BlockTree ------------------------------
(***************************************************************************)
(* What the callers of radix_tree.c see of a blocklist tree: which status, *)
(* if any, each tracked domain carries.  The labels of a name are not      *)
(* spelled out: Suffixes[d] is the set of tracked domains whose nodes lie   *)
(* on the path a lookup of d walks, d itself included.                      *)
(* split_domain_rtl rejects the empty name of the DNS root, which is a      *)
(* domain with no suffixes at all: never found, never inserted.             *)
(***************************************************************************)
CONSTANTS
    Domain,     \* the tracked names
    Suffixes,   \* Domain -> the names on the path of a lookup
    Faults      \* the classes of environment failure that may happen

ASSUME BlockTreeAssumption ==
    /\ Domain # {}
    /\ Suffixes \in [Domain -> SUBSET Domain]
    /\ Faults \subseteq {"alloc", "builder", "file", "mtime"}

Status == {"A", "B", "R"}           \* allowed, blocked, review
Entry  == Status \cup {"none"}      \* "none": the node has no entry

EmptyTree == [d \in Domain |-> "none"]

Insertable(d) == d \in Suffixes[d]

(***************************************************************************)
(* The precedence of radix_lookup: an allowing entry anywhere on the path   *)
(* wins, else a blocking one, else a review entry.  (The walk that computes *)
(* it, and the entry whose ttl and score it reports, are in RadixTree.)     *)
(***************************************************************************)
OnPath(t, d, s) == \E a \in Suffixes[d] : t[a] = s

Lookup(t, d) ==
    IF OnPath(t, d, "A") THEN "A"
    ELSE IF OnPath(t, d, "B") THEN "B"
    ELSE IF OnPath(t, d, "R") THEN "R"
    ELSE "none"

(***************************************************************************)
(* insert_path puts s in place of the entry old.  When memory runs out the  *)
(* old entry is either untouched (no node, no copy of the note) or already  *)
(* freed (no new entry).                                                    *)
(***************************************************************************)
AfterFailedInsert(old) == IF "alloc" \in Faults THEN {old, "none"} ELSE {}

\* radix_tree_insert_live: the tree after it, and whether it returned 0.
InsertLive(t, d, s) ==
    IF Insertable(d)
    THEN {[tree |-> [t EXCEPT ![d] = s], ok |-> TRUE]} \cup
         {[tree |-> [t EXCEPT ![d] = e], ok |-> FALSE] : e \in AfterFailedInsert(t[d])}
    ELSE {[tree |-> t, ok |-> FALSE]}

(***************************************************************************)
(* load_blocklist adds the rows of one file to a tree under construction,   *)
(* a row replacing what an earlier file said of the same domain.  A file    *)
(* that cannot be opened is taken for an empty one.                         *)
(***************************************************************************)
RowOutcomes(t, rows, d) ==
    IF rows[d] = "none" \/ ~Insertable(d) THEN {t[d]}
    ELSE {rows[d]} \cup AfterFailedInsert(t[d])

LoadBlocklist(t, rows) ==
    {n \in [Domain -> Entry] : \A d \in Domain : n[d] \in RowOutcomes(t, rows, d)}
        \cup (IF "file" \in Faults THEN {t} ELSE {})
=============================================================================
