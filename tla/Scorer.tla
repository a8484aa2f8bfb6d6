------------------------------- MODULE Scorer --------------------------------
(***************************************************************************)
(* The heuristic scorer (heuristics.c, is_suspicious_label of nyet.c) and   *)
(* the workers that run it on names the tree says nothing of                *)
(* (run_heuristics, flag_for_review), with the reload thread that swaps     *)
(* their tree for one of the files alone.  The text of a name is characters *)
(* that parse_query has already lowered, fewer than the buffers it is       *)
(* copied to here hold.  Scores are in hundredths; what is computed of a    *)
(* name depends on nothing that a thread writes.                            *)
(***************************************************************************)
EXTENDS Integers, Sequences, FiniteSets, SequencesExt, FiniteSetsExt

CONSTANTS
    Worker,
    Domain,         \* names that are asked for
    Text,           \* Text[d]: the characters of d
    Mix,            \* bound: sets of names that are scored in one behaviour
    MaxScored,      \* bound: runs of the scorer
    MaxReloads      \* bound: reloads of the lists

ASSUME ScorerAssumption ==
    /\ IsFiniteSet(Worker)
    /\ IsFiniteSet(Domain) /\ Domain # {} /\ \A d \in Domain : Text[d] \in Seq(STRING)
    /\ Mix \subseteq SUBSET Domain /\ MaxScored \in Nat /\ MaxReloads \in Nat

------------------------------------------------------------------------------
(***************************************************************************)
(* Checks of one label.                                                     *)
(***************************************************************************)
Vowel     == {"a", "e", "i", "o", "u"}
Consonant == {"b", "c", "d", "f", "g", "h", "j", "k", "l", "m", "n", "p", "q",
              "r", "s", "t", "v", "w", "x", "y", "z"}
Digit     == {"0", "1", "2", "3", "4", "5", "6", "7", "8", "9"}

Count(S, s) == Cardinality({k \in DOMAIN s : s[k] \in S})

\* is_consonant_suspicious: a run of more than four.
ConsonantSuspicious(l) ==
    \E k \in 1 .. Len(l) - 4 : \A j \in k .. k + 4 : l[j] \in Consonant

\* is_vowel_suspicious; the comparisons of floats agree with these.
VowelSuspicious(l) ==
    \/ Len(l) > 10 /\ 100 * Count(Vowel, l) < 15 * Len(l)
    \/ Len(l) >= 5 /\ 100 * Count(Vowel, l) > 60 * Len(l)

\* is_digit_suspicious
DigitSuspicious(l) == Len(l) >= 8 /\ 10 * Count(Digit, l) > 4 * Len(l)

\* L_LOG2[n + 1]: log2(n) in units of 2^-20.
L_LOG2 ==
    <<0, 0, 1048576, 1661953, 2097152, 2434718, 2710529, 2943724, 3145728, 3323907,
      3483294, 3627476, 3759105, 3880192, 3992300, 4096671, 4194304, 4286015, 4372483,
      4454274, 4531870, 4605678, 4676052, 4743298, 4807681, 4869436, 4928768, 4985860,
      5040876, 5093962, 5145247, 5194851, 5242880, 5289430, 5334591, 5378443, 5421059,
      5462507, 5502850, 5542145, 5580446, 5617800, 5654254, 5689850, 5724628, 5758625,
      5791874, 5824408, 5856257, 5887449, 5918012, 5947969, 5977344, 6006159, 6034436,
      6062195, 6089452, 6116228, 6142538, 6168398, 6193823, 6218828, 6243427, 6267632>>

\* Bits per character, in the same unit, if c occurs freq[c] times.
Entropy(l, freq) ==
    L_LOG2[Len(l) + 1] -
        SumFunction([c \in ToSet(l) |-> freq[c] * L_LOG2[freq[c] + 1]]) \div Len(l)

\* A slip: a character is counted once, however often it occurs.
SuspiciousUnweighted(l) ==
    \/ Len(l) >= 63
    \/ Len(l) \in 12 .. 62 /\ Entropy(l, [c \in ToSet(l) |-> 1]) > 3670016

\* is_suspicious_label: more than 3.5 bits per character.
SuspiciousLabel(l) ==
    \/ Len(l) >= 63
    \/ Len(l) \in 12 .. 62 /\ Entropy(l, [c \in ToSet(l) |-> Count({c}, l)]) > 3670016

(***************************************************************************)
(* FW_TRIE.  The first entries have no designators and are numbered by      *)
(* their place: none is numbered 18 in the source's comments, so that those *)
(* it numbers from 19 on are one place earlier than the links expect.       *)
(***************************************************************************)
Placed ==
    << {<<"g", 1>>, <<"u", 6>>, <<"c", 9>>, <<"a", 14>>, <<"s", 19>>, <<"m", 25>>},
       {<<"o", 2>>}, {<<"o", 3>>}, {<<"g", 4>>}, {<<"l", 5>>}, {<<"e", 29>>},
       {<<"s", 7>>}, {<<"e", 8>>}, {<<"r", 30>>},
       {<<"o", 10>>, <<"l", 31>>}, {<<"n", 11>>}, {<<"t", 12>>}, {<<"e", 13>>}, {<<"n", 33>>},
       {<<"p", 15>>, <<"u", 16>>}, {<<"i", 34>>}, {<<"t", 17>>}, {<<"h", 35>>},
       {<<"t", 20>>}, {<<"r", 21>>, <<"a", 22>>}, {<<"e", 23>>}, {<<"a", 24>>}, {<<"m", 36>>},
       {<<"t", 37>>}, {<<"a", 26>>}, {<<"i", 27>>}, {<<"l", 38>>} >>

Edge == (UNION {{<<n - 1, e[1], e[2]>> : e \in Placed[n]} : n \in DOMAIN Placed})
        \cup {<<31, "o", 32>>, <<32, "u", 39>>, <<33, "t", 40>>, <<37, "i", 41>>,
              <<39, "d", 42>>, <<41, "c", 43>>}

FW_TRIE == [nc \in {<<e[1], e[2]>> : e \in Edge} |->
                (CHOOSE e \in Edge : <<e[1], e[2]>> = nc)[3]]

IsEnd == {29, 30, 34, 35, 36, 38, 40, 42, 43}

Off == -1           \* the walk has ended

\* The node after each character of l, of the walk that starts at s.
Walk(l, s) ==
    LET at[k \in s - 1 .. Len(l)] ==
          IF k < s THEN 0
          ELSE IF <<at[k - 1], l[k]>> \in DOMAIN FW_TRIE THEN FW_TRIE[<<at[k - 1], l[k]>>]
          ELSE Off
    IN at

\* A slip: words are looked for at the start of a label only.
LegitPrefixes(l) == Cardinality({k \in 1 .. Len(l) : Walk(l, 1)[k] \in IsEnd})

\* count_legit_subsequences
LegitSubsequences(l) ==
    SumFunction([s \in 1 .. Len(l) |->
                    LET at == Walk(l, s)
                    IN  Cardinality({k \in s .. Len(l) : at[k] \in IsEnd})])

------------------------------------------------------------------------------
(***************************************************************************)
(* Checks of the whole name, and their sum.                                 *)
(***************************************************************************)
HeurMaxLabels == 32

Min2(a, b) == IF a < b THEN a ELSE b
Max2(a, b) == IF a < b THEN b ELSE a

\* split_labels: what lies between the dots; labels past the cap are dropped.
Extend(labels, c) ==
    IF c = "." THEN Append(labels, <<>>)
    ELSE Append(Front(labels), Append(Last(labels), c))

SplitLabels(d) ==
    LET all[n \in 0 .. Len(d)] == IF n = 0 THEN << <<>> >> ELSE Extend(all[n - 1], d[n])
    IN SubSeq(all[Len(d)], 1, Min2(Len(all[Len(d)]), HeurMaxLabels))

\* All but the last, which is taken for the TLD.
NonTld(labels) == IF Len(labels) > 1 THEN Front(labels) ELSE labels

\* is_too_many_labels
TooManyLabels(labels) == Len(labels) > 6

\* is_label_length_variance_suspicious
LabelVariance(labels) ==
    \E k, j \in DOMAIN NonTld(labels) : Len(labels[k]) - Len(labels[j]) > 20

\* is_symbol_ratio_suspicious
SymbolRatio(d) ==
    /\ Len(d) >= 12
    /\ 100 * (Len(d) - Count(Vowel \cup Consonant \cup Digit, d)) > 30 * Len(d)

\* is_hyphen_flattened, is_excessive_hyphens
HyphenFlattened(labels) == Len(labels) <= 2 /\ Count({"-"}, labels[1]) >= 3
ExcessiveHyphens(d)     == Count({"-"}, d) >= 5

LabelCheck == {"entropy", "consonant", "vowel", "digit"}

Weight == [entropy |-> 20, consonant |-> 15, vowel |-> 15, digit |-> 15,
           toomany |-> 20, variance |-> 20, symbols |-> 20, flatten |-> 20, hyphens |-> 10]

\* What each label fires.
LabelFires(l) ==
    {c \in LabelCheck : CASE c = "entropy"   -> SuspiciousLabel(l)
                          [] c = "consonant" -> ConsonantSuspicious(l)
                          [] c = "vowel"     -> VowelSuspicious(l)
                          [] c = "digit"     -> DigitSuspicious(l)}

ShapeFires(d, labels) ==
    {c \in DOMAIN Weight \ LabelCheck :
        CASE c = "toomany"  -> TooManyLabels(labels)
          [] c = "variance" -> LabelVariance(labels)
          [] c = "symbols"  -> SymbolRatio(d)
          [] c = "flatten"  -> HyphenFlattened(labels)
          [] c = "hyphens"  -> ExcessiveHyphens(d)}

\* The signals that fire, a check of labels if any label fires it.
Fired ==
    [d \in Domain |-> LET labels == SplitLabels(Text[d]) IN
        (UNION {LabelFires(l) : l \in ToSet(NonTld(labels))}) \cup ShapeFires(Text[d], labels)]

WordMatches ==
    [d \in Domain |-> LET labels == NonTld(SplitLabels(Text[d])) IN
        SumFunction([k \in DOMAIN labels |-> LegitSubsequences(labels[k])])]

\* The signals that fired push up, up to two words pull down.
Sum(d) ==
    SumFunctionOnSet(Weight, Fired[d]) - 15 * Min2(WordMatches[d], 2)

Clamped(n) == Max2(0, Min2(100, n))

\* compute_heuristic_score
Score == [d \in Domain |-> Clamped(Sum(d))]

\* The one sum of these floats that falls short of its exact value across
\* REVIEW_THRESHOLD: 0.20 + 0.15 + 0.15 + 0.15 - 0.15 is 0.49999997.
FallsShort(d) == Fired[d] = LabelCheck /\ WordMatches[d] = 1

\* A slip: scores are compared in hundredths.
CrossesInHundredths(d) == Score[d] >= 50

CrossesThreshold(d) == Score[d] >= 50 /\ ~FallsShort(d)

------------------------------------------------------------------------------
VARIABLES
    pc,         \* pc[w]: what worker w does next
    job,        \* job[w]: the name it scores
    score,      \* score[w]: what compute_heuristic_score returned
    known,      \* names the tree has an entry for
    unlearned,  \* names whose entry could not be inserted
    reloads,    \* how often the lists have been reloaded (history)
    times,      \* times[d]: how often d has been scored
    total,      \* g_heuristic_total_scored
    histogram,  \* the sum of g_score_histogram
    flagged,    \* g_heuristic_flagged_review
    rows        \* rows of review.tsv

counters == <<total, histogram, flagged, rows>>
vars == <<pc, job, score, known, unlearned, reloads, times, counters>>

Init ==
    /\ pc = [w \in Worker |-> "idle"]
    /\ job = [w \in Worker |-> CHOOSE d \in Domain : TRUE]    \* of no meaning yet
    /\ score = [w \in Worker |-> 0]
    /\ known = {} /\ unlearned = {} /\ reloads = 0
    /\ times = [d \in Domain |-> 0]
    /\ total = 0 /\ histogram = 0 /\ flagged = 0 /\ rows = 0

Goto(w, p) == pc' = [pc EXCEPT ![w] = p]

\* An entry covers its name and those below it; there is none for the root.
Above == [d \in Domain |-> {k \in Domain : k = d \/ IsSuffix(<<".">> \o Text[k], Text[d])}]
Root == {d \in Domain : Text[d] = <<>>}

(***************************************************************************)
(* process_request: check_domain finds nothing, so the name is scored.      *)
(* What the answer is used for comes later: another worker may be between   *)
(* this step and Learn with the same name.                                  *)
(***************************************************************************)
Take(w, d) ==
    /\ pc[w] = "idle"
    /\ known \cap Above[d] = {}
    /\ {e \in Domain : times[e] > 0} \cup {d} \in Mix
    /\ SumFunction(times) < MaxScored
    /\ job' = [job EXCEPT ![w] = d]
    /\ score' = [score EXCEPT ![w] = Score[d]]
    /\ times' = [times EXCEPT ![d] = @ + 1]
    /\ Goto(w, "count")
    /\ UNCHANGED <<known, unlearned, reloads, counters>>

\* run_heuristics counts the name, its bucket, and whether it is flagged.
CountScored(w) ==
    /\ pc[w] = "count"
    /\ total' = total + 1
    /\ Goto(w, "bucket")
    /\ UNCHANGED <<job, score, known, unlearned, reloads, times, histogram, flagged, rows>>

CountBucket(w) ==
    /\ pc[w] = "bucket"
    /\ histogram' = histogram + 1
    /\ Goto(w, IF CrossesThreshold(job[w]) THEN "flag" ELSE "learn")
    /\ UNCHANGED <<job, score, known, unlearned, reloads, times, total, flagged, rows>>

CountFlagged(w) ==
    /\ pc[w] = "flag"
    /\ flagged' = flagged + 1
    /\ Goto(w, "review")
    /\ UNCHANGED <<job, score, known, unlearned, reloads, times, total, histogram, rows>>

\* flag_for_review adds a row under review_lock, if the file can be opened.
Review(w) ==
    /\ pc[w] = "review"
    /\ rows' \in {rows, rows + 1}
    /\ Goto(w, "learn")
    /\ UNCHANGED <<job, score, known, unlearned, reloads, times, total, histogram, flagged>>

\* A slip: only what is flagged is remembered.
LearnFlagged(w) ==
    /\ pc[w] = "learn"
    /\ known' = IF CrossesThreshold(job[w]) THEN known \cup {job[w]} ELSE known
    /\ Goto(w, "idle")
    /\ UNCHANGED <<job, score, unlearned, reloads, times, counters>>

\* ... and a REVIEW entry, whatever the score, if there is memory for it.
Learn(w) ==
    /\ pc[w] = "learn"
    /\ \/ known' = known \cup ({job[w]} \ Root) /\ unlearned' = unlearned
       \/ known' = known /\ unlearned' = unlearned \cup {job[w]}
    /\ Goto(w, "idle")
    /\ UNCHANGED <<job, score, reloads, times, counters>>

\* reload_thread_proc: the tree is swapped for one built from blocklist.tsv and
\* learned.tsv.  Of the names that have an entry it keeps those a file holds; the
\* REVIEW entries that were inserted live are in none.
Reload ==
    /\ reloads < MaxReloads
    /\ reloads' = reloads + 1
    /\ known' \in SUBSET known
    /\ UNCHANGED <<pc, job, score, unlearned, times, counters>>

Next ==
    \/ \E w \in Worker :
         \/ \E d \in Domain : Take(w, d)
         \/ CountScored(w) \/ CountBucket(w) \/ CountFlagged(w) \/ Review(w) \/ Learn(w)
    \/ Reload

Spec == Init /\ [][Next]_vars
------------------------------------------------------------------------------
Busy == {w \in Worker : pc[w] # "idle"}

\* Every variable has its type, and a score lies in [0.00, 1.00].
TypeOK ==
    /\ pc \in [Worker -> {"idle", "count", "bucket", "flag", "review", "learn"}]
    /\ job \in [Worker -> Domain]
    /\ score \in [Worker -> 0 .. 100]
    /\ known \subseteq Domain /\ unlearned \subseteq Domain
    /\ reloads \in 0 .. MaxReloads
    /\ times \in [Domain -> 0 .. MaxScored]
    /\ {total, histogram, flagged, rows} \subseteq 0 .. MaxScored

LabelsOf == [d \in Domain |-> ToSet(SplitLabels(Text[d]))]

\* A label has more than 3.5 bits per character only with a dozen different
\* characters, or at 63 characters: the table of logarithms and the integer
\* arithmetic of is_suspicious_label add nothing to what the label holds.
EntropyNeedsVariety ==
    \A w \in Busy : "entropy" \in Fired[job[w]] =>
        \E l \in LabelsOf[job[w]] : Len(l) >= 63 \/ Cardinality(ToSet(l)) >= 12

\* The words FW_TRIE does match.
Matched == {<<"g","o","o","g","l","e">>, <<"u","s","e","r">>, <<"c","l","o","u","d">>,
            <<"c","o","n","t","e","n","t">>, <<"a","p","i">>, <<"a","u","t","h">>,
            <<"s","a","m">>, <<"s","r","a","a","l">>}

Occurrences(l) ==
    {kx \in (1 .. Len(l)) \X Matched :
        kx[1] + Len(kx[2]) - 1 <= Len(l) /\ SubSeq(l, kx[1], kx[1] + Len(kx[2]) - 1) = kx[2]}

OccurrencesIn ==
    [d \in Domain |-> LET labels == NonTld(SplitLabels(Text[d])) IN
        SumFunction([k \in DOMAIN labels |-> Cardinality(Occurrences(labels[k]))])]

\* count_legit_subsequences counts every occurrence of the words, wherever in
\* a label it starts, also of a word that has been counted.
EveryWordCounted == \A w \in Busy : WordMatches[job[w]] = OccurrencesIn[job[w]]

\* It takes one signal more than DESIGN.md and compute_heuristic_score speak of
\* ("~2 agreeing signals", "roughly two-plus"): two reach 0.40 at most, short of
\* REVIEW_THRESHOLD.  No name is flagged on fewer than three, and none that
\* matches a word on three, so that a row of review.tsv stands for several
\* checks that agree.
FlaggedOnEvidence ==
    \A w \in Busy : pc[w] \in {"flag", "review"} =>
        /\ Cardinality(Fired[job[w]]) >= 3
        /\ WordMatches[job[w]] > 0 => Cardinality(Fired[job[w]]) >= 4
        /\ WordMatches[job[w]] > 0 => Fired[job[w]] \ LabelCheck # {}

\* The counters that main prints when the workers have stopped agree: every
\* name scored is in one bucket, those flagged are among them, and review.tsv
\* has no more rows than that.
SummaryAgrees ==
    /\ rows <= flagged /\ flagged <= histogram /\ histogram <= total
    /\ Busy = {} => /\ histogram = total
                    /\ total = SumFunction(times)

\* A name whose entry was inserted is scored again only by workers that missed it
\* together, and once more by each after a reload has dropped its entry, against
\* DESIGN.md ("never re-scored"): once by each worker for each tree, at most.
OncePerTree ==
    \A d \in Domain \ (Root \cup unlearned) :
        times[d] <= Cardinality(Worker) * (1 + reloads)

\* What the threads leave behind: types, counters, and how often a name is scored.
ScoringSound == TypeOK /\ SummaryAgrees /\ OncePerTree
=============================================================================
