--------------------------- MODULE ReviewScoring ---------------------------
(***************************************************************************)
(* From eligible items to a review: the scores of resurfacing.py with the  *)
(* weights of ReviewPolicy, the order of entries, the selection in its     *)
(* three loops, the group of routine purchases, and the validators of      *)
(* ReviewPlan.  Pure functions of the items' attributes (Eligibility);     *)
(* Selection looks at the same selection step by step, for any ranks.      *)
(***************************************************************************)
EXTENDS Eligibility, Sequences, FiniteSets, Lists

CONSTANTS
    EntryLimit,     \* [Windows -> entries of a review]
    SoftCap,        \* [{"Evening", "Weekend"} -> entries of one domain, at first]
    RoutineLimit    \* routine purchases that are displayed

ASSUME ScoringAssumption ==
    /\ EntryLimit \in [Windows -> Nat \ {0}]
    /\ SoftCap \in [{"Evening", "Weekend"} -> Nat \ {0}]
    /\ RoutineLimit \in Nat \ {0}

-----------------------------------------------------------------------------
\* The filter of the Notion query, coarser than Eligible.
Listed(a, w, d, snoozedUntil) ==
    /\ snoozedUntil <= d
    /\ \/ w \in {"Morning", "AfterWork"} /\ a.type = "Task" /\ a.context = w
       \/ w = "AfterWork" /\ Routine(a)
       \/ w \in {"Evening", "Weekend"} /\ a.context \in {w, "Anytime"}

-----------------------------------------------------------------------------
MinimumScore == 35

ContextScore(a, w) == IF a.context = w THEN 20 ELSE 10

CategoryScore(a) ==
    CASE Planned(a)                        -> 8
      [] ~Planned(a) /\ a.type = "Task"    -> 30
      [] ~Planned(a) /\ a.type = "Idea"    -> 18
      [] ~Planned(a) /\ a.type = "Thought" -> -5
      [] OTHER                             -> -10

DeadlineScore(u) ==
    CASE u \in {"None", "Later"} -> 0
      [] u = "Moderate"          -> 15
      [] u = "Strong"            -> 35
      [] u = "Today"             -> 60
      [] u = "Overdue"           -> 70

\* Three points a week, for six weeks at most.
AgeScore(a, d) == 3 * (IF AgeDays(a, d) \div 7 > 6 THEN 6 ELSE AgeDays(a, d) \div 7)

\* A showing before the spacing was over costs a due Task 25 points.
HistoryScore(a, d, last) ==
    CASE last = 0                            -> 12
      [] last # 0 /\ d - last < Spacing(a)   -> -25
      [] last # 0 /\ d - last >= Spacing(a)  -> 0

FocusScore(a) == IF Planned(a) /\ a.focused THEN 25 ELSE 0

Affinity(a, w) ==
    CASE w = "Evening" /\ a.type = "Idea" /\ a.domain \in {"Portfolio", "Tech", "Personal"} -> 4
      [] w = "Weekend" /\ a.domain = "Personal"                        -> 8
      [] w = "Weekend" /\ a.domain \in {"Dating", "Travel", "Places"}  -> 6
      [] w = "Weekend" /\ a.domain = "Portfolio"                       -> 4
      [] OTHER                                                         -> 0

\* review_score of an eligible item last surfaced on the date last.
Score(a, w, d, last) ==
    ContextScore(a, w) + CategoryScore(a) + DeadlineScore(Urgency(a, d)) + AgeScore(a, d)
        + HistoryScore(a, d, last) + FocusScore(a) + Affinity(a, w)

-----------------------------------------------------------------------------
UrgencyOrder(u) ==
    CASE u = "None" -> 0 [] u = "Later" -> 1 [] u = "Moderate" -> 2
      [] u = "Strong" -> 3 [] u = "Today" -> 4 [] u = "Overdue" -> 5

UrgentTask(a, d) == a.type = "Task" /\ Urgency(a, d) \in {"Strong", "Today", "Overdue"}

\* The sort key of item i of the database attr: no date of completion comes after any.
EntryKey(attr, last, i, w, d) ==
    <<-Score(attr[i], w, d, last[i]), -UrgencyOrder(Urgency(attr[i], d)),
      IF attr[i].due = 0 THEN 1 ELSE 0, attr[i].due, attr[i].created, i>>

\* _category_cap_allows: one planned purchase, one Thought.
CapAllows(attr, i, selected) ==
    IF Planned(attr[i]) THEN \A j \in selected : ~Planned(attr[j])
    ELSE attr[i].type = "Thought" => \A j \in selected : attr[j].type # "Thought"

\* An iteration of a loop that selects what the limit and the category caps allow.
Take(attr, limit) ==
    [selected \in SUBSET DOMAIN attr |-> [i \in DOMAIN attr |->
        IF Cardinality(selected) < limit /\ CapAllows(attr, i, selected)
        THEN selected \cup {i} ELSE selected]]

\* An iteration of the loop that puts off what would pass the soft cap of its domain.
Pick(attr, limit, cap) ==
    [found \in [selected : SUBSET DOMAIN attr, deferred : Seq(DOMAIN attr)] |->
        [i \in DOMAIN attr |->
            LET taken    == Take(attr, limit)[found.selected][i]
                inDomain == {j \in found.selected : attr[j].domain = attr[i].domain} IN
            CASE taken = found.selected -> found
              [] taken # found.selected /\ Cardinality(inDomain) >= cap ->
                    [found EXCEPT !.deferred = Append(@, i)]
              [] taken # found.selected /\ Cardinality(inDomain) < cap ->
                    [found EXCEPT !.selected = taken]]]

\* Mutant: urgent Tasks have no loop of their own.
SelectByRank(attr, S, order, w, d) == Loop(Take(attr, EntryLimit[w]), {}, Ranked(S, order))

\* _select_entries: urgent Tasks, then the others up to the soft cap of their domain,
\* then those it held back.
Select(attr, S, order, w, d) ==
    LET limit  == EntryLimit[w]
        cap    == IF w \in DOMAIN SoftCap THEN SoftCap[w] ELSE limit
        urgent == {i \in S : UrgentTask(attr[i], d)}
        first  == Loop(Take(attr, limit), {}, Ranked(urgent, order))
        found  == Loop(Pick(attr, limit, cap), [selected |-> first, deferred |-> <<>>],
                       Ranked(S \ urgent, order)) IN
    Loop(Take(attr, limit), found.selected, found.deferred)

\* The entries of a review from the eligible items S that score enough.
Entries(attr, last, S, w, d) ==
    LET scored == {i \in S : ~Routine(attr[i]) /\ Score(attr[i], w, d, last[i]) >= MinimumScore}
        order  == {p \in scored \X scored :
                      Less(EntryKey(attr, last, p[1], w, d), EntryKey(attr, last, p[2], w, d))} IN
    Select(attr, scored, order, w, d)

\* Mutant: the group displays all of its items.
RoutineGroupUnlimited(attr, S, w) ==
    IF w # "AfterWork" THEN {} ELSE {i \in S : Routine(attr[i])}

\* _routine_group: the oldest of the routine purchases, in AfterWork; the order of the
\* items' numbers is that of their titles and page ids.
RoutineGroup(attr, S, w) ==
    LET routine == {i \in S : Routine(attr[i])}
        Older(i) == {j \in routine : Less(<<attr[j].created, j>>, <<attr[i].created, i>>)} IN
    IF w # "AfterWork" THEN {} ELSE {i \in routine : Cardinality(Older(i)) < RoutineLimit}

\* The validators of ReviewPlan; a planned purchase may be a Thought.
ValidEntries(attr, P) ==
    /\ \A i, j \in P : Planned(attr[i]) /\ Planned(attr[j]) => i = j
    /\ \A i, j \in P : attr[i].type = "Thought" /\ attr[j].type = "Thought" => i = j
=============================================================================
