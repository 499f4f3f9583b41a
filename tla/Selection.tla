----------------------------- MODULE Selection -----------------------------
(***************************************************************************)
(* _select_entries: the choice of the entries of a review among the items  *)
(* that are eligible and score enough.                                     *)
(*                                                                         *)
(* Entries are numbered by their place in the sort order (score, urgency,  *)
(* due date, creation, page): entry 1 is the best.  Three loops run over   *)
(* them: the urgent tasks, the others within the soft cap of their domain, *)
(* and those the soft cap put off.  A step is one iteration.               *)
(***************************************************************************)
EXTENDS Naturals, FiniteSets

CONSTANTS
    Domains,      \* domains other than Shopping
    MaxEntries,   \* entries considered (a bound)
    Settings      \* limit and soft cap of each window

ASSUME SelectionAssumption ==
    /\ MaxEntries \in Nat
    /\ Settings \subseteq [limit : Nat \ {0}, softCap : Nat \ {0}]

\* A planned purchase is a Shopping item, of any type: of a Task when it is urgent,
\* possibly of a Thought.  "plain" stands for the other types and the other tasks.
Shopping == "Shopping"
Entries ==
    [type : {"urgent", "plain", "Thought"}, domain : Domains, planned : {FALSE}]
        \cup [type : {"urgent", "plain", "Thought"}, domain : {Shopping}, planned : {TRUE}]

VARIABLES
    entry,      \* the sorted entries
    setting,    \* the limit and the soft cap
    loop,       \* which of the three loops runs
    rest,       \* entries it has still to visit
    deferred,   \* entries put off by the soft cap
    selected,   \* entries of the review
    plan        \* what build_plan makes of them: a plan, or an error

vars == <<entry, setting, loop, rest, deferred, selected, plan>>

Places   == DOMAIN entry
Urgent   == {e \in Places : entry[e].type = "urgent"}
Planned  == {e \in Places : entry[e].planned}
Thoughts == {e \in Places : entry[e].type = "Thought"}
InDomain(d) == {e \in Places : entry[e].domain = d}

TypeOK ==
    /\ \E n \in 0 .. MaxEntries : entry \in [1 .. n -> Entries]
    /\ setting \in Settings
    /\ loop \in {"urgent", "others", "deferred", "done"}
    /\ rest \subseteq Places
    /\ deferred \subseteq Places
    /\ selected \subseteq Places
    /\ plan \in {"none", "valid", "ValidationError"}

Init ==
    /\ \E n \in 0 .. MaxEntries : entry \in [1 .. n -> Entries]
    /\ setting \in Settings
    /\ loop = "urgent"
    /\ rest = Urgent
    /\ deferred = {}
    /\ selected = {}
    /\ plan = "none"

-----------------------------------------------------------------------------
\* Mutant: the cap on planned purchases is not applied.
CapThoughtsOnly(e) == e \in Thoughts => selected \cap Thoughts = {}

\* _category_cap_allows
CategoryCapAllows(e) ==
    /\ e \in Planned => selected \cap Planned = {}
    /\ e \in Thoughts \ Planned => selected \cap Thoughts = {}

Full == Cardinality(selected) >= setting.limit

\* Mutant: the soft cap is passed by one.
OverSoftCapByOne(e) ==
    Cardinality(selected \cap InDomain(entry[e].domain)) > setting.softCap

\* domain_counts counts the selected entries of a domain, the urgent ones included.
OverSoftCap(e) ==
    Cardinality(selected \cap InDomain(entry[e].domain)) >= setting.softCap

Ends == rest = {} \/ Full

IsBest(e) == e \in rest /\ \A f \in rest : e <= f

\* Mutant: the entries are not sorted.
VisitsUnsorted(e) ==
    /\ ~Ends
    /\ e \in rest
    /\ rest' = rest \ {e}

\* The loop that runs takes its next entry.
Visits(e) ==
    /\ ~Ends
    /\ IsBest(e)
    /\ rest' = rest \ {e}

-----------------------------------------------------------------------------
\* Mutant: the soft cap applies to urgent tasks.
VisitUrgentSoftCapped(e) ==
    /\ loop = "urgent"
    /\ Visits(e)
    /\ selected' = IF CategoryCapAllows(e) /\ ~OverSoftCap(e)
                   THEN selected \cup {e} ELSE selected
    /\ UNCHANGED <<entry, setting, loop, deferred, plan>>

VisitUrgent(e) ==
    /\ loop = "urgent"
    /\ Visits(e)
    /\ selected' = IF CategoryCapAllows(e) THEN selected \cup {e} ELSE selected
    /\ UNCHANGED <<entry, setting, loop, deferred, plan>>

VisitOther(e) ==
    /\ loop = "others"
    /\ Visits(e)
    /\ \/ /\ ~CategoryCapAllows(e)
          /\ UNCHANGED <<deferred, selected>>
       \/ /\ CategoryCapAllows(e)
          /\ OverSoftCap(e)
          /\ deferred' = deferred \cup {e}
          /\ UNCHANGED selected
       \/ /\ CategoryCapAllows(e)
          /\ ~OverSoftCap(e)
          /\ selected' = selected \cup {e}
          /\ UNCHANGED deferred
    /\ UNCHANGED <<entry, setting, loop, plan>>

VisitDeferred(e) ==
    /\ loop = "deferred"
    /\ Visits(e)
    /\ selected' = IF CategoryCapAllows(e) THEN selected \cup {e} ELSE selected
    /\ UNCHANGED <<entry, setting, loop, deferred, plan>>

UrgentEnds ==
    /\ loop = "urgent" /\ Ends
    /\ loop' = "others" /\ rest' = Places \ Urgent
    /\ UNCHANGED <<entry, setting, deferred, selected, plan>>

\* Mutant: there is no last loop.
OthersEndWithoutBackfill ==
    /\ loop = "others" /\ Ends
    /\ loop' = "deferred" /\ rest' = {}
    /\ UNCHANGED <<entry, setting, deferred, selected, plan>>

OthersEnd ==
    /\ loop = "others" /\ Ends
    /\ loop' = "deferred" /\ rest' = deferred
    /\ UNCHANGED <<entry, setting, deferred, selected, plan>>

\* The entries become a ReviewPlan, whose validators count planned purchases and
\* Thoughts again, each on its own.
DeferredEnds ==
    /\ loop = "deferred" /\ Ends
    /\ loop' = "done" /\ rest' = {}
    /\ plan' = IF \/ Cardinality(selected \cap Planned) > 1
                  \/ Cardinality(selected \cap Thoughts) > 1
               THEN "ValidationError" ELSE "valid"
    /\ UNCHANGED <<entry, setting, deferred, selected>>

Next ==
    \/ \E e \in Places : VisitUrgent(e) \/ VisitOther(e) \/ VisitDeferred(e)
    \/ UrgentEnds
    \/ OthersEnd
    \/ DeferredEnds

Spec == Init /\ [][Next]_vars

-----------------------------------------------------------------------------
\* A review never has more entries than its window's limit, and never two planned
\* purchases or two Thoughts that are not purchases, whatever loop took them.
WithinCaps ==
    /\ Cardinality(selected) <= setting.limit
    /\ \A e, f \in selected \cap Planned : e = f
    /\ \A e, f \in selected \cap (Thoughts \ Planned) : e = f

\* An entry left out by a category cap and not by the limit or by its rank.
Capped(e) ==
    \/ e \in Planned /\ selected \cap Planned # {}
    \/ e \in Thoughts \ Planned /\ selected \cap Thoughts # {}

\* Nothing is left out without a reason: a review with room left has every
\* candidate the category caps allow.
NoEmptyPlace ==
    loop = "done" /\ ~Full => \A e \in Places \ selected : Capped(e)

\* An urgent task gives way only to better urgent tasks, never to a candidate that
\* is not urgent or ranks lower.
UrgentFirst ==
    loop = "done" =>
        \A e \in Urgent \ selected : ~Capped(e) => \A f \in selected : f \in Urgent /\ f < e

\* Diversity costs rank only at the soft cap: a candidate loses its place to a worse
\* one that is not urgent only when its domain has as many entries as the soft cap.
RankUnlessDomainFull ==
    loop = "done" =>
        \A e \in Places \ (Urgent \cup selected), f \in selected \ Urgent :
            e < f /\ ~Capped(e) =>
                Cardinality(selected \cap InDomain(entry[e].domain)) >= setting.softCap

\* A domain exceeds its soft cap by an entry that is not urgent only when no
\* candidate of a domain below its own is left.
BackfillLast ==
    loop = "done" =>
        \A f \in selected \ Urgent :
            LET better == {g \in selected \cap InDomain(entry[f].domain) : g \in Urgent \/ g <= f} IN
            Cardinality(better) > setting.softCap =>
                \A e \in Places \ (Urgent \cup selected) :
                    ~Capped(e) =>
                        Cardinality(selected \cap InDomain(entry[e].domain)) >= setting.softCap

\* Whatever is selected makes a plan: "Thought and Planned Purchase caps remain
\* absolute at one each", so the validators of ReviewPlan never refuse it.
AlwaysAPlan == plan # "ValidationError"
=============================================================================
