---------------------------- MODULE Eligibility ----------------------------
(***************************************************************************)
(* Which items a review window may show on a date: the hard eligibility    *)
(* rules of resurfacing.py, before scoring.                                *)
(*                                                                         *)
(* Dates are numbered from 1; 0 is no date.                                *)
(***************************************************************************)
EXTENDS Integers

CONSTANTS
    SpacingDays,   \* [Categories -> days] between two showings of an item
    MinimumAge     \* days before an Idea, a Thought, an unfocused planned purchase

Types      == {"Task", "Idea", "Thought", "Reference"}
Domains    == {"Personal", "Portfolio", "Tech", "Shopping", "Places", "Dating", "Travel",
               "Career", "Reservist"}
Categories == Types \cup {"routine", "planned"}
Windows    == {"Morning", "AfterWork", "Evening", "Weekend"}
Contexts   == Windows \cup {"Anytime", "OnDemand"}
Slots      == {"morning", "afterwork", "evening"}

ASSUME EligibilityAssumption ==
    /\ SpacingDays \in [Categories -> Nat \ {0}]
    /\ MinimumAge \in [{"Idea", "Thought", "planned"} -> Nat]

\* The properties of an item that no review changes.
Attributes ==
    [type : Types, domain : Domains, shopping : {"Routine", "Planned", "None"},
     context : Contexts, created : Nat, due : Nat, focused : BOOLEAN]

Routine(a) == a.domain = "Shopping" /\ a.shopping = "Routine"
Planned(a) == a.domain = "Shopping" /\ a.shopping = "Planned"

Category(a) ==
    CASE Routine(a) -> "routine" [] Planned(a) -> "planned" [] OTHER -> a.type

-----------------------------------------------------------------------------
\* resolve_review_window: "none" where the slot is invalid at weekends.
ResolveWindow(slot, weekend) ==
    CASE slot = "evening" /\ weekend    -> "Weekend"
      [] slot = "evening" /\ ~weekend   -> "Evening"
      [] slot = "morning" /\ ~weekend   -> "Morning"
      [] slot = "afterwork" /\ ~weekend -> "AfterWork"
      [] OTHER                          -> "none"

Compatible(a, w) == a.context \in {"Anytime", w}

\* A shopping item that is neither routine nor planned is no entry of AfterWork.
MatchesWindow(a, w) ==
    CASE Routine(a) -> w = "AfterWork" /\ a.context = "AfterWork"
      [] Planned(a) -> w \in {"Evening", "Weekend"} /\ Compatible(a, w)
      [] ~Routine(a) /\ ~Planned(a) /\ w = "Morning" -> a.type = "Task" /\ a.context = w
      [] ~Routine(a) /\ ~Planned(a) /\ w = "AfterWork" ->
            a.type = "Task" /\ a.domain # "Shopping" /\ a.context = w
      [] ~Routine(a) /\ ~Planned(a) /\ w \in {"Evening", "Weekend"} -> Compatible(a, w)

AgeDays(a, d) == IF d > a.created THEN d - a.created ELSE 0

\* A planned purchase that is a Thought must be old enough for both.
OldEnough(a, d) ==
    /\ Category(a) = "Idea" => AgeDays(a, d) >= MinimumAge["Idea"]
    /\ a.type = "Thought" => AgeDays(a, d) >= MinimumAge["Thought"]
    /\ Planned(a) /\ ~a.focused => AgeDays(a, d) >= MinimumAge["planned"]

Spacing(a) == SpacingDays[Category(a)]

\* deadline_urgency
Urgency(a, d) ==
    CASE a.type # "Task" \/ a.due = 0 -> "None"
      [] a.type = "Task" /\ 0 < a.due /\ a.due < d      -> "Overdue"
      [] a.type = "Task" /\ 0 < a.due /\ a.due = d      -> "Today"
      [] a.type = "Task" /\ d < a.due /\ a.due <= d + 2 -> "Strong"
      [] a.type = "Task" /\ d + 2 < a.due /\ a.due <= d + 7 -> "Moderate"
      [] a.type = "Task" /\ d + 7 < a.due               -> "Later"

\* Deadlines of today and before cut the spacing of Tasks short.
DueNow(a, d) == Category(a) = "Task" /\ Urgency(a, d) \in {"Today", "Overdue"}

\* Mutant: an item due today may be shown twice on a date.
SpacedOutSameDay(a, last, d) == last = 0 \/ d - last >= Spacing(a) \/ DueNow(a, d)

SpacedOut(a, last, d) ==
    \/ last = 0
    \/ d > last /\ (d - last >= Spacing(a) \/ DueNow(a, d))

\* _eligibility, and the snooze condition of the Notion filter.
Eligible(a, w, d, snoozedUntil, lastSurfaced) ==
    /\ snoozedUntil <= d
    /\ MatchesWindow(a, w)
    /\ OldEnough(a, d)
    /\ SpacedOut(a, lastSurfaced, d)
=============================================================================
