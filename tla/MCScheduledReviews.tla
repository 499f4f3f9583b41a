------------------------- MODULE MCScheduledReviews -------------------------
(* A small instance of ScheduledReviews for TLC: a Saturday or Sunday, 40, and the *)
(* weekday after it, with the spacings, ages and weights of ReviewPolicy.          *)
EXTENDS ScheduledReviews, TLC

CONSTANTS k1, k2

Page(type, domain, context, created, due) ==
    [type |-> type, domain |-> domain, shopping |-> "None", context |-> context,
     created |-> created, due |-> due, focused |-> FALSE]

Purchase(type, kind, context, created) ==
    [Page(type, "Shopping", context, created, 0) EXCEPT !.shopping = kind]

\* A new Task that is due on the weekday, and an older one that is not so urgent but
\* scores more on that day, when the first was shown the day before.
TwoTasks ==
    (1 :> Page("Task", "Career", "Anytime", 40, 41))
        @@ (2 :> Page("Task", "Career", "Evening", 1, 46))
        @@ (3 :> Page("Reference", "Tech", "Anytime", 1, 0))

\* Two routine purchases of which one is displayed, and an overdue Task.
Errands ==
    (1 :> Purchase("Task", "Routine", "AfterWork", 30))
        @@ (2 :> Purchase("Task", "Routine", "AfterWork", 30))
        @@ (3 :> Page("Task", "Personal", "AfterWork", 30, 39))

\* A Thought that ranks before a planned purchase which is a Thought as well.
TwoThoughts ==
    (1 :> Page("Thought", "Personal", "Weekend", 1, 0))
        @@ (2 :> Purchase("Thought", "Planned", "Anytime", 1))
        @@ (3 :> Page("Idea", "Tech", "Evening", 20, 0))

SmallDatabases == {TwoTasks, Errands, TwoThoughts}

EveningAndAfterWork == (k1 :> "evening") @@ (k2 :> "afterwork")

PolicySpacing ==
    [Task |-> 2, routine |-> 1, Idea |-> 7, Thought |-> 30, planned |-> 14, Reference |-> 30]
PolicyAge   == [Idea |-> 3, Thought |-> 30, planned |-> 7]
SmallLimit  == [Morning |-> 1, AfterWork |-> 1, Evening |-> 1, Weekend |-> 2]
PolicyCap   == [Evening |-> 2, Weekend |-> 3]
=============================================================================
