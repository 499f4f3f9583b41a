-------------------------- MODULE MCReviewDelivery --------------------------
(* Small instances of ReviewDelivery for TLC. *)
EXTENDS ReviewDelivery, TLC

CONSTANTS i1, i2

\* A Task that becomes due on the second date, and an Idea, both for any evening.
TaskAndIdea ==
    {(i1 :> [type |-> "Task", domain |-> "Career", shopping |-> "None", context |-> "Anytime",
             created |-> 1, due |-> 2, focused |-> FALSE])
     @@ (i2 :> [type |-> "Idea", domain |-> "Tech", shopping |-> "None", context |-> "Anytime",
                created |-> 1, due |-> 0, focused |-> FALSE])}

\* Spacings and ages fit the few dates: a Task two days, an Idea one and a day old.
SmallSpacing == [c \in Categories |-> IF c \in {"Task", "planned"} THEN 2 ELSE 1]
SmallAge     == [c \in {"Idea", "Thought", "planned"} |-> 1]
Two          == [w \in Windows |-> 2]
=============================================================================
