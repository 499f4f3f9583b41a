-------------------------- MODULE MCManualQueries --------------------------
(* Small instances of ManualQueries for TLC. *)
EXTENDS ManualQueries, TLC

CONSTANTS orchard, orchardWide, dessert, q1

\* "Orchard" saved in full-width letters is the same word to the process only.
Word == [w \in {orchard, orchardWide, dessert} |-> IF w = orchardWide THEN orchard ELSE w]

\* Today is the Wednesday of the second week.
Wednesday == 10

It(type, title, place, text, adj, created, due) ==
    [type |-> type, title |-> title, location |-> place, original |-> text,
     adjacent |-> adj, created |-> created, due |-> due]

\* Items that differ in one key of the orders, or are equal in all of them.
Kinds ==
    {It("Idea", {dessert, orchard}, {}, {}, TRUE, 1, 0),
     It("Task", {dessert}, {}, {orchard}, FALSE, 1, 10),
     It("Task", {}, {orchardWide}, {dessert}, FALSE, 2, 15)}

P(types, place, words, due, sort, limit) ==
    [types |-> types, location |-> place, keywords |-> words, due |-> due,
     sort |-> sort, limit |-> limit]

AnyPlan ==
    {P({}, None, {orchard, dessert}, "Any", "Relevance", 2),
     P({"Task"}, orchard, {}, "ThisWeek", "DueSoon", 3),
     P({"Idea"}, None, {orchard}, "NoDueDate", "Oldest", 3),
     P({}, None, {}, "Any", "DueSoon", 1)}

\* The shortcut "tasks".
Shortcut == [q \in {q1} |-> P({"Task"}, None, {}, "Any", "Relevance", 10)]
SomeForms == {"shortcut", "retrieval", "command"}
=============================================================================
