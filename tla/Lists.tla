------------------------------- MODULE Lists -------------------------------
(***************************************************************************)
(* What the program's sorts and loops compute.  An order is a set of       *)
(* pairs: which element goes before which.                                 *)
(***************************************************************************)
EXTENDS Naturals, Sequences, FiniteSets

\* sorted, by a key without ties: the place of an element tells how many go before it.
Ranked(S, order) ==
    [n \in 1 .. Cardinality(S) |->
        CHOOSE x \in S : Cardinality({y \in S : <<y, x>> \in order}) = n - 1]

\* list.sort, by a key with ties: elements with the same key keep the order they have.
Then(key, order) == key \cup {p \in order : <<p[2], p[1]>> \notin key}

\* Tuples of numbers are compared at the first place where they differ.
Less(s, t) == \E n \in DOMAIN s : s[n] < t[n] /\ \A m \in 1 .. n - 1 : s[m] = t[m]

\* A loop over a list, from the first state; body is a function of state and element.
Loop(body, first, list) ==
    LET after[n \in 0 .. Len(list)] ==
            IF n = 0 THEN first ELSE body[after[n - 1]][list[n]] IN
    after[Len(list)]
=============================================================================
