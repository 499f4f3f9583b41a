------------------------------- MODULE Inbox -------------------------------
(***************************************************************************)
(* What the capture flow promises its user, without requests, locks, calls *)
(* or crashes: classifications of a message are kept for good, the chat is *)
(* told only of what is kept, and Telegram is told to stop delivering a    *)
(* message only together with a confirmation, or if there is no text.      *)
(***************************************************************************)
CONSTANTS
    Updates,   \* the owner's messages
    Blank,     \* those without text
    Classes    \* classifications

VARIABLES
    kept,      \* [Updates -> SUBSET Classes], the classifications stored
    told,      \* [Updates -> SUBSET Classes], those confirmed in the chat
    done       \* messages that are not delivered any more

vars == <<kept, told, done>>

Init ==
    /\ kept = [u \in Updates |-> {}]
    /\ told = [u \in Updates |-> {}]
    /\ done = {}

Keep(u, c) ==
    /\ u \notin Blank
    /\ kept' = [kept EXCEPT ![u] = @ \cup {c}]
    /\ UNCHANGED <<told, done>>

\* A confirmation; it may be the last thing to happen to the message.
Tell(u, c) ==
    /\ c \in kept[u]
    /\ told' = [told EXCEPT ![u] = @ \cup {c}]
    /\ done' \in {done, done \cup {u}}
    /\ UNCHANGED kept

Ignore(u) ==
    /\ u \in Blank
    /\ done' = done \cup {u}
    /\ UNCHANGED <<kept, told>>

Next ==
    \E u \in Updates :
        \/ \E c \in Classes : Keep(u, c) \/ Tell(u, c)
        \/ Ignore(u)

Spec == Init /\ [][Next]_vars
=============================================================================
