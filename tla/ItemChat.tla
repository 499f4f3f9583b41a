------------------------------ MODULE ItemChat ------------------------------
(***************************************************************************)
(* The messages of items in the chat and their inline keyboards: which     *)
(* buttons ItemActionViewBuilder gives an item, what a press of one makes  *)
(* of the message, and that presses are only of buttons that were offered. *)
(*                                                                         *)
(* An item has several messages: its confirmation, answers to questions,   *)
(* reviews.  A client shows a keyboard a little longer than the chat has   *)
(* it, so any button a message ever offered can be pressed, also after the *)
(* owner edited the item into another kind.  Messages are edited outside   *)
(* the service's lock, in any order.                                       *)
(***************************************************************************)
EXTENDS ItemActions

CONSTANTS
    Messages,   \* messages of items considered (a bound)
    ItemOf,     \* [Messages -> Items]
    NoMessage

ASSUME ItemChatAssumption ==
    /\ ItemOf \in [Messages -> Items]
    /\ NoMessage \notin Messages

VARIABLES
    buttons,   \* the keyboard of each message, without the link to Notion
    offered,   \* history: the buttons it had so far
    origin,    \* the message whose button a slot executes
    tapped     \* that button

chat     == <<buttons, offered, origin, tapped>>
chatVars == <<vars, chat>>

\* The buttons: an action, where the action "menu" is that of Snooze and of Back, and,
\* as history, the kind of the item that it was offered for.
Plain(names, k) ==
    [action : {[name |-> n, days |-> 0] : n \in names}, back : {FALSE}, of : {k}]
Back(k)  == [action |-> [name |-> "menu", days |-> 0], back |-> TRUE, of |-> k]
Buttons  == [action : Actions, back : BOOLEAN, of : Kinds]
NoButton == [action |-> [name |-> "menu", days |-> 0], back |-> FALSE, of |-> "none"]

ChatTypeOK ==
    /\ TypeOK
    /\ buttons \in [Messages -> SUBSET Buttons]
    /\ offered \in [Messages -> SUBSET Buttons]
    /\ origin \in [Slots -> Messages \cup {NoMessage}]
    /\ tapped \in [Slots -> Buttons \cup {NoButton}]

-----------------------------------------------------------------------------
\* Mutant: every item can be kept and snoozed, and is done in the end.
KeyboardOfTask(k) == Plain({"done", "menu", "keep", "delete"}, k)

\* action_keyboard, which goes by the type of what is neither purchase.
ActionKeyboard(k) ==
    CASE k = "planned"                  -> Plain({"focus", "bought", "keep", "delete"}, k)
      [] k = "routine"                  -> Plain({"bought", "menu", "delete"}, k)
      [] k \in {"task", "shoppingTask"} -> Plain({"done", "menu", "keep", "delete"}, k)
      [] k = "thought"                  -> Plain({"keep", "delete"}, k)
      [] k = "reference"                -> Plain({"delete"}, k)

SnoozeKeyboard(k) ==
    [action : [name : {"snooze"}, days : SnoozeDays], back : {FALSE}, of : {k}]
        \cup {Back(k)}

\* _view_for_result: the keyboard of the edited message, for the item as it was read.
KeyboardAfter(s) ==
    LET k == read[s]
        leaves == call[s].action.name \in {"done", "bought", "delete"} IN
    CASE result[s] = "stale"                          -> {}
      [] result[s] = "unavailable"                    -> ActionKeyboard(k)
      [] result[s] = "display" /\ tapped[s].back      -> ActionKeyboard(k)
      [] result[s] = "display" /\ ~tapped[s].back     -> SnoozeKeyboard(k)
      [] result[s] = "applied" /\ leaves              -> {}
      [] result[s] = "applied" /\ ~leaves             -> ActionKeyboard(k)

Shows(m, keyboard) ==
    /\ buttons' = [buttons EXCEPT ![m] = keyboard]
    /\ offered' = [offered EXCEPT ![m] = @ \cup keyboard]

-----------------------------------------------------------------------------
\* Items that are there have their messages.
ChatInit ==
    /\ Init
    /\ buttons =
         [m \in Messages |->
            IF where[ItemOf[m]] = "active" THEN ActionKeyboard(kind[ItemOf[m]]) ELSE {}]
    /\ offered = buttons
    /\ origin = [s \in Slots |-> NoMessage]
    /\ tapped = [s \in Slots |-> NoButton]

\* A confirmation, an answer or a review shows an item, as it was when it was read.
Sent(m) ==
    /\ offered[m] = {}
    /\ where[ItemOf[m]] # "absent"
    /\ Shows(m, ActionKeyboard(kind[ItemOf[m]]))
    /\ UNCHANGED <<vars, origin, tapped>>

Tap(s, m, b) ==
    /\ Press(s, b.action, ItemOf[m])
    /\ origin' = [origin EXCEPT ![s] = m]
    /\ tapped' = [tapped EXCEPT ![s] = b]
    /\ UNCHANGED <<buttons, offered>>

\* The press goes on up to its result.
Work(s) ==
    /\ pc[s] # "reply"
    /\ Step(s)
    /\ UNCHANGED chat

\* An error leaves the message as it is, for another try; else it is edited, unless
\* the edit fails and a notice without buttons takes its place.
EditOrNotice(s) ==
    /\ Reply(s)
    /\ origin' = [origin EXCEPT ![s] = NoMessage]
    /\ tapped' = [tapped EXCEPT ![s] = NoButton]
    /\ \/ UNCHANGED <<buttons, offered>>
       \/ result[s] # "failed" /\ Shows(origin[s], KeyboardAfter(s))

Elsewhere ==
    /\ \/ \E i \in Items : \/ Captured(i) \/ UserTrashes(i) \/ UserRestores(i)
                          \/ \E k \in EditedKinds : UserEdits(i, k)
       \/ Midnight
    /\ UNCHANGED chat

\* The process dies; an edit it had sent may have been made.
ChatCrash ==
    /\ Crash
    /\ \/ UNCHANGED <<buttons, offered>>
       \/ \E s \in Slots : /\ pc[s] = "reply" /\ result[s] # "failed"
                           /\ Shows(origin[s], KeyboardAfter(s))
    /\ origin' = [s \in Slots |-> NoMessage]
    /\ tapped' = [s \in Slots |-> NoButton]

ChatNext ==
    \/ \E m \in Messages : Sent(m) \/ \E s \in Slots : \E b \in offered[m] : Tap(s, m, b)
    \/ \E s \in Slots : Work(s) \/ EditOrNotice(s)
    \/ Elsewhere
    \/ ChatCrash

\* Every call of a press has a timeout, so it always moves on.
ChatSpec ==
    /\ ChatInit /\ [][ChatNext]_chatVars
    /\ \A s \in Slots : WF_chatVars(Work(s) \/ EditOrNotice(s))

-----------------------------------------------------------------------------
\* "Buttons based on current item metadata": views and service agree.  However late,
\* often and beside which other presses, edits and failures a button is pressed, it is
\* refused with "Action unavailable" only if its item is of another kind by then than it
\* was when the button was offered.  The code has one exception: a Task edited into
\* Shopping without a ShoppingKind is offered Done, which _done refuses.
RefusedOnlyIfEdited ==
    \A s \in Slots : result[s] = "unavailable" =>
        \/ tapped[s].of # read[s]
        \/ read[s] = "shoppingTask" /\ call[s].action.name = "done"

\* A message loses its buttons only with its item: whatever presses fail, overlap or
\* are answered out of order, an item in the database can be acted on from each of
\* its messages (unless it came back from the trash).
ButtonsWhileActive ==
    \A m \in Messages :
        restores = 0 /\ offered[m] # {} /\ where[ItemOf[m]] = "active" => buttons[m] # {}
=============================================================================
