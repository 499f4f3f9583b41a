---------------------------- MODULE ItemActions ----------------------------
(***************************************************************************)
(* The buttons under a saved item: Done, Bought, Delete, Keep, Snooze and  *)
(* Focus, with the Snooze menu and its Back button.                        *)
(*                                                                         *)
(* A press occupies a slot of the process: the callback is answered, then  *)
(* ItemActionService.execute runs under its lock as a series of Notion     *)
(* calls, then the chat message is edited.  A step is what runs between    *)
(* two awaits.  Notion has no transactions over pages, so Focus and the    *)
(* Bought of the focused purchase are loops of single page updates that a  *)
(* failure or a crash can stop anywhere.  The list of planned purchases is *)
(* one answer, as it is below a hundred of them.                           *)
(*                                                                         *)
(* A press that Telegram delivers again is one more press.  The owner may  *)
(* trash, restore and edit pages in Notion between any two steps.          *)
(***************************************************************************)
EXTENDS Integers, Sequences

CONSTANTS
    Items,         \* pages of the database, present, future or trashed
    StartKinds,    \* the kinds items may have at the start, of [Items -> Kinds]
    EditedKinds,   \* the kinds an item may be edited to in Notion (a bound)
    Slots,         \* request slots of the process
    KeepDays,      \* [Kinds -> days]
    SnoozeDays,    \* days the four snooze buttons add
    CooldownDays,  \* planned_purchase_post_bought_cooldown_days
    SavedDates,    \* SnoozedUntil dates items may have at the start, 0 for none
    MaxDay,        \* last day considered (a bound)
    MaxPresses,    \* presses considered (a bound)
    MaxCrashes,    \* crashes considered (a bound)
    MaxTrashes,    \* pages trashed in Notion itself (a bound)
    MaxRestores,   \* restorations from Notion's trash considered (a bound)
    MaxEdits,      \* edits of a kind in Notion considered (a bound)
    NoItem         \* no item

\* What the views and the service tell apart.  "thought" stands for Ideas too, and
\* "shoppingTask" is a Task of domain Shopping without a ShoppingKind: no capture
\* creates one (validate_shopping_consistency), an edit in Notion can.
Kinds == {"task", "thought", "reference", "routine", "planned", "shoppingTask"}

ASSUME ItemActionsAssumption ==
    /\ StartKinds \subseteq [Items -> Kinds] /\ EditedKinds \subseteq Kinds
    /\ NoItem \notin Items
    /\ KeepDays \in [Kinds -> Nat \ {0}]
    /\ SnoozeDays \subseteq Nat \ {0}
    /\ CooldownDays \in Nat \ {0}
    /\ SavedDates \subseteq Nat /\ 0 \in SavedDates
    /\ MaxDay \in Nat \ {0} /\ MaxPresses \in Nat /\ MaxCrashes \in Nat /\ MaxTrashes \in Nat
    /\ MaxRestores \in Nat /\ MaxEdits \in Nat

VARIABLES
    where,     \* Notion: absent (not captured yet), active or trashed
    kind,      \* Notion: Type, Domain and ShoppingKind
    focus,     \* Notion: PurchaseFocus
    snooze,    \* Notion: SnoozedUntil, 0 for none
    day,       \* the Singapore date
    pc,        \* where each slot is
    call,      \* the callback it executes and the date it reads before the lock
    read,      \* the kind of its item as get_by_id read it, "none" before
    lock,      \* FIFO of slots at ItemActionService._lock; its head is the holder
    listed,    \* planned_purchases as listed by this slot
    todo,      \* updates of other purchases still to be made
    cooldown,  \* cooldown_date of a focused Bought, 0 for any other action
    result,    \* status of the execution
    presses, crashes, trashes, restores, edits   \* so far

notion  == <<where, kind, focus, snooze>>
local   == <<listed, todo, cooldown>>
process == <<pc, call, read, lock, local, result>>
bounds  == <<day, presses, crashes, trashes, restores, edits>>
vars    == <<notion, process, bounds>>

\* Snooze carries its days; the other actions have none.
Actions ==
    [name : {"done", "bought", "delete", "keep", "menu", "focus"}, days : {0}]
        \cup [name : {"snooze"}, days : SnoozeDays]

Dates == Nat
NoCall == [action |-> [name |-> "menu", days |-> 0], item |-> NoItem, on |-> 0]
Calls  == [action : Actions, item : Items, on : Dates]
Update == [item : Items, until : Dates]   \* until = 0: SnoozedUntil is not written

Critical == {"get", "list", "others", "own"}

TypeOK ==
    /\ where \in [Items -> {"absent", "active", "trashed"}]
    /\ kind \in [Items -> Kinds]
    /\ focus \in [Items -> BOOLEAN]
    /\ snooze \in [Items -> Dates]
    /\ day \in 1 .. MaxDay
    /\ pc \in [Slots -> {"idle", "answer", "queued", "reply"} \cup Critical]
    /\ call \in [Slots -> Calls \cup {NoCall}]
    /\ read \in [Slots -> Kinds \cup {"none"}]
    /\ lock \in Seq(Slots)
    /\ listed \in [Slots -> SUBSET Items]
    /\ todo \in [Slots -> SUBSET Update]
    /\ cooldown \in [Slots -> Dates]
    /\ result \in [Slots -> {"none", "applied", "display", "stale", "unavailable", "failed"}]
    /\ presses \in 0 .. MaxPresses
    /\ crashes \in 0 .. MaxCrashes
    /\ trashes \in 0 .. MaxTrashes
    /\ restores \in 0 .. MaxRestores
    /\ edits \in 0 .. MaxEdits

Active  == {i \in Items : where[i] = "active"}
Planned == {i \in Items : kind[i] = "planned"}

\* Any database the service can have left: at most one purchase is focused.
Init ==
    /\ where \in [Items -> {"absent", "active"}]
    /\ kind \in StartKinds
    /\ \E f \in (Planned \cap Active) \cup {NoItem} : focus = [i \in Items |-> i = f]
    /\ snooze \in [Items -> SavedDates]
    /\ \A i \in Items : where[i] = "absent" => snooze[i] = 0 /\ kind[i] # "shoppingTask"
    /\ day = 1
    /\ pc = [s \in Slots |-> "idle"]
    /\ call = [s \in Slots |-> NoCall]
    /\ read = [s \in Slots |-> "none"]
    /\ lock = <<>>
    /\ listed = [s \in Slots |-> {}]
    /\ todo = [s \in Slots |-> {}]
    /\ cooldown = [s \in Slots |-> 0]
    /\ result = [s \in Slots |-> "none"]
    /\ presses = 0 /\ crashes = 0 /\ trashes = 0 /\ restores = 0 /\ edits = 0

-----------------------------------------------------------------------------
Later(a, b) == IF a >= b THEN a ELSE b

\* Leave the service with a result; the lock passes on.
Return(s, status) ==
    /\ pc' = [pc EXCEPT ![s] = "reply"]
    /\ lock' = Tail(lock)
    /\ listed' = [listed EXCEPT ![s] = {}]
    /\ todo' = [todo EXCEPT ![s] = {}]
    /\ cooldown' = [cooldown EXCEPT ![s] = 0]
    /\ result' = [result EXCEPT ![s] = status]
    /\ UNCHANGED <<call, bounds>>

GoTo(s, place) ==
    /\ pc' = [pc EXCEPT ![s] = place]
    /\ UNCHANGED <<call, lock, result, bounds>>

-----------------------------------------------------------------------------
\* The callback query of a press arrives, for an item whose message is in the chat.
Press(s, a, i) ==
    /\ pc[s] = "idle"
    /\ presses < MaxPresses
    /\ where[i] # "absent"
    /\ presses' = presses + 1
    /\ pc' = [pc EXCEPT ![s] = "answer"]
    /\ call' = [call EXCEPT ![s] = [action |-> a, item |-> i, on |-> 0]]
    /\ UNCHANGED <<notion, read, lock, local, result, day, crashes, trashes, restores, edits>>

\* answer_callback_query; then the clock is read and the lock asked for.
AnswerOk(s) ==
    /\ pc[s] = "answer"
    /\ pc' = [pc EXCEPT ![s] = "queued"]
    /\ call' = [call EXCEPT ![s].on = day]
    /\ lock' = Append(lock, s)
    /\ UNCHANGED <<notion, read, local, result, bounds>>

\* The callback cannot be answered: 502, nothing is executed.
AnswerFails(s) ==
    /\ pc[s] = "answer"
    /\ pc' = [pc EXCEPT ![s] = "idle"]
    /\ call' = [call EXCEPT ![s] = NoCall]
    /\ UNCHANGED <<notion, read, lock, local, result, bounds>>

\* The lock is fair: it is granted in the order it was asked for.
LockFree(s) == lock # <<>> /\ Head(lock) = s

Acquire(s) ==
    /\ pc[s] = "queued"
    /\ LockFree(s)
    /\ GoTo(s, "get")
    /\ UNCHANGED <<notion, read, local>>

-----------------------------------------------------------------------------
\* Is the action one of those an item of kind k has?
Available(a, k) ==
    CASE a.name = "done"   -> k = "task"
      [] a.name = "bought" -> k \in {"routine", "planned"}
      [] a.name = "focus"  -> k = "planned"
      [] OTHER             -> TRUE

\* get_by_id of an item that is not there any more.
GetStale(s) ==
    /\ pc[s] = "get"
    /\ where[call[s].item] # "active"
    /\ Return(s, "stale")
    /\ UNCHANGED <<notion, read>>

\* get_by_id: what follows goes by the item as it is read here.
ReadItem(s) ==
    /\ pc[s] = "get"
    /\ where[call[s].item] = "active"
    /\ read' = [read EXCEPT ![s] = kind[call[s].item]]
    /\ UNCHANGED notion

\* The Snooze menu and Back only display; an action the kind lacks is refused.
GetOnly(s) ==
    /\ ReadItem(s)
    /\ \/ call[s].action.name = "menu" /\ Return(s, "display")
       \/ ~Available(call[s].action, kind[call[s].item]) /\ Return(s, "unavailable")

\* The rest starts: Focus and the Bought of the focused purchase list first.
GetItem(s) ==
    LET a == call[s].action i == call[s].item
        focusedBought == a.name = "bought" /\ kind[i] = "planned" /\ focus[i] IN
    /\ ReadItem(s)
    /\ a.name # "menu"
    /\ Available(a, kind[i])
    /\ GoTo(s, IF a.name = "focus" \/ focusedBought THEN "list" ELSE "own")
    /\ cooldown' =
         [cooldown EXCEPT ![s] = IF focusedBought THEN call[s].on + CooldownDays ELSE 0]
    /\ UNCHANGED <<listed, todo>>

\* Mutant: the purchase itself is among those cooled down.
OthersWithItself(s) ==
    IF cooldown[s] > 0
    THEN {[item |-> j, until |-> Later(snooze[j], cooldown[s])] : j \in Planned \cap Active}
    ELSE {[item |-> j, until |-> 0] : j \in {k \in Planned \cap Active : focus[k]}}

\* Mutant: the cooldown date replaces whatever snooze there is.
OthersShortened(s) ==
    LET others == (Planned \cap Active) \ {call[s].item} IN
    IF cooldown[s] > 0
    THEN {[item |-> j, until |-> cooldown[s]] : j \in others}
    ELSE {[item |-> j, until |-> 0] : j \in {k \in others : focus[k]}}

\* Mutant: purchases that are asleep are skipped.
OthersAwake(s) ==
    LET others == {j \in (Planned \cap Active) \ {call[s].item} : snooze[j] <= call[s].on} IN
    IF cooldown[s] > 0
    THEN {[item |-> j, until |-> Later(snooze[j], cooldown[s])] : j \in others}
    ELSE {[item |-> j, until |-> 0] : j \in {k \in others : focus[k]}}

\* What the two loops will write: Bought snoozes and unfocuses every other
\* planned purchase, Focus unfocuses those that are focused.
OthersToUpdate(s) ==
    LET others == (Planned \cap Active) \ {call[s].item} IN
    IF cooldown[s] > 0
    THEN {[item |-> j, until |-> Later(snooze[j], cooldown[s])] : j \in others}
    ELSE {[item |-> j, until |-> 0] : j \in {k \in others : focus[k]}}

\* list_planned_purchases
ListPlanned(s) ==
    /\ pc[s] = "list"
    /\ listed' = [listed EXCEPT ![s] = Planned \cap Active]
    /\ todo' = [todo EXCEPT ![s] = OthersToUpdate(s)]
    /\ GoTo(s, IF OthersToUpdate(s) = {} THEN "own" ELSE "others")
    /\ UNCHANGED <<notion, read, cooldown>>

\* One page update by Notion, of a page read just before as a planned purchase: of
\* another kind it is refused with ItemPersistenceError.
WriteOther(t) ==
    /\ kind[t.item] = "planned"
    /\ focus' = [focus EXCEPT ![t.item] = FALSE]
    /\ snooze' = [snooze EXCEPT ![t.item] = IF t.until = 0 THEN @ ELSE t.until]
    /\ UNCHANGED <<where, kind>>

\* Mutant: the days are counted back from the date.
WriteOwnBackwards(s) ==
    LET a == call[s].action i == call[s].item IN
    /\ a.name = "focus" => kind[i] = "planned"
    /\ where' = IF a.name \in {"done", "bought", "delete"}
                THEN [where EXCEPT ![i] = "trashed"] ELSE where
    /\ focus' = IF a.name = "focus" THEN [focus EXCEPT ![i] = TRUE] ELSE focus
    /\ snooze' =
         CASE a.name = "keep"   -> [snooze EXCEPT ![i] = call[s].on - KeepDays[read[s]]]
           [] a.name = "snooze" -> [snooze EXCEPT ![i] = call[s].on - a.days]
           [] OTHER             -> snooze
    /\ UNCHANGED kind

\* The update of the item itself: its trashing, SnoozedUntil or PurchaseFocus, which
\* set_purchase_focus writes to a planned purchase only.
WriteOwn(s) ==
    LET a == call[s].action i == call[s].item IN
    /\ a.name = "focus" => kind[i] = "planned"
    /\ where' = IF a.name \in {"done", "bought", "delete"}
                THEN [where EXCEPT ![i] = "trashed"] ELSE where
    /\ focus' = IF a.name = "focus" THEN [focus EXCEPT ![i] = TRUE] ELSE focus
    /\ snooze' =
         CASE a.name = "keep"   -> [snooze EXCEPT ![i] = call[s].on + KeepDays[read[s]]]
           [] a.name = "snooze" -> [snooze EXCEPT ![i] = call[s].on + a.days]
           [] OTHER             -> snooze
    /\ UNCHANGED kind

\* The next update of another purchase; that it is gone by now is passed over.
UpdateOther(s) ==
    /\ pc[s] = "others"
    /\ \E t \in todo[s] :
          /\ IF where[t.item] = "active" THEN WriteOther(t) ELSE UNCHANGED notion
          /\ todo' = [todo EXCEPT ![s] = @ \ {t}]
          /\ GoTo(s, IF todo[s] = {t} THEN "own" ELSE "others")
    /\ UNCHANGED <<read, listed, cooldown>>

\* The item's own update: trash, SnoozedUntil or PurchaseFocus.
UpdateOwn(s) ==
    /\ pc[s] = "own"
    /\ where[call[s].item] = "active"
    /\ WriteOwn(s)
    /\ Return(s, "applied")
    /\ UNCHANGED read

UpdateOwnStale(s) ==
    /\ pc[s] = "own"
    /\ where[call[s].item] # "active"
    /\ Return(s, "stale")
    /\ UNCHANGED <<notion, read>>

\* Mutant: a failed own update is reported as applied.
CallFailsReportedApplied(s) ==
    /\ pc[s] \in Critical
    /\ Return(s, "applied")
    /\ UNCHANGED <<notion, read>>

\* Mutant: an error of the repository counts as an item that is gone.
CallFailsReportedStale(s) ==
    /\ pc[s] \in Critical
    /\ Return(s, "stale")
    /\ UNCHANGED <<notion, read>>

\* Mutant: the lock is not released on an error.
CallFailsHoldingLock(s) ==
    /\ pc[s] \in Critical
    /\ pc' = [pc EXCEPT ![s] = "reply"]
    /\ result' = [result EXCEPT ![s] = "failed"]
    /\ UNCHANGED <<notion, call, read, lock, local, bounds>>

\* ItemPersistenceError from a call that changed nothing ...
CallFails(s) ==
    /\ pc[s] \in Critical
    /\ Return(s, "failed")
    /\ UNCHANGED <<notion, read>>

\* A page update that Notion makes although nobody hears of it.
LostWrite(s) ==
    \/ /\ pc[s] = "others"
       /\ \E t \in todo[s] : where[t.item] = "active" /\ WriteOther(t)
    \/ /\ pc[s] = "own"
       /\ where[call[s].item] = "active"
       /\ WriteOwn(s)

\* ... or from one whose reply was lost.
CallLost(s) ==
    /\ LostWrite(s)
    /\ Return(s, "failed")
    /\ UNCHANGED read

\* The message is edited, or a notice sent instead, or neither gets through: 200.
Reply(s) ==
    /\ pc[s] = "reply"
    /\ pc' = [pc EXCEPT ![s] = "idle"]
    /\ call' = [call EXCEPT ![s] = NoCall]
    /\ read' = [read EXCEPT ![s] = "none"]
    /\ result' = [result EXCEPT ![s] = "none"]
    /\ UNCHANGED <<notion, lock, local, bounds>>

-----------------------------------------------------------------------------
\* A capture adds an item: never focused, never snoozed (_properties_for).
Captured(i) ==
    /\ where[i] = "absent"
    /\ where' = [where EXCEPT ![i] = "active"]
    /\ UNCHANGED <<kind, focus, snooze, process, bounds>>

\* The user trashes or restores a page in Notion; its properties stay.
UserTrashes(i) ==
    /\ trashes < MaxTrashes
    /\ where[i] = "active"
    /\ where' = [where EXCEPT ![i] = "trashed"]
    /\ trashes' = trashes + 1
    /\ UNCHANGED <<kind, focus, snooze, process, day, presses, crashes, restores, edits>>

UserRestores(i) ==
    /\ restores < MaxRestores
    /\ where[i] = "trashed"
    /\ where' = [where EXCEPT ![i] = "active"]
    /\ restores' = restores + 1
    /\ UNCHANGED <<kind, focus, snooze, process, day, presses, crashes, trashes, edits>>

\* The user changes Type, Domain or ShoppingKind in Notion.
UserEdits(i, k) ==
    /\ edits < MaxEdits
    /\ where[i] = "active"
    /\ kind' = [kind EXCEPT ![i] = k]
    /\ edits' = edits + 1
    /\ UNCHANGED <<where, focus, snooze, process, day, presses, crashes, trashes, restores>>

Midnight ==
    /\ day < MaxDay
    /\ day' = day + 1
    /\ UNCHANGED <<notion, process, presses, crashes, trashes, restores, edits>>

\* The process dies; a page update it had sent may have been made.
Crash ==
    /\ crashes < MaxCrashes
    /\ crashes' = crashes + 1
    /\ \/ UNCHANGED notion
       \/ \E s \in Slots : LostWrite(s)
    /\ pc' = [s \in Slots |-> "idle"]
    /\ call' = [s \in Slots |-> NoCall]
    /\ read' = [s \in Slots |-> "none"]
    /\ lock' = <<>>
    /\ listed' = [s \in Slots |-> {}]
    /\ todo' = [s \in Slots |-> {}]
    /\ cooldown' = [s \in Slots |-> 0]
    /\ result' = [s \in Slots |-> "none"]
    /\ UNCHANGED <<day, presses, trashes, restores, edits>>

-----------------------------------------------------------------------------
Step(s) ==
    \/ AnswerOk(s) \/ AnswerFails(s) \/ Acquire(s)
    \/ GetStale(s) \/ GetOnly(s) \/ GetItem(s)
    \/ ListPlanned(s) \/ UpdateOther(s) \/ UpdateOwn(s) \/ UpdateOwnStale(s)
    \/ CallFails(s) \/ CallLost(s)
    \/ Reply(s)

Next ==
    \/ \E s \in Slots : Step(s) \/ \E a \in Actions, i \in Items : Press(s, a, i)
    \/ \E i \in Items : Captured(i) \/ UserTrashes(i)
    \/ Midnight
    \/ Crash

Spec == Init /\ [][Next]_vars

\* The same with an owner who also restores and edits pages in Notion.
OwnerNext ==
    \/ Next
    \/ \E i \in Items : UserRestores(i) \/ \E k \in EditedKinds : UserEdits(i, k)

OwnerSpec == Init /\ [][OwnerNext]_vars

-----------------------------------------------------------------------------
\* "Only one Planned purchase can be focused": in every state, also between the
\* updates of a Focus, after a failure in the middle of one, and after a crash.
AtMostOneFocus ==
    \A i, j \in Planned \cap Active : focus[i] /\ focus[j] => i = j

\* By the time the focused purchase is trashed, every purchase that was listed
\* with it and is still there sleeps through the cooldown and has no focus.
CooldownBeforeTrash ==
    \A s \in Slots : pc[s] = "own" /\ cooldown[s] > 0 =>
        \A j \in (listed[s] \cap Active) \ {call[s].item} :
            snooze[j] >= cooldown[s] /\ ~focus[j]

\* "making a retry safe if a partial Notion failure occurs": while the other
\* purchases are updated the bought one keeps its focus, so pressing Bought again
\* after a failure finds it focused and repeats the cooldown.
RetrySafe ==
    \A s \in Slots : pc[s] \in {"list", "others", "own"} /\ cooldown[s] > 0 =>
        focus[call[s].item]

\* Bought, Done and Deleted are reported only for a page that left the database.
NoFalseSuccess ==
    \A s \in Slots :
        pc[s] = "reply" /\ result[s] = "applied"
        /\ call[s].action.name \in {"done", "bought", "delete"} =>
            where[call[s].item] = "trashed"

\* "without shortening any later existing snooze": a SnoozedUntil moves to an
\* earlier date only by Keep or Snooze of that very item.
CooldownNeverShortens ==
    [][\A i \in Items : snooze'[i] < snooze[i] =>
          \E s \in Slots : /\ pc[s] = "own" /\ call[s].item = i
                           /\ call[s].action.name \in {"keep", "snooze"}]_vars

\* Every press ends: no failure or crash leaves the service's lock taken.
PressesEnd == \A s \in Slots : pc[s] # "idle" ~> pc[s] = "idle"
=============================================================================
