--------------------------- MODULE ReviewDelivery ---------------------------
(***************************************************************************)
(* ReviewDeliveryService: a run of a scheduled review plans on what Notion *)
(* answers, sends the primary message, records LastSurfaced page by page   *)
(* with one retry, and sends the action messages.                          *)
(*                                                                         *)
(* The guard (RecentRunGuard) starts each run once; runs of different jobs *)
(* and deliberate runs of a job overlap.  The date is that of the request, *)
(* whenever the run comes to use it.  A step is what runs between two      *)
(* awaits, with two exceptions: a page's check and its update are one, and *)
(* so are the query and the plan made of it.  Planning awaits nothing else *)
(* than the pages of the query, and below a hundred candidates there is    *)
(* one; what changes between two pages of a longer query is not modelled.  *)
(***************************************************************************)
EXTENDS Eligibility, FiniteSets

CONSTANTS
    Items,           \* pages of the database
    Databases,       \* attributes the pages may have, each [Items -> Attributes]
    Runs,            \* runs that can overlap
    Limit,           \* [Windows -> entries and displayed routine items of a review]
    FirstDay,        \* the date on which the behaviours begin
    WeekendDays,     \* dates that are Saturdays and Sundays
    AcrossMidnight,  \* may a run go on past midnight?
    MaxDay,          \* last date considered (a bound)
    MaxRuns,         \* runs considered (a bound)
    MaxUserActions,  \* snoozes and trashed pages considered (a bound)
    MaxCrashes       \* crashes considered (a bound)

ASSUME DeliveryAssumption ==
    /\ Databases \subseteq [Items -> Attributes]
    /\ IsFiniteSet(Items)
    /\ Limit \in [Windows -> Nat \ {0}]
    /\ FirstDay \in 1 .. MaxDay
    /\ WeekendDays \subseteq Nat
    /\ AcrossMidnight \in BOOLEAN
    /\ MaxDay \in Nat \ {0} /\ MaxRuns \in Nat /\ MaxUserActions \in Nat /\ MaxCrashes \in Nat

VARIABLES
    attr,          \* Notion: what each page says
    active,        \* Notion: pages that are not in the trash
    snoozedUntil,  \* Notion: SnoozedUntil, 0 for none
    lastSurfaced,  \* Notion: LastSurfaced, 0 for none
    day,           \* the Singapore date
    pc,            \* where each run is
    request,       \* its window and the date of its execution_time
    items,         \* the items of its plan
    todo,          \* pages this attempt has still to record
    attempt,       \* attempt at _record_last_surfaced
    shown,         \* history: items of primary messages in the chat, with the run's date
    told,          \* history: the same for runs that answered last_surfaced_recorded
    runs, userActions, crashes   \* so far

notion   == <<attr, active, snoozedUntil, lastSurfaced>>
local    == <<request, items, todo, attempt>>
history  == <<shown, told>>
bounds   == <<day, runs, userActions, crashes>>
vars     == <<notion, pc, local, history, bounds>>

Dates     == 0 .. MaxDay
NoRequest == [window |-> "none", on |-> 0]

TypeOK ==
    /\ attr \in Databases
    /\ active \subseteq Items
    /\ snoozedUntil \in [Items -> 0 .. MaxDay + 1]
    /\ lastSurfaced \in [Items -> Dates]
    /\ day \in FirstDay .. MaxDay
    /\ pc \in [Runs -> {"idle", "plan", "send", "record", "actions"}]
    /\ request \in [Runs -> [window : Windows \cup {"none"}, on : Dates]]
    /\ items \in [Runs -> SUBSET Items]
    /\ todo \in [Runs -> SUBSET Items]
    /\ attempt \in [Runs -> 0 .. 2]
    /\ shown \subseteq Items \X Dates
    /\ told \subseteq Items \X Dates
    /\ runs \in 0 .. MaxRuns
    /\ userActions \in 0 .. MaxUserActions
    /\ crashes \in 0 .. MaxCrashes

Init ==
    /\ attr \in Databases
    /\ active = Items
    /\ snoozedUntil = [i \in Items |-> 0]
    /\ lastSurfaced = [i \in Items |-> 0]
    /\ day = FirstDay
    /\ pc = [r \in Runs |-> "idle"]
    /\ request = [r \in Runs |-> NoRequest]
    /\ items = [r \in Runs |-> {}]
    /\ todo = [r \in Runs |-> {}]
    /\ attempt = [r \in Runs |-> 0]
    /\ shown = {} /\ told = {}
    /\ runs = 0 /\ userActions = 0 /\ crashes = 0

-----------------------------------------------------------------------------
\* The run ends: its response goes out.
End(r) ==
    /\ pc' = [pc EXCEPT ![r] = "idle"]
    /\ request' = [request EXCEPT ![r] = NoRequest]
    /\ items' = [items EXCEPT ![r] = {}]
    /\ todo' = [todo EXCEPT ![r] = {}]
    /\ attempt' = [attempt EXCEPT ![r] = 0]

\* A request of the scheduler or of the operator: the clock is read, the window
\* resolved.  Slots that are invalid at weekends are refused before anything happens.
Start(r, slot) ==
    LET w == ResolveWindow(slot, day \in WeekendDays) IN
    /\ pc[r] = "idle"
    /\ runs < MaxRuns
    /\ w # "none"
    /\ pc' = [pc EXCEPT ![r] = "plan"]
    /\ request' = [request EXCEPT ![r] = [window |-> w, on |-> day]]
    /\ runs' = runs + 1
    /\ UNCHANGED <<notion, items, todo, attempt, history, day, userActions, crashes>>

\* The items a run may show.  Which of them it shows depends on their scores and on
\* the selection (Selection): any few of them, possibly none.
Candidates(r) ==
    {i \in active : Eligible(attr[i], request[r].window, request[r].on,
                             snoozedUntil[i], lastSurfaced[i])}

Plan(r, P) ==
    /\ pc[r] = "plan"
    /\ P # {} /\ Cardinality(P) <= Limit[request[r].window]
    /\ P \subseteq Candidates(r)
    /\ pc' = [pc EXCEPT ![r] = "send"]
    /\ items' = [items EXCEPT ![r] = P]
    /\ UNCHANGED <<notion, request, todo, attempt, history, bounds>>

\* An empty plan sends and writes nothing; a failed query ends the run with an error.
PlanEmptyOrFailed(r) ==
    /\ pc[r] = "plan"
    /\ End(r)
    /\ UNCHANGED <<notion, history, bounds>>

\* The message of the run is in the chat.
Show(r) == shown' = shown \cup (items[r] \X {request[r].on})

\* Mutant: LastSurfaced is recorded also when the primary message failed.
SendFailsRecording(r) ==
    /\ pc[r] = "send"
    /\ pc' = [pc EXCEPT ![r] = "record"]
    /\ todo' = [todo EXCEPT ![r] = items[r]]
    /\ attempt' = [attempt EXCEPT ![r] = 1]
    /\ UNCHANGED <<notion, request, items, history, bounds>>

SendOk(r) ==
    /\ pc[r] = "send"
    /\ Show(r)
    /\ pc' = [pc EXCEPT ![r] = "record"]
    /\ todo' = [todo EXCEPT ![r] = items[r]]
    /\ attempt' = [attempt EXCEPT ![r] = 1]
    /\ UNCHANGED <<notion, request, items, told, bounds>>

\* The primary message fails, or only its confirmation gets lost: 502 either way.
SendFails(r) ==
    /\ pc[r] = "send"
    /\ Show(r) \/ UNCHANGED shown
    /\ End(r)
    /\ UNCHANGED <<notion, told, bounds>>

-----------------------------------------------------------------------------
\* One page of record_last_surfaced; a page in the trash is skipped.
WriteSurfaced(r, i) ==
    lastSurfaced' =
        IF i \in active THEN [lastSurfaced EXCEPT ![i] = request[r].on] ELSE lastSurfaced

RecordPage(r, i) ==
    /\ pc[r] = "record"
    /\ i \in todo[r]
    /\ WriteSurfaced(r, i)
    /\ todo' = [todo EXCEPT ![r] = @ \ {i}]
    /\ UNCHANGED <<attr, active, snoozedUntil, pc, request, items, attempt, history, bounds>>

Recorded(r) ==
    /\ pc[r] = "record"
    /\ todo[r] = {}
    /\ told' = told \cup (items[r] \X {request[r].on})
    /\ pc' = [pc EXCEPT ![r] = "actions"]
    /\ UNCHANGED <<notion, local, shown, bounds>>

\* A call of the batch fails, with or without its update having been made.
BatchFails(r) ==
    /\ pc[r] = "record"
    /\ todo[r] # {}
    /\ \/ UNCHANGED lastSurfaced
       \/ \E i \in todo[r] : WriteSurfaced(r, i)

\* Mutant: the retry goes on after the page that failed.
RetrySkipping(r) ==
    /\ BatchFails(r)
    /\ attempt[r] = 1
    /\ attempt' = [attempt EXCEPT ![r] = 2]
    /\ \E i \in todo[r] : todo' = [todo EXCEPT ![r] = @ \ {i}]
    /\ UNCHANGED <<attr, active, snoozedUntil, pc, request, items, history, bounds>>

\* Mutant: there is no limit to the retries.
RetryAgain(r) ==
    /\ BatchFails(r)
    /\ attempt' = [attempt EXCEPT ![r] = @ + 1]
    /\ todo' = [todo EXCEPT ![r] = items[r]]
    /\ UNCHANGED <<attr, active, snoozedUntil, pc, request, items, history, bounds>>

\* The first failure starts the whole batch again ...
Retry(r) ==
    /\ BatchFails(r)
    /\ attempt[r] = 1
    /\ attempt' = [attempt EXCEPT ![r] = 2]
    /\ todo' = [todo EXCEPT ![r] = items[r]]
    /\ UNCHANGED <<attr, active, snoozedUntil, pc, request, items, history, bounds>>

\* ... the second is logged, and the run goes on.
GiveUp(r) ==
    /\ BatchFails(r)
    /\ attempt[r] = 2
    /\ pc' = [pc EXCEPT ![r] = "actions"]
    /\ UNCHANGED <<attr, active, snoozedUntil, local, history, bounds>>

\* The silent action messages: failures are logged, whatever they are.
SendActions(r) ==
    /\ pc[r] = "actions"
    /\ End(r)
    /\ UNCHANGED <<notion, history, bounds>>

-----------------------------------------------------------------------------
\* The user snoozes or trashes an item at any time, between any two steps of a run.
UserSnoozes(i) ==
    /\ userActions < MaxUserActions
    /\ i \in active
    /\ snoozedUntil' = [snoozedUntil EXCEPT ![i] = day + 1]
    /\ userActions' = userActions + 1
    /\ UNCHANGED <<attr, active, lastSurfaced, pc, local, history, day, runs, crashes>>

UserTrashes(i) ==
    /\ userActions < MaxUserActions
    /\ i \in active
    /\ active' = active \ {i}
    /\ userActions' = userActions + 1
    /\ UNCHANGED <<attr, snoozedUntil, lastSurfaced, pc, local, history, day, runs, crashes>>

Midnight ==
    /\ day < MaxDay
    /\ AcrossMidnight \/ \A r \in Runs : pc[r] = "idle"
    /\ day' = day + 1
    /\ UNCHANGED <<notion, pc, local, history, runs, userActions, crashes>>

\* The process dies: its runs are gone, a message or an update under way may arrive.
Crash ==
    /\ crashes < MaxCrashes
    /\ crashes' = crashes + 1
    /\ \/ UNCHANGED <<lastSurfaced, shown>>
       \/ \E r \in Runs : pc[r] = "send" /\ Show(r) /\ UNCHANGED lastSurfaced
       \/ \E r \in Runs : BatchFails(r) /\ UNCHANGED shown
    /\ pc' = [r \in Runs |-> "idle"]
    /\ request' = [r \in Runs |-> NoRequest]
    /\ items' = [r \in Runs |-> {}]
    /\ todo' = [r \in Runs |-> {}]
    /\ attempt' = [r \in Runs |-> 0]
    /\ UNCHANGED <<attr, active, snoozedUntil, told, day, runs, userActions>>

-----------------------------------------------------------------------------
Step(r) ==
    \/ \E P \in SUBSET Items : Plan(r, P)
    \/ PlanEmptyOrFailed(r)
    \/ SendOk(r) \/ SendFails(r)
    \/ \E i \in Items : RecordPage(r, i)
    \/ Recorded(r) \/ Retry(r) \/ GiveUp(r)
    \/ SendActions(r)

Next ==
    \/ \E r \in Runs : Step(r) \/ \E slot \in Slots : Start(r, slot)
    \/ \E i \in Items : UserSnoozes(i) \/ UserTrashes(i)
    \/ Midnight
    \/ Crash

Spec == Init /\ [][Next]_vars

-----------------------------------------------------------------------------
\* "records LastSurfaced only after that succeeds": a page says it was surfaced on a
\* date only when the chat has a message of that date with it, also after failed
\* sends, lost confirmations and crashes.
SurfacedOnlyIfShown ==
    \A i \in Items : lastSurfaced[i] # 0 => <<i, lastSurfaced[i]>> \in shown

\* A run that answered last_surfaced_recorded has marked every displayed page that
\* is still there, also those of an attempt that failed before the retry, and no
\* other run takes the mark back.
RecordedIsTrue ==
    \A t \in told : t[1] \in active => lastSurfaced[t[1]] >= t[2]

\* The passive spacing is kept towards what is recorded: once a run has finished
\* recording an item, no other run, however it overlaps, plans it again on that date, and
\* later only after its spacing or as a Task due by then.  Nothing keeps apart two runs
\* that both plan before either has recorded: those can show an item twice.
SpacingKept ==
    [][\A r \in Runs : pc[r] = "plan" /\ pc'[r] = "send" =>
          \A t \in told :
              LET a == attr[t[1]] on == request[r].on IN
              t[1] \in items'[r] =>
                  on > t[2] /\ (on - t[2] >= Spacing(a) \/ DueNow(a, on))]_vars
=============================================================================
