-------------------------- MODULE ScheduledReviews --------------------------
(***************************************************************************)
(* A scheduled review from the request to its outcome: the route and       *)
(* ScheduledReviewService resolve the window and run the delivery once per *)
(* run key, under RecentRunGuard; the review is planned by resurfacing.py  *)
(* on what Notion answers.                                                 *)
(*                                                                         *)
(* The parts are composed: the guard as it promises to be (RunLedger,      *)
(* which RecentRunGuard implements), the delivery as ReviewDelivery has    *)
(* it, and the plan computed from the items (ReviewScoring) in place of    *)
(* the arbitrary one there.  The guard's time is counted in dates.         *)
(***************************************************************************)
EXTENDS ReviewScoring, FiniteSets

CONSTANTS
    Items, Databases, Runs, FirstDay, WeekendDays,     \* as in ReviewDelivery
    Keys,            \* run keys: the executions of the scheduler's jobs
    Slot,            \* [Keys -> Slots]: what the job asks for
    Retention,       \* dates for which a success is remembered
    MaxCompleted,    \* successes that are remembered
    NoKey,
    MaxDay, MaxRuns, MaxUserActions, MaxCrashes        \* bounds, as there

VARIABLES
    attr, active, snoozedUntil, lastSurfaced, day, pc, request, items, todo, attempt,
    shown, told, runs, userActions, crashes,           \* as in ReviewDelivery
    status, at,      \* the guard, as in RunLedger
    key,             \* the run key of each run
    sends,           \* history: primary messages in the chat, of each key
    excuses          \* history: what may have made each key run again

notion   == <<attr, active, snoozedUntil, lastSurfaced>>
delivery == <<notion, day, pc, request, items, todo, attempt, shown, told, runs,
              userActions, crashes>>
ledger   == <<status, at>>
counts   == <<sends, excuses>>
vars     == <<delivery, ledger, key, counts>>

\* The entries of a review, and in AfterWork the routine purchases.
Displayed == [w \in Windows |-> EntryLimit[w] + IF w = "AfterWork" THEN RoutineLimit ELSE 0]

D == INSTANCE ReviewDelivery WITH Limit <- Displayed, AcrossMidnight <- TRUE
L == INSTANCE RunLedger WITH status <- status, at <- at, now <- day, MaxTime <- MaxDay

ASSUME ScheduledAssumption ==
    /\ Items \subseteq Nat /\ IsFiniteSet(Items)
    /\ Databases \subseteq [Items -> Attributes]
    /\ FirstDay \in 1 .. MaxDay /\ WeekendDays \subseteq Nat
    /\ MaxDay \in Nat /\ MaxRuns \in Nat /\ MaxUserActions \in Nat /\ MaxCrashes \in Nat
    /\ Slot \in [Keys -> Slots]
    /\ Retention \in Nat \ {0} /\ MaxCompleted \in Nat \ {0}
    /\ NoKey \notin Keys

TypeOK ==
    /\ D!TypeOK
    /\ status \in [Keys -> {"none", "running", "succeeded", "failed", "remembered"}]
    /\ at \in [Keys -> 0 .. MaxDay]
    /\ key \in [Runs -> Keys \cup {NoKey}]
    /\ sends \in [Keys -> Nat]
    /\ excuses \in [Keys -> Nat]

Init ==
    /\ D!Init
    /\ status = [k \in Keys |-> "none"]
    /\ at = [k \in Keys |-> 0]
    /\ key = [r \in Runs |-> NoKey]
    /\ sends = [k \in Keys |-> 0]
    /\ excuses = [k \in Keys |-> 0]

-----------------------------------------------------------------------------
\* The guard forgets a success, by age or for others: its key may run again.
Forgets ==
    excuses' = [k \in Keys |->
        excuses[k] + IF /\ status[k] \in {"succeeded", "remembered"}
                        /\ status'[k] \notin {"succeeded", "remembered"} THEN 1 ELSE 0]

\* A request that starts a run.  One whose key is running or remembered changes
\* nothing: it gets the response of the run there is.
Ask(r, k) ==
    /\ D!Start(r, Slot[k])
    /\ L!Start(k)
    /\ key' = [key EXCEPT ![r] = k]
    /\ Forgets
    /\ UNCHANGED sends

\* The run of r is over.
Ends(r, outcome) ==
    /\ L!Finish(key[r])
    /\ status'[key[r]] = outcome
    /\ key' = [key EXCEPT ![r] = NoKey]

-----------------------------------------------------------------------------
\* build_plan, on what the Notion query answers.
Shortlist(r) ==
    {i \in active :
        /\ Listed(attr[i], request[r].window, request[r].on, snoozedUntil[i])
        /\ Eligible(attr[i], request[r].window, request[r].on, snoozedUntil[i], lastSurfaced[i])}

PlannedEntries(r) == Entries(attr, lastSurfaced, Shortlist(r), request[r].window, request[r].on)

Review(r) == PlannedEntries(r) \cup RoutineGroup(attr, Shortlist(r), request[r].window)

PlanOk(r) ==
    /\ pc[r] = "plan"
    /\ Review(r) # {}
    /\ ValidEntries(attr, PlannedEntries(r))
    /\ pc' = [pc EXCEPT ![r] = "send"]
    /\ items' = [items EXCEPT ![r] = Review(r)]
    /\ UNCHANGED <<notion, day, request, todo, attempt, shown, told, runs, userActions,
                   crashes, ledger, key, counts>>

\* Nothing to show: the run is a success without a message.
PlanEmpty(r) ==
    /\ D!PlanEmptyOrFailed(r)
    /\ Review(r) = {}
    /\ Ends(r, "succeeded")
    /\ UNCHANGED counts

\* The validators of the plan refuse it: 400.
PlanRefused(r) ==
    /\ D!PlanEmptyOrFailed(r)
    /\ ~ValidEntries(attr, PlannedEntries(r))
    /\ Ends(r, "failed")
    /\ UNCHANGED counts

\* The Notion query fails: 502.
QueryFails(r) ==
    /\ D!PlanEmptyOrFailed(r)
    /\ Ends(r, "failed")
    /\ UNCHANGED counts

-----------------------------------------------------------------------------
SendOk(r) ==
    /\ D!SendOk(r)
    /\ sends' = [sends EXCEPT ![key[r]] = @ + 1]
    /\ UNCHANGED <<ledger, key, excuses>>

\* 502, and the key is free: the message may be in the chat all the same.
SendFails(r) ==
    /\ D!SendFails(r)
    /\ Ends(r, "failed")
    /\ \/ UNCHANGED <<shown, counts>>
       \/ /\ D!Show(r)
          /\ sends' = [sends EXCEPT ![key[r]] = @ + 1]
          /\ excuses' = [excuses EXCEPT ![key[r]] = @ + 1]

Record(r) ==
    /\ (\E i \in Items : D!RecordPage(r, i)) \/ D!Recorded(r) \/ D!Retry(r)
    /\ UNCHANGED <<ledger, key, counts>>

\* Mutant: a review whose LastSurfaced could not be recorded is a failed one.
GiveUpRaising(r) ==
    /\ D!BatchFails(r)
    /\ attempt[r] = 2
    /\ D!End(r)
    /\ Ends(r, "failed")
    /\ UNCHANGED <<attr, active, snoozedUntil, day, shown, told, runs, userActions, crashes,
                   counts>>

GiveUp(r) == D!GiveUp(r) /\ UNCHANGED <<ledger, key, counts>>

SendActions(r) ==
    /\ D!SendActions(r)
    /\ Ends(r, "succeeded")
    /\ UNCHANGED counts

-----------------------------------------------------------------------------
\* Mutant: only a success is settled.
SettleSuccess(k) ==
    /\ L!Remember(k)
    /\ Forgets
    /\ UNCHANGED <<delivery, key, sends>>

\* _settle, of the done callback or of a caller, some time after the run.
Settle(k) ==
    /\ L!Remember(k) \/ L!Release(k)
    /\ Forgets
    /\ UNCHANGED <<delivery, key, sends>>

Prune ==
    /\ L!Forget
    /\ Forgets
    /\ UNCHANGED <<delivery, key, sends>>

\* The process dies, with its guard.
Crash ==
    /\ D!Crash
    /\ L!Restart
    /\ key' = [r \in Runs |-> NoKey]
    /\ \/ UNCHANGED <<shown, sends>>
       \/ \E r \in Runs :
            /\ pc[r] = "send"
            /\ D!Show(r)
            /\ sends' = [sends EXCEPT ![key[r]] = @ + 1]
    /\ excuses' = [k \in Keys |-> excuses[k] + 1]

User ==
    /\ \E i \in Items : D!UserSnoozes(i) \/ D!UserTrashes(i)
    /\ UNCHANGED <<ledger, key, counts>>

Midnight == D!Midnight /\ L!Tick /\ UNCHANGED <<key, counts>>

-----------------------------------------------------------------------------
Step(r) ==
    \/ QueryFails(r) \/ PlanOk(r) \/ PlanEmpty(r) \/ PlanRefused(r)
    \/ SendOk(r) \/ SendFails(r)
    \/ Record(r) \/ GiveUp(r)
    \/ SendActions(r)

Next ==
    \/ \E r \in Runs : Step(r) \/ \E k \in Keys : Ask(r, k)
    \/ \E k \in Keys : Settle(k)
    \/ Prune
    \/ User
    \/ Midnight
    \/ Crash

Spec == Init /\ [][Next]_vars

\* Every call of a run has a timeout, and the settlement of a run is scheduled.
FairSpec ==
    /\ Spec
    /\ \A r \in Runs : WF_vars(Step(r))
    /\ \A k \in Keys : WF_vars(Settle(k))

-----------------------------------------------------------------------------
\* The plan that is computed is one that ReviewDelivery allows, so that what is shown
\* there of any plan is true of this one: only eligible items, within the limits of
\* the window, routine purchases included.
DeliverySpec == D!Spec

\* A run key has a second message only when the first could not be confirmed, the
\* process died, or its success was forgotten: never because something else failed
\* after the message (the record, the action messages), or the request is repeated.
NoRepeatWithoutExcuse == \A k \in Keys : sends[k] <= 1 + excuses[k]

\* A Task that is due or overdue and may be shown again is in every review of its
\* windows that is sent, however other items score and although it was shown the day
\* before, unless urgent Tasks fill the review.
DueTaskReminded ==
    [][\A r \in Runs :
         pc[r] = "plan" /\ (pc'[r] = "send" \/ (pc'[r] = "idle" /\ status'[key[r]] = "succeeded"))
         => LET w == request[r].window on == request[r].on IN
            \A i \in active :
                /\ attr[i].type = "Task" /\ attr[i].domain # "Shopping"
                /\ attr[i].due \in 1 .. on
                /\ MatchesWindow(attr[i], w)
                /\ snoozedUntil[i] <= on /\ lastSurfaced[i] < on
                => \/ i \in items'[r]
                   \/ Cardinality({j \in items'[r] : UrgentTask(attr[j], on)}) >= EntryLimit[w]]_vars

\* No key stays taken: a run ends, and its key becomes free or remembered.
RunsSettle ==
    \A k \in Keys : status[k] \in {"running", "succeeded", "failed"} ~>
                        status[k] \in {"none", "remembered"}
=============================================================================
