--------------------------- MODULE RecentRunGuard ---------------------------
(***************************************************************************)
(* RecentRunGuard: concurrent and repeated calls for one run key share one *)
(* asyncio task, and the keys of recent successful runs are remembered.    *)
(*                                                                         *)
(* The guard's lock is never held across an await, so each section under   *)
(* it is one step.  A finished task is settled by a task of its own, which *)
(* its done callback creates, and again by every caller it wakes, in any   *)
(* order and possibly after the key has been given to a new task.          *)
(***************************************************************************)
EXTENDS Naturals, Sequences, FiniteSets

CONSTANTS
    Keys,          \* run keys
    Callers,       \* concurrent calls of execute_once
    Tasks,         \* tasks that can be created (a bound)
    Retention,     \* retention_seconds
    MaxCompleted,  \* maximum_completed_runs
    MaxTime,       \* last instant considered (a bound)
    MaxRestarts,   \* restarts of the process considered (a bound)
    None           \* no task, no key

ASSUME GuardAssumption ==
    /\ Retention \in Nat \ {0} /\ MaxCompleted \in Nat \ {0}
    /\ MaxTime \in Nat /\ MaxRestarts \in Nat
    /\ None \notin Tasks \cup Keys

VARIABLES
    entry,      \* _entries: the task of each key, None if it has no entry
    completed,  \* the entries with completed_at, in the order of the dict
    task,       \* state of each task
    taskKey,    \* the run key its done callback captured
    settling,   \* tasks whose done callback's _settle has still to run
    pc,         \* where each caller is
    joined,     \* the task it awaits
    now,        \* the timer
    restarts    \* so far

calls  == <<pc, joined>>
tasks  == <<task, taskKey, settling>>
guard  == <<entry, completed>>
vars   == <<guard, tasks, calls, now, restarts>>

Completion == [key : Keys, at : 0 .. MaxTime]

TypeOK ==
    /\ entry \in [Keys -> Tasks \cup {None}]
    /\ completed \in Seq(Completion)
    /\ task \in [Tasks -> {"free", "running", "succeeded", "failed"}]
    /\ taskKey \in [Tasks -> Keys \cup {None}]
    /\ settling \in SUBSET Tasks
    /\ pc \in [Callers -> {"idle", "waiting", "settle"}]
    /\ joined \in [Callers -> Tasks \cup {None}]
    /\ now \in 0 .. MaxTime
    /\ restarts \in 0 .. MaxRestarts

Init ==
    /\ entry = [k \in Keys |-> None]
    /\ completed = <<>>
    /\ task = [t \in Tasks |-> "free"]
    /\ taskKey = [t \in Tasks |-> None]
    /\ settling = {}
    /\ pc = [c \in Callers |-> "idle"]
    /\ joined = [c \in Callers |-> None]
    /\ now = 0
    /\ restarts = 0

-----------------------------------------------------------------------------
KeysOf(q) == {q[i].key : i \in 1 .. Len(q)}

Expired(q) == {i \in 1 .. Len(q) : now - q[i].at >= Retention}

\* Mutant: the newest entries are dropped when there are too many.
PruneNewest(q) ==
    LET expired == Cardinality(Expired(q))
        kept    == IF Len(q) - expired > MaxCompleted THEN expired + MaxCompleted ELSE Len(q) IN
    SubSeq(q, expired + 1, kept)

\* _prune: what stays of the completed entries q.  They are in the order of their
\* completion, so the expired ones and those in excess are the first ones.
Prune(q) ==
    LET expired == Cardinality(Expired(q))
        excess  == IF Len(q) > MaxCompleted THEN Len(q) - MaxCompleted ELSE 0 IN
    SubSeq(q, (IF expired > excess THEN expired ELSE excess) + 1, Len(q))

\* The dict after pruning, given its completed entries before.
Forget(e, q) ==
    [k \in Keys |-> IF k \in KeysOf(q) \ KeysOf(Prune(q)) THEN None ELSE e[k]]

-----------------------------------------------------------------------------
\* Any one of the tasks not created yet: they are interchangeable.
FreshTask == CHOOSE t \in Tasks : (\E u \in Tasks : task[u] = "free") => task[t] = "free"

\* execute_once up to its await: prune, then join the key's task or create one.
Call(c, k) ==
    LET kept == Forget(entry, completed) IN
    /\ pc[c] = "idle"
    /\ completed' = Prune(completed)
    /\ pc' = [pc EXCEPT ![c] = "waiting"]
    /\ \/ /\ kept[k] # None
          /\ entry' = kept
          /\ joined' = [joined EXCEPT ![c] = kept[k]]
          /\ UNCHANGED tasks
       \/ /\ kept[k] = None
          /\ \E t \in Tasks :
                /\ t = FreshTask
                /\ task[t] = "free"
                /\ task' = [task EXCEPT ![t] = "running"]
                /\ taskKey' = [taskKey EXCEPT ![t] = k]
                /\ entry' = [kept EXCEPT ![k] = t]
                /\ joined' = [joined EXCEPT ![c] = t]
          /\ UNCHANGED settling
    /\ UNCHANGED <<now, restarts>>

\* Mutant: only the callers settle a task, there is no done callback.
FinishesUnsettled(t, outcome) ==
    /\ task[t] = "running"
    /\ task' = [task EXCEPT ![t] = outcome]
    /\ UNCHANGED <<guard, taskKey, settling, calls, now, restarts>>

\* The operation returns or raises; the done callback schedules _settle.
TaskFinishes(t, outcome) ==
    /\ task[t] = "running"
    /\ task' = [task EXCEPT ![t] = outcome]
    /\ settling' = settling \cup {t}
    /\ UNCHANGED <<guard, taskKey, calls, now, restarts>>

\* Mutant: _settle does not check that the entry is still this task's.
SettleAnyEntry(t) ==
    LET k == taskKey[t] IN
    IF entry[k] = None THEN UNCHANGED guard
    ELSE IF task[t] = "failed"
    THEN entry' = [entry EXCEPT ![k] = None] /\ UNCHANGED completed
    ELSE IF k \in KeysOf(completed) THEN UNCHANGED guard
    ELSE LET q == Append(completed, [key |-> k, at |-> now]) IN
         completed' = Prune(q) /\ entry' = Forget(entry, q)

\* _settle of a finished task: a no-op unless the key's entry is still its own.
Settle(t) ==
    LET k == taskKey[t] IN
    IF entry[k] # t THEN UNCHANGED guard
    ELSE IF task[t] = "failed"
    THEN entry' = [entry EXCEPT ![k] = None] /\ UNCHANGED completed
    ELSE IF k \in KeysOf(completed) THEN UNCHANGED guard
    ELSE LET q == Append(completed, [key |-> k, at |-> now]) IN
         completed' = Prune(q) /\ entry' = Forget(entry, q)

CallbackSettles(t) ==
    /\ t \in settling
    /\ Settle(t)
    /\ settling' = settling \ {t}
    /\ UNCHANGED <<task, taskKey, calls, now, restarts>>

\* The task a caller awaits is done; the caller is scheduled.
Wake(c) ==
    /\ pc[c] = "waiting"
    /\ task[joined[c]] \in {"succeeded", "failed"}
    /\ pc' = [pc EXCEPT ![c] = "settle"]
    /\ UNCHANGED <<guard, tasks, joined, now, restarts>>

\* It settles the task as well and returns its result or raises its error.
CallerSettles(c) ==
    /\ pc[c] = "settle"
    /\ Settle(joined[c])
    /\ pc' = [pc EXCEPT ![c] = "idle"]
    /\ joined' = [joined EXCEPT ![c] = None]
    /\ UNCHANGED <<tasks, now, restarts>>

\* A caller is cancelled; the shield keeps the shared task running.
CallerCancelled(c) ==
    /\ pc[c] = "waiting"
    /\ pc' = [pc EXCEPT ![c] = "idle"]
    /\ joined' = [joined EXCEPT ![c] = None]
    /\ UNCHANGED <<guard, tasks, now, restarts>>

Tick ==
    /\ now < MaxTime
    /\ now' = now + 1
    /\ UNCHANGED <<guard, tasks, calls, restarts>>

\* A new process knows of no run; whatever ran is gone.
Restart ==
    /\ restarts < MaxRestarts
    /\ restarts' = restarts + 1
    /\ entry' = [k \in Keys |-> None]
    /\ completed' = <<>>
    /\ task' = [t \in Tasks |-> IF task[t] = "running" THEN "failed" ELSE task[t]]
    /\ settling' = {}
    /\ pc' = [c \in Callers |-> "idle"]
    /\ joined' = [c \in Callers |-> None]
    /\ UNCHANGED <<taskKey, now>>

-----------------------------------------------------------------------------
Next ==
    \/ \E c \in Callers :
         \/ \E k \in Keys : Call(c, k)
         \/ Wake(c) \/ CallerSettles(c) \/ CallerCancelled(c)
    \/ \E t \in Tasks :
         \/ \E outcome \in {"succeeded", "failed"} : TaskFinishes(t, outcome)
         \/ CallbackSettles(t)
    \/ Tick
    \/ Restart

Spec == Init /\ [][Next]_vars

-----------------------------------------------------------------------------
\* Two runs under one key never go on together, however late a settlement of an
\* earlier run of that key comes.
AtMostOneRunning ==
    \A t, u \in Tasks :
        task[t] = "running" /\ task[u] = "running" /\ taskKey[t] = taskKey[u] => t = u

\* The completed entries are those of successful runs, one per key and in the order
\* of their completion (which _prune relies on), and within maximum_completed_runs.
CompletedBounded ==
    /\ Len(completed) <= MaxCompleted
    /\ \A i, j \in 1 .. Len(completed) : i < j => completed[i].at <= completed[j].at
    /\ \A i, j \in 1 .. Len(completed) : completed[i].key = completed[j].key => i = j
    /\ \A k \in KeysOf(completed) : entry[k] # None /\ task[entry[k]] = "succeeded"

\* The guard implements its promise: a key's status is what its entry says.
status ==
    [k \in Keys |-> IF entry[k] = None THEN "none"
                    ELSE IF k \in KeysOf(completed) THEN "remembered"
                    ELSE task[entry[k]]]
at ==
    [k \in Keys |-> IF k \in KeysOf(completed)
                    THEN completed[CHOOSE i \in 1 .. Len(completed) : completed[i].key = k].at
                    ELSE 0]

Ledger == INSTANCE RunLedger WITH status <- status, at <- at, now <- now

\* Keys are forgotten only by age or by number, a failed run can be asked for
\* again, and nothing runs under a key that is running or remembered (RunLedger).
LedgerSpec == Ledger!Spec

\* No key is stuck with a run that is over: its release, or its entry among the
\* completed, is scheduled even when every caller of it is gone.
NoStuckEntry ==
    \A k \in Keys : \A t \in Tasks :
        /\ entry[k] = t
        /\ task[t] = "failed" \/ (task[t] = "succeeded" /\ k \notin KeysOf(completed))
        => t \in settling
=============================================================================
