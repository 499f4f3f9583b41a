----------------------------- MODULE RunLedger -----------------------------
(***************************************************************************)
(* What RecentRunGuard promises its callers: of the runs asked for under   *)
(* one key at most one is going on; a run that succeeded is remembered,    *)
(* and not run again, until it is older than the retention or enough later *)
(* ones have succeeded; a run that failed can be asked for again.  A       *)
(* restart forgets everything.                                             *)
(***************************************************************************)
EXTENDS Naturals

CONSTANTS Keys, Retention, MaxCompleted, MaxTime

VARIABLES
    status,   \* of each key's last run: none, running, succeeded, failed, remembered
    at,       \* when a remembered run succeeded, 0 for the others
    now

ledger == <<status, at, now>>

Init ==
    /\ status = [k \in Keys |-> "none"]
    /\ at = [k \in Keys |-> 0]
    /\ now = 0

\* May the run remembered for k be forgotten, when R are the remembered keys
\* and t their times?  It is too old, or MaxCompleted others are not older.
Forgettable(k, R, t) ==
    \/ now - t[k] >= Retention
    \/ \E other \in [1 .. MaxCompleted -> R \ {k}] :
          /\ \A a, b \in 1 .. MaxCompleted : other[a] = other[b] => a = b
          /\ \A a \in 1 .. MaxCompleted : t[other[a]] >= t[k]

\* Change to st and t, but for some remembered keys that may be forgotten.
Become(st, t) ==
    LET R == {k \in Keys : st[k] = "remembered"} IN
    \E gone \in SUBSET {k \in R : Forgettable(k, R, t)} :
        /\ status' = [k \in Keys |-> IF k \in gone THEN "none" ELSE st[k]]
        /\ at' = [k \in Keys |-> IF k \in gone THEN 0 ELSE t[k]]
        /\ UNCHANGED now

Remembered == {k \in Keys : status[k] = "remembered"}

\* A run starts where none is going on and none is remembered.
Start(k) ==
    /\ status[k] = "none" \/ (status[k] = "remembered" /\ Forgettable(k, Remembered, at))
    /\ Become([status EXCEPT ![k] = "running"], [at EXCEPT ![k] = 0])

Finish(k) ==
    /\ status[k] = "running"
    /\ \E outcome \in {"succeeded", "failed"} : status' = [status EXCEPT ![k] = outcome]
    /\ UNCHANGED <<at, now>>

\* A success is remembered from now on; nothing but a failure frees the key at once.
Remember(k) ==
    /\ status[k] = "succeeded"
    /\ Become([status EXCEPT ![k] = "remembered"], [at EXCEPT ![k] = now])

Release(k) ==
    /\ status[k] = "failed"
    /\ status' = [status EXCEPT ![k] = "none"]
    /\ UNCHANGED <<at, now>>

Forget == Become(status, at)

Tick == now < MaxTime /\ now' = now + 1 /\ UNCHANGED <<status, at>>

Restart ==
    /\ status' = [k \in Keys |-> "none"]
    /\ at' = [k \in Keys |-> 0]
    /\ UNCHANGED now

Next ==
    \/ \E k \in Keys : Start(k) \/ Finish(k) \/ Remember(k) \/ Release(k)
    \/ Forget
    \/ Tick
    \/ Restart

Spec == Init /\ [][Next]_ledger
=============================================================================
