----------------------- MODULE ScheduledReviewsProofs -----------------------
(***************************************************************************)
(* Proofs about ScheduledReviews, for every set of pages, keys and runs,   *)
(* every limit and every retention.                                        *)
(*                                                                         *)
(* How often the message of one run key is sent: a run holds its key alone *)
(* (Tied), and a message without excuse is that of a run past its sending, *)
(* or of one that succeeded and is not forgotten (Counted), and neither    *)
(* lets a run of the key begin.                                            *)
(*                                                                         *)
(* What a review has in it: what each loop of the selection keeps          *)
(* (TakeLoop, PickLoop), the selection (Selects), the entries (KeepsDue)   *)
(* and the review, so that a plan is one the delivery allows (PlanAllowed) *)
(* and the composition is a delivery (Refinement).                         *)
(***************************************************************************)
EXTENDS ScheduledReviews, ListsProofs

Places   == {"idle", "plan", "send", "record", "actions"}
Statuses == {"none", "running", "succeeded", "failed", "remembered"}

StateTypes ==
    /\ pc \in [Runs -> Places]
    /\ status \in [Keys -> Statuses]
    /\ key \in [Runs -> Keys \cup {NoKey}]
    /\ sends \in [Keys -> Nat]
    /\ excuses \in [Keys -> Nat]

\* A run that is going on has its key, which is running, to itself.
Tied ==
    /\ \A r \in Runs : pc[r] # "idle" => key[r] \in Keys /\ status[key[r]] = "running"
    /\ \A r \in Runs : pc[r] = "idle" => key[r] = NoKey
    /\ \A q, r \in Runs : key[q] = key[r] /\ key[r] \in Keys => q = r

\* The last message of k is that of a success, or of a run after its message.
Counted(k) ==
    \/ status[k] \in {"succeeded", "remembered"}
    \/ \E r \in Runs : key[r] = k /\ pc[r] \in {"record", "actions"}

Excused == \A k \in Keys : sends[k] <= excuses[k] + IF Counted(k) THEN 1 ELSE 0

IInv == StateTypes /\ Tied /\ Excused

-----------------------------------------------------------------------------
\* What a run that is going on knows of its key.
LEMMA OwnKey ==
    ASSUME IInv, NEW r \in Runs, pc[r] # "idle"
    PROVE  /\ key[r] \in Keys /\ status[key[r]] = "running"
           /\ \A q \in Runs : key[q] = key[r] => q = r
           /\ Counted(key[r]) => pc[r] \in {"record", "actions"}
BY DEF IInv, StateTypes, Tied, Counted

\* The change of the ledger when a run is over.
LEMMA EndsLedger ==
    ASSUME IInv, NEW r \in Runs, NEW outcome \in {"succeeded", "failed"},
           pc[r] # "idle", pc' = [pc EXCEPT ![r] = "idle"], Ends(r, outcome)
    PROVE  /\ status' = [status EXCEPT ![key[r]] = outcome]
           /\ key' = [key EXCEPT ![r] = NoKey]
           /\ pc' \in [Runs -> Places] /\ status' \in [Keys -> Statuses]
           /\ key' \in [Runs -> Keys \cup {NoKey}]
           /\ Tied'
           /\ \A k \in Keys \ {key[r]} : Counted(k) => Counted(k)'
           /\ \A k \in Keys : k = key[r] /\ outcome = "succeeded" => Counted(k)'
<1>1. key[r] \in Keys /\ \A q \in Runs : key[q] = key[r] => q = r
  BY OwnKey
<1>2. status' = [status EXCEPT ![key[r]] = outcome] /\ key' = [key EXCEPT ![r] = NoKey]
  BY <1>1 DEF Ends, L!Finish, IInv, StateTypes
<1>3. /\ pc' \in [Runs -> Places] /\ status' \in [Keys -> Statuses]
      /\ key' \in [Runs -> Keys \cup {NoKey}]
  BY <1>1, <1>2 DEF IInv, StateTypes, Places, Statuses
<1>4. /\ pc'[r] = "idle" /\ key'[r] = NoKey
      /\ \A q \in Runs \ {r} : pc'[q] = pc[q] /\ key'[q] = key[q] /\ key[q] # key[r]
  BY <1>1, <1>2 DEF IInv, StateTypes
<1>5. \A k \in Keys \ {key[r]} : status'[k] = status[k]
  BY <1>1, <1>2 DEF IInv, StateTypes
<1>6. NoKey \notin Keys
  BY ScheduledAssumption
<1>7. Tied'
  BY <1>4, <1>5, <1>6 DEF IInv, Tied
<1>8. \A k \in Keys \ {key[r]} : Counted(k) => Counted(k)'
  BY <1>4, <1>5 DEF Counted
<1>9. \A k \in Keys : k = key[r] /\ outcome = "succeeded" => Counted(k)'
  BY <1>1, <1>2 DEF Counted, IInv, StateTypes
<1> QED
  BY <1>2, <1>3, <1>7, <1>8, <1>9

\* Forgetting a success is an excuse, so the ledger may change beside the runs.
LEMMA LedgerChange ==
    ASSUME IInv, Forgets, status' \in [Keys -> Statuses], UNCHANGED sends,
           \A r \in Runs : pc[r] \in {"record", "actions"} =>
                              pc'[r] = pc[r] /\ key'[r] = key[r]
    PROVE  /\ excuses' \in [Keys -> Nat]
           /\ Excused'
<1>1. ASSUME NEW k \in Keys
      PROVE  /\ excuses'[k] \in Nat
             /\ sends'[k] <= excuses'[k] + IF Counted(k)' THEN 1 ELSE 0
  <2>1. /\ sends[k] \in Nat /\ excuses[k] \in Nat /\ sends'[k] = sends[k]
        /\ sends[k] <= excuses[k] + IF Counted(k) THEN 1 ELSE 0
    BY DEF IInv, StateTypes, Excused
  <2>2. CASE /\ status[k] \in {"succeeded", "remembered"}
             /\ status'[k] \notin {"succeeded", "remembered"}
    <3>1. excuses'[k] = excuses[k] + 1
      BY <2>2 DEF Forgets
    <3> QED
      BY <2>1, <3>1
  <2>3. CASE ~(/\ status[k] \in {"succeeded", "remembered"}
               /\ status'[k] \notin {"succeeded", "remembered"})
    <3>1. excuses'[k] = excuses[k]
      BY <2>1, <2>3 DEF Forgets
    <3>2. Counted(k) => Counted(k)'
      BY <2>3 DEF Counted
    <3> QED
      BY <2>1, <3>1, <3>2
  <2> QED
    BY <2>2, <2>3
<1>2. excuses' \in [Keys -> Nat]
  BY <1>1 DEF Forgets
<1> QED
  BY <1>1, <1>2 DEF Excused

\* Become only turns remembered keys into free ones.
LEMMA BecomeTypes ==
    ASSUME NEW st \in [Keys -> Statuses], NEW t, L!Become(st, t)
    PROVE  /\ status' \in [Keys -> Statuses]
           /\ \A k \in Keys : status'[k] = st[k] \/ (st[k] = "remembered" /\ status'[k] = "none")
BY DEF L!Become, Statuses

-----------------------------------------------------------------------------
\* Every behaviour begins without runs.
LEMMA InitIInv == Init => IInv
BY ScheduledAssumption
   DEF Init, D!Init, IInv, StateTypes, Tied, Excused, Counted, Places, Statuses

\* A request begins a run under a key that is free or may be forgotten.
LEMMA AskKeeps ==
    ASSUME IInv, NEW r \in Runs, NEW k \in Keys, Ask(r, k)
    PROVE  IInv'
<1>1. pc[r] = "idle" /\ pc' = [pc EXCEPT ![r] = "plan"] /\ key' = [key EXCEPT ![r] = k]
  BY DEF Ask, D!Start
<1>2. status[k] \in {"none", "remembered"}
  BY DEF Ask, L!Start
<1>3. /\ status' \in [Keys -> Statuses]
      /\ status'[k] = "running"
      /\ \A j \in Keys \ {k} : status'[j] = status[j]
                               \/ (status[j] = "remembered" /\ status'[j] = "none")
  <2> DEFINE st == [status EXCEPT ![k] = "running"]
  <2>1. st \in [Keys -> Statuses]
    BY DEF IInv, StateTypes, Statuses
  <2>2. /\ status' \in [Keys -> Statuses]
        /\ \A j \in Keys : status'[j] = st[j] \/ (st[j] = "remembered" /\ status'[j] = "none")
    BY <2>1, BecomeTypes DEF Ask, L!Start
  <2> QED
    BY <2>2 DEF IInv, StateTypes
<1>4. \A q \in Runs : key[q] # k
  BY <1>2, ScheduledAssumption DEF IInv, StateTypes, Tied
<1>5. /\ pc'[r] = "plan" /\ key'[r] = k
      /\ \A q \in Runs \ {r} : pc'[q] = pc[q] /\ key'[q] = key[q]
  BY <1>1 DEF IInv, StateTypes
<1>6. Tied'
  <2>1. \A q \in Runs : pc'[q] # "idle" => key'[q] \in Keys /\ status'[key'[q]] = "running"
    BY <1>3, <1>4, <1>5 DEF IInv, Tied
  <2>2. \A q \in Runs : pc'[q] = "idle" => key'[q] = NoKey
    BY <1>5 DEF IInv, Tied
  <2>3. \A p, q \in Runs : key'[p] = key'[q] /\ key'[q] \in Keys => p = q
    BY <1>4, <1>5 DEF IInv, Tied
  <2> QED
    BY <2>1, <2>2, <2>3 DEF Tied
<1>7. excuses' \in [Keys -> Nat] /\ Excused'
  <2>1. \A q \in Runs : pc[q] \in {"record", "actions"} => pc'[q] = pc[q] /\ key'[q] = key[q]
    BY <1>1, <1>5
  <2> QED
    BY <1>3, <2>1, LedgerChange DEF Ask
<1>8. StateTypes'
  BY <1>1, <1>3, <1>7 DEF Ask, IInv, StateTypes, Places
<1> QED
  BY <1>6, <1>7, <1>8 DEF IInv

\* The messages sent stay excused when a run ends without one.
LEMMA EndKeeps ==
    ASSUME IInv, NEW r \in Runs, NEW outcome \in {"succeeded", "failed"},
           pc[r] # "idle", pc' = [pc EXCEPT ![r] = "idle"], Ends(r, outcome),
           outcome = "failed" => pc[r] \notin {"record", "actions"},
           UNCHANGED counts
    PROVE  IInv'
<1>1. StateTypes'
  BY EndsLedger DEF IInv, StateTypes, counts
<1>2. ASSUME NEW k \in Keys, Counted(k) PROVE Counted(k)'
  <2>1. CASE k # key[r]
    BY <1>2, <2>1, EndsLedger
  <2>2. CASE k = key[r]
    <3>1. outcome = "succeeded"
      BY <1>2, <2>2, OwnKey
    <3>2. \A j \in Keys : j = key[r] /\ outcome = "succeeded" => Counted(j)'
      BY EndsLedger
    <3> QED
      BY <2>2, <3>1, <3>2
  <2> QED
    BY <2>1, <2>2
<1>3. ASSUME NEW k \in Keys
      PROVE  sends'[k] <= excuses'[k] + IF Counted(k)' THEN 1 ELSE 0
  <2>1. /\ sends[k] \in Nat /\ excuses[k] \in Nat
        /\ sends[k] <= excuses[k] + IF Counted(k) THEN 1 ELSE 0
        /\ sends'[k] = sends[k] /\ excuses'[k] = excuses[k]
    BY DEF IInv, StateTypes, Excused, counts
  <2> QED
    BY <1>2, <2>1
<1> QED
  BY <1>1, <1>3, EndsLedger DEF IInv, Excused

\* A run that goes on, without sending, keeps its key and its message.
LEMMA MoveKeeps ==
    ASSUME IInv, NEW r \in Runs, NEW place \in {"send", "record", "actions"},
           pc[r] # "idle", pc' = [pc EXCEPT ![r] = place],
           pc[r] \in {"record", "actions"} <=> place \in {"record", "actions"},
           UNCHANGED <<status, key, counts>>
    PROVE  IInv'
<1>1. StateTypes'
  BY DEF IInv, StateTypes, counts, Places
<1>2. Tied'
  BY DEF IInv, StateTypes, Tied
<1>3. \A k \in Keys : Counted(k)' <=> Counted(k)
  BY DEF IInv, StateTypes, Counted
<1>4. ASSUME NEW k \in Keys
      PROVE  sends'[k] <= excuses'[k] + IF Counted(k)' THEN 1 ELSE 0
  <2>1. /\ sends[k] <= excuses[k] + IF Counted(k) THEN 1 ELSE 0
        /\ sends'[k] = sends[k] /\ excuses'[k] = excuses[k]
    BY DEF IInv, Excused, counts
  <2> QED
    BY <1>3, <2>1
<1> QED
  BY <1>1, <1>2, <1>4 DEF IInv, Excused

\* A message that is confirmed is the first one without excuse.
LEMMA SendKeeps ==
    ASSUME IInv, NEW r \in Runs, SendOk(r)
    PROVE  IInv'
<1>1. /\ pc[r] = "send" /\ pc' = [pc EXCEPT ![r] = "record"]
      /\ sends' = [sends EXCEPT ![key[r]] = @ + 1]
      /\ UNCHANGED <<status, key, excuses>>
  BY DEF SendOk, D!SendOk, ledger
<1>2. key[r] \in Keys /\ ~Counted(key[r])
  BY <1>1, OwnKey
<1>3. StateTypes'
  BY <1>1, <1>2 DEF IInv, StateTypes, Places
<1>4. Tied'
  BY <1>1 DEF IInv, StateTypes, Tied
<1>5. ASSUME NEW k \in Keys
      PROVE  sends'[k] <= excuses'[k] + IF Counted(k)' THEN 1 ELSE 0
  <2>1. /\ sends[k] \in Nat /\ excuses[k] \in Nat
        /\ sends[k] <= excuses[k] + IF Counted(k) THEN 1 ELSE 0
        /\ excuses'[k] = excuses[k]
    BY <1>1 DEF IInv, StateTypes, Excused
  <2>2. CASE k = key[r]
    <3>1. Counted(k)'
      BY <1>1, <2>2 DEF IInv, StateTypes, Counted
    <3>2. sends'[k] = sends[k] + 1
      BY <1>1, <2>2 DEF IInv, StateTypes
    <3> QED
      BY <1>2, <2>1, <2>2, <3>1, <3>2
  <2>3. CASE k # key[r]
    <3>1. Counted(k) => Counted(k)'
      BY <1>1, <2>3 DEF IInv, StateTypes, Counted
    <3>2. sends'[k] = sends[k]
      BY <1>1, <2>3 DEF IInv, StateTypes
    <3> QED
      BY <2>1, <3>1, <3>2
  <2> QED
    BY <2>2, <2>3
<1> QED
  BY <1>3, <1>4, <1>5 DEF IInv, Excused

\* A message that is not confirmed is its own excuse.
LEMMA SendFailsKeeps ==
    ASSUME IInv, NEW r \in Runs, SendFails(r)
    PROVE  IInv'
<1>1. pc[r] = "send" /\ pc' = [pc EXCEPT ![r] = "idle"] /\ Ends(r, "failed")
  BY DEF SendFails, D!SendFails, D!End
<1>2. CASE UNCHANGED counts
  BY <1>1, <1>2, EndKeeps
<1>3. CASE /\ sends' = [sends EXCEPT ![key[r]] = @ + 1]
           /\ excuses' = [excuses EXCEPT ![key[r]] = @ + 1]
  <2>1. key[r] \in Keys /\ ~Counted(key[r])
    BY <1>1, OwnKey
  <2>2. StateTypes'
    <3>1. /\ pc' \in [Runs -> Places] /\ status' \in [Keys -> Statuses]
          /\ key' \in [Runs -> Keys \cup {NoKey}]
      BY <1>1, EndsLedger
    <3>2. /\ sends \in [Keys -> Nat] /\ excuses \in [Keys -> Nat]
          /\ sends[key[r]] + 1 \in Nat /\ excuses[key[r]] + 1 \in Nat
      BY <2>1 DEF IInv, StateTypes
    <3>3. sends' \in [Keys -> Nat] /\ excuses' \in [Keys -> Nat]
      BY <1>3, <3>2
    <3> QED
      BY <3>1, <3>3 DEF StateTypes
  <2>3. ASSUME NEW k \in Keys
        PROVE  sends'[k] <= excuses'[k] + IF Counted(k)' THEN 1 ELSE 0
    <3>1. /\ sends[k] \in Nat /\ excuses[k] \in Nat
          /\ sends[k] <= excuses[k] + IF Counted(k) THEN 1 ELSE 0
      BY DEF IInv, StateTypes, Excused
    <3>2. CASE k = key[r]
      <4>1. sends'[k] = sends[k] + 1 /\ excuses'[k] = excuses[k] + 1
        BY <1>3, <3>2 DEF IInv, StateTypes
      <4> QED
        BY <2>1, <3>1, <3>2, <4>1
    <3>3. CASE k # key[r]
      <4>1. Counted(k) => Counted(k)'
        BY <1>1, <3>3, EndsLedger
      <4>2. sends'[k] = sends[k] /\ excuses'[k] = excuses[k]
        BY <1>3, <3>3 DEF IInv, StateTypes
      <4> QED
        BY <3>1, <4>1, <4>2
    <3> QED
      BY <3>2, <3>3
  <2> QED
    BY <1>1, <2>2, <2>3, EndsLedger DEF IInv, Excused
<1> QED
  BY <1>2, <1>3 DEF SendFails

\* The guard settles or forgets a key whose run is over.
LEMMA GuardKeeps ==
    ASSUME IInv, (\E k \in Keys : Settle(k)) \/ Prune
    PROVE  IInv'
<1>1. UNCHANGED <<pc, key, sends>> /\ (Forgets \/ UNCHANGED excuses)
  BY DEF Settle, Prune, delivery
<1>2. /\ status' \in [Keys -> Statuses]
      /\ \A k \in Keys : status[k] = "running" => status'[k] = "running"
  <2>1. ASSUME NEW k \in Keys, L!Remember(k)
        PROVE  /\ status' \in [Keys -> Statuses]
               /\ \A j \in Keys : status[j] = "running" => status'[j] = "running"
    <3> DEFINE st == [status EXCEPT ![k] = "remembered"]
    <3>1. st \in [Keys -> Statuses] /\ status[k] = "succeeded"
      BY <2>1 DEF IInv, StateTypes, Statuses, L!Remember
    <3>2. /\ status' \in [Keys -> Statuses]
          /\ \A j \in Keys : status'[j] = st[j] \/ (st[j] = "remembered" /\ status'[j] = "none")
      BY <2>1, <3>1, BecomeTypes DEF L!Remember
    <3> QED
      BY <3>1, <3>2 DEF IInv, StateTypes
  <2>2. ASSUME NEW k \in Keys, L!Release(k)
        PROVE  /\ status' \in [Keys -> Statuses]
               /\ \A j \in Keys : status[j] = "running" => status'[j] = "running"
    BY <2>2 DEF L!Release, IInv, StateTypes, Statuses
  <2>3. ASSUME Prune
        PROVE  /\ status' \in [Keys -> Statuses]
               /\ \A j \in Keys : status[j] = "running" => status'[j] = "running"
    <3>1. /\ status' \in [Keys -> Statuses]
          /\ \A j \in Keys : \/ status'[j] = status[j]
                             \/ status[j] = "remembered" /\ status'[j] = "none"
      BY <2>3, BecomeTypes DEF Prune, L!Forget, IInv, StateTypes
    <3> QED
      BY <3>1
  <2> QED
    BY <2>1, <2>2, <2>3 DEF Settle
<1>3. Forgets
  BY DEF Settle, Prune
<1>4. excuses' \in [Keys -> Nat] /\ Excused'
  BY <1>1, <1>2, <1>3, LedgerChange
<1>5. StateTypes' /\ Tied'
  BY <1>1, <1>2, <1>4 DEF IInv, StateTypes, Tied
<1> QED
  BY <1>4, <1>5 DEF IInv

\* A crash takes the runs and the guard, and excuses whatever is sent again.
LEMMA CrashKeeps ==
    ASSUME IInv, Crash
    PROVE  IInv'
<1>1. /\ pc' = [r \in Runs |-> "idle"] /\ key' = [r \in Runs |-> NoKey]
      /\ status' = [k \in Keys |-> "none"]
      /\ excuses' = [k \in Keys |-> excuses[k] + 1]
  BY DEF Crash, D!Crash, L!Restart
<1>2. ASSUME NEW k \in Keys
      PROVE  sends'[k] \in Nat /\ sends'[k] <= excuses[k] + 1
  <2>1. /\ sends[k] \in Nat /\ excuses[k] \in Nat
        /\ sends[k] <= excuses[k] + IF Counted(k) THEN 1 ELSE 0
    BY DEF IInv, StateTypes, Excused
  <2>2. CASE sends'[k] = sends[k]
    BY <2>1, <2>2
  <2>3. CASE \E r \in Runs : pc[r] = "send" /\ key[r] = k /\ sends'[k] = sends[k] + 1
    <3>1. ~Counted(k)
      BY <2>3, OwnKey
    <3> QED
      BY <2>1, <2>3, <3>1
  <2>4. \/ sends'[k] = sends[k]
        \/ \E r \in Runs : pc[r] = "send" /\ key[r] = k /\ sends'[k] = sends[k] + 1
    BY DEF Crash, IInv, StateTypes
  <2> QED
    BY <2>2, <2>3, <2>4
<1>3. sends' \in [Keys -> Nat]
  <2>1. \/ sends' = sends
        \/ \E r \in Runs : sends' = [sends EXCEPT ![key[r]] = @ + 1]
    BY DEF Crash
  <2> QED
    BY <1>2, <2>1 DEF IInv, StateTypes
<1>4. StateTypes'
  BY <1>1, <1>3 DEF IInv, StateTypes, Places, Statuses
<1>5. Tied'
  BY <1>1, ScheduledAssumption DEF Tied
<1>6. Excused'
  <2> SUFFICES ASSUME NEW k \in Keys
               PROVE  sends'[k] <= excuses'[k] + IF Counted(k)' THEN 1 ELSE 0
    BY DEF Excused
  <2>1. excuses'[k] = excuses[k] + 1 /\ excuses[k] \in Nat
    BY <1>1 DEF IInv, StateTypes
  <2> QED
    BY <1>2, <2>1
<1> QED
  BY <1>4, <1>5, <1>6 DEF IInv

-----------------------------------------------------------------------------
\* Each step of a run keeps the invariant.
LEMMA StepKeeps ==
    ASSUME IInv, NEW r \in Runs, Step(r)
    PROVE  IInv'
<1>1. ASSUME QueryFails(r) \/ PlanRefused(r) PROVE IInv'
  <2>1. /\ pc[r] = "plan" /\ pc' = [pc EXCEPT ![r] = "idle"]
        /\ Ends(r, "failed") /\ UNCHANGED counts
    BY <1>1 DEF QueryFails, PlanRefused, D!PlanEmptyOrFailed, D!End
  <2> QED
    BY <2>1, EndKeeps
<1>2. ASSUME PlanEmpty(r) \/ SendActions(r) PROVE IInv'
  <2>1. /\ pc[r] # "idle" /\ pc' = [pc EXCEPT ![r] = "idle"]
        /\ Ends(r, "succeeded") /\ UNCHANGED counts
    BY <1>2 DEF PlanEmpty, SendActions, D!PlanEmptyOrFailed, D!SendActions, D!End
  <2> QED
    BY <2>1, EndKeeps
<1>3. CASE PlanOk(r)
  <2>1. /\ pc[r] = "plan" /\ pc' = [pc EXCEPT ![r] = "send"]
        /\ UNCHANGED <<status, key, counts>>
    BY <1>3 DEF PlanOk, ledger
  <2> QED
    BY <2>1, MoveKeeps
<1>4. ASSUME Record(r) \/ GiveUp(r) PROVE IInv'
  <2>1. /\ pc[r] = "record" /\ UNCHANGED <<status, key, counts>>
        /\ pc' = pc \/ pc' = [pc EXCEPT ![r] = "actions"]
    BY <1>4 DEF Record, GiveUp, D!RecordPage, D!Recorded, D!Retry, D!GiveUp, D!BatchFails, ledger
  <2>2. pc' = pc => pc' = [pc EXCEPT ![r] = "record"]
    BY <2>1 DEF IInv, StateTypes
  <2> QED
    BY <2>1, <2>2, MoveKeeps
<1>5. CASE SendOk(r)
  BY <1>5, SendKeeps
<1>6. CASE SendFails(r)
  BY <1>6, SendFailsKeeps
<1> QED
  BY <1>1, <1>2, <1>3, <1>4, <1>5, <1>6 DEF Step

\* Every step of the system keeps the invariant.
LEMMA NextIInv ==
    ASSUME IInv, [Next]_vars
    PROVE  IInv'
<1>1. CASE \E r \in Runs : Step(r)
  BY <1>1, StepKeeps
<1>2. CASE \E r \in Runs, k \in Keys : Ask(r, k)
  BY <1>2, AskKeeps
<1>3. CASE (\E k \in Keys : Settle(k)) \/ Prune
  BY <1>3, GuardKeeps
<1>4. CASE Crash
  BY <1>4, CrashKeeps
<1>5. ASSUME User \/ Midnight \/ UNCHANGED vars PROVE IInv'
  <2>1. UNCHANGED <<pc, status, key, sends, excuses>>
    BY <1>5 DEF User, Midnight, D!UserSnoozes, D!UserTrashes, D!Midnight, L!Tick, vars,
       delivery, ledger, counts
  <2> QED
    BY <2>1 DEF IInv, StateTypes, Tied, Excused, Counted
<1> QED
  BY <1>1, <1>2, <1>3, <1>4, <1>5 DEF Next

LEMMA IInvAlways == Spec => []IInv
<1>1. IInv /\ [Next]_vars => IInv'
  BY NextIInv
<1> QED
  BY <1>1, InitIInv, PTL DEF Spec

\* NoRepeatWithoutExcuse: of one run key there is a second message only for a message
\* without confirmation, a crash or a forgotten success, in any overlap of runs and
\* repeated requests, and whatever fails after the message.
THEOREM NoRepeat == Spec => []NoRepeatWithoutExcuse
<1>1. IInv => NoRepeatWithoutExcuse
  <2> SUFFICES ASSUME IInv, NEW k \in Keys PROVE sends[k] <= 1 + excuses[k]
    BY DEF NoRepeatWithoutExcuse
  <2>1. /\ sends[k] \in Nat /\ excuses[k] \in Nat
        /\ sends[k] <= excuses[k] + IF Counted(k) THEN 1 ELSE 0
    BY DEF IInv, StateTypes, Excused
  <2> QED
    BY <2>1
<1> QED
  BY <1>1, IInvAlways, PTL

-----------------------------------------------------------------------------
\* The plan.  A loop that takes what fits takes what the caps leave free, or is full.
Free(a) == a.type = "Task" /\ a.domain # "Shopping"

\* What a loop over the first n elements of a list adds to what was selected before.
Taken(db, limit, first, S, list) ==
    {q \in Nat \X SUBSET DOMAIN db :
        /\ first \subseteq q[2] /\ q[2] \subseteq first \cup S
        /\ Cardinality(q[2]) <= limit
        /\ \A n \in 1 .. q[1] : n <= Len(list) /\ Free(db[list[n]]) =>
               list[n] \in q[2] \/ Cardinality(q[2]) >= limit}

LEMMA TakenPair ==
    ASSUME NEW db, NEW limit, NEW first, NEW S, NEW list, NEW n \in Nat,
           NEW P \in SUBSET DOMAIN db
    PROVE  <<n, P>> \in Taken(db, limit, first, S, list) <=>
               /\ first \subseteq P /\ P \subseteq first \cup S
               /\ Cardinality(P) <= limit
               /\ \A m \in 1 .. n : m <= Len(list) /\ Free(db[list[m]]) =>
                      list[m] \in P \/ Cardinality(P) >= limit
<1> DEFINE q == <<n, P>>
           I == DOMAIN db
<1>1. q \in Nat \X SUBSET I /\ q[1] = n /\ q[2] = P
  <2>1. n \in Nat /\ P \in SUBSET I
    OBVIOUS
  <2> HIDE DEF I
  <2> QED
    BY <2>1
<1> HIDE DEF q
<1>2. q \in Taken(db, limit, first, S, list) <=>
         /\ first \subseteq q[2] /\ q[2] \subseteq first \cup S
         /\ Cardinality(q[2]) <= limit
         /\ \A m \in 1 .. q[1] : m <= Len(list) /\ Free(db[list[m]]) =>
                list[m] \in q[2] \/ Cardinality(q[2]) >= limit
  BY <1>1 DEF Taken
<1> QED
  BY <1>1, <1>2 DEF q

\* One iteration.
LEMMA TakeOne ==
    ASSUME NEW I, IsFiniteSet(I), NEW db \in [I -> Attributes], NEW limit \in Nat,
           NEW P \in SUBSET I, Cardinality(P) <= limit, NEW i \in I
    PROVE  /\ Take(db, limit)[P][i] \in {P, P \cup {i}}
           /\ Cardinality(Take(db, limit)[P][i]) <= limit
           /\ Free(db[i]) => i \in Take(db, limit)[P][i] \/ Cardinality(P) >= limit
<1>1. Take(db, limit)[P][i] = IF Cardinality(P) < limit /\ CapAllows(db, i, P)
                              THEN P \cup {i} ELSE P
  <2>1. DOMAIN db = I
    OBVIOUS
  <2> QED
    BY <2>1 DEF Take
<1>2. IsFiniteSet(P) /\ Cardinality(P) \in Nat
  BY FS_Subset, FS_CardinalityType
<1>3. Cardinality(P) < limit => Cardinality(P \cup {i}) <= limit
  <2>1. Cardinality(P \cup {i}) = IF i \in P THEN Cardinality(P) ELSE Cardinality(P) + 1
    BY <1>2, FS_AddElement
  <2> QED
    BY <1>2, <2>1
<1>4. Free(db[i]) => CapAllows(db, i, P)
  BY DEF Free, CapAllows, Planned
<1> QED
  BY <1>1, <1>2, <1>3, <1>4

LEMMA TakeType ==
    ASSUME NEW I, NEW db \in [I -> Attributes], NEW limit
    PROVE  Take(db, limit) \in [SUBSET I -> [I -> SUBSET I]]
<1>1. DOMAIN db = I
  OBVIOUS
<1> QED
  BY <1>1 DEF Take

\* The whole loop.
LEMMA TakeLoop ==
    ASSUME NEW I, IsFiniteSet(I), NEW db \in [I -> Attributes], NEW limit \in Nat,
           NEW S \in SUBSET I, NEW first \in SUBSET I, Cardinality(first) <= limit,
           NEW list \in Seq(S)
    PROVE  LET P == Loop(Take(db, limit), first, list) IN
           /\ first \subseteq P /\ P \subseteq first \cup S /\ Cardinality(P) <= limit
           /\ \A n \in 1 .. Len(list) : Free(db[list[n]]) =>
                  list[n] \in P \/ Cardinality(P) >= limit
<1> DEFINE T == SUBSET I
           body == Take(db, limit)
           J == Taken(db, limit, first, S, list)
<1>1. DOMAIN db = I /\ first \in T /\ body \in [T -> [I -> T]] /\ list \in Seq(I)
  <2>1. body \in [T -> [I -> T]]
    BY TakeType
  <2> QED
    BY <2>1
<1>2. Len(list) \in Nat /\ \A n \in 1 .. Len(list) : list[n] \in S
  OBVIOUS
<1>3. <<0, first>> \in J
  BY <1>1, TakenPair
<1>4. ASSUME NEW n \in 1 .. Len(list), NEW x \in T, <<n - 1, x>> \in J
      PROVE  <<n, body[x][list[n]]>> \in J
  <2> DEFINE y == body[x][list[n]]
  <2>1. n - 1 \in Nat /\ n \in Nat /\ list[n] \in S /\ list[n] \in I
    BY <1>2
  <2>2. /\ first \subseteq x /\ x \subseteq first \cup S /\ Cardinality(x) <= limit
        /\ \A m \in 1 .. n - 1 : m <= Len(list) /\ Free(db[list[m]]) =>
               list[m] \in x \/ Cardinality(x) >= limit
    BY <1>1, <1>4, <2>1, TakenPair
  <2>3. /\ y \in {x, x \cup {list[n]}} /\ Cardinality(y) <= limit
        /\ Free(db[list[n]]) => list[n] \in y \/ Cardinality(x) >= limit
    BY <2>1, <2>2, TakeOne
  <2> HIDE DEF y, J
  <2>4. y \in T /\ x \subseteq y
    BY <2>1, <2>3
  <2>5. Cardinality(x) >= limit => Cardinality(y) >= limit
    <3>1. IsFiniteSet(y) /\ IsFiniteSet(x)
      BY <2>4, FS_Subset
    <3>2. Cardinality(x) <= Cardinality(y)
      BY <2>4, <3>1, FS_Subset
    <3>3. Cardinality(x) \in Nat /\ Cardinality(y) \in Nat
      BY <3>1, FS_CardinalityType
    <3> QED
      BY <3>2, <3>3
  <2>6. first \subseteq y /\ y \subseteq first \cup S
    BY <2>1, <2>2, <2>3
  <2>7. \A m \in 1 .. n : m <= Len(list) /\ Free(db[list[m]]) =>
            list[m] \in y \/ Cardinality(y) >= limit
    <3> SUFFICES ASSUME NEW m \in 1 .. n, m <= Len(list), Free(db[list[m]])
                 PROVE  list[m] \in y \/ Cardinality(y) >= limit
      OBVIOUS
    <3>1. CASE m = n
      BY <2>3, <2>5, <3>1
    <3>2. CASE m # n
      BY <2>1, <2>2, <2>4, <2>5, <3>2
    <3> QED
      BY <3>1, <3>2
  <2>8. y \in SUBSET DOMAIN db
    BY <1>1, <2>4
  <2> QED
    BY <2>1, <2>3, <2>6, <2>7, <2>8, TakenPair DEF y, J
<1> DEFINE P == Loop(body, first, list)
<1>5. P \in T /\ <<Len(list), P>> \in J
  <2> HIDE DEF T, body, J
  <2> QED
    BY <1>1, <1>3, <1>4, LoopKeeps
<1> HIDE DEF P, body
<1>6. P \in SUBSET DOMAIN db
  BY <1>1, <1>5
<1>7. /\ first \subseteq P /\ P \subseteq first \cup S /\ Cardinality(P) <= limit
      /\ \A n \in 1 .. Len(list) : n <= Len(list) /\ Free(db[list[n]]) =>
             list[n] \in P \/ Cardinality(P) >= limit
  BY <1>2, <1>5, <1>6, TakenPair
<1> QED
  BY <1>2, <1>7 DEF P, body

\* What the loop up to the soft caps keeps: it adds, or puts off, elements of its list.
Picks(I) == [selected : SUBSET I, deferred : Seq(I)]

Picked(I, limit, first, S) ==
    {q \in Nat \X Picks(I) :
        /\ first \subseteq q[2].selected /\ q[2].selected \subseteq first \cup S
        /\ Cardinality(q[2].selected) <= limit
        /\ q[2].deferred \in Seq(S)}

LEMMA PickedPair ==
    ASSUME NEW I, NEW limit, NEW first, NEW S, NEW n \in Nat, NEW x \in Picks(I)
    PROVE  <<n, x>> \in Picked(I, limit, first, S) <=>
               /\ first \subseteq x.selected /\ x.selected \subseteq first \cup S
               /\ Cardinality(x.selected) <= limit
               /\ x.deferred \in Seq(S)
<1> DEFINE q == <<n, x>>
<1>1. q \in Nat \X Picks(I) /\ q[1] = n /\ q[2] = x
  OBVIOUS
<1> HIDE DEF q
<1>2. q \in Picked(I, limit, first, S) <=>
         /\ first \subseteq q[2].selected /\ q[2].selected \subseteq first \cup S
         /\ Cardinality(q[2].selected) <= limit
         /\ q[2].deferred \in Seq(S)
  BY <1>1 DEF Picked
<1> QED
  BY <1>1, <1>2 DEF q

\* One iteration, on element i, from x to y; taken is what the limits allow to take.
Picking(x, y, i, taken) ==
    \/ y = x
    \/ y = [x EXCEPT !.deferred = Append(@, i)]
    \/ y = [x EXCEPT !.selected = taken]

LEMMA PickOne ==
    ASSUME NEW I, IsFiniteSet(I), NEW db \in [I -> Attributes], NEW limit \in Nat,
           NEW cap \in Nat
    PROVE  /\ \A x \in Picks(I), i \in I :
                  Picking(x, Pick(db, limit, cap)[x][i], i, Take(db, limit)[x.selected][i])
           /\ Pick(db, limit, cap) \in [Picks(I) -> [I -> Picks(I)]]
<1> DEFINE Taking(x, i) == Take(db, limit)[x.selected][i]
           InDomain(x, i) == {j \in x.selected : db[j].domain = db[i].domain}
           Iteration(x, i) ==
               CASE Taking(x, i) = x.selected -> x
                 [] Taking(x, i) # x.selected /\ Cardinality(InDomain(x, i)) >= cap ->
                       [x EXCEPT !.deferred = Append(@, i)]
                 [] Taking(x, i) # x.selected /\ Cardinality(InDomain(x, i)) < cap ->
                       [x EXCEPT !.selected = Taking(x, i)]
           f == Pick(db, limit, cap)
<1>1. DOMAIN db = I
  OBVIOUS
<1>2. f = [x \in Picks(I) |-> [i \in I |-> Iteration(x, i)]]
  BY <1>1 DEF Pick, Picks
<1>3. ASSUME NEW x \in Picks(I), NEW i \in I
      PROVE  /\ Picking(x, Iteration(x, i), i, Taking(x, i))
             /\ Iteration(x, i) \in Picks(I)
  <2>1. Cardinality(InDomain(x, i)) \in Nat
    BY FS_Subset, FS_CardinalityType DEF Picks
  <2>2. Taking(x, i) \in SUBSET I
    <3>1. x.selected \in SUBSET I
      BY DEF Picks
    <3>2. Take(db, limit) \in [SUBSET I -> [I -> SUBSET I]]
      BY TakeType
    <3> QED
      BY <3>1, <3>2
  <2> HIDE DEF Taking, InDomain
  <2>3. Picking(x, Iteration(x, i), i, Taking(x, i))
    BY <2>1 DEF Picking
  <2> HIDE DEF Iteration
  <2>4. x.deferred \in Seq(I) /\ Append(x.deferred, i) \in Seq(I)
    BY DEF Picks
  <2> QED
    BY <2>2, <2>3, <2>4 DEF Picks, Picking
<1> HIDE DEF f, Iteration
<1>4. \A x \in Picks(I), i \in I : f[x][i] = Iteration(x, i)
  BY <1>2
<1>5. f \in [Picks(I) -> [I -> Picks(I)]]
  BY <1>2, <1>3
<1> QED
  BY <1>3, <1>4, <1>5 DEF f

\* The whole loop.
LEMMA PickLoop ==
    ASSUME NEW I, IsFiniteSet(I), NEW db \in [I -> Attributes], NEW limit \in Nat,
           NEW cap \in Nat, NEW S \in SUBSET I, NEW first \in SUBSET I,
           Cardinality(first) <= limit, NEW list \in Seq(S)
    PROVE  LET x == Loop(Pick(db, limit, cap), [selected |-> first, deferred |-> <<>>], list) IN
           /\ x.selected \in SUBSET I /\ x.deferred \in Seq(S)
           /\ first \subseteq x.selected /\ x.selected \subseteq first \cup S
           /\ Cardinality(x.selected) <= limit
<1> DEFINE T == Picks(I)
           start == [selected |-> first, deferred |-> <<>>]
           body == Pick(db, limit, cap)
           J == Picked(I, limit, first, S)
<1>1. start \in T /\ list \in Seq(I)
  BY DEF Picks
<1>2. /\ body \in [T -> [I -> T]]
      /\ \A x \in T, i \in I :
            Picking(x, body[x][i], i, Take(db, limit)[x.selected][i])
  BY PickOne
<1>3. <<0, start>> \in J
  <2>1. start.selected = first /\ start.deferred = <<>> /\ <<>> \in Seq(S) /\ 0 \in Nat
    OBVIOUS
  <2> HIDE DEF start
  <2>2. /\ first \subseteq start.selected /\ start.selected \subseteq first \cup S
        /\ Cardinality(start.selected) <= limit /\ start.deferred \in Seq(S)
    BY <2>1
  <2> QED
    BY <1>1, <2>1, <2>2, PickedPair
<1>4. ASSUME NEW n \in 1 .. Len(list), NEW x \in T, <<n - 1, x>> \in J
      PROVE  <<n, body[x][list[n]]>> \in J
  <2> DEFINE i == list[n]
             y == body[x][i]
  <2>1. n - 1 \in Nat /\ n \in Nat /\ i \in S /\ i \in I
    OBVIOUS
  <2>2. /\ first \subseteq x.selected /\ x.selected \subseteq first \cup S
        /\ Cardinality(x.selected) <= limit /\ x.deferred \in Seq(S)
    BY <1>4, <2>1, PickedPair
  <2>3. x.selected \in SUBSET I /\ x.deferred \in Seq(I)
    BY DEF Picks
  <2>4. /\ Take(db, limit)[x.selected][i] \in {x.selected, x.selected \cup {i}}
        /\ Cardinality(Take(db, limit)[x.selected][i]) <= limit
    BY <2>1, <2>2, <2>3, TakeOne
  <2>5. Picking(x, y, i, Take(db, limit)[x.selected][i])
    <3> HIDE DEF body, T
    <3> QED
      BY <1>2, <2>1
  <2>6. y \in T
    BY <1>2, <2>1
  <2> HIDE DEF y, i, J
  <2>7. /\ first \subseteq y.selected /\ y.selected \subseteq first \cup S
        /\ Cardinality(y.selected) <= limit /\ y.deferred \in Seq(S)
    <3>1. CASE y = x
      BY <2>2, <3>1
    <3>2. CASE y = [x EXCEPT !.deferred = Append(@, i)]
      <4>1. y.selected = x.selected /\ y.deferred = Append(x.deferred, i)
        BY <3>2 DEF Picks
      <4> QED
        BY <2>1, <2>2, <4>1
    <3>3. CASE y = [x EXCEPT !.selected = Take(db, limit)[x.selected][i]]
      <4>1. y.selected = Take(db, limit)[x.selected][i] /\ y.deferred = x.deferred
        BY <3>3 DEF Picks
      <4> QED
        BY <2>1, <2>2, <2>4, <4>1
    <3> QED
      BY <2>5, <3>1, <3>2, <3>3 DEF Picking
  <2>8. <<n, y>> \in J
    BY <2>1, <2>6, <2>7, PickedPair DEF J
  <2> QED
    BY <2>8 DEF y, i
<1> DEFINE x == Loop(body, start, list)
<1>5. x \in T /\ <<Len(list), x>> \in J
  <2> HIDE DEF T, body, J, start
  <2> QED
    BY <1>1, <1>2, <1>3, <1>4, LoopKeeps
<1> HIDE DEF x, body, start
<1>6. /\ first \subseteq x.selected /\ x.selected \subseteq first \cup S
      /\ Cardinality(x.selected) <= limit /\ x.deferred \in Seq(S)
  BY <1>5, PickedPair
<1> QED
  BY <1>5, <1>6 DEF x, body, start, Picks

\* P selects of S, within the limit; an urgent Task is left out only where urgent Tasks
\* fill the limit.
Selects(P, S, limit, db, d) ==
    /\ P \subseteq S /\ Cardinality(P) <= limit
    /\ \A i \in S : UrgentTask(db[i], d) /\ Free(db[i]) =>
           i \in P \/ Cardinality({j \in P : UrgentTask(db[j], d)}) >= limit

\* The selection in three loops does.
LEMMA SelectKeeps ==
    ASSUME NEW I, IsFiniteSet(I), NEW db \in [I -> Attributes], NEW S \in SUBSET I,
           NEW order, Strict(order, S), NEW w \in Windows, NEW d
    PROVE  Selects(Select(db, S, order, w, d), S, EntryLimit[w], db, d)
<1> DEFINE limit == EntryLimit[w]
           cap == IF w \in DOMAIN SoftCap THEN SoftCap[w] ELSE limit
           urgent == {i \in S : UrgentTask(db[i], d)}
           first == Loop(Take(db, limit), {}, Ranked(urgent, order))
           found == Loop(Pick(db, limit, cap), [selected |-> first, deferred |-> <<>>],
                         Ranked(S \ urgent, order))
           P == Loop(Take(db, limit), found.selected, found.deferred)
<1>1. Select(db, S, order, w, d) = P
  BY DEF Select
<1>2. limit \in Nat /\ cap \in Nat
  BY ScoringAssumption DEF Windows
<1>3. ASSUME NEW U \in SUBSET S
      PROVE  /\ Ranked(U, order) \in Seq(U)
             /\ \A i \in U : \E n \in 1 .. Len(Ranked(U, order)) : Ranked(U, order)[n] = i
  <2>1. IsFiniteSet(U) /\ Strict(order, U)
    BY FS_Subset DEF Strict
  <2>2. Cardinality(U) \in Nat /\ Lists(Ranked(U, order), U)
    BY <2>1, FS_CardinalityType, RankedSorted
  <2> QED
    BY <2>2 DEF Lists
<1> HIDE DEF limit, cap
<1>4. /\ first \subseteq urgent /\ Cardinality(first) <= limit
      /\ \A i \in urgent : Free(db[i]) => i \in first \/ Cardinality(first) >= limit
  <2> DEFINE list == Ranked(urgent, order)
  <2>1. urgent \in SUBSET S /\ urgent \in SUBSET I /\ {} \in SUBSET I
    OBVIOUS
  <2>2. Cardinality({}) <= limit
    BY <1>2, FS_EmptySet
  <2>3. /\ list \in Seq(urgent)
        /\ \A i \in urgent : \E n \in 1 .. Len(list) : list[n] = i
    BY <1>3, <2>1
  <2> HIDE DEF urgent, list
  <2>4. LET Q == Loop(Take(db, limit), {}, list) IN
        /\ {} \subseteq Q /\ Q \subseteq {} \cup urgent /\ Cardinality(Q) <= limit
        /\ \A n \in 1 .. Len(list) : Free(db[list[n]]) =>
               list[n] \in Q \/ Cardinality(Q) >= limit
    BY <1>2, <2>1, <2>2, <2>3, TakeLoop
  <2> QED
    BY <2>3, <2>4 DEF list
<1> HIDE DEF first
<1>5. /\ found.selected \in SUBSET I /\ found.deferred \in Seq(S)
      /\ first \subseteq found.selected /\ found.selected \subseteq S
      /\ Cardinality(found.selected) <= limit
  <2> DEFINE list == Ranked(S \ urgent, order)
             start == [selected |-> first, deferred |-> <<>>]
  <2>1. first \in SUBSET I /\ first \subseteq S
    BY <1>4
  <2>2. list \in Seq(S)
    <3>1. list \in Seq(S \ urgent)
      BY <1>3
    <3> HIDE DEF list, urgent
    <3> QED
      BY <3>1
  <2> HIDE DEF list
  <2>3. LET x == Loop(Pick(db, limit, cap), start, list) IN
        /\ x.selected \in SUBSET I /\ x.deferred \in Seq(S)
        /\ first \subseteq x.selected /\ x.selected \subseteq first \cup S
        /\ Cardinality(x.selected) <= limit
    BY <1>2, <1>4, <2>1, <2>2, PickLoop
  <2> QED
    BY <2>1, <2>3 DEF list
<1> HIDE DEF found
<1>6. found.selected \subseteq P /\ P \subseteq S /\ Cardinality(P) <= limit
  <2>1. LET Q == Loop(Take(db, limit), found.selected, found.deferred) IN
        /\ found.selected \subseteq Q /\ Q \subseteq found.selected \cup S
        /\ Cardinality(Q) <= limit
    BY <1>2, <1>5, TakeLoop
  <2> QED
    BY <1>5, <2>1
<1> HIDE DEF P
<1>7. ASSUME NEW i \in urgent, Free(db[i]), i \notin P
      PROVE  Cardinality({j \in P : UrgentTask(db[j], d)}) >= limit
  <2> DEFINE some == {j \in P : UrgentTask(db[j], d)}
  <2>1. first \subseteq some /\ i \notin first
    BY <1>4, <1>5, <1>6, <1>7
  <2>2. IsFiniteSet(some) /\ IsFiniteSet(first)
    BY <1>6, <2>1, FS_Subset
  <2>3. Cardinality(first) <= Cardinality(some) /\ Cardinality(first) \in Nat
        /\ Cardinality(some) \in Nat
    BY <2>1, <2>2, FS_Subset, FS_CardinalityType
  <2>4. Cardinality(first) >= limit
    BY <1>4, <1>7, <2>1
  <2> QED
    BY <1>2, <2>3, <2>4
<1> QED
  BY <1>1, <1>6, <1>7 DEF limit, urgent, Selects

\* The score of an item is a number, and that of a Task that is due enough for a review.
LEMMA ScoreType ==
    ASSUME NEW a \in Attributes, NEW w \in Windows, NEW d \in Nat, NEW last \in Nat
    PROVE  /\ Score(a, w, d, last) \in Int
           /\ Free(a) /\ a.due \in 1 .. d => Score(a, w, d, last) >= MinimumScore
           /\ UrgencyOrder(Urgency(a, d)) \in Int
           /\ Free(a) /\ a.due \in 1 .. d => Urgency(a, d) \in {"Today", "Overdue"}
<1>1. a.type \in Types /\ a.due \in Nat /\ a.created \in Nat
  BY DEF Attributes
<1>2. Category(a) \in Categories
  BY <1>1 DEF Category, Categories
<1>3. Spacing(a) \in Nat
  BY <1>2, EligibilityAssumption DEF Spacing
<1>4. ContextScore(a, w) \in {10, 20}
  BY DEF ContextScore
<1>5. CategoryScore(a) \in Int /\ (Free(a) => CategoryScore(a) = 30)
  BY DEF CategoryScore, Free, Planned
<1>6. Urgency(a, d) \in {"None", "Later", "Moderate", "Strong", "Today", "Overdue"}
  BY <1>1 DEF Urgency
<1>7. Free(a) /\ a.due \in 1 .. d => Urgency(a, d) \in {"Today", "Overdue"}
  BY <1>1 DEF Urgency, Free
<1>8. /\ DeadlineScore(Urgency(a, d)) \in Nat
      /\ Urgency(a, d) \in {"Today", "Overdue"} => DeadlineScore(Urgency(a, d)) >= 60
  <2> DEFINE u == Urgency(a, d)
  <2> HIDE DEF u
  <2> QED
    BY <1>6 DEF DeadlineScore, u
<1>9. AgeScore(a, d) \in Nat
  <2>1. AgeDays(a, d) \in Nat
    BY <1>1 DEF AgeDays
  <2>2. AgeDays(a, d) \div 7 \in Nat
    BY <2>1
  <2> QED
    BY <2>2 DEF AgeScore
<1>10. HistoryScore(a, d, last) \in {12, -25, 0}
  BY <1>3 DEF HistoryScore
<1>11. FocusScore(a) \in {0, 25}
  BY DEF FocusScore
<1>12. Affinity(a, w) \in {0, 4, 6, 8}
  BY DEF Affinity
<1>13. UrgencyOrder(Urgency(a, d)) \in Int
  <2> DEFINE u == Urgency(a, d)
  <2> HIDE DEF u
  <2> QED
    BY <1>6 DEF UrgencyOrder, u
<1> QED
  BY <1>4, <1>5, <1>7, <1>8, <1>9, <1>10, <1>11, <1>12, <1>13 DEF Score, MinimumScore

\* The sort key of the entries has no ties.
Keyed(db, last, S, w, d) ==
    {p \in S \X S : Less(EntryKey(db, last, p[1], w, d), EntryKey(db, last, p[2], w, d))}

LEMMA KeyedStrict ==
    ASSUME NEW I \in SUBSET Nat, NEW db \in [I -> Attributes], NEW last \in [I -> Nat],
           NEW S \in SUBSET I, NEW w \in Windows, NEW d \in Nat
    PROVE  Strict(Keyed(db, last, S, w, d), S)
<1> DEFINE SortKey(i) == EntryKey(db, last, i, w, d)
           R == Keyed(db, last, S, w, d)
           Earlier(i, j) == Less(SortKey(i), SortKey(j))
<1>1. ASSUME NEW i \in S PROVE SortKey(i) \in [1 .. 6 -> Int] /\ SortKey(i)[6] = i
  <2> DEFINE a == db[i]
  <2>1. a \in Attributes /\ last[i] \in Nat /\ i \in Nat
    OBVIOUS
  <2>2. a.due \in Nat /\ a.created \in Nat
    BY <2>1 DEF Attributes
  <2>3. -Score(a, w, d, last[i]) \in Int /\ -UrgencyOrder(Urgency(a, d)) \in Int
    BY <2>1, ScoreType
  <2> HIDE DEF a
  <2> QED
    BY <2>1, <2>2, <2>3 DEF EntryKey, a
<1>2. ASSUME NEW i \in S, NEW j \in S PROVE <<i, j>> \in R <=> Earlier(i, j)
  <2> DEFINE p == <<i, j>>
  <2>1. p \in S \X S /\ p[1] = i /\ p[2] = j
    OBVIOUS
  <2> HIDE DEF p
  <2>2. p \in R <=> Less(EntryKey(db, last, p[1], w, d), EntryKey(db, last, p[2], w, d))
    BY <2>1 DEF Keyed
  <2> QED
    BY <2>1, <2>2 DEF p
<1> HIDE DEF SortKey
<1>3. \A i \in S : ~Earlier(i, i)
  BY <1>1, LessIrreflexive
<1>4. \A i, j, k \in S : Earlier(i, j) /\ Earlier(j, k) => Earlier(i, k)
  BY <1>1, LessTransitive
<1>5. \A i, j \in S : i = j \/ Earlier(i, j) \/ Earlier(j, i)
  <2> SUFFICES ASSUME NEW i \in S, NEW j \in S, i # j PROVE Earlier(i, j) \/ Earlier(j, i)
    OBVIOUS
  <2>1. SortKey(i) # SortKey(j)
    BY <1>1
  <2> QED
    BY <1>1, <2>1, LessTotal
<1> HIDE DEF R, Earlier
<1> QED
  BY <1>2, <1>3, <1>4, <1>5 DEF Strict, R

\* P is within the limit, and leaves a due Task out only where urgent Tasks fill it.
KeepsDue(P, db, S, w, d) ==
    /\ P \subseteq S /\ Cardinality(P) <= EntryLimit[w]
    /\ \A i \in S : Free(db[i]) /\ db[i].due \in 1 .. d =>
           \/ i \in P
           \/ Cardinality({j \in P : UrgentTask(db[j], d)}) >= EntryLimit[w]

\* The entries of a review do.
LEMMA EntriesKeep ==
    ASSUME NEW I \in SUBSET Nat, IsFiniteSet(I), NEW db \in [I -> Attributes],
           NEW last \in [I -> Nat], NEW S \in SUBSET I, NEW w \in Windows, NEW d \in Nat
    PROVE  KeepsDue(Entries(db, last, S, w, d), db, S, w, d)
<1> DEFINE scored == {i \in S : /\ ~Routine(db[i])
                               /\ Score(db[i], w, d, last[i]) >= MinimumScore}
           order == Keyed(db, last, scored, w, d)
           P == Select(db, scored, order, w, d)
<1>1. Entries(db, last, S, w, d) = P
  BY DEF Entries, Keyed
<1>2. scored \in SUBSET I /\ scored \subseteq S
  OBVIOUS
<1>3. ASSUME NEW i \in S, Free(db[i]), db[i].due \in 1 .. d
      PROVE  i \in scored /\ UrgentTask(db[i], d)
  <2>1. db[i] \in Attributes /\ last[i] \in Nat
    OBVIOUS
  <2>2. Score(db[i], w, d, last[i]) >= MinimumScore
    BY <1>3, <2>1, ScoreType
  <2>3. Urgency(db[i], d) \in {"Today", "Overdue"}
    BY <1>3, <2>1, ScoreType
  <2> QED
    BY <1>3, <2>2, <2>3 DEF Free, Routine, UrgentTask
<1> HIDE DEF scored
<1>4. Strict(order, scored)
  BY <1>2, KeyedStrict
<1> HIDE DEF order, P
<1>5. /\ P \subseteq scored /\ Cardinality(P) <= EntryLimit[w]
      /\ \A i \in {j \in scored : UrgentTask(db[j], d)} : Free(db[i]) =>
             \/ i \in P
             \/ Cardinality({j \in P : UrgentTask(db[j], d)}) >= EntryLimit[w]
  <2>1. Selects(Select(db, scored, order, w, d), scored, EntryLimit[w], db, d)
    BY <1>2, <1>4, SelectKeeps
  <2> QED
    BY <2>1 DEF Selects, P
<1>6. P \subseteq S
  BY <1>2, <1>5
<1>7. \A i \in S : Free(db[i]) /\ db[i].due \in 1 .. d =>
          \/ i \in P
          \/ Cardinality({j \in P : UrgentTask(db[j], d)}) >= EntryLimit[w]
  BY <1>3, <1>5
<1> QED
  BY <1>1, <1>5, <1>6, <1>7 DEF KeepsDue

\* The routine purchases displayed are the oldest, and no more than the limit.
LEMMA GroupKeeps ==
    ASSUME NEW I \in SUBSET Nat, IsFiniteSet(I), NEW db \in [I -> Attributes],
           NEW S \in SUBSET I, NEW w
    PROVE  LET P == RoutineGroup(db, S, w) IN
           /\ P \subseteq S /\ IsFiniteSet(P) /\ Cardinality(P) <= RoutineLimit
           /\ w # "AfterWork" => P = {}
<1> DEFINE routine == {i \in S : Routine(db[i])}
           R == {p \in routine \X routine :
                    Less(<<db[p[1]].created, p[1]>>, <<db[p[2]].created, p[2]>>)}
           Older(i) == {j \in routine : Less(<<db[j].created, j>>, <<db[i].created, i>>)}
           B(i) == Cardinality(Older(i))
           P == {i \in routine : B(i) < RoutineLimit}
<1>1. RoutineGroup(db, S, w) = IF w # "AfterWork" THEN {} ELSE P
  BY DEF RoutineGroup
<1>2. ASSUME NEW i \in routine, NEW j \in routine
      PROVE  <<i, j>> \in R <=> Less(<<db[i].created, i>>, <<db[j].created, j>>)
  <2> DEFINE p == <<i, j>>
  <2>1. p \in routine \X routine /\ p[1] = i /\ p[2] = j
    BY <1>2
  <2> HIDE DEF p, routine
  <2>2. p \in R <=> Less(<<db[p[1]].created, p[1]>>, <<db[p[2]].created, p[2]>>)
    BY <2>1
  <2> QED
    BY <2>1, <2>2 DEF p
<1>3. IsFiniteSet(routine) /\ RoutineLimit \in Nat
  BY FS_Subset, ScoringAssumption
<1>4. Strict(R, routine)
  <2> DEFINE SortKey(i) == <<db[i].created, i>>
             Earlier(i, j) == Less(SortKey(i), SortKey(j))
  <2>1. ASSUME NEW i \in routine PROVE SortKey(i) \in [1 .. 2 -> Int] /\ SortKey(i)[2] = i
    BY DEF Attributes
  <2>2. \A i, j \in routine : <<i, j>> \in R <=> Earlier(i, j)
    BY <1>2
  <2> HIDE DEF SortKey, R, routine
  <2>3. \A i \in routine : ~Earlier(i, i)
    BY <2>1, LessIrreflexive
  <2>4. \A i, j, k \in routine : Earlier(i, j) /\ Earlier(j, k) => Earlier(i, k)
    BY <2>1, LessTransitive
  <2>5. \A i, j \in routine : i = j \/ Earlier(i, j) \/ Earlier(j, i)
    <3> SUFFICES ASSUME NEW i \in routine, NEW j \in routine, i # j
                 PROVE  Earlier(i, j) \/ Earlier(j, i)
      OBVIOUS
    <3>1. SortKey(i) # SortKey(j)
      BY <2>1
    <3> QED
      BY <2>1, <3>1, LessTotal
  <2> HIDE DEF Earlier
  <2> QED
    BY <2>2, <2>3, <2>4, <2>5 DEF Strict
<1>5. ASSUME NEW i \in routine PROVE Older(i) = Ahead(i, routine, R)
  BY <1>2, <1>5 DEF Ahead
<1> HIDE DEF R, Older
<1>6. \A i \in routine : /\ B(i) \in Nat
                         /\ \A j \in routine : <<i, j>> \in R => B(i) < B(j)
  <2>1. \A i \in routine :
            /\ Cardinality(Ahead(i, routine, R)) \in 0 .. Cardinality(routine) - 1
            /\ \A j \in routine : <<i, j>> \in R =>
                  Cardinality(Ahead(i, routine, R)) < Cardinality(Ahead(j, routine, R))
    <3> HIDE DEF routine
    <3> QED
      BY <1>3, <1>4, FewerBefore
  <2> HIDE DEF routine
  <2> QED
    BY <1>5, <2>1
<1>7. \A i, j \in routine : B(i) = B(j) => i = j
  <2> SUFFICES ASSUME NEW i \in routine, NEW j \in routine, B(i) = B(j) PROVE i = j
    OBVIOUS
  <2>1. <<i, j>> \notin R /\ <<j, i>> \notin R
    BY <1>6
  <2> HIDE DEF routine
  <2> QED
    BY <1>4, <2>1 DEF Strict
<1>8. Cardinality(P) <= RoutineLimit
  <2> DEFINE f == [i \in P |-> B(i) + 1]
  <2>1. f \in Injection(P, 1 .. RoutineLimit)
    <3>1. P \subseteq routine /\ \A i \in P : B(i) \in Nat /\ B(i) < RoutineLimit
      BY <1>6
    <3> HIDE DEF routine, B, P
    <3>2. f \in [P -> 1 .. RoutineLimit]
      BY <1>3, <3>1
    <3>3. \A i, j \in P : f[i] = f[j] => i = j
      BY <1>7, <3>1
    <3> QED
      BY <3>2, <3>3 DEF Injection, IsInjective
  <2>2. IsFiniteSet(1 .. RoutineLimit) /\ Cardinality(1 .. RoutineLimit) = RoutineLimit
    BY <1>3, FS_Interval
  <2> HIDE DEF f, P
  <2> QED
    BY <2>1, <2>2, FS_Injection
<1>9. P \subseteq S /\ IsFiniteSet(P)
  BY <1>3, FS_Subset
<1> HIDE DEF P
<1>10. IsFiniteSet({}) /\ Cardinality({}) = 0
  BY FS_EmptySet
<1>11. CASE w = "AfterWork"
  <2>1. RoutineGroup(db, S, w) = P
    BY <1>1, <1>11
  <2> QED
    BY <1>8, <1>9, <1>11, <2>1
<1>12. CASE w # "AfterWork"
  <2>1. RoutineGroup(db, S, w) = {}
    BY <1>1, <1>12
  <2> QED
    BY <1>3, <1>10, <2>1
<1> QED
  BY <1>11, <1>12

-----------------------------------------------------------------------------
\* The delivery.  Its types are those of ReviewDelivery, for the limits and the dates
\* of this composition.
LEMMA LimitType == Displayed \in [Windows -> Nat \ {0}]
<1>1. /\ RoutineLimit \in Nat /\ EntryLimit \in [Windows -> Nat \ {0}]
      /\ \A w \in Windows : Displayed[w] = EntryLimit[w]
                               + IF w = "AfterWork" THEN RoutineLimit ELSE 0
      /\ DOMAIN Displayed = Windows
  BY ScoringAssumption DEF Displayed
<1>2. \A w \in Windows : Displayed[w] \in Nat \ {0}
  BY <1>1
<1> QED
  BY <1>1, <1>2 DEF Displayed

\* Its rules of eligibility are the ones of this module.
LEMMA SameRules ==
    /\ D!Windows = Windows /\ D!Slots = Slots
    /\ \A slot, weekend : D!ResolveWindow(slot, weekend) = ResolveWindow(slot, weekend)
    /\ \A a, w, on, until, last : D!Eligible(a, w, on, until, last) <=>
                                   Eligible(a, w, on, until, last)
<1>1. D!Windows = Windows /\ D!Slots = Slots
  BY DEF D!Windows, Windows, D!Slots, Slots
<1>2. \A slot, weekend : D!ResolveWindow(slot, weekend) = ResolveWindow(slot, weekend)
  BY DEF D!ResolveWindow, ResolveWindow
<1>3. ASSUME NEW a, NEW w, NEW on, NEW until, NEW last
      PROVE  D!Eligible(a, w, on, until, last) <=> Eligible(a, w, on, until, last)
  <2>1. D!Routine(a) = Routine(a) /\ D!Planned(a) = Planned(a)
    BY DEF D!Routine, Routine, D!Planned, Planned
  <2>2. D!Category(a) = Category(a) /\ D!AgeDays(a, on) = AgeDays(a, on)
        /\ D!Urgency(a, on) = Urgency(a, on)
    BY <2>1 DEF D!Category, Category, D!AgeDays, AgeDays, D!Urgency, Urgency
  <2>3. D!MatchesWindow(a, w) <=> MatchesWindow(a, w)
    BY <2>1 DEF D!MatchesWindow, MatchesWindow, D!Compatible, Compatible
  <2>4. D!OldEnough(a, on) <=> OldEnough(a, on)
    BY <2>1, <2>2 DEF D!OldEnough, OldEnough
  <2>5. D!SpacedOut(a, last, on) <=> SpacedOut(a, last, on)
    BY <2>2 DEF D!SpacedOut, SpacedOut, D!DueNow, DueNow, D!Spacing, Spacing
  <2> QED
    BY <2>3, <2>4, <2>5 DEF D!Eligible, Eligible
<1> QED
  BY <1>1, <1>2, <1>3

LEMMA SameSize == \A S : D!Cardinality(S) = Cardinality(S)
BY DEF D!Cardinality, Cardinality

\* What the end of a run leaves.
LEMMA EndTypes ==
    ASSUME D!TypeOK, NEW r \in Runs, D!End(r)
    PROVE  /\ pc' \in [Runs -> {"idle", "plan", "send", "record", "actions"}]
           /\ request' \in [Runs -> [window : D!Windows \cup {"none"}, on : D!Dates]]
           /\ items' \in [Runs -> SUBSET Items]
           /\ todo' \in [Runs -> SUBSET Items]
           /\ attempt' \in [Runs -> 0 .. 2]
<1>1. D!NoRequest \in [window : D!Windows \cup {"none"}, on : D!Dates]
  BY ScheduledAssumption DEF D!NoRequest, D!Dates
<1> QED
  BY <1>1 DEF D!TypeOK, D!End

\* What a run writes and shows bears its date.
LEMMA WriteTypes ==
    ASSUME D!TypeOK, NEW r \in Runs
    PROVE  /\ \A i \in Items : D!WriteSurfaced(r, i) => lastSurfaced' \in [Items -> D!Dates]
           /\ D!BatchFails(r) => lastSurfaced' \in [Items -> D!Dates]
           /\ D!Show(r) => shown' \subseteq Items \X D!Dates
<1>1. request[r].on \in D!Dates /\ items[r] \subseteq Items /\ todo[r] \subseteq Items
  BY DEF D!TypeOK
<1>2. \A i \in Items : D!WriteSurfaced(r, i) => lastSurfaced' \in [Items -> D!Dates]
  BY <1>1 DEF D!TypeOK, D!WriteSurfaced
<1>3. D!BatchFails(r) => lastSurfaced' \in [Items -> D!Dates]
  BY <1>1, <1>2 DEF D!TypeOK, D!BatchFails
<1>4. D!Show(r) => shown' \subseteq Items \X D!Dates
  BY <1>1 DEF D!TypeOK, D!Show
<1> QED
  BY <1>2, <1>3, <1>4

\* Every step of ReviewDelivery keeps its types.
LEMMA DeliveryTypes ==
    ASSUME D!TypeOK, [D!Next]_(D!vars)
    PROVE  D!TypeOK'
<1> USE DEF D!notion, D!local, D!history, D!bounds
<1>1. ASSUME NEW r \in Runs, NEW slot \in D!Slots, D!Start(r, slot) PROVE D!TypeOK'
  <2> DEFINE w == D!ResolveWindow(slot, day \in WeekendDays)
  <2>1. w \in D!Windows \cup {"none"} /\ day \in D!Dates
    BY ScheduledAssumption DEF D!ResolveWindow, D!Windows, D!TypeOK, D!Dates
  <2> HIDE DEF w
  <2>2. request' \in [Runs -> [window : D!Windows \cup {"none"}, on : D!Dates]]
    BY <1>1, <2>1 DEF D!Start, D!TypeOK, w
  <2>3. runs' \in 0 .. MaxRuns
    BY <1>1, ScheduledAssumption DEF D!Start, D!TypeOK
  <2> QED
    BY <1>1, <2>2, <2>3 DEF D!Start, D!TypeOK
<1>2. ASSUME NEW r \in Runs, NEW P \in SUBSET Items, D!Plan(r, P) PROVE D!TypeOK'
  BY <1>2 DEF D!Plan, D!TypeOK
<1>3. ASSUME NEW r \in Runs, D!PlanEmptyOrFailed(r) PROVE D!TypeOK'
  BY <1>3, EndTypes DEF D!PlanEmptyOrFailed, D!TypeOK
<1>4. ASSUME NEW r \in Runs, D!SendOk(r) PROVE D!TypeOK'
  <2>1. shown' \subseteq Items \X D!Dates
    BY <1>4, WriteTypes DEF D!SendOk
  <2> QED
    BY <1>4, <2>1 DEF D!SendOk, D!TypeOK
<1>5. ASSUME NEW r \in Runs, D!SendFails(r) PROVE D!TypeOK'
  <2>1. shown' \subseteq Items \X D!Dates
    BY <1>5, WriteTypes DEF D!SendFails, D!TypeOK
  <2> QED
    BY <1>5, <2>1, EndTypes DEF D!SendFails, D!TypeOK
<1>6. ASSUME NEW r \in Runs, NEW i \in Items, D!RecordPage(r, i) PROVE D!TypeOK'
  <2>1. lastSurfaced' \in [Items -> D!Dates]
    BY <1>6, WriteTypes DEF D!RecordPage
  <2> QED
    BY <1>6, <2>1 DEF D!RecordPage, D!TypeOK
<1>7. ASSUME NEW r \in Runs, D!Recorded(r) PROVE D!TypeOK'
  <2>1. items[r] \X {request[r].on} \subseteq Items \X D!Dates
    BY DEF D!TypeOK
  <2> QED
    BY <1>7, <2>1 DEF D!Recorded, D!TypeOK
<1>8. ASSUME NEW r \in Runs, D!Retry(r) PROVE D!TypeOK'
  BY <1>8, WriteTypes DEF D!Retry, D!TypeOK
<1>9. ASSUME NEW r \in Runs, D!GiveUp(r) PROVE D!TypeOK'
  BY <1>9, WriteTypes DEF D!GiveUp, D!TypeOK
<1>10. ASSUME NEW r \in Runs, D!SendActions(r) PROVE D!TypeOK'
  BY <1>10, EndTypes DEF D!SendActions, D!TypeOK
<1>11. ASSUME NEW i \in Items, D!UserSnoozes(i) \/ D!UserTrashes(i) PROVE D!TypeOK'
  <2>1. day + 1 \in 0 .. MaxDay + 1
    BY ScheduledAssumption DEF D!TypeOK
  <2>2. userActions' \in 0 .. MaxUserActions
    BY <1>11, ScheduledAssumption DEF D!UserSnoozes, D!UserTrashes, D!TypeOK
  <2> QED
    BY <1>11, <2>1, <2>2 DEF D!UserSnoozes, D!UserTrashes, D!TypeOK
<1>12. ASSUME D!Midnight PROVE D!TypeOK'
  <2>1. day' \in FirstDay .. MaxDay
    BY <1>12, ScheduledAssumption DEF D!Midnight, D!TypeOK
  <2> QED
    BY <1>12, <2>1 DEF D!Midnight, D!TypeOK
<1>13. ASSUME D!Crash PROVE D!TypeOK'
  <2>1. lastSurfaced' \in [Items -> D!Dates] /\ shown' \subseteq Items \X D!Dates
    BY <1>13, WriteTypes DEF D!Crash, D!TypeOK
  <2>2. crashes' \in 0 .. MaxCrashes
    BY <1>13, ScheduledAssumption DEF D!Crash, D!TypeOK
  <2>3. D!NoRequest \in [window : D!Windows \cup {"none"}, on : D!Dates]
    BY ScheduledAssumption DEF D!NoRequest, D!Dates
  <2> QED
    BY <1>13, <2>1, <2>2, <2>3 DEF D!Crash, D!TypeOK
<1>14. ASSUME UNCHANGED D!vars PROVE D!TypeOK'
  BY <1>14 DEF D!vars, D!TypeOK
<1> QED
  BY <1>1, <1>2, <1>3, <1>4, <1>5, <1>6, <1>7, <1>8, <1>9, <1>10, <1>11, <1>12, <1>13,
     <1>14 DEF D!Next, D!Step

\* A run that is going on has a window.
WindowInv == \A r \in Runs : pc[r] # "idle" => request[r].window \in Windows

LEMMA WindowKept ==
    ASSUME D!TypeOK, WindowInv, [D!Next]_(D!vars)
    PROVE  WindowInv'
<1> DEFINE Same == \A r \in Runs : pc'[r] # "idle" => pc[r] # "idle" /\ request'[r] = request[r]
<1>1. Same => WindowInv'
  BY DEF WindowInv
<1>2. ASSUME NEW r \in Runs, D!End(r) PROVE Same
  BY <1>2 DEF D!End, D!TypeOK
<1>3. ASSUME NEW r \in Runs, NEW slot \in D!Slots, D!Start(r, slot) PROVE WindowInv'
  <2> DEFINE w == D!ResolveWindow(slot, day \in WeekendDays)
  <2>1. w \in Windows
    BY <1>3 DEF D!Start, D!ResolveWindow, Windows
  <2> HIDE DEF w
  <2>2. /\ pc' = [pc EXCEPT ![r] = "plan"]
        /\ request' = [request EXCEPT ![r] = [window |-> w, on |-> day]]
    BY <1>3 DEF D!Start, w
  <2> QED
    BY <2>1, <2>2 DEF WindowInv, D!TypeOK
<1>4. ASSUME NEW r \in Runs, D!Step(r) PROVE Same
  <2>1. D!End(r) \/ (request' = request /\ pc[r] # "idle"
                     /\ (pc' = pc \/ \E place \in Places : pc' = [pc EXCEPT ![r] = place]))
    BY <1>4 DEF D!Step, D!Plan, D!PlanEmptyOrFailed, D!SendOk, D!SendFails, D!RecordPage,
       D!Recorded, D!Retry, D!GiveUp, D!SendActions, D!BatchFails, D!local, Places
  <2> QED
    BY <1>2, <2>1 DEF D!TypeOK
<1>5. ASSUME \/ \E i \in Items : D!UserSnoozes(i) \/ D!UserTrashes(i)
             \/ D!Midnight \/ D!Crash \/ UNCHANGED D!vars
      PROVE  Same
  BY <1>5 DEF D!UserSnoozes, D!UserTrashes, D!Midnight, D!Crash, D!vars, D!local
<1> HIDE DEF Same
<1> QED
  BY <1>1, <1>3, <1>4, <1>5 DEF D!Next

\* What a run that plans finds.
LEMMA Facts ==
    ASSUME D!TypeOK, WindowInv, NEW r \in Runs, pc[r] = "plan"
    PROVE  /\ Items \in SUBSET Nat /\ IsFiniteSet(Items)
           /\ attr \in [Items -> Attributes] /\ lastSurfaced \in [Items -> Nat]
           /\ Shortlist(r) \in SUBSET Items
           /\ request[r].window \in Windows /\ request[r].on \in Nat
<1>1. Items \in SUBSET Nat /\ IsFiniteSet(Items) /\ attr \in [Items -> Attributes]
  BY ScheduledAssumption DEF D!TypeOK
<1>2. MaxDay \in Nat /\ lastSurfaced \in [Items -> D!Dates]
  BY ScheduledAssumption DEF D!TypeOK
<1>3. lastSurfaced \in [Items -> Nat]
  BY <1>2 DEF D!Dates
<1>4. Shortlist(r) \in SUBSET Items
  BY DEF D!TypeOK, Shortlist
<1>5. request[r].window \in Windows /\ request[r].on \in D!Dates
  BY DEF D!TypeOK, WindowInv
<1> QED
  BY <1>1, <1>2, <1>3, <1>4, <1>5 DEF D!Dates

\* A plan that is computed is one that the delivery allows.
LEMMA PlanAllowed ==
    ASSUME D!TypeOK, WindowInv, NEW r \in Runs, PlanOk(r)
    PROVE  \E P \in SUBSET Items : D!Plan(r, P)
<1> DEFINE w == request[r].window
           on == request[r].on
           S == Shortlist(r)
           group == RoutineGroup(attr, S, w)
           P == Review(r)
<1>1. pc[r] = "plan"
  BY DEF PlanOk
<1>2. /\ Items \in SUBSET Nat /\ IsFiniteSet(Items)
      /\ attr \in [Items -> Attributes] /\ lastSurfaced \in [Items -> Nat]
      /\ S \in SUBSET Items /\ w \in Windows /\ on \in Nat
  BY <1>1, Facts
<1>3. P = PlannedEntries(r) \cup group /\ PlannedEntries(r) = Entries(attr, lastSurfaced, S, w, on)
  BY DEF Review, PlannedEntries
<1>4. S \subseteq D!Candidates(r)
  BY SameRules DEF Shortlist, D!Candidates
<1> HIDE DEF w, on, S
<1>5. PlannedEntries(r) \subseteq S /\ Cardinality(PlannedEntries(r)) <= EntryLimit[w]
  <2>1. KeepsDue(PlannedEntries(r), attr, S, w, on)
    BY <1>2, <1>3, EntriesKeep
  <2> QED
    BY <2>1 DEF KeepsDue
<1>6. /\ group \subseteq S /\ IsFiniteSet(group) /\ Cardinality(group) <= RoutineLimit
      /\ w # "AfterWork" => group = {}
  BY <1>2, GroupKeeps
<1> HIDE DEF group, P
<1>7. Cardinality(P) <= Displayed[w]
  <2>1. IsFiniteSet(PlannedEntries(r)) /\ IsFiniteSet(PlannedEntries(r) \cap group)
    BY <1>2, <1>5, FS_Subset
  <2>2. /\ Cardinality(PlannedEntries(r)) \in Nat /\ Cardinality(group) \in Nat
        /\ Cardinality(PlannedEntries(r) \cap group) \in Nat
    BY <1>6, <2>1, FS_CardinalityType
  <2>3. Cardinality(P) = Cardinality(PlannedEntries(r)) + Cardinality(group)
                         - Cardinality(PlannedEntries(r) \cap group)
    BY <1>3, <1>6, <2>1, FS_Union
  <2>4. w # "AfterWork" => Cardinality(group) = 0
    BY <1>6, FS_EmptySet
  <2>5. Displayed[w] = EntryLimit[w] + IF w = "AfterWork" THEN RoutineLimit ELSE 0
    BY <1>2 DEF Displayed
  <2>6. EntryLimit[w] \in Nat /\ RoutineLimit \in Nat
    BY <1>2, ScoringAssumption
  <2> QED
    BY <1>5, <1>6, <2>2, <2>3, <2>4, <2>5, <2>6
<1>8. P \subseteq S /\ P \in SUBSET Items
  BY <1>2, <1>3, <1>5, <1>6
<1>9. D!Plan(r, P)
  <2>1. /\ pc' = [pc EXCEPT ![r] = "send"] /\ items' = [items EXCEPT ![r] = P] /\ P # {}
    BY DEF PlanOk, P
  <2>2. P \subseteq D!Candidates(r) /\ Cardinality(P) <= Displayed[request[r].window]
    BY <1>4, <1>7, <1>8 DEF w
  <2>3. UNCHANGED <<D!notion, request, todo, attempt, D!history, D!bounds>>
    BY DEF PlanOk, notion, D!notion, D!history, D!bounds
  <2> QED
    BY <1>1, <2>1, <2>2, <2>3, SameSize DEF D!Plan
<1> QED
  BY <1>8, <1>9

\* A step of the composition is one of the delivery, or leaves the delivery alone.
LEMMA Delivers ==
    ASSUME D!TypeOK, WindowInv, [Next]_vars
    PROVE  [D!Next]_(D!vars)
<1>1. ASSUME NEW r \in Runs, PlanOk(r) PROVE D!Next
  BY <1>1, PlanAllowed DEF D!Next, D!Step
<1>2. ASSUME NEW r \in Runs, Step(r), ~PlanOk(r) PROVE D!Next
  <2>1. \/ D!PlanEmptyOrFailed(r) \/ D!SendOk(r) \/ D!SendFails(r)
        \/ (\E i \in Items : D!RecordPage(r, i)) \/ D!Recorded(r) \/ D!Retry(r)
        \/ D!GiveUp(r) \/ D!SendActions(r)
    BY <1>2 DEF Step, QueryFails, PlanEmpty, PlanRefused, SendOk, SendFails, Record, GiveUp,
       SendActions
  <2> QED
    BY <2>1 DEF D!Next, D!Step
<1>3. ASSUME NEW r \in Runs, NEW k \in Keys, Ask(r, k) PROVE D!Next
  <2>1. Slot[k] \in D!Slots
    BY ScheduledAssumption, SameRules
  <2> QED
    BY <1>3, <2>1 DEF Ask, D!Next
<1>4. ASSUME User \/ Midnight \/ Crash PROVE D!Next
  BY <1>4 DEF User, Midnight, Crash, D!Next
<1>5. ASSUME (\E k \in Keys : Settle(k)) \/ Prune \/ UNCHANGED vars PROVE UNCHANGED D!vars
  <2>1. UNCHANGED delivery
    BY <1>5 DEF Settle, Prune, vars
  <2> QED
    BY <2>1 DEF delivery, notion, D!vars, D!notion, D!local, D!history, D!bounds
<1> QED
  BY <1>1, <1>2, <1>3, <1>4, <1>5 DEF Next

\* The types and the windows of the delivery, at any time.
DeliveryInv == D!TypeOK /\ WindowInv

LEMMA InitDelivery == Init => D!Init /\ DeliveryInv
<1> SUFFICES ASSUME Init PROVE D!Init /\ DeliveryInv
  OBVIOUS
<1>1. D!Init
  BY DEF Init
<1>2. D!NoRequest \in [window : D!Windows \cup {"none"}, on : D!Dates]
  BY ScheduledAssumption DEF D!NoRequest, D!Dates
<1>3. /\ 0 \in 0 .. MaxDay + 1 /\ 0 \in D!Dates /\ FirstDay \in FirstDay .. MaxDay
      /\ 0 \in 0 .. MaxRuns /\ 0 \in 0 .. MaxUserActions /\ 0 \in 0 .. MaxCrashes
  BY ScheduledAssumption DEF D!Dates
<1>4. D!TypeOK
  BY <1>1, <1>2, <1>3 DEF D!Init, D!TypeOK
<1>5. WindowInv
  BY <1>1 DEF D!Init, WindowInv
<1> QED
  BY <1>1, <1>4, <1>5 DEF DeliveryInv

LEMMA DeliveryAlways == Spec => []DeliveryInv
<1>1. DeliveryInv /\ [Next]_vars => DeliveryInv'
  BY Delivers, DeliveryTypes, WindowKept DEF DeliveryInv
<1> QED
  BY <1>1, InitDelivery, PTL DEF Spec

\* DeliverySpec: with the guard before it, and the plan computed from scores, order and
\* selection, a scheduled review is a run of ReviewDelivery.  So whatever ReviewDelivery
\* promises of any plan holds of the plans that are computed, whichever pages there are.
THEOREM Refinement == Spec => DeliverySpec
<1>1. DeliveryInv /\ [Next]_vars => [D!Next]_(D!vars)
  BY Delivers DEF DeliveryInv
<1> QED
  BY <1>1, InitDelivery, DeliveryAlways, PTL DEF Spec, DeliverySpec, D!Spec

-----------------------------------------------------------------------------
\* The guard's times are dates that have come.
TimeInv == at \in [Keys -> 0 .. MaxDay]

LEMMA BecomeTimes ==
    ASSUME NEW st, NEW t \in [Keys -> 0 .. MaxDay], L!Become(st, t), MaxDay \in Nat
    PROVE  TimeInv'
BY DEF L!Become, TimeInv

LEMMA TimesKept ==
    ASSUME TimeInv, D!TypeOK, [Next]_vars
    PROVE  TimeInv'
<1>1. MaxDay \in Nat /\ 0 \in 0 .. MaxDay /\ day \in 0 .. MaxDay
  BY ScheduledAssumption DEF D!TypeOK
<1>2. ASSUME NEW k \in Keys, L!Start(k) \/ L!Remember(k) PROVE TimeInv'
  <2>1. \A n \in 0 .. MaxDay : [at EXCEPT ![k] = n] \in [Keys -> 0 .. MaxDay]
    BY DEF TimeInv
  <2>2. \E st : \E n \in 0 .. MaxDay : L!Become(st, [at EXCEPT ![k] = n])
    BY <1>1, <1>2 DEF L!Start, L!Remember
  <2> QED
    BY <1>1, <2>1, <2>2, BecomeTimes
<1>3. ASSUME L!Forget PROVE TimeInv'
  BY <1>1, <1>3, BecomeTimes DEF L!Forget, TimeInv
<1>4. ASSUME L!Restart PROVE TimeInv'
  BY <1>1, <1>4 DEF L!Restart, TimeInv
<1>5. ASSUME UNCHANGED at PROVE TimeInv'
  BY <1>5 DEF TimeInv
<1>6. ASSUME NEW r \in Runs, Step(r) PROVE UNCHANGED at
  BY <1>6 DEF Step, QueryFails, PlanOk, PlanEmpty, PlanRefused, SendOk, SendFails, Record,
     GiveUp, SendActions, Ends, L!Finish, ledger
<1>7. ASSUME NEW k \in Keys, Settle(k) PROVE TimeInv'
  <2>1. CASE L!Remember(k)
    BY <1>2, <2>1
  <2>2. CASE L!Release(k)
    BY <1>5, <2>2 DEF L!Release
  <2> QED
    BY <1>7, <2>1, <2>2 DEF Settle
<1>8. ASSUME User \/ Midnight \/ UNCHANGED vars PROVE UNCHANGED at
  BY <1>8 DEF User, Midnight, L!Tick, vars, ledger
<1> QED
  BY <1>2, <1>3, <1>4, <1>5, <1>6, <1>7, <1>8 DEF Next, Ask, Prune, Crash

LEMMA TimesAlways == Spec => []TimeInv
<1>1. Init => TimeInv
  <2>1. 0 \in 0 .. MaxDay
    BY ScheduledAssumption
  <2> QED
    BY <2>1 DEF Init, TimeInv
<1>2. TimeInv /\ DeliveryInv /\ [Next]_vars => TimeInv'
  BY TimesKept DEF DeliveryInv
<1> QED
  BY <1>1, <1>2, DeliveryAlways, PTL DEF Spec

\* TypeOK: the state has its types, those of the delivery included.
THEOREM Typing == Spec => []TypeOK
<1>1. IInv /\ DeliveryInv /\ TimeInv => TypeOK
  BY DEF IInv, StateTypes, Statuses, DeliveryInv, TimeInv, TypeOK
<1> QED
  BY <1>1, IInvAlways, DeliveryAlways, TimesAlways, PTL

-----------------------------------------------------------------------------
\* What the review of r owes item i when its plan is made.
Owed(r, i) ==
    /\ attr[i].type = "Task" /\ attr[i].domain # "Shopping"
    /\ attr[i].due \in 1 .. request[r].on
    /\ MatchesWindow(attr[i], request[r].window)
    /\ snoozedUntil[i] <= request[r].on /\ lastSurfaced[i] < request[r].on

\* Such an item is in the shortlist.
LEMMA OwedListed ==
    ASSUME D!TypeOK, WindowInv, NEW r \in Runs, pc[r] = "plan",
           NEW i \in active, Owed(r, i)
    PROVE  i \in Shortlist(r)
<1> DEFINE a == attr[i]
           w == request[r].window
           on == request[r].on
<1>1. /\ a \in Attributes /\ lastSurfaced[i] \in Nat /\ w \in Windows /\ on \in Nat
  <2>1. i \in Items
    BY DEF D!TypeOK
  <2>2. attr \in [Items -> Attributes] /\ lastSurfaced \in [Items -> Nat]
        /\ request[r].window \in Windows /\ request[r].on \in Nat
    BY Facts
  <2> QED
    BY <2>1, <2>2
<1>2. Free(a) /\ a.due \in 1 .. on /\ MatchesWindow(a, w)
      /\ snoozedUntil[i] <= on /\ lastSurfaced[i] < on
  BY DEF Owed, Free
<1> HIDE DEF a, w, on
<1>3. ~Routine(a) /\ ~Planned(a) /\ a.type = "Task"
  BY <1>2 DEF Free, Routine, Planned
<1>4. Listed(a, w, on, snoozedUntil[i])
  <2>1. \/ w \in {"Morning", "AfterWork"} /\ a.context = w
        \/ w \in {"Evening", "Weekend"} /\ a.context \in {"Anytime", w}
    BY <1>1, <1>2, <1>3 DEF MatchesWindow, Windows, Compatible
  <2> QED
    BY <1>2, <1>3, <2>1 DEF Listed
<1>5. Category(a) = "Task"
  BY <1>3 DEF Category
<1>6. OldEnough(a, on)
  BY <1>3, <1>5 DEF OldEnough
<1>7. SpacedOut(a, lastSurfaced[i], on)
  <2>1. Urgency(a, on) \in {"Today", "Overdue"}
    BY <1>1, <1>2, ScoreType
  <2> QED
    BY <1>1, <1>2, <1>5, <2>1 DEF SpacedOut, DueNow
<1>8. Eligible(a, w, on, snoozedUntil[i], lastSurfaced[i])
  BY <1>2, <1>6, <1>7 DEF Eligible
<1> QED
  BY <1>4, <1>8 DEF Shortlist, a, w, on

\* It is in the review, or urgent Tasks fill that.
LEMMA OwedPlanned ==
    ASSUME D!TypeOK, WindowInv, NEW r \in Runs, pc[r] = "plan",
           NEW i \in active, Owed(r, i)
    PROVE  /\ Review(r) \in SUBSET Items
           /\ \/ i \in Review(r)
              \/ Cardinality({j \in Review(r) : UrgentTask(attr[j], request[r].on)})
                    >= EntryLimit[request[r].window]
<1> DEFINE w == request[r].window
           on == request[r].on
           S == Shortlist(r)
           P == PlannedEntries(r)
           group == RoutineGroup(attr, S, w)
           Urgent(Q) == {j \in Q : UrgentTask(attr[j], on)}
<1>1. /\ Items \in SUBSET Nat /\ IsFiniteSet(Items)
      /\ attr \in [Items -> Attributes] /\ lastSurfaced \in [Items -> Nat]
      /\ S \in SUBSET Items /\ w \in Windows /\ on \in Nat
  BY Facts
<1>2. i \in S /\ Free(attr[i]) /\ attr[i].due \in 1 .. on
  BY OwedListed DEF Owed, Free
<1>3. P = Entries(attr, lastSurfaced, S, w, on) /\ Review(r) = P \cup group
  BY DEF PlannedEntries, Review
<1> HIDE DEF w, on, S, P
<1>4. /\ P \subseteq S
      /\ i \in P \/ Cardinality({j \in P : UrgentTask(attr[j], on)}) >= EntryLimit[w]
  <2>1. KeepsDue(P, attr, S, w, on)
    BY <1>1, <1>3, EntriesKeep
  <2> QED
    BY <1>2, <2>1 DEF KeepsDue
<1>5. group \subseteq S
  BY <1>1, GroupKeeps
<1> HIDE DEF group
<1>6. Cardinality(Urgent(P)) <= Cardinality(Urgent(P \cup group))
      /\ Cardinality(Urgent(P)) \in Nat /\ Cardinality(Urgent(P \cup group)) \in Nat
  <2>1. Urgent(P) \subseteq Urgent(P \cup group) /\ Urgent(P \cup group) \subseteq Items
    BY <1>1, <1>4, <1>5
  <2> HIDE DEF Urgent
  <2>2. IsFiniteSet(Urgent(P \cup group)) /\ IsFiniteSet(Urgent(P))
    BY <1>1, <2>1, FS_Subset
  <2> QED
    BY <2>1, <2>2, FS_Subset, FS_CardinalityType
<1>7. EntryLimit[w] \in Nat
  BY <1>1, ScoringAssumption
<1>8. i \in P \cup group \/ Cardinality(Urgent(P \cup group)) >= EntryLimit[w]
  BY <1>4, <1>6, <1>7
<1> QED
  BY <1>1, <1>3, <1>4, <1>5, <1>8 DEF w, on

\* A step that plans for r, or ends r with a success before its message, has its review.
LEMMA PlanningStep ==
    ASSUME IInv, DeliveryInv, Next, NEW r \in Runs, pc[r] = "plan",
           pc'[r] = "send" \/ (pc'[r] = "idle" /\ status'[key[r]] = "succeeded")
    PROVE  (pc'[r] = "send" /\ items'[r] = Review(r)) \/ Review(r) = {}
<1> DEFINE Goal == (pc'[r] = "send" /\ items'[r] = Review(r)) \/ Review(r) = {}
<1> HIDE DEF Goal
<1>1. pc \in [Runs -> Places] /\ key[r] \in Keys /\ status \in [Keys -> Statuses]
      /\ status[key[r]] = "running"
  BY DEF IInv, StateTypes, Tied
<1>2. ASSUME NEW q \in Runs, Step(q) PROVE Goal
  <2>1. CASE q = r
    <3>1. CASE PlanOk(r)
      BY <3>1 DEF PlanOk, Goal, DeliveryInv, D!TypeOK
    <3>2. CASE PlanEmpty(r)
      BY <3>2 DEF PlanEmpty, Goal
    <3>3. CASE PlanRefused(r) \/ QueryFails(r)
      <4>1. status'[key[r]] = "failed" /\ pc' = [pc EXCEPT ![r] = "idle"]
        BY <3>3 DEF PlanRefused, QueryFails, Ends, D!PlanEmptyOrFailed, D!End
      <4> QED
        BY <1>1, <4>1
    <3> QED
      BY <1>2, <2>1, <3>1, <3>2, <3>3 DEF Step, SendOk, D!SendOk, SendFails, D!SendFails,
         Record, D!RecordPage, D!Recorded, D!Retry, D!BatchFails, GiveUp, D!GiveUp,
         SendActions, D!SendActions
  <2>2. CASE q # r
    <3>1. pc' = pc \/ \E place \in Places : pc' = [pc EXCEPT ![q] = place]
      BY <1>2 DEF Step, QueryFails, PlanOk, PlanEmpty, PlanRefused, D!PlanEmptyOrFailed,
         SendOk, D!SendOk, SendFails, D!SendFails, Record, D!RecordPage, D!Recorded, D!Retry,
         D!BatchFails, GiveUp, D!GiveUp, SendActions, D!SendActions, D!End, Places
    <3> QED
      BY <1>1, <2>2, <3>1
  <2> QED
    BY <2>1, <2>2
<1>3. ASSUME NEW q \in Runs, NEW k \in Keys, Ask(q, k) PROVE FALSE
  <2>1. pc[q] = "idle" /\ pc' = [pc EXCEPT ![q] = "plan"]
    BY <1>3 DEF Ask, D!Start
  <2> QED
    BY <1>1, <2>1
<1>4. ASSUME (\E k \in Keys : Settle(k)) \/ Prune \/ User \/ Midnight PROVE FALSE
  BY <1>4 DEF Settle, Prune, delivery, User, D!UserSnoozes, D!UserTrashes, Midnight, D!Midnight
<1>5. ASSUME Crash PROVE FALSE
  <2>1. status'[key[r]] = "none" /\ pc'[r] = "idle"
    BY <1>1, <1>5 DEF Crash, L!Restart, D!Crash
  <2> QED
    BY <2>1
<1> QED
  BY <1>2, <1>3, <1>4, <1>5 DEF Next, Goal

\* DueTaskReminded: a Task that is due, and may be shown again, is in every review of its
\* window that is sent, and no such review is empty, unless urgent Tasks fill the limit:
\* whatever the scores, the caps and the soft caps make of the other items.
THEOREM Reminded == Spec => DueTaskReminded
<1> DEFINE Reminds ==
      \A r \in Runs :
         pc[r] = "plan" /\ (pc'[r] = "send" \/ (pc'[r] = "idle" /\ status'[key[r]] = "succeeded"))
         => LET w == request[r].window on == request[r].on IN
            \A i \in active :
                /\ attr[i].type = "Task" /\ attr[i].domain # "Shopping"
                /\ attr[i].due \in 1 .. on
                /\ MatchesWindow(attr[i], w)
                /\ snoozedUntil[i] <= on /\ lastSurfaced[i] < on
                => \/ i \in items'[r]
                   \/ Cardinality({j \in items'[r] : UrgentTask(attr[j], on)}) >= EntryLimit[w]
<1>1. IInv /\ DeliveryInv /\ Next => Reminds
  <2> SUFFICES ASSUME IInv, DeliveryInv, Next, NEW r \in Runs, pc[r] = "plan",
                      pc'[r] = "send" \/ (pc'[r] = "idle" /\ status'[key[r]] = "succeeded"),
                      NEW i \in active, Owed(r, i)
               PROVE  \/ i \in items'[r]
                      \/ Cardinality({j \in items'[r] : UrgentTask(attr[j], request[r].on)})
                            >= EntryLimit[request[r].window]
    BY Zenon DEF Owed
  <2>1. /\ Review(r) \in SUBSET Items
        /\ \/ i \in Review(r)
           \/ Cardinality({j \in Review(r) : UrgentTask(attr[j], request[r].on)})
                 >= EntryLimit[request[r].window]
    BY OwedPlanned DEF DeliveryInv
  <2>2. Review(r) # {}
    <3> SUFFICES ASSUME Review(r) = {} PROVE FALSE
      OBVIOUS
    <3>1. {j \in Review(r) : UrgentTask(attr[j], request[r].on)} = {}
      OBVIOUS
    <3>2. 0 >= EntryLimit[request[r].window]
      BY <2>1, <3>1, FS_EmptySet
    <3>3. EntryLimit[request[r].window] \in Nat \ {0}
      BY ScoringAssumption DEF DeliveryInv, WindowInv
    <3> QED
      BY <3>2, <3>3
  <2>3. items'[r] = Review(r)
    BY <2>2, PlanningStep
  <2> QED
    BY <2>1, <2>3
<1>2. IInv /\ DeliveryInv /\ [Next]_vars => [Reminds]_vars
  BY <1>1
<1> QED
  BY <1>2, IInvAlways, DeliveryAlways, PTL DEF Spec, DueTaskReminded
=============================================================================
