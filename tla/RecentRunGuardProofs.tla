------------------------ MODULE RecentRunGuardProofs ------------------------
(***************************************************************************)
(* Proofs about RecentRunGuard, for every set of keys, callers and tasks,  *)
(* every retention and every maximum_completed_runs.                       *)
(*                                                                         *)
(* Stale settlements are harmless because a key points at its running task *)
(* until that task is over (DictInv), and _prune drops only keys of        *)
(* completed entries, whose tasks have succeeded (Recorded).  As these are *)
(* in the order of their completion, what it drops is old, or has enough   *)
(* later completions behind it, which the ledger permits (PruneForgets).   *)
(***************************************************************************)
EXTENDS RecentRunGuard, SequenceTheorems, FiniteSetTheorems, TLAPS

Over == {"succeeded", "failed"}

\* A running task is the one its key points at, and keys point at their own tasks.
DictInv ==
    /\ \A t \in Tasks : task[t] # "free" => taskKey[t] \in Keys
    /\ \A t \in Tasks : task[t] = "running" => entry[taskKey[t]] = t
    /\ \A k \in Keys : entry[k] # None => /\ taskKey[entry[k]] = k
                                          /\ task[entry[k]] # "free"

\* Only finished tasks are settled, only created ones awaited.
CallInv ==
    /\ \A t \in settling : task[t] \in Over
    /\ \A c \in Callers : pc[c] # "idle" => joined[c] \in Tasks /\ task[joined[c]] # "free"
    /\ \A c \in Callers : pc[c] = "settle" => task[joined[c]] \in Over

\* The completed entries q of the dict e, in the order of their completion.
Recorded(q, e) ==
    /\ \A i, j \in 1 .. Len(q) : i < j => q[i].at <= q[j].at
    /\ \A i, j \in 1 .. Len(q) : q[i].key = q[j].key => i = j
    /\ \A i \in 1 .. Len(q) : q[i].at <= now
    /\ \A k \in KeysOf(q) : e[k] # None /\ task[e[k]] = "succeeded"

IInv ==
    /\ TypeOK
    /\ DictInv
    /\ CallInv
    /\ Recorded(completed, entry)
    /\ Len(completed) <= MaxCompleted
    /\ NoStuckEntry

-----------------------------------------------------------------------------
\* _prune keeps a suffix that is not too long.
LEMMA PruneIsSuffix ==
    ASSUME TypeOK, NEW q \in Seq(Completion)
    PROVE  \E n \in 0 .. Len(q) : /\ Prune(q) = SubSeq(q, n + 1, Len(q))
                                  /\ Len(q) - n <= MaxCompleted
<1> DEFINE expired == Cardinality(Expired(q))
           excess  == IF Len(q) > MaxCompleted THEN Len(q) - MaxCompleted ELSE 0
           n       == IF expired > excess THEN expired ELSE excess
<1>1. expired \in 0 .. Len(q)
  <2>1. IsFiniteSet(1 .. Len(q)) /\ Cardinality(1 .. Len(q)) = Len(q)
    <3>1. 1 \in Int /\ Len(q) \in Int /\ Len(q) \in Nat
      OBVIOUS
    <3>2. /\ IsFiniteSet(1 .. Len(q))
          /\ Cardinality(1 .. Len(q)) = IF 1 > Len(q) THEN 0 ELSE Len(q) - 1 + 1
      BY <3>1, FS_Interval, Zenon
    <3> QED
      BY <3>1, <3>2
  <2>2. Expired(q) \in SUBSET (1 .. Len(q))
    BY DEF Expired
  <2> QED
    BY <2>1, <2>2, FS_Subset, FS_CardinalityType
<1>2. excess \in 0 .. Len(q) /\ Len(q) - excess <= MaxCompleted
  BY GuardAssumption
<1>3. n \in 0 .. Len(q) /\ Len(q) - n <= MaxCompleted
  BY <1>1, <1>2, GuardAssumption
<1>4. Prune(q) = SubSeq(q, n + 1, Len(q))
  BY DEF Prune
<1> QED
  BY <1>3, <1>4

\* The elements of what _prune keeps.
LEMMA PruneElements ==
    ASSUME TypeOK, NEW q \in Seq(Completion)
    PROVE  /\ Prune(q) \in Seq(Completion)
           /\ Len(Prune(q)) <= MaxCompleted
           /\ \E n \in 0 .. Len(q) :
                 /\ Len(Prune(q)) = Len(q) - n
                 /\ \A i \in 1 .. Len(Prune(q)) : Prune(q)[i] = q[n + i]
<1>1. PICK n \in 0 .. Len(q) : /\ Prune(q) = SubSeq(q, n + 1, Len(q))
                               /\ Len(q) - n <= MaxCompleted
  BY PruneIsSuffix
<1>2. \A i \in n + 1 .. Len(q) : q[i] \in Completion
  OBVIOUS
<1>3. /\ SubSeq(q, n + 1, Len(q)) \in Seq(Completion)
      /\ Len(SubSeq(q, n + 1, Len(q))) = IF n + 1 <= Len(q) THEN Len(q) - (n + 1) + 1 ELSE 0
      /\ \A i \in 1 .. Len(q) - (n + 1) + 1 : SubSeq(q, n + 1, Len(q))[i] = q[n + 1 + i - 1]
  BY <1>2, SubSeqProperties
<1>4. Len(Prune(q)) = Len(q) - n
  BY <1>1, <1>3
<1> QED
  BY <1>1, <1>3, <1>4

\* Pruning drops keys of succeeded tasks only, and keeps the dict consistent.
LEMMA ForgetKeeps ==
    ASSUME TypeOK, NEW q \in Seq(Completion),
           NEW e \in [Keys -> Tasks \cup {None}], Recorded(q, e)
    PROVE  /\ Forget(e, q) \in [Keys -> Tasks \cup {None}]
           /\ Recorded(Prune(q), Forget(e, q))
           /\ \A k \in Keys :
                 \/ Forget(e, q)[k] = e[k] /\ (k \in KeysOf(q) => k \in KeysOf(Prune(q)))
                 \/ Forget(e, q)[k] = None /\ task[e[k]] = "succeeded"
<1> DEFINE p == Prune(q)
           f == Forget(e, q)
<1>1. PICK n \in 0 .. Len(q) : /\ Len(p) = Len(q) - n
                               /\ \A i \in 1 .. Len(p) : p[i] = q[n + i]
  BY PruneElements
<1>2. p \in Seq(Completion)
  BY PruneElements
<1>3. \A i \in 1 .. Len(p) : n + i \in 1 .. Len(q)
  BY <1>1, <1>2
<1>4. KeysOf(p) \subseteq KeysOf(q)
  BY <1>1, <1>3 DEF KeysOf
<1>5. f \in [Keys -> Tasks \cup {None}]
  BY DEF Forget
<1>6. \A k \in Keys : \/ f[k] = e[k] /\ (k \in KeysOf(q) => k \in KeysOf(p))
                      \/ f[k] = None /\ task[e[k]] = "succeeded"
  BY DEF Forget, Recorded
<1>7. \A i, j \in 1 .. Len(p) : i < j => p[i].at <= p[j].at
  BY <1>1, <1>2, <1>3 DEF Recorded
<1>8. \A i, j \in 1 .. Len(p) : p[i].key = p[j].key => i = j
  <2> TAKE i, j \in 1 .. Len(p)
  <2> HAVE p[i].key = p[j].key
  <2>1. n + i = n + j
    BY <1>1, <1>3 DEF Recorded
  <2> QED
    BY <2>1
<1>9. \A i \in 1 .. Len(p) : p[i].at <= now
  BY <1>1, <1>3 DEF Recorded
<1>10. KeysOf(p) \subseteq Keys
  <2>1. \A i \in 1 .. Len(p) : p[i] \in Completion
    BY <1>2
  <2> QED
    BY <2>1 DEF KeysOf, Completion
<1>11. \A k \in KeysOf(p) : f[k] = e[k]
  BY <1>10 DEF Forget
<1>12. \A k \in KeysOf(p) : f[k] # None /\ task[f[k]] = "succeeded"
  BY <1>4, <1>11 DEF Recorded
<1> QED
  BY <1>5, <1>6, <1>7, <1>8, <1>9, <1>12 DEF Recorded

-----------------------------------------------------------------------------
\* A settlement, on time or late, keeps the dict consistent and leaves no entry of
\* the settled task to be settled.
LEMMA SettleKeeps ==
    ASSUME IInv, NEW t \in Tasks, task[t] \in Over, Settle(t),
           UNCHANGED <<task, taskKey, now>>
    PROVE  /\ entry' \in [Keys -> Tasks \cup {None}] /\ completed' \in Seq(Completion)
           /\ DictInv'
           /\ Recorded(completed, entry)'
           /\ Len(completed') <= MaxCompleted
           /\ \A k \in Keys, u \in Tasks :
                 /\ entry'[k] = u
                 /\ task[u] = "failed" \/ (task[u] = "succeeded" /\ k \notin KeysOf(completed'))
                 => u # t /\ u \in settling
<1> DEFINE k0 == taskKey[t]
<1>b. \A k \in Keys : entry[k] = t => k = taskKey[t]
  <2>1. t # None
    BY GuardAssumption
  <2> QED
    BY <2>1 DEF IInv, DictInv
<1>0. k0 \in Keys
  BY DEF IInv, DictInv, Over
<1>a. Recorded(completed, entry)' <=> Recorded(completed', entry')
  BY DEF Recorded, KeysOf
<1>1. CASE UNCHANGED guard /\ (entry[k0] # t \/ (task[t] = "succeeded" /\ k0 \in KeysOf(completed)))
  <2>1. \A k \in Keys : entry[k] = t => k = k0
    BY <1>b
  <2>2. UNCHANGED <<entry, completed>>
    BY <1>1 DEF guard
  <2>3. /\ DictInv'
        /\ Recorded(completed, entry)'
    BY <2>2 DEF IInv, DictInv, Recorded, KeysOf
  <2>4. KeysOf(completed') = KeysOf(completed)
    BY <2>2 DEF KeysOf
  <2> QED
    BY <1>1, <2>1, <2>2, <2>3, <2>4, <1>0 DEF IInv, NoStuckEntry, TypeOK
<1>2. CASE /\ entry[k0] = t /\ task[t] = "failed"
           /\ entry' = [entry EXCEPT ![k0] = None] /\ UNCHANGED completed
  <2>1. KeysOf(completed') = KeysOf(completed)
    BY <1>2 DEF KeysOf
  <2>2. k0 \notin KeysOf(completed)
    BY <1>2 DEF IInv, Recorded
  <2>3. entry' \in [Keys -> Tasks \cup {None}]
    BY <1>2 DEF IInv, TypeOK
  <2>4. \A k \in Keys : entry[k] = t => k = k0
    BY <1>b
  <2>5. DictInv'
    BY <1>2, <1>0 DEF IInv, DictInv, TypeOK
  <2>6. \A k \in KeysOf(completed) : k \in Keys
    <3>1. \A i \in 1 .. Len(completed) : completed[i] \in Completion
      BY DEF IInv, TypeOK
    <3> QED
      BY <3>1 DEF KeysOf, Completion
  <2>7. \A k \in KeysOf(completed) : entry'[k] = entry[k]
    BY <1>2, <2>2, <2>6 DEF IInv, TypeOK
  <2>8. Recorded(completed', entry')
    BY <1>2, <2>1, <2>7 DEF IInv, Recorded
  <2>9. \A k \in Keys : entry'[k] # None => k # k0 /\ entry'[k] = entry[k]
    BY <1>2, <1>0 DEF IInv, TypeOK
  <2>10. \A u \in Tasks : u # None
    BY GuardAssumption
  <2> QED
    BY <1>a, <1>2, <2>1, <2>3, <2>4, <2>5, <2>8, <2>9, <2>10
       DEF IInv, NoStuckEntry, TypeOK
<1>3. CASE /\ entry[k0] = t /\ task[t] = "succeeded" /\ k0 \notin KeysOf(completed)
           /\ LET q == Append(completed, [key |-> k0, at |-> now])
              IN  completed' = Prune(q) /\ entry' = Forget(entry, q)
  <2> DEFINE q == Append(completed, [key |-> k0, at |-> now])
  <2>1. [key |-> k0, at |-> now] \in Completion
    BY <1>0 DEF IInv, TypeOK, Completion
  <2>2. /\ q \in Seq(Completion)
        /\ Len(q) = Len(completed) + 1
        /\ \A i \in 1 .. Len(completed) : q[i] = completed[i]
        /\ q[Len(completed) + 1] = [key |-> k0, at |-> now]
    BY <2>1, AppendProperties DEF IInv, TypeOK
  <2> HIDE DEF q
  <2>3. Len(completed) \in Nat
    BY DEF IInv, TypeOK
  <2>4. \A i \in 1 .. Len(q) : i \in 1 .. Len(completed) \/ i = Len(completed) + 1
    BY <2>2, <2>3
  <2>5. KeysOf(q) = KeysOf(completed) \cup {k0}
    BY <2>2, <2>3, <2>4 DEF KeysOf
  <2>6. \A i \in 1 .. Len(completed) : completed[i].key # k0
    BY <1>3 DEF KeysOf
  <2>7. Recorded(q, entry)
    <3>1. \A i, j \in 1 .. Len(q) : i < j => q[i].at <= q[j].at
      BY <2>2, <2>3, <2>4 DEF IInv, Recorded, TypeOK
    <3>2. \A i, j \in 1 .. Len(q) : q[i].key = q[j].key => i = j
      BY <2>2, <2>3, <2>4, <2>6 DEF IInv, Recorded
    <3>3. \A i \in 1 .. Len(q) : q[i].at <= now
      BY <2>2, <2>3, <2>4 DEF IInv, Recorded, TypeOK
    <3>4. \A k \in KeysOf(q) : entry[k] # None /\ task[entry[k]] = "succeeded"
      BY <1>3, <2>5, GuardAssumption DEF IInv, Recorded
    <3> QED
      BY <3>1, <3>2, <3>3, <3>4 DEF Recorded
  <2>8. completed' = Prune(q) /\ entry' = Forget(entry, q)
    BY <1>3 DEF q
  <2>9. entry \in [Keys -> Tasks \cup {None}] /\ TypeOK
    BY DEF IInv, TypeOK
  <2>10. /\ entry' \in [Keys -> Tasks \cup {None}]
         /\ Recorded(completed', entry')
         /\ \A k \in Keys :
               \/ entry'[k] = entry[k] /\ (k \in KeysOf(q) => k \in KeysOf(completed'))
               \/ entry'[k] = None /\ task[entry[k]] = "succeeded"
    BY <2>2, <2>7, <2>8, <2>9, ForgetKeeps
  <2>11. completed' \in Seq(Completion) /\ Len(completed') <= MaxCompleted
    BY <2>2, <2>8, <2>9, PruneElements
  <2>12. DictInv'
    BY <2>10, <1>0 DEF IInv, DictInv, TypeOK
  <2>13. \A k \in Keys : entry[k] = t => k = k0
    BY <1>b
  <2>14. \A k \in Keys, u \in Tasks : entry'[k] = u =>
            /\ entry[k] = u
            /\ k \notin KeysOf(completed') => k \notin KeysOf(q)
    BY <2>10, GuardAssumption
  <2> QED
    BY <1>a, <1>3, <2>5, <2>10, <2>11, <2>12, <2>13, <2>14 DEF IInv, NoStuckEntry
<1> QED
  BY <1>1, <1>2, <1>3 DEF Settle, Over

-----------------------------------------------------------------------------
\* Initially no run is known.
LEMMA InitIInv == Init => IInv
<1> SUFFICES ASSUME Init PROVE IInv
  OBVIOUS
<1>1. KeysOf(completed) = {} /\ Len(completed) = 0 /\ completed \in Seq(Completion)
  BY DEF Init, KeysOf
<1>2. TypeOK
  BY <1>1, GuardAssumption DEF Init, TypeOK
<1> QED
  BY <1>1, <1>2, GuardAssumption
     DEF Init, IInv, DictInv, CallInv, Recorded, NoStuckEntry

\* A call joins the key's task, or creates one where there is none.
LEMMA CallKeeps ==
    ASSUME IInv, NEW c \in Callers, NEW k \in Keys, Call(c, k)
    PROVE  IInv'
<1> DEFINE kept == Forget(entry, completed)
<1>1. completed \in Seq(Completion) /\ entry \in [Keys -> Tasks \cup {None}] /\ TypeOK
  BY DEF IInv, TypeOK
<1>2. /\ kept \in [Keys -> Tasks \cup {None}]
      /\ Recorded(Prune(completed), kept)
      /\ \A j \in Keys :
            \/ kept[j] = entry[j] /\ (j \in KeysOf(completed) => j \in KeysOf(Prune(completed)))
            \/ kept[j] = None /\ task[entry[j]] = "succeeded"
  BY <1>1, ForgetKeeps DEF IInv
<1>3. Prune(completed) \in Seq(Completion) /\ Len(Prune(completed)) <= MaxCompleted
  BY <1>1, PruneElements
<1>4. completed' = Prune(completed) /\ UNCHANGED <<now, restarts>>
  BY DEF Call
<1>5. KeysOf(completed') \subseteq Keys
  <2>1. \A i \in 1 .. Len(completed') : completed'[i] \in Completion
    BY <1>3, <1>4
  <2> QED
    BY <2>1 DEF KeysOf, Completion
<1> HIDE DEF kept
<1>6. CASE /\ kept[k] # None /\ entry' = kept
           /\ joined' = [joined EXCEPT ![c] = kept[k]] /\ UNCHANGED tasks
  <2>1. UNCHANGED <<task, taskKey, settling>>
    BY <1>6 DEF tasks
  <2>2. TypeOK'
    BY <1>2, <1>3, <1>4, <1>6, <2>1 DEF IInv, TypeOK, Call
  <2>3. DictInv'
    BY <1>2, <1>6, <2>1 DEF IInv, DictInv, TypeOK
  <2>4. kept[k] \in Tasks /\ task[kept[k]] # "free"
    BY <1>2, <1>6 DEF IInv, DictInv
  <2>5. CallInv'
    BY <1>6, <2>1, <2>4 DEF IInv, CallInv, TypeOK, Call
  <2>6. Recorded(completed, entry)'
    BY <1>2, <1>4, <1>6, <2>1 DEF Recorded
  <2>7. NoStuckEntry'
    BY <1>2, <1>4, <1>6, <2>1, GuardAssumption DEF IInv, NoStuckEntry
  <2> QED
    BY <1>3, <1>4, <2>2, <2>3, <2>5, <2>6, <2>7 DEF IInv
<1>7. ASSUME NEW t \in Tasks, task[t] = "free", kept[k] = None,
             task' = [task EXCEPT ![t] = "running"], taskKey' = [taskKey EXCEPT ![t] = k],
             entry' = [kept EXCEPT ![k] = t], joined' = [joined EXCEPT ![c] = t],
             UNCHANGED settling
      PROVE  IInv'
  <2>1. TypeOK'
    BY <1>2, <1>3, <1>4, <1>7 DEF IInv, TypeOK, Call
  <2>2. \A j \in Keys : entry[j] # t /\ kept[j] # t
    BY <1>2, <1>7, GuardAssumption DEF IInv, DictInv
  <2>3. \A u \in Tasks : u # t => task'[u] = task[u] /\ taskKey'[u] = taskKey[u]
    BY <1>7 DEF IInv, TypeOK
  <2>4. task'[t] = "running" /\ taskKey'[t] = k /\ entry'[k] = t
    BY <1>2, <1>7 DEF IInv, TypeOK
  <2>5. \A j \in Keys : j # k => entry'[j] = kept[j]
    BY <1>2, <1>7
  <2>6. DictInv'
    <3>1. \A u \in Tasks : task'[u] # "free" => taskKey'[u] \in Keys
      BY <2>3, <2>4 DEF IInv, DictInv
    <3>2. ASSUME NEW u \in Tasks, task'[u] = "running", u # t
          PROVE  entry'[taskKey'[u]] = u
      <4>1. taskKey'[u] = taskKey[u] /\ taskKey[u] \in Keys /\ entry[taskKey[u]] = u
            /\ task[u] = "running"
        BY <2>3, <3>2 DEF IInv, DictInv
      <4>2. kept[taskKey[u]] = u
        BY <1>2, <4>1
      <4>3. taskKey[u] # k
        BY <1>7, <4>2, GuardAssumption
      <4> QED
        BY <2>5, <4>1, <4>2, <4>3
    <3>3. ASSUME NEW j \in Keys, entry'[j] # None
          PROVE  taskKey'[entry'[j]] = j /\ task'[entry'[j]] # "free"
      <4>1. CASE j = k
        BY <2>4, <4>1
      <4>2. CASE j # k
        <5>1. entry'[j] = entry[j] /\ entry[j] \in Tasks /\ entry[j] # t
          BY <1>2, <2>2, <2>5, <3>3, <4>2
        <5> QED
          BY <2>3, <3>3, <5>1 DEF IInv, DictInv
      <4> QED
        BY <4>1, <4>2
    <3> QED
      BY <2>4, <3>1, <3>2, <3>3 DEF DictInv
  <2>7. CallInv'
    <3>1. \A u \in Tasks : task[u] # "free" => u # t /\ task'[u] = task[u]
      BY <1>7, <2>3
    <3>2. \A u \in settling' : task'[u] \in Over
      BY <1>7, <3>1 DEF IInv, CallInv, TypeOK, Over
    <3>3. /\ pc' = [pc EXCEPT ![c] = "waiting"]
          /\ \A d \in Callers : d # c => pc'[d] = pc[d] /\ joined'[d] = joined[d]
          /\ pc'[c] = "waiting" /\ joined'[c] = t
      BY <1>7 DEF Call, IInv, TypeOK
    <3>4. \A d \in Callers : pc'[d] # "idle" => joined'[d] \in Tasks /\ task'[joined'[d]] # "free"
      BY <2>4, <3>1, <3>3 DEF IInv, CallInv
    <3>5. \A d \in Callers : pc'[d] = "settle" => task'[joined'[d]] \in Over
      BY <3>1, <3>3 DEF IInv, CallInv, Over
    <3> QED
      BY <3>2, <3>4, <3>5 DEF CallInv
  <2>8. \A j \in KeysOf(completed') : j # k /\ entry'[j] = kept[j]
    BY <1>2, <1>4, <1>5, <1>7, <2>5 DEF Recorded
  <2>9. Recorded(completed, entry)'
    <3>1. \A j \in KeysOf(completed') : entry'[j] # None /\ task'[entry'[j]] = "succeeded"
      <4> TAKE j \in KeysOf(completed')
      <4>1. entry'[j] = kept[j] /\ kept[j] # None /\ task[kept[j]] = "succeeded"
        BY <1>2, <1>4, <2>8 DEF Recorded
      <4>2. kept[j] \in Tasks /\ kept[j] # t
        BY <1>2, <1>5, <2>2, <4>1
      <4> QED
        BY <2>3, <4>1, <4>2
    <3> QED
      BY <1>2, <1>4, <3>1 DEF Recorded
  <2>10. NoStuckEntry'
    <3> SUFFICES ASSUME NEW j \in Keys, NEW u \in Tasks, entry'[j] = u,
                        \/ task'[u] = "failed"
                        \/ task'[u] = "succeeded" /\ j \notin KeysOf(completed')
                 PROVE  u \in settling'
      BY DEF NoStuckEntry
    <3>1. u # t /\ j # k
      BY <2>4
    <3>2. task'[u] = task[u] /\ kept[j] = u
      BY <2>3, <2>5, <3>1
    <3>3. entry[j] = u /\ (j \in KeysOf(completed) => j \in KeysOf(completed'))
      BY <1>2, <1>4, <3>2, GuardAssumption
    <3> QED
      BY <1>7, <3>2, <3>3 DEF IInv, NoStuckEntry
  <2> QED
    BY <1>3, <1>4, <2>1, <2>6, <2>7, <2>9, <2>10 DEF IInv
<1> QED
  BY <1>6, <1>7 DEF Call, kept

\* Every step keeps the invariant.
LEMMA StepIInv == IInv /\ [Next]_vars => IInv'
<1> SUFFICES ASSUME IInv, [Next]_vars PROVE IInv'
  OBVIOUS
<1>1. ASSUME NEW c \in Callers, NEW k \in Keys, Call(c, k) PROVE IInv'
  BY <1>1, CallKeeps
<1>2. ASSUME NEW c \in Callers, Wake(c) PROVE IInv'
  BY <1>2 DEF Wake, guard, tasks, IInv, TypeOK, DictInv, CallInv, Recorded, KeysOf,
              NoStuckEntry, Over
<1>3. ASSUME NEW c \in Callers, CallerSettles(c) PROVE IInv'
  <2>1. joined[c] \in Tasks /\ task[joined[c]] \in Over
    BY <1>3 DEF CallerSettles, IInv, CallInv
  <2>2. UNCHANGED <<task, taskKey, settling, now, restarts>>
    BY <1>3 DEF CallerSettles, tasks
  <2>3. /\ entry' \in [Keys -> Tasks \cup {None}] /\ completed' \in Seq(Completion)
        /\ DictInv' /\ Recorded(completed, entry)' /\ Len(completed') <= MaxCompleted
        /\ \A k \in Keys, u \in Tasks :
              /\ entry'[k] = u
              /\ task[u] = "failed" \/ (task[u] = "succeeded" /\ k \notin KeysOf(completed'))
              => u # joined[c] /\ u \in settling
    BY <1>3, <2>1, <2>2, SettleKeeps DEF CallerSettles
  <2>4. TypeOK'
    BY <1>3, <2>2, <2>3 DEF CallerSettles, IInv, TypeOK
  <2>5. CallInv'
    BY <1>3, <2>2 DEF CallerSettles, IInv, TypeOK, CallInv
  <2>6. NoStuckEntry'
    BY <2>2, <2>3 DEF NoStuckEntry
  <2> QED
    BY <2>3, <2>4, <2>5, <2>6 DEF IInv
<1>4. ASSUME NEW c \in Callers, CallerCancelled(c) PROVE IInv'
  BY <1>4 DEF CallerCancelled, guard, tasks, IInv, TypeOK, DictInv, CallInv, Recorded,
              KeysOf, NoStuckEntry, Over
<1>5. ASSUME NEW t \in Tasks, NEW outcome \in Over, TaskFinishes(t, outcome) PROVE IInv'
  <2>1. UNCHANGED <<entry, completed, taskKey, pc, joined, now, restarts>>
    BY <1>5 DEF TaskFinishes, guard, calls
  <2>2. KeysOf(completed') = KeysOf(completed)
    BY <2>1 DEF KeysOf
  <2>3. \A u \in Tasks : u # t => task'[u] = task[u]
    BY <1>5 DEF TaskFinishes, IInv, TypeOK
  <2>4. task[t] = "running" /\ task'[t] \in Over /\ t \in settling'
    BY <1>5 DEF TaskFinishes, IInv, TypeOK
  <2>5. TypeOK'
    BY <1>5, <2>1 DEF TaskFinishes, IInv, TypeOK, Over
  <2>6. DictInv'
    BY <2>1, <2>3, <2>4 DEF IInv, DictInv, TypeOK, Over
  <2>7. CallInv'
    BY <1>5, <2>1, <2>3, <2>4 DEF TaskFinishes, IInv, CallInv, TypeOK, Over
  <2>8. \A k \in KeysOf(completed) : entry[k] # t
    BY <2>4 DEF IInv, Recorded
  <2>9. KeysOf(completed) \subseteq Keys
    <3>1. \A i \in 1 .. Len(completed) : completed[i] \in Completion
      BY DEF IInv, TypeOK
    <3> QED
      BY <3>1 DEF KeysOf, Completion
  <2>10. \A k \in KeysOf(completed) : entry[k] \in Tasks
    BY <2>9 DEF IInv, Recorded, TypeOK
  <2>11. Recorded(completed, entry)'
    BY <2>1, <2>2, <2>3, <2>8, <2>10 DEF IInv, Recorded
  <2>12. NoStuckEntry'
    BY <1>5, <2>1, <2>2, <2>3 DEF TaskFinishes, IInv, NoStuckEntry
  <2> QED
    BY <2>1, <2>5, <2>6, <2>7, <2>11, <2>12 DEF IInv
<1>6. ASSUME NEW t \in Tasks, CallbackSettles(t) PROVE IInv'
  <2>1. task[t] \in Over /\ settling' = settling \ {t}
    BY <1>6 DEF CallbackSettles, IInv, CallInv
  <2>2. UNCHANGED <<task, taskKey, pc, joined, now, restarts>>
    BY <1>6 DEF CallbackSettles, calls
  <2>3. /\ entry' \in [Keys -> Tasks \cup {None}] /\ completed' \in Seq(Completion)
        /\ DictInv' /\ Recorded(completed, entry)' /\ Len(completed') <= MaxCompleted
        /\ \A k \in Keys, u \in Tasks :
              /\ entry'[k] = u
              /\ task[u] = "failed" \/ (task[u] = "succeeded" /\ k \notin KeysOf(completed'))
              => u # t /\ u \in settling
    BY <1>6, <2>1, <2>2, SettleKeeps DEF CallbackSettles
  <2>4. TypeOK'
    BY <2>1, <2>2, <2>3 DEF IInv, TypeOK
  <2>5. CallInv'
    BY <2>1, <2>2 DEF IInv, TypeOK, CallInv
  <2>6. NoStuckEntry'
    BY <2>1, <2>2, <2>3 DEF NoStuckEntry
  <2> QED
    BY <2>3, <2>4, <2>5, <2>6 DEF IInv
<1>7. CASE Tick
  <2>1. UNCHANGED <<entry, completed, task, taskKey, settling, pc, joined, restarts>>
        /\ now' = now + 1 /\ now' \in 0 .. MaxTime
    BY <1>7, GuardAssumption DEF Tick, guard, tasks, calls, IInv, TypeOK
  <2>2. \A i \in 1 .. Len(completed) : completed[i].at \in Nat
    <3>1. \A i \in 1 .. Len(completed) : completed[i] \in Completion
      BY DEF IInv, TypeOK
    <3> QED
      BY <3>1 DEF Completion
  <2>3. Recorded(completed, entry)'
    BY <2>1, <2>2 DEF IInv, Recorded, KeysOf, TypeOK
  <2> QED
    BY <2>1, <2>3 DEF IInv, TypeOK, DictInv, CallInv, KeysOf, NoStuckEntry
<1>8. CASE Restart
  <2>1. KeysOf(completed') = {} /\ Len(completed') = 0 /\ completed' \in Seq(Completion)
    BY <1>8 DEF Restart, KeysOf
  <2>2. TypeOK'
    BY <1>8, <2>1, GuardAssumption DEF Restart, IInv, TypeOK
  <2>3. DictInv' /\ CallInv' /\ NoStuckEntry'
    BY <1>8, GuardAssumption DEF Restart, IInv, TypeOK, DictInv, CallInv, NoStuckEntry
  <2>4. Recorded(completed, entry)'
    BY <2>1 DEF Recorded
  <2> QED
    BY <2>1, <2>2, <2>3, <2>4, GuardAssumption DEF IInv
<1>9. CASE UNCHANGED vars
  BY <1>9 DEF vars, guard, tasks, calls, IInv, TypeOK, DictInv, CallInv, Recorded,
              KeysOf, NoStuckEntry
<1> QED
  BY <1>1, <1>2, <1>3, <1>4, <1>5, <1>6, <1>7, <1>8, <1>9 DEF Next, Over

LEMMA Invariance == Spec => []IInv
<1>1. Init => IInv
  BY InitIInv
<1>2. IInv /\ [Next]_vars => IInv'
  BY StepIInv
<1> QED
  BY <1>1, <1>2, PTL DEF Spec

-----------------------------------------------------------------------------
\* Every state of the guard is well typed.
THEOREM Typing == Spec => []TypeOK
<1>1. IInv => TypeOK
  BY DEF IInv
<1> QED
  BY <1>1, Invariance, PTL

\* Runs of one key never overlap: concurrent calls of execute_once share a task,
\* and no settlement, however late, takes the key from a running one.
THEOREM NoOverlap == Spec => []AtMostOneRunning
<1>1. IInv => AtMostOneRunning
  BY DEF IInv, DictInv, AtMostOneRunning
<1> QED
  BY <1>1, Invariance, PTL

\* The completed entries stay consistent with the dict, ordered and bounded.
THEOREM BoundedMemory == Spec => []CompletedBounded
<1>1. IInv => CompletedBounded
  BY DEF IInv, Recorded, CompletedBounded
<1> QED
  BY <1>1, Invariance, PTL

\* A run that is over never keeps its key, unless as a remembered success, without
\* a settlement on its way.
THEOREM NeverStuck == Spec => []NoStuckEntry
<1>1. IInv => NoStuckEntry
  BY DEF IInv
<1> QED
  BY <1>1, Invariance, PTL

-----------------------------------------------------------------------------
\* The refinement mapping, of any dict e, completed entries q and task states.
StatusOf(e, q, states) ==
    [k \in Keys |-> IF e[k] = None THEN "none"
                    ELSE IF k \in KeysOf(q) THEN "remembered"
                    ELSE states[e[k]]]

AtOf(q) ==
    [k \in Keys |-> IF k \in KeysOf(q) THEN q[CHOOSE i \in 1 .. Len(q) : q[i].key = k].at ELSE 0]

LEMMA Mapping ==
    /\ status = StatusOf(entry, completed, task) /\ at = AtOf(completed)
    /\ status' = StatusOf(entry', completed', task') /\ at' = AtOf(completed')
BY DEF status, at, StatusOf, AtOf, KeysOf

\* A key has one completed entry, whose time is that of the key.
LEMMA TimeOf ==
    ASSUME NEW q \in Seq(Completion),
           \A i, j \in 1 .. Len(q) : q[i].key = q[j].key => i = j,
           NEW i \in 1 .. Len(q)
    PROVE  AtOf(q)[q[i].key] = q[i].at /\ q[i].key \in Keys /\ q[i].at \in 0 .. MaxTime
<1>1. q[i] \in Completion
  OBVIOUS
<1>2. q[i].key \in KeysOf(q)
  BY DEF KeysOf
<1>3. (CHOOSE j \in 1 .. Len(q) : q[j].key = q[i].key) = i
  OBVIOUS
<1> QED
  BY <1>1, <1>2, <1>3 DEF AtOf, Completion

\* What _prune drops is old, or enough later completions are there.
LEMMA PruneForgets ==
    ASSUME TypeOK, NEW q \in Seq(Completion), NEW e, Recorded(q, e),
           NEW k \in KeysOf(q) \ KeysOf(Prune(q))
    PROVE  \/ now - AtOf(q)[k] >= Retention
           \/ /\ Len(q) > MaxCompleted
              /\ \E other \in [1 .. MaxCompleted -> KeysOf(q) \ {k}] :
                    /\ \A a, b \in 1 .. MaxCompleted : other[a] = other[b] => a = b
                    /\ \A a \in 1 .. MaxCompleted : AtOf(q)[other[a]] >= AtOf(q)[k]
<1> DEFINE expired == Cardinality(Expired(q))
           excess  == IF Len(q) > MaxCompleted THEN Len(q) - MaxCompleted ELSE 0
           n       == IF expired > excess THEN expired ELSE excess
<1>1. PICK i \in 1 .. Len(q) : q[i].key = k
  BY DEF KeysOf
<1>2. /\ \A j \in 1 .. Len(q) : q[j].at \in Nat /\ q[j].at <= now
      /\ now \in Nat /\ Len(q) \in Nat
  <2>1. \A j \in 1 .. Len(q) : q[j] \in Completion
    OBVIOUS
  <2> QED
    BY <2>1, GuardAssumption DEF Recorded, TypeOK, Completion
<1>3. IsFiniteSet(Expired(q)) /\ expired \in Nat /\ expired <= Len(q)
  <2>1. IsFiniteSet(1 .. Len(q)) /\ Cardinality(1 .. Len(q)) = Len(q)
    BY <1>2, FS_Interval
  <2>2. Expired(q) \in SUBSET (1 .. Len(q))
    BY DEF Expired
  <2> QED
    BY <2>1, <2>2, FS_Subset, FS_CardinalityType
<1>4. i <= n
  <2>1. Prune(q) = SubSeq(q, n + 1, Len(q))
    BY DEF Prune
  <2>2. n \in Nat /\ n <= Len(q)
    BY <1>2, <1>3, GuardAssumption
  <2>3. \A j \in n + 1 .. Len(q) : q[j] \in Completion
    BY <2>2
  <2> HIDE DEF n
  <2>4. /\ Len(Prune(q)) = Len(q) - n
        /\ \A j \in 1 .. Len(q) - n : Prune(q)[j] = q[n + j]
    <3>1. /\ Len(SubSeq(q, n + 1, Len(q)))
                = IF n + 1 <= Len(q) THEN Len(q) - (n + 1) + 1 ELSE 0
          /\ \A j \in 1 .. Len(q) - (n + 1) + 1 :
                SubSeq(q, n + 1, Len(q))[j] = q[n + 1 + j - 1]
      BY <1>2, <2>2, <2>3, SubSeqProperties
    <3> QED
      BY <1>2, <2>1, <2>2, <3>1
  <2>5. ASSUME i > n PROVE FALSE
    <3>1. i - n \in 1 .. Len(q) - n /\ n + (i - n) = i
      BY <1>2, <2>2, <2>5
    <3>2. Prune(q)[i - n] = q[i]
      BY <2>4, <3>1
    <3>3. k \in KeysOf(Prune(q))
      BY <1>1, <2>4, <3>1, <3>2 DEF KeysOf
    <3> QED
      BY <3>3
  <2> QED
    BY <1>2, <2>2, <2>5
<1>5. AtOf(q)[k] = q[i].at
  BY <1>1, TimeOf DEF Recorded
<1>6. CASE i <= expired
  <2>1. ASSUME i \notin Expired(q) PROVE FALSE
    <3>1. now - q[i].at < Retention
      BY <1>2, <2>1, GuardAssumption DEF Expired
    <3>2. \A j \in Expired(q) : j < i
      BY <1>2, <3>1, GuardAssumption DEF Expired, Recorded
    <3>3. Expired(q) \in SUBSET (1 .. i - 1)
      BY <1>2, <3>2 DEF Expired
    <3>4. IsFiniteSet(1 .. i - 1) /\ Cardinality(1 .. i - 1) = i - 1
      <4>1. 1 \in Int /\ i - 1 \in Int /\ i - 1 \in Nat
        BY <1>2
      <4>2. /\ IsFiniteSet(1 .. i - 1)
            /\ Cardinality(1 .. i - 1) = IF 1 > i - 1 THEN 0 ELSE (i - 1) - 1 + 1
        BY <4>1, FS_Interval, Zenon
      <4> QED
        BY <4>1, <4>2
    <3>5. expired <= i - 1
      BY <3>3, <3>4, FS_Subset
    <3> QED
      BY <1>2, <1>3, <1>6, <3>5
  <2> QED
    BY <1>2, <1>5, <2>1, GuardAssumption DEF Expired
<1>7. CASE i <= excess
  <2> DEFINE other == [a \in 1 .. MaxCompleted |-> q[i + a].key]
  <2>1. Len(q) > MaxCompleted /\ i + MaxCompleted <= Len(q)
    BY <1>2, <1>7, GuardAssumption
  <2>2. ASSUME NEW a \in 1 .. MaxCompleted
        PROVE  other[a] \in KeysOf(q) \ {k} /\ AtOf(q)[other[a]] >= AtOf(q)[k]
    <3>1. i + a \in 1 .. Len(q) /\ i < i + a
      BY <1>2, <2>1, GuardAssumption
    <3>2. q[i + a].key \in KeysOf(q) /\ q[i + a].key # k
      BY <1>1, <3>1 DEF KeysOf, Recorded
    <3>3. AtOf(q)[q[i + a].key] = q[i + a].at
      BY <3>1, TimeOf DEF Recorded
    <3>4. q[i + a].at >= q[i].at
      BY <1>2, <3>1 DEF Recorded
    <3> QED
      BY <1>5, <3>2, <3>3, <3>4
  <2>3. ASSUME NEW a \in 1 .. MaxCompleted, NEW b \in 1 .. MaxCompleted, other[a] = other[b]
        PROVE  a = b
    <3>1. i + a \in 1 .. Len(q) /\ i + b \in 1 .. Len(q) /\ q[i + a].key = q[i + b].key
      BY <1>2, <2>1, <2>3, GuardAssumption
    <3>2. i + a = i + b
      BY <3>1 DEF Recorded
    <3> QED
      BY <1>2, <3>2, GuardAssumption
  <2>4. other \in [1 .. MaxCompleted -> KeysOf(q) \ {k}]
    BY <2>2
  <2> QED
    BY <2>1, <2>2, <2>3, <2>4
<1> QED
  BY <1>2, <1>3, <1>4, <1>6, <1>7, GuardAssumption

\* The keys that are remembered are those of the completed entries.
LEMMA RememberedKeys ==
    ASSUME TypeOK, NEW q \in Seq(Completion), NEW e \in [Keys -> Tasks \cup {None}],
           Recorded(q, e)
    PROVE  /\ KeysOf(q) \subseteq Keys
           /\ {k \in Keys : StatusOf(e, q, task)[k] = "remembered"} = KeysOf(q)
<1>1. KeysOf(q) \subseteq Keys
  <2>1. \A i \in 1 .. Len(q) : q[i] \in Completion
    OBVIOUS
  <2> QED
    BY <2>1 DEF KeysOf, Completion
<1>2. \A k \in Keys : e[k] # None => task[e[k]] # "remembered"
  BY DEF TypeOK
<1>3. \A k \in KeysOf(q) : e[k] # None
  BY DEF Recorded
<1> QED
  BY <1>1, <1>2, <1>3 DEF StatusOf

\* Pruning clears the status and the time of the keys it drops, and no others.
LEMMA PruneStatus ==
    ASSUME TypeOK, NEW q \in Seq(Completion), NEW e \in [Keys -> Tasks \cup {None}],
           Recorded(q, e), NEW k \in Keys
    PROVE  /\ StatusOf(Forget(e, q), Prune(q), task)[k]
                  = IF k \in KeysOf(q) \ KeysOf(Prune(q)) THEN "none"
                    ELSE StatusOf(e, q, task)[k]
           /\ AtOf(Prune(q))[k]
                  = IF k \in KeysOf(q) \ KeysOf(Prune(q)) THEN 0 ELSE AtOf(q)[k]
<1> DEFINE p == Prune(q)
           f == Forget(e, q)
<1>1. p \in Seq(Completion) /\ Recorded(p, f)
  BY PruneElements, ForgetKeeps
<1>2. PICK n \in 0 .. Len(q) : /\ Len(p) = Len(q) - n
                               /\ \A i \in 1 .. Len(p) : p[i] = q[n + i]
  BY PruneElements
<1>3. f[k] = IF k \in KeysOf(q) \ KeysOf(p) THEN None ELSE e[k]
  BY DEF Forget
<1> HIDE DEF p, f
<1>4. \A i \in 1 .. Len(p) : n + i \in 1 .. Len(q)
  BY <1>1, <1>2
<1>5. k \in KeysOf(p) => k \in KeysOf(q)
  BY <1>2, <1>4 DEF KeysOf
<1>6. k \in KeysOf(p) => AtOf(p)[k] = AtOf(q)[k]
  <2> HAVE k \in KeysOf(p)
  <2>1. PICK i \in 1 .. Len(p) : p[i].key = k
    BY DEF KeysOf
  <2>2. AtOf(p)[k] = p[i].at
    BY <1>1, <2>1, TimeOf DEF Recorded
  <2>3. AtOf(q)[q[n + i].key] = q[n + i].at
    BY <1>4, TimeOf DEF Recorded
  <2> QED
    BY <1>2, <2>1, <2>2, <2>3
<1>7. k \notin KeysOf(p) => AtOf(p)[k] = 0
  BY DEF AtOf
<1>8. k \notin KeysOf(q) => AtOf(q)[k] = 0
  BY DEF AtOf
<1>9. AtOf(p)[k] = IF k \in KeysOf(q) \ KeysOf(p) THEN 0 ELSE AtOf(q)[k]
  BY <1>5, <1>6, <1>7, <1>8
<1>10. StatusOf(f, p, task)[k]
            = IF k \in KeysOf(q) \ KeysOf(p) THEN "none" ELSE StatusOf(e, q, task)[k]
  BY <1>3, <1>5 DEF StatusOf
<1> QED
  BY <1>9, <1>10 DEF p, f

\* Pruning is a change the promise allows.
LEMMA PruneBecomes ==
    ASSUME TypeOK, NEW q \in Seq(Completion), NEW e \in [Keys -> Tasks \cup {None}],
           Recorded(q, e), completed' = Prune(q), entry' = Forget(e, q),
           UNCHANGED <<task, now>>
    PROVE  Ledger!Become(StatusOf(e, q, task), AtOf(q))
<1> DEFINE st   == StatusOf(e, q, task)
           tm   == AtOf(q)
           R    == {k \in Keys : st[k] = "remembered"}
           gone == KeysOf(q) \ KeysOf(Prune(q))
<1>1. R = KeysOf(q) /\ KeysOf(q) \subseteq Keys
  BY RememberedKeys
<1>2. \A k \in gone : Ledger!Forgettable(k, R, tm)
  <2> TAKE k \in gone
  <2>1. \/ now - AtOf(q)[k] >= Retention
        \/ \E other \in [1 .. MaxCompleted -> KeysOf(q) \ {k}] :
              /\ \A a, b \in 1 .. MaxCompleted : other[a] = other[b] => a = b
              /\ \A a \in 1 .. MaxCompleted : AtOf(q)[other[a]] >= AtOf(q)[k]
    BY PruneForgets
  <2>2. R = KeysOf(q)
    BY <1>1
  <2> HIDE DEF R
  <2> QED
    BY <2>1, <2>2 DEF Ledger!Forgettable
<1>3. gone \in SUBSET {k \in R : Ledger!Forgettable(k, R, tm)}
  BY <1>1, <1>2
<1>4. \A k \in Keys :
        /\ StatusOf(Forget(e, q), Prune(q), task)[k] = IF k \in gone THEN "none" ELSE st[k]
        /\ AtOf(Prune(q))[k] = IF k \in gone THEN 0 ELSE tm[k]
  BY PruneStatus
<1>5. status' = StatusOf(Forget(e, q), Prune(q), task) /\ at' = AtOf(Prune(q))
  BY Mapping
<1> HIDE DEF st, tm, R, gone
<1>6. status' = [k \in Keys |-> IF k \in gone THEN "none" ELSE st[k]]
  <2>1. status' = [k \in Keys |-> StatusOf(Forget(e, q), Prune(q), task)[k]]
    BY <1>5 DEF StatusOf
  <2> QED
    BY <1>4, <2>1
<1>7. at' = [k \in Keys |-> IF k \in gone THEN 0 ELSE tm[k]]
  <2>1. at' = [k \in Keys |-> AtOf(Prune(q))[k]]
    BY <1>5 DEF AtOf
  <2> QED
    BY <1>4, <2>1
<1>8. \E g \in SUBSET {k \in R : Ledger!Forgettable(k, R, tm)} :
         /\ status' = [k \in Keys |-> IF k \in g THEN "none" ELSE st[k]]
         /\ at' = [k \in Keys |-> IF k \in g THEN 0 ELSE tm[k]]
         /\ UNCHANGED now
  BY <1>3, <1>6, <1>7
<1> QED
  BY <1>8 DEF Ledger!Become, st, tm, R

-----------------------------------------------------------------------------
\* A call that joins a task only prunes; one that creates a task starts a run
\* where none is going on and none is remembered, or only one that is too old.
LEMMA CallRefines ==
    ASSUME IInv, IInv', NEW c \in Callers, NEW k \in Keys, Call(c, k)
    PROVE  Ledger!Forget \/ Ledger!Start(k)
<1> DEFINE kept == Forget(entry, completed)
           gone == KeysOf(completed) \ KeysOf(Prune(completed))
<1>1. /\ TypeOK /\ completed \in Seq(Completion) /\ Recorded(completed, entry)
      /\ entry \in [Keys -> Tasks \cup {None}] /\ Len(completed) <= MaxCompleted
  BY DEF IInv, TypeOK
<1>2. completed' = Prune(completed) /\ UNCHANGED now
  BY DEF Call
<1>3. status = StatusOf(entry, completed, task) /\ at = AtOf(completed)
  BY Mapping
<1>4. CASE entry' = kept /\ UNCHANGED task
  <2>1. Ledger!Become(StatusOf(entry, completed, task), AtOf(completed))
    BY <1>1, <1>2, <1>4, PruneBecomes
  <2> QED
    BY <1>3, <2>1 DEF Ledger!Forget
<1>5. ASSUME NEW t \in Tasks, task[t] = "free", kept[k] = None,
             task' = [task EXCEPT ![t] = "running"], entry' = [kept EXCEPT ![k] = t]
      PROVE  Ledger!Start(k)
  <2> DEFINE st == [status EXCEPT ![k] = "running"]
             tm == [at EXCEPT ![k] = 0]
             R  == {j \in Keys : st[j] = "remembered"}
             g  == gone \ {k}
  <2>1. /\ Recorded(Prune(completed), kept) /\ kept \in [Keys -> Tasks \cup {None}]
        /\ KeysOf(completed) \subseteq Keys
        /\ {j \in Keys : StatusOf(entry, completed, task)[j] = "remembered"} = KeysOf(completed)
    BY <1>1, ForgetKeeps, RememberedKeys
  <2>2. \A j \in gone : now - at[j] >= Retention
    <3>1. Len(completed) \in Nat /\ ~(Len(completed) > MaxCompleted)
      BY <1>1, GuardAssumption
    <3>2. \A j \in gone : now - AtOf(completed)[j] >= Retention
      BY <1>1, <3>1, PruneForgets
    <3> QED
      BY <1>3, <3>2
  <2>3. \A j \in Keys :
          /\ StatusOf(kept, Prune(completed), task)[j] = IF j \in gone THEN "none" ELSE status[j]
          /\ AtOf(Prune(completed))[j] = IF j \in gone THEN 0 ELSE at[j]
    BY <1>1, <1>3, PruneStatus
  <2>4. k \notin KeysOf(Prune(completed))
    BY <1>5, <2>1 DEF Recorded
  <2>5. \A j \in Keys : entry[j] # t /\ kept[j] # t
    <3>1. \A j \in Keys : kept[j] = entry[j] \/ kept[j] = None
      BY DEF Forget
    <3> QED
      BY <1>5, <3>1, GuardAssumption DEF IInv, DictInv
  <2>6. status' = StatusOf(entry', Prune(completed), task') /\ at' = AtOf(Prune(completed))
    BY <1>2, Mapping
  <2>7. status'[k] = "running" /\ at'[k] = 0
    <3>1. entry'[k] = t /\ task'[t] = "running"
      BY <1>1, <1>5, <2>1 DEF TypeOK
    <3> QED
      BY <2>4, <2>6, <3>1, GuardAssumption DEF StatusOf, AtOf
  <2>8. ASSUME NEW j \in Keys, j # k
        PROVE  /\ status'[j] = IF j \in gone THEN "none" ELSE status[j]
               /\ at'[j] = IF j \in gone THEN 0 ELSE at[j]
    <3>1. entry'[j] = kept[j] /\ kept[j] # t
      BY <1>5, <2>1, <2>5, <2>8
    <3>2. kept[j] # None => task'[kept[j]] = task[kept[j]]
      BY <1>1, <1>5, <2>1, <3>1 DEF TypeOK
    <3>3. status'[j] = StatusOf(kept, Prune(completed), task)[j]
      BY <2>6, <3>1, <3>2 DEF StatusOf
    <3> QED
      BY <2>3, <2>6, <3>3
  <2>9. R = KeysOf(completed) \ {k}
    BY <1>3, <2>1 DEF StatusOf
  <2>10. status[k] = "none" \/ (status[k] = "remembered" /\ now - at[k] >= Retention)
    <3>1. k \in gone \/ entry[k] = None
      BY <1>5 DEF Forget
    <3>2. k \in gone => status[k] = "remembered"
      BY <1>3, <2>1
    <3>3. entry[k] = None => status[k] = "none"
      BY <1>3 DEF StatusOf
    <3> QED
      BY <2>2, <3>1, <3>2, <3>3
  <2> HIDE DEF gone, kept
  <2>11. status \in [Keys -> {status[j] : j \in Keys}] /\ at \in [Keys -> {at[j] : j \in Keys}]
    BY <1>3 DEF StatusOf, AtOf
  <2>12. \A j \in Keys : j # k => st[j] = status[j] /\ tm[j] = at[j]
    BY <2>11
  <2>13. st[k] = "running" /\ tm[k] = 0
    BY <2>11
  <2>14. g \in SUBSET {j \in R : Ledger!Forgettable(j, R, tm)}
    <3>1. \A j \in g : j \in R /\ j # k /\ j \in Keys /\ j \in gone
      BY <2>1, <2>9 DEF gone
    <3>2. \A j \in g : now - tm[j] >= Retention
      BY <2>2, <2>12, <3>1
    <3> HIDE DEF R, tm, g
    <3>3. \A j \in g : Ledger!Forgettable(j, R, tm)
      BY <3>2 DEF Ledger!Forgettable
    <3> QED
      BY <3>1, <3>3
  <2>15. k \notin g
    OBVIOUS
  <2>16. \A j \in Keys : j # k => (j \in g <=> j \in gone)
    OBVIOUS
  <2> HIDE DEF st, tm, g
  <2>17. \A j \in Keys : /\ status'[j] = IF j \in g THEN "none" ELSE st[j]
                         /\ at'[j] = IF j \in g THEN 0 ELSE tm[j]
    BY <2>7, <2>8, <2>12, <2>13, <2>15, <2>16
  <2>18. status' = [j \in Keys |-> status'[j]] /\ at' = [j \in Keys |-> at'[j]]
    BY <2>6 DEF StatusOf, AtOf
  <2>19. /\ status' = [j \in Keys |-> IF j \in g THEN "none" ELSE st[j]]
         /\ at' = [j \in Keys |-> IF j \in g THEN 0 ELSE tm[j]]
    BY <2>17, <2>18
  <2>20. Ledger!Become(st, tm)
    BY <1>2, <2>14, <2>19 DEF Ledger!Become
  <2>21. status[k] = "remembered" => Ledger!Forgettable(k, Ledger!Remembered, at)
    <3> HIDE DEF R
    <3> DEFINE rem == Ledger!Remembered
    <3> HIDE DEF rem
    <3>1. status[k] = "remembered" => Ledger!Forgettable(k, rem, at)
      BY <2>10 DEF Ledger!Forgettable
    <3> QED
      BY <3>1 DEF rem
  <2> QED
    BY <2>10, <2>20, <2>21 DEF Ledger!Start, st, tm
<1> QED
  BY <1>4, <1>5 DEF Call, tasks

\* A settlement remembers a success, frees the key of a failure, or does nothing.
LEMMA SettleRefines ==
    ASSUME IInv, NEW t \in Tasks, task[t] \in Over, Settle(t), UNCHANGED <<task, now>>
    PROVE  \/ UNCHANGED <<status, at, now>>
           \/ Ledger!Remember(taskKey[t]) \/ Ledger!Release(taskKey[t])
<1> DEFINE k == taskKey[t]
<1>0. /\ TypeOK /\ completed \in Seq(Completion) /\ Recorded(completed, entry)
      /\ entry \in [Keys -> Tasks \cup {None}] /\ k \in Keys
  BY DEF IInv, TypeOK, DictInv, Over
<1>1. /\ status = StatusOf(entry, completed, task) /\ at = AtOf(completed)
      /\ status' = StatusOf(entry', completed', task') /\ at' = AtOf(completed')
  BY Mapping
<1>2. CASE UNCHANGED guard
  BY <1>1, <1>2 DEF guard
<1> HIDE DEF k
<1>3. CASE entry[k] = t /\ task[t] = "failed" /\ entry' = [entry EXCEPT ![k] = None]
           /\ UNCHANGED completed
  <2>1. k \notin KeysOf(completed)
    BY <1>0, <1>3 DEF Recorded
  <2>2. status[k] = "failed"
    BY <1>0, <1>1, <1>3, <2>1, GuardAssumption DEF StatusOf
  <2>3. status' = [status EXCEPT ![k] = "none"]
    BY <1>0, <1>1, <1>3 DEF StatusOf
  <2>4. UNCHANGED <<at, now>>
    BY <1>1, <1>3
  <2> QED
    BY <2>2, <2>3, <2>4 DEF Ledger!Release, k
<1>4. CASE /\ entry[k] = t /\ task[t] = "succeeded" /\ k \notin KeysOf(completed)
           /\ LET q == Append(completed, [key |-> k, at |-> now])
              IN  completed' = Prune(q) /\ entry' = Forget(entry, q)
  <2> DEFINE q == Append(completed, [key |-> k, at |-> now])
  <2>1. [key |-> k, at |-> now] \in Completion
    BY <1>0 DEF TypeOK, Completion
  <2>2. /\ q \in Seq(Completion)
        /\ Len(q) = Len(completed) + 1
        /\ \A i \in 1 .. Len(completed) : q[i] = completed[i]
        /\ q[Len(completed) + 1] = [key |-> k, at |-> now]
    BY <1>0, <2>1, AppendProperties
  <2>3. completed' = Prune(q) /\ entry' = Forget(entry, q)
    BY <1>4
  <2> HIDE DEF q
  <2>4. Len(completed) \in Nat
    BY <1>0
  <2>5. \A i \in 1 .. Len(q) : i \in 1 .. Len(completed) \/ i = Len(completed) + 1
    BY <2>2, <2>4
  <2>6. KeysOf(q) = KeysOf(completed) \cup {k}
    BY <2>2, <2>4, <2>5 DEF KeysOf
  <2>7. \A i \in 1 .. Len(completed) : completed[i].key # k
    BY <1>4 DEF KeysOf
  <2>8. Recorded(q, entry)
    <3>1. \A i, j \in 1 .. Len(q) : i < j => q[i].at <= q[j].at
      <4>1. /\ \A i, j \in 1 .. Len(completed) : i < j => completed[i].at <= completed[j].at
            /\ \A i \in 1 .. Len(completed) : completed[i].at <= now
        BY <1>0 DEF Recorded
      <4> QED
        BY <2>2, <2>4, <2>5, <4>1
    <3>2. \A i, j \in 1 .. Len(q) : q[i].key = q[j].key => i = j
      BY <1>0, <2>2, <2>4, <2>5, <2>7 DEF Recorded
    <3>3. \A i \in 1 .. Len(q) : q[i].at <= now
      BY <1>0, <2>2, <2>4, <2>5 DEF Recorded, TypeOK
    <3>4. \A j \in KeysOf(q) : entry[j] # None /\ task[entry[j]] = "succeeded"
      BY <1>0, <1>4, <2>6, GuardAssumption DEF Recorded
    <3> QED
      BY <3>1, <3>2, <3>3, <3>4 DEF Recorded
  <2>9. Ledger!Become(StatusOf(entry, q, task), AtOf(q))
    BY <1>0, <2>2, <2>3, <2>8, PruneBecomes
  <2>10. status[k] = "succeeded"
    BY <1>0, <1>1, <1>4, GuardAssumption DEF StatusOf
  <2>11. StatusOf(entry, q, task) = [status EXCEPT ![k] = "remembered"]
    BY <1>0, <1>1, <1>4, <2>6, GuardAssumption DEF StatusOf
  <2>12. AtOf(q) = [at EXCEPT ![k] = now]
    <3>1. AtOf(q)[k] = now
      <4>1. Len(completed) + 1 \in 1 .. Len(q)
        BY <2>2, <2>4
      <4>2. AtOf(q)[q[Len(completed) + 1].key] = q[Len(completed) + 1].at
        BY <2>2, <2>8, <4>1, TimeOf DEF Recorded
      <4> QED
        BY <2>2, <4>2
    <3>2. ASSUME NEW j \in Keys, j # k PROVE AtOf(q)[j] = AtOf(completed)[j]
      <4>1. CASE j \in KeysOf(completed)
        <5>1. PICK i \in 1 .. Len(completed) : completed[i].key = j
          BY <4>1 DEF KeysOf
        <5>2. AtOf(completed)[completed[i].key] = completed[i].at
          BY <1>0, TimeOf DEF Recorded
        <5>3. i \in 1 .. Len(q) /\ q[i] = completed[i]
          BY <2>2, <2>4
        <5>4. AtOf(q)[q[i].key] = q[i].at
          BY <2>2, <2>8, <5>3, TimeOf DEF Recorded
        <5> QED
          BY <5>1, <5>2, <5>3, <5>4
      <4>2. CASE j \notin KeysOf(completed)
        BY <2>6, <3>2, <4>2 DEF AtOf
      <4> QED
        BY <4>1, <4>2
    <3>3. AtOf(q) = [j \in Keys |-> AtOf(q)[j]] /\ at = [j \in Keys |-> AtOf(completed)[j]]
      BY <1>1 DEF AtOf
    <3> QED
      BY <3>1, <3>2, <3>3
  <2> QED
    BY <2>9, <2>10, <2>11, <2>12 DEF Ledger!Remember, k
<1> QED
  BY <1>2, <1>3, <1>4 DEF Settle, Over, k

\* The guard implements what it promises its callers: nothing runs under a key that
\* is running or remembered, a key is forgotten only by age or by number, and a
\* failed run can be asked for again.
THEOREM Refinement == Spec => LedgerSpec
<1>1. Init => Ledger!Init
  <2> SUFFICES ASSUME Init PROVE Ledger!Init
    OBVIOUS
  <2>1. KeysOf(completed) = {} /\ now = 0
    BY DEF Init, KeysOf
  <2>2. status = [k \in Keys |-> "none"] /\ at = [k \in Keys |-> 0]
    BY <2>1 DEF Init, status, at
  <2> QED
    BY <2>1, <2>2 DEF Ledger!Init
<1>2. IInv /\ IInv' /\ [Next]_vars => [Ledger!Next]_(Ledger!ledger)
  <2> SUFFICES ASSUME IInv, IInv', [Next]_vars
               PROVE  Ledger!Next \/ UNCHANGED <<status, at, now>>
    BY DEF Ledger!ledger
  <2>0. /\ status = StatusOf(entry, completed, task) /\ at = AtOf(completed)
        /\ status' = StatusOf(entry', completed', task') /\ at' = AtOf(completed')
    BY Mapping
  <2>1. ASSUME NEW c \in Callers, NEW k \in Keys, Call(c, k) PROVE Ledger!Next
    BY <2>1, CallRefines DEF Ledger!Next
  <2>2. ASSUME NEW c \in Callers, Wake(c) \/ CallerCancelled(c)
        PROVE  UNCHANGED <<status, at, now>>
    BY <2>0, <2>2 DEF Wake, CallerCancelled, guard, tasks
  <2>3. ASSUME NEW t \in Tasks, task[t] \in Over, Settle(t), UNCHANGED <<task, now>>
        PROVE  Ledger!Next \/ UNCHANGED <<status, at, now>>
    <3>1. taskKey[t] \in Keys
      BY <2>3 DEF IInv, DictInv, Over
    <3> QED
      BY <2>3, <3>1, SettleRefines DEF Ledger!Next
  <2>4. ASSUME NEW c \in Callers, CallerSettles(c)
        PROVE  Ledger!Next \/ UNCHANGED <<status, at, now>>
    <3>1. joined[c] \in Tasks /\ task[joined[c]] \in Over
      BY <2>4 DEF CallerSettles, IInv, CallInv
    <3>2. Settle(joined[c]) /\ UNCHANGED <<task, now>>
      BY <2>4 DEF CallerSettles, tasks
    <3> QED
      BY <2>3, <3>1, <3>2
  <2>5. ASSUME NEW t \in Tasks, CallbackSettles(t)
        PROVE  Ledger!Next \/ UNCHANGED <<status, at, now>>
    <3>1. task[t] \in Over /\ Settle(t) /\ UNCHANGED <<task, now>>
      BY <2>5 DEF CallbackSettles, IInv, CallInv
    <3> QED
      BY <2>3, <3>1
  <2>6. ASSUME NEW t \in Tasks, NEW outcome \in Over, TaskFinishes(t, outcome)
        PROVE  Ledger!Next
    <3> DEFINE k == taskKey[t]
    <3>1. /\ task[t] = "running" /\ task' = [task EXCEPT ![t] = outcome]
          /\ UNCHANGED <<entry, completed, now>>
      BY <2>6 DEF TaskFinishes, guard
    <3>2. k \in Keys /\ entry[k] = t /\ k \notin KeysOf(completed)
      BY <3>1 DEF IInv, DictInv, Recorded
    <3>3. \A j \in Keys : j # k => entry[j] # t
      BY GuardAssumption DEF IInv, DictInv
    <3>4. task \in [Tasks -> {"free", "running", "succeeded", "failed"}]
          /\ entry \in [Keys -> Tasks \cup {None}]
      BY DEF IInv, TypeOK
    <3> HIDE DEF k
    <3>5. status[k] = "running"
      BY <2>0, <3>1, <3>2, GuardAssumption DEF StatusOf
    <3>6. status' = [status EXCEPT ![k] = outcome]
      <4>1. status'[k] = outcome
        BY <2>0, <3>1, <3>2, <3>4, GuardAssumption DEF StatusOf
      <4>2. ASSUME NEW j \in Keys, j # k PROVE status'[j] = status[j]
        <5>1. entry'[j] = entry[j] /\ (entry[j] # None => task'[entry[j]] = task[entry[j]])
          BY <3>1, <3>3, <3>4, <4>2
        <5> QED
          BY <2>0, <3>1, <5>1 DEF StatusOf
      <4>3. status' = [j \in Keys |-> status'[j]] /\ status = [j \in Keys |-> status[j]]
        BY <2>0 DEF StatusOf
      <4> QED
        BY <3>2, <4>1, <4>2, <4>3
    <3>7. UNCHANGED <<at, now>>
      BY <2>0, <3>1
    <3>8. Ledger!Finish(k)
      BY <3>5, <3>6, <3>7 DEF Ledger!Finish, Over
    <3> QED
      BY <3>2, <3>8 DEF Ledger!Next
  <2>7. CASE Tick
    <3>1. Ledger!Tick
      BY <2>0, <2>7 DEF Tick, guard, tasks, Ledger!Tick
    <3> QED
      BY <3>1 DEF Ledger!Next
  <2>8. CASE Restart
    <3>1. KeysOf(completed') = {}
      BY <2>8 DEF Restart, KeysOf
    <3>2. /\ status' = [k \in Keys |-> "none"]
          /\ at' = [k \in Keys |-> 0]
          /\ UNCHANGED now
      BY <2>0, <2>8, <3>1 DEF Restart, StatusOf, AtOf
    <3>3. Ledger!Restart
      BY <3>2 DEF Ledger!Restart
    <3> QED
      BY <3>3 DEF Ledger!Next
  <2>9. CASE UNCHANGED vars
    BY <2>0, <2>9 DEF vars, guard, tasks
  <2> QED
    BY <2>1, <2>2, <2>4, <2>5, <2>6, <2>7, <2>8, <2>9 DEF Next, Over
<1> QED
  BY <1>1, <1>2, Invariance, PTL DEF Spec, LedgerSpec, Ledger!Spec
=============================================================================
