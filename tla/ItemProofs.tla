----------------------------- MODULE ItemProofs -----------------------------
(***************************************************************************)
(* Proofs about ItemActions and ItemChat, for every set of items, slots,   *)
(* messages and durations and every number of presses, failures and        *)
(* crashes, and about Calendar, for every date.                            *)
(*                                                                         *)
(* The service's lock guards only its acquisition; LockInv shows that the  *)
(* steps of one execution then have the service to themselves.  Whatever   *)
(* a message ever offered is an action that the kind it was offered for    *)
(* has (Offers), so a press that comes late, twice or beside others asks   *)
(* for such an action (Asked) and is refused only for another kind.        *)
(***************************************************************************)
EXTENDS ItemChat, Calendar, SequenceTheorems, TLAPS

(***************************************************************************)
(* The actions.                                                            *)
(***************************************************************************)
LockInv == \A s \in Slots : pc[s] \in Critical => lock # <<>> /\ Head(lock) = s

\* What the local variables of an execution say about its callback.
LocalInv ==
    \A s \in Slots :
        /\ pc[s] # "idle" => call[s] \in Calls
        /\ cooldown[s] > 0 => /\ pc[s] \in {"list", "others", "own"}
                              /\ call[s].action.name = "bought"
        /\ pc[s] \in {"list", "others", "own"} => read[s] \in Kinds
        /\ pc[s] \in {"list", "others"} => cooldown[s] > 0 \/ call[s].action.name = "focus"
        /\ \A t \in todo[s] : t.item \in Items \ {call[s].item}
        /\ pc[s] # "others" => todo[s] = {}
        /\ \A i \in listed[s] : where[i] # "absent"

IInv == TypeOK /\ LockInv /\ LocalInv

PCs == {"idle", "answer", "queued", "reply"} \cup Critical

-----------------------------------------------------------------------------
\* An execution returns: the lock passes on, nobody is inside it.
LEMMA HolderReturns ==
    ASSUME IInv, NEW s \in Slots, pc[s] \in Critical, NEW status, Return(s, status)
    PROVE  /\ lock' \in Seq(Slots)
           /\ pc' \in [Slots -> PCs]
           /\ LockInv'
<1>1. lock # <<>> /\ Head(lock) = s
  BY DEF IInv, LockInv
<1>2. \A r \in Slots : pc'[r] \notin Critical
  BY <1>1 DEF Return, IInv, LockInv, TypeOK, Critical
<1>3. lock' \in Seq(Slots)
  BY <1>1, HeadTailProperties DEF Return, IInv, TypeOK
<1> QED
  BY <1>2, <1>3 DEF Return, IInv, LockInv, TypeOK, PCs

\* An execution that returns keeps the invariant, whatever it did to Notion.
LEMMA ReturnKeeps ==
    ASSUME IInv, NEW s \in Slots, pc[s] \in Critical,
           NEW status \in {"applied", "display", "stale", "unavailable", "failed"},
           Return(s, status),
           read' \in [Slots -> Kinds \cup {"none"}],
           kind' \in [Items -> Kinds],
           where' \in [Items -> {"absent", "active", "trashed"}],
           focus' \in [Items -> BOOLEAN],
           snooze' \in [Items -> Dates],
           \A i \in Items : where'[i] = "absent" => where[i] = "absent"
    PROVE  IInv'
<1>1. lock' \in Seq(Slots) /\ pc' \in [Slots -> PCs] /\ LockInv'
  BY HolderReturns
<1>2. TypeOK'
  BY <1>1 DEF Return, bounds, IInv, TypeOK, PCs, Dates
<1>3. LocalInv'
  BY DEF Return, IInv, TypeOK, LockInv, LocalInv, Critical
<1> QED
  BY <1>1, <1>2, <1>3 DEF IInv

\* One update of another purchase is an update of Notion.
LEMMA WriteOtherTypes ==
    ASSUME IInv, NEW s \in Slots, NEW t \in todo[s], WriteOther(t)
    PROVE  /\ where' = where /\ kind' = kind
           /\ focus' \in [Items -> BOOLEAN]
           /\ snooze' \in [Items -> Dates]
<1>1. t \in Update
  BY DEF IInv, TypeOK
<1> QED
  BY <1>1 DEF WriteOther, Update, IInv, TypeOK

\* The item's own update is an update of Notion; it adds no item.
LEMMA WriteOwnTypes ==
    ASSUME IInv, NEW s \in Slots, pc[s] = "own", WriteOwn(s)
    PROVE  /\ kind' = kind
           /\ where' \in [Items -> {"absent", "active", "trashed"}]
           /\ \A i \in Items : where'[i] = "absent" => where[i] = "absent"
           /\ focus' \in [Items -> BOOLEAN]
           /\ snooze' \in [Items -> Dates]
<1>1. call[s] \in Calls
  BY DEF IInv, LocalInv
<1>2. call[s].item \in Items /\ call[s].on \in Nat /\ call[s].action.days \in Nat
  BY <1>1, ItemActionsAssumption DEF Calls, Dates, Actions
<1>3. read[s] \in Kinds
  BY DEF IInv, LocalInv
<1>4. KeepDays[read[s]] \in Nat
  BY <1>3, ItemActionsAssumption
<1>5. snooze' \in [Items -> Dates]
  <2>1. /\ call[s].on + KeepDays[read[s]] \in Nat
        /\ call[s].on + call[s].action.days \in Nat
    BY <1>2, <1>4
  <2>2. \/ snooze' = snooze
        \/ snooze' = [snooze EXCEPT ![call[s].item] = call[s].on + KeepDays[read[s]]]
        \/ snooze' = [snooze EXCEPT ![call[s].item] = call[s].on + call[s].action.days]
    BY DEF WriteOwn
  <2>3. snooze \in [Items -> Nat]
    BY DEF IInv, TypeOK, Dates
  <2> QED
    BY <2>1, <2>2, <2>3 DEF Dates
<1>6. /\ where' \in [Items -> {"absent", "active", "trashed"}]
      /\ \A i \in Items : where'[i] = "absent" => where[i] = "absent"
  BY <1>2 DEF WriteOwn, IInv, TypeOK
<1>7. focus' \in [Items -> BOOLEAN]
  BY <1>2 DEF WriteOwn, IInv, TypeOK
<1>8. kind' = kind
  BY DEF WriteOwn
<1> QED
  BY <1>5, <1>6, <1>7, <1>8

LEMMA LostWriteTypes ==
    ASSUME IInv, NEW s \in Slots, LostWrite(s)
    PROVE  /\ pc[s] \in Critical /\ kind' = kind
           /\ where' \in [Items -> {"absent", "active", "trashed"}]
           /\ \A i \in Items : where'[i] = "absent" => where[i] = "absent"
           /\ focus' \in [Items -> BOOLEAN]
           /\ snooze' \in [Items -> Dates]
<1>1. CASE pc[s] = "own" /\ WriteOwn(s)
  BY <1>1, WriteOwnTypes DEF Critical
<1>2. CASE pc[s] = "others" /\ \E t \in todo[s] : WriteOther(t)
  BY <1>2, WriteOtherTypes DEF IInv, TypeOK, Critical
<1> QED
  BY <1>1, <1>2 DEF LostWrite

\* The updates a listing plans are of other planned purchases.
LEMMA OthersTypes ==
    ASSUME IInv, NEW s \in Slots
    PROVE  /\ OthersToUpdate(s) \in SUBSET Update
           /\ \A t \in OthersToUpdate(s) : t.item \in Items \ {call[s].item}
<1>1. \A j \in Items : Later(snooze[j], cooldown[s]) \in Nat
  BY DEF Later, IInv, TypeOK, Dates
<1>2. ASSUME NEW t \in OthersToUpdate(s)
      PROVE  t \in Update /\ t.item \in Items \ {call[s].item}
  <2>1. PICK j \in (Planned \cap Active) \ {call[s].item}, d \in Nat :
          t = [item |-> j, until |-> d]
    BY <1>1, <1>2 DEF OthersToUpdate, Active
  <2> QED
    BY <2>1 DEF Update, Dates, Planned
<1> QED
  BY <1>2

LEMMA InitIInv == ASSUME Init PROVE IInv
<1>1. NoCall \in Calls \cup {NoCall} /\ lock \in Seq(Slots) /\ 1 \in 1 .. MaxDay
  BY ItemActionsAssumption DEF Init
<1>2. snooze \in [Items -> Dates]
  BY ItemActionsAssumption DEF Init, Dates
<1>3. focus \in [Items -> BOOLEAN]
  BY DEF Init
<1>4. /\ presses \in 0 .. MaxPresses /\ crashes \in 0 .. MaxCrashes
      /\ trashes \in 0 .. MaxTrashes /\ restores \in 0 .. MaxRestores
      /\ edits \in 0 .. MaxEdits /\ kind \in [Items -> Kinds]
  BY ItemActionsAssumption DEF Init
<1>5. TypeOK
  BY <1>1, <1>2, <1>3, <1>4 DEF Init, TypeOK, Dates
<1>6. LockInv
  BY DEF Init, LockInv, Critical
<1>7. LocalInv
  BY DEF Init, LocalInv
<1> QED
  BY <1>5, <1>6, <1>7 DEF IInv

LEMMA StepKeeps == ASSUME IInv, NEW s \in Slots, Step(s) PROVE IInv'
<1> USE DEF bounds, notion, local
<1>1. CASE AnswerOk(s)
  <2>1. lock' \in Seq(Slots) /\ lock' # <<>>
    BY <1>1, AppendProperties DEF AnswerOk, IInv, TypeOK
  <2>2. lock # <<>> => Head(lock') = Head(lock)
    BY <1>1, HeadTailAppend DEF AnswerOk, IInv, TypeOK
  <2>3. LockInv'
    BY <1>1, <2>1, <2>2 DEF AnswerOk, IInv, TypeOK, LockInv, Critical
  <2>4. call[s] \in Calls /\ day \in Nat
    BY <1>1 DEF AnswerOk, IInv, TypeOK, LocalInv
  <2>5. [call[s] EXCEPT !.on = day] \in Calls
    BY <2>4 DEF Calls, Dates
  <2>6. call' = [call EXCEPT ![s] = [call[s] EXCEPT !.on = day]]
    BY <1>1 DEF AnswerOk
  <2>7. TypeOK'
    BY <1>1, <2>1, <2>5, <2>6 DEF AnswerOk, IInv, TypeOK
  <2>8. LocalInv'
    BY <1>1, <2>5, <2>6 DEF AnswerOk, IInv, TypeOK, LocalInv
  <2> QED
    BY <2>3, <2>7, <2>8 DEF IInv
<1>2. CASE AnswerFails(s)
  <2>1. TypeOK'
    BY <1>2 DEF AnswerFails, IInv, TypeOK
  <2>2. LockInv' /\ LocalInv'
    BY <1>2 DEF AnswerFails, IInv, TypeOK, LockInv, LocalInv, Critical
  <2> QED
    BY <2>1, <2>2 DEF IInv
<1>3. CASE Acquire(s)
  <2>1. TypeOK'
    BY <1>3 DEF Acquire, GoTo, IInv, TypeOK, Critical
  <2>2. LockInv' /\ LocalInv'
    BY <1>3 DEF Acquire, GoTo, LockFree, IInv, TypeOK, LockInv, LocalInv, Critical
  <2> QED
    BY <2>1, <2>2 DEF IInv
<1>4. CASE GetStale(s) \/ GetOnly(s) \/ UpdateOwnStale(s) \/ CallFails(s)
  <2>1. /\ pc[s] \in Critical
        /\ \E status \in {"applied", "display", "stale", "unavailable", "failed"} :
             Return(s, status)
        /\ UNCHANGED notion
    BY <1>4 DEF GetStale, GetOnly, ReadItem, UpdateOwnStale, CallFails, Critical
  <2>2. read' \in [Slots -> Kinds \cup {"none"}]
    <3>1. GetOnly(s) => call[s].item \in Items
      BY DEF GetOnly, ReadItem, IInv, LocalInv, Calls
    <3> QED
      BY <1>4, <3>1 DEF GetStale, GetOnly, ReadItem, UpdateOwnStale, CallFails, IInv, TypeOK
  <2> QED
    BY <2>1, <2>2, ReturnKeeps DEF IInv, TypeOK
<1>5. CASE GetItem(s)
  <2>1. call[s] \in Calls /\ kind[call[s].item] \in Kinds
    BY <1>5 DEF GetItem, ReadItem, IInv, TypeOK, LocalInv, Calls
  <2>2. call[s].on + CooldownDays \in Nat /\ call[s].on + CooldownDays > 0
    BY <2>1, ItemActionsAssumption DEF Calls, Dates
  <2>3. TypeOK'
    BY <1>5, <2>1, <2>2 DEF GetItem, ReadItem, GoTo, IInv, TypeOK, Critical, Dates
  <2>4. LockInv'
    BY <1>5 DEF GetItem, ReadItem, GoTo, IInv, TypeOK, LockInv, Critical
  <2>5. LocalInv'
    BY <1>5, <2>1, <2>2 DEF GetItem, ReadItem, GoTo, Available, IInv, TypeOK, LocalInv
  <2> QED
    BY <2>3, <2>4, <2>5 DEF IInv
<1>6. CASE ListPlanned(s)
  <2>1. TypeOK'
    BY <1>6, OthersTypes DEF ListPlanned, GoTo, IInv, TypeOK, Critical, Planned, Active
  <2>2. LockInv'
    BY <1>6 DEF ListPlanned, GoTo, IInv, TypeOK, LockInv, Critical
  <2>3. LocalInv'
    BY <1>6, OthersTypes DEF ListPlanned, GoTo, IInv, TypeOK, LocalInv, Active
  <2> QED
    BY <2>1, <2>2, <2>3 DEF IInv
<1>7. CASE UpdateOther(s)
  <2>1. PICK t \in todo[s] :
          /\ IF where[t.item] = "active" THEN WriteOther(t) ELSE UNCHANGED notion
          /\ todo' = [todo EXCEPT ![s] = @ \ {t}]
          /\ GoTo(s, IF todo[s] = {t} THEN "own" ELSE "others")
    BY <1>7 DEF UpdateOther
  <2>2. /\ where' = where /\ kind' = kind
        /\ focus' \in [Items -> BOOLEAN] /\ snooze' \in [Items -> Dates]
    BY <2>1, WriteOtherTypes DEF IInv, TypeOK
  <2>3. TypeOK'
    BY <1>7, <2>1, <2>2 DEF UpdateOther, GoTo, IInv, TypeOK, Critical
  <2>4. LockInv'
    BY <1>7, <2>1 DEF UpdateOther, GoTo, IInv, TypeOK, LockInv, Critical
  <2>5. LocalInv'
    BY <1>7, <2>1, <2>2 DEF UpdateOther, GoTo, IInv, TypeOK, LocalInv
  <2> QED
    BY <2>3, <2>4, <2>5 DEF IInv
<1>8. CASE UpdateOwn(s)
  BY <1>8, ReturnKeeps, WriteOwnTypes DEF UpdateOwn, Critical, IInv, TypeOK
<1>9. CASE CallLost(s)
  BY <1>9, ReturnKeeps, LostWriteTypes DEF CallLost, IInv, TypeOK
<1>10. CASE Reply(s)
  <2>1. TypeOK'
    BY <1>10 DEF Reply, IInv, TypeOK
  <2>2. LockInv' /\ LocalInv'
    BY <1>10 DEF Reply, IInv, TypeOK, LockInv, LocalInv, Critical
  <2> QED
    BY <2>1, <2>2 DEF IInv
<1> QED
  BY <1>1, <1>2, <1>3, <1>4, <1>5, <1>6, <1>7, <1>8, <1>9, <1>10 DEF Step

LEMMA Inductive == IInv /\ [OwnerNext]_vars => IInv'
<1> SUFFICES ASSUME IInv, [OwnerNext]_vars PROVE IInv'
  OBVIOUS
<1> USE DEF bounds, notion, local, process
<1>1. ASSUME NEW s \in Slots, NEW a \in Actions, NEW i \in Items, Press(s, a, i)
      PROVE  IInv'
  <2>1. [action |-> a, item |-> i, on |-> 0] \in Calls
    BY DEF Calls, Dates
  <2>2. presses' \in 0 .. MaxPresses
    BY <1>1, ItemActionsAssumption DEF Press, IInv, TypeOK
  <2>3. TypeOK'
    BY <1>1, <2>1, <2>2 DEF Press, IInv, TypeOK
  <2>4. LockInv' /\ LocalInv'
    BY <1>1, <2>1 DEF Press, IInv, TypeOK, LockInv, LocalInv, Critical
  <2> QED
    BY <2>3, <2>4 DEF IInv
<1>2. ASSUME NEW i \in Items, Captured(i) \/ UserTrashes(i) \/ UserRestores(i)
      PROVE  IInv'
  <2>1. trashes' \in 0 .. MaxTrashes /\ restores' \in 0 .. MaxRestores
    BY <1>2, ItemActionsAssumption DEF Captured, UserTrashes, UserRestores, IInv, TypeOK
  <2>2. TypeOK'
    BY <1>2, <2>1 DEF Captured, UserTrashes, UserRestores, IInv, TypeOK
  <2>3. LockInv' /\ LocalInv'
    BY <1>2 DEF Captured, UserTrashes, UserRestores, IInv, TypeOK, LockInv, LocalInv
  <2> QED
    BY <2>2, <2>3 DEF IInv
<1>6. ASSUME NEW i \in Items, NEW k \in EditedKinds, UserEdits(i, k) PROVE IInv'
  <2>1. edits' \in 0 .. MaxEdits /\ kind' \in [Items -> Kinds]
    BY <1>6, ItemActionsAssumption DEF UserEdits, IInv, TypeOK
  <2> QED
    BY <1>6, <2>1 DEF UserEdits, IInv, TypeOK, LockInv, LocalInv
<1>3. CASE Midnight
  <2>1. day' \in 1 .. MaxDay
    BY <1>3, ItemActionsAssumption DEF Midnight, IInv, TypeOK
  <2> QED
    BY <1>3, <2>1 DEF Midnight, IInv, TypeOK, LockInv, LocalInv
<1>4. CASE Crash
  <2>1. /\ where' \in [Items -> {"absent", "active", "trashed"}]
        /\ kind' = kind
        /\ focus' \in [Items -> BOOLEAN]
        /\ snooze' \in [Items -> Dates]
    BY <1>4, LostWriteTypes DEF Crash, IInv, TypeOK
  <2>2. crashes' \in 0 .. MaxCrashes
    BY <1>4, ItemActionsAssumption DEF Crash, IInv, TypeOK
  <2>3. lock' \in Seq(Slots)
    BY <1>4 DEF Crash
  <2>4. TypeOK'
    BY <1>4, <2>1, <2>2, <2>3 DEF Crash, IInv, TypeOK, Dates
  <2>5. LockInv' /\ LocalInv'
    BY <1>4 DEF Crash, LockInv, LocalInv, Critical
  <2> QED
    BY <2>4, <2>5 DEF IInv
<1>5. CASE UNCHANGED vars
  BY <1>5 DEF vars, IInv, TypeOK, LockInv, LocalInv
<1> QED
  BY <1>1, <1>2, <1>3, <1>4, <1>5, <1>6, StepKeeps DEF Next, OwnerNext

LEMMA IInvAlways == OwnerSpec => []IInv
BY InitIInv, Inductive, PTL DEF OwnerSpec

\* Type correctness, for any number of presses and failures.
THEOREM Typing == OwnerSpec => []TypeOK
BY IInvAlways, PTL DEF IInv

-----------------------------------------------------------------------------
\* How a step changes Notion: not at all, by one planned update of a loop, by an
\* execution's own update, by a capture, or by the user's trash and its undoing.
LEMMA NotionMoves ==
    ASSUME [Next]_vars, IInv
    PROVE  \/ UNCHANGED notion
           \/ \E s \in Slots : pc[s] = "others" /\ \E t \in todo[s] : WriteOther(t)
           \/ \E s \in Slots : pc[s] = "own" /\ where[call[s].item] = "active" /\ WriteOwn(s)
           \/ /\ UNCHANGED <<kind, focus, snooze>>
              /\ \E i \in Items, w \in {"active", "trashed"} :
                   /\ where[i] = IF w = "active" THEN "absent" ELSE "active"
                   /\ where' = [where EXCEPT ![i] = w]
<1>1. CASE \E s \in Slots, a \in Actions, i \in Items : Press(s, a, i)
  BY <1>1 DEF Press
<1>2. ASSUME NEW s \in Slots, AnswerOk(s) \/ AnswerFails(s) \/ Acquire(s) \/ GetStale(s)
                 \/ GetOnly(s) \/ GetItem(s) \/ ListPlanned(s) \/ UpdateOwnStale(s)
                 \/ CallFails(s) \/ Reply(s)
      PROVE  UNCHANGED notion
  BY <1>2 DEF AnswerOk, AnswerFails, Acquire, GetStale, GetOnly, GetItem, ReadItem,
     ListPlanned, UpdateOwnStale, CallFails, Reply
<1>3. ASSUME NEW s \in Slots, UpdateOther(s)
      PROVE  UNCHANGED notion \/ (pc[s] = "others" /\ \E t \in todo[s] : WriteOther(t))
  BY <1>3 DEF UpdateOther
<1>4. ASSUME NEW s \in Slots, UpdateOwn(s)
      PROVE  pc[s] = "own" /\ where[call[s].item] = "active" /\ WriteOwn(s)
  BY <1>4 DEF UpdateOwn
<1>5. ASSUME NEW s \in Slots, LostWrite(s)
      PROVE  \/ pc[s] = "others" /\ \E t \in todo[s] : WriteOther(t)
             \/ pc[s] = "own" /\ where[call[s].item] = "active" /\ WriteOwn(s)
  BY <1>5 DEF LostWrite
<1>6. ASSUME NEW i \in Items, Captured(i) \/ UserTrashes(i)
      PROVE  /\ UNCHANGED <<kind, focus, snooze>>
             /\ \E w \in {"active", "trashed"} :
                  /\ where[i] = IF w = "active" THEN "absent" ELSE "active"
                  /\ where' = [where EXCEPT ![i] = w]
  BY <1>6 DEF Captured, UserTrashes
<1>8. CASE Crash
  BY <1>5, <1>8 DEF Crash
<1>9. CASE Midnight \/ UNCHANGED vars
  BY <1>9 DEF Midnight, vars
<1>10. CASE \E s \in Slots : CallLost(s)
  BY <1>5, <1>10 DEF CallLost
<1> QED
  BY <1>1, <1>2, <1>3, <1>4, <1>6, <1>8, <1>9, <1>10 DEF Next, Step

-----------------------------------------------------------------------------
\* Where the two loops are: what has not been updated yet is still to do.
OthersDone(s) ==
    \A j \in (Planned \cap Active) \ {call[s].item} :
        ~focus[j] \/ \E t \in todo[s] : t.item = j

CooledDown(s) ==
    \A j \in (listed[s] \cap Active) \ {call[s].item} :
        snooze[j] >= cooldown[s] \/ \E t \in todo[s] : t.item = j

Looping(s) == cooldown[s] > 0 \/ call[s].action.name = "focus"

ExecInv(s) ==
    /\ listed[s] \subseteq Planned
    /\ pc[s] \in {"others", "own"} /\ Looping(s) => OthersDone(s)
    /\ pc[s] \in {"others", "own"} /\ cooldown[s] > 0 => CooledDown(s)
    /\ cooldown[s] > 0 => \A t \in todo[s] : t.until >= cooldown[s]
    /\ pc[s] \in {"list", "others", "own"} /\ cooldown[s] > 0 => focus[call[s].item]

FocusInv ==
    /\ AtMostOneFocus
    /\ \A i \in Items : where[i] = "absent" => ~focus[i]
    /\ \A s \in Slots : ExecInv(s)

\* While one execution has the lock, a step of another slot leaves Notion and
\* that execution alone.
LEMMA OthersWait ==
    ASSUME IInv, NEW s \in Slots, pc[s] \in Critical, NEW r \in Slots, r # s, Step(r)
    PROVE  /\ UNCHANGED notion
           /\ pc'[s] = pc[s] /\ call'[s] = call[s] /\ listed'[s] = listed[s]
           /\ todo'[s] = todo[s] /\ cooldown'[s] = cooldown[s]
<1>1. pc[r] \notin Critical
  BY DEF IInv, LockInv
<1>2. AnswerOk(r) \/ AnswerFails(r) \/ Acquire(r) \/ Reply(r)
  <2>1. lock # <<>> /\ Head(lock) = s
    BY DEF IInv, LockInv
  <2> QED
    BY <1>1, LostWriteTypes
    DEF Step, GetStale, GetOnly, GetItem, ReadItem, ListPlanned, UpdateOther, UpdateOwn,
        UpdateOwnStale, CallFails, CallLost, Critical
<1> QED
  BY <1>2 DEF AnswerOk, AnswerFails, Acquire, Reply, GoTo, local, IInv, TypeOK

\* A step of an execution itself keeps what is known of its loop.
LEMMA ExecStep ==
    ASSUME IInv, NEW s \in Slots, ExecInv(s), Step(s), kind' = kind,
           \A i \in Items : where[i] = "absent" => ~focus[i]
    PROVE  ExecInv(s)'
<1> USE DEF ExecInv, Looping, OthersDone, CooledDown, Planned
<1>1. CASE AnswerOk(s) \/ AnswerFails(s) \/ Acquire(s) \/ Reply(s)
  BY <1>1 DEF AnswerOk, AnswerFails, Acquire, Reply, GoTo, local, IInv, TypeOK, LocalInv
<1>2. ASSUME NEW status, Return(s, status) PROVE ExecInv(s)'
  BY <1>2 DEF Return, IInv, TypeOK
<1>3. CASE GetItem(s)
  <2>1. cooldown'[s] > 0 => focus[call[s].item]
    BY <1>3 DEF GetItem, ReadItem, IInv, TypeOK
  <2>2. /\ pc'[s] \in {"list", "own"}
        /\ pc'[s] = "own" => cooldown'[s] = 0 /\ call[s].action.name # "focus"
    BY <1>3 DEF GetItem, ReadItem, GoTo, IInv, TypeOK
  <2>3. UNCHANGED notion /\ call' = call /\ listed' = listed /\ todo' = todo /\ todo[s] = {}
    BY <1>3 DEF GetItem, ReadItem, GoTo, IInv, LocalInv
  <2> QED
    BY <2>1, <2>2, <2>3 DEF notion
<1>4. CASE ListPlanned(s)
  <2> DEFINE others == (Planned \cap Active) \ {call[s].item}
  <2>1. /\ UNCHANGED notion /\ call' = call /\ cooldown' = cooldown
        /\ listed'[s] = Planned \cap Active /\ todo'[s] = OthersToUpdate(s)
    BY <1>4 DEF ListPlanned, GoTo, IInv, TypeOK
  <2>2. \A j \in Items : Later(snooze[j], cooldown[s]) >= cooldown[s]
    BY DEF Later, IInv, TypeOK, Dates
  <2>3. CASE cooldown[s] > 0
    <3>1. OthersToUpdate(s) =
            {[item |-> j, until |-> Later(snooze[j], cooldown[s])] : j \in others}
      BY <2>3 DEF OthersToUpdate
    <3>2. \A j \in others : \E t \in OthersToUpdate(s) : t.item = j
      <4> TAKE j \in others
      <4> DEFINE t == [item |-> j, until |-> Later(snooze[j], cooldown[s])]
      <4>1. t \in OthersToUpdate(s) /\ t.item = j
        BY <3>1
      <4> QED
        BY <4>1
    <3>3. \A t \in OthersToUpdate(s) : t.until >= cooldown[s]
      BY <2>2, <3>1 DEF Planned
    <3>4. focus[call[s].item]
      BY <1>4, <2>3 DEF ListPlanned
    <3> QED
      BY <2>1, <3>2, <3>3, <3>4 DEF notion, Planned, Active
  <2>4. CASE ~(cooldown[s] > 0)
    <3>1. OthersToUpdate(s) = {[item |-> j, until |-> 0] : j \in {k \in others : focus[k]}}
      BY <2>4 DEF OthersToUpdate
    <3>2. \A j \in others : ~focus[j] \/ \E t \in OthersToUpdate(s) : t.item = j
      <4> SUFFICES ASSUME NEW j \in others, focus[j]
                   PROVE  \E t \in OthersToUpdate(s) : t.item = j
        OBVIOUS
      <4> DEFINE t == [item |-> j, until |-> 0]
      <4>1. t \in OthersToUpdate(s) /\ t.item = j
        BY <3>1
      <4> QED
        BY <4>1
    <3> QED
      BY <2>1, <2>4, <3>2 DEF notion, Planned, Active
  <2> QED
    BY <2>3, <2>4
<1>5. CASE UpdateOther(s)
  <2>1. PICK t \in todo[s] :
          /\ IF where[t.item] = "active" THEN WriteOther(t) ELSE UNCHANGED notion
          /\ todo' = [todo EXCEPT ![s] = @ \ {t}]
          /\ GoTo(s, IF todo[s] = {t} THEN "own" ELSE "others")
    BY <1>5 DEF UpdateOther
  <2>2. /\ t.item \in Items \ {call[s].item} /\ t.until \in Nat
        /\ cooldown[s] \in Nat /\ t \in Update
    BY DEF IInv, TypeOK, LocalInv, Update, Dates
  <2>3. /\ where' = where /\ kind' = kind /\ call' = call /\ UNCHANGED <<listed, cooldown>>
        /\ todo'[s] = todo[s] \ {t}
    BY <1>5, <2>1 DEF UpdateOther, WriteOther, notion, GoTo, IInv, TypeOK
  <2>4. \A j \in Items \ {t.item} : focus'[j] = focus[j] /\ snooze'[j] = snooze[j]
    BY <2>1 DEF WriteOther, notion, IInv, TypeOK
  <2>5. where[t.item] = "active" => ~focus'[t.item]
    BY <2>1, <2>2 DEF WriteOther, IInv, TypeOK, Planned
  <2>6. where[t.item] = "active" /\ cooldown[s] > 0 => snooze'[t.item] >= cooldown[s]
    <3> HAVE where[t.item] = "active" /\ cooldown[s] > 0
    <3>1. t.until >= cooldown[s] /\ t.until # 0
      BY <2>2
    <3>2. snooze'[t.item] = t.until
      BY <2>1, <2>2, <3>1 DEF WriteOther, IInv, TypeOK, Planned
    <3> QED
      BY <3>1, <3>2
  <2>7. Looping(s) => OthersDone(s)'
    BY <1>5, <2>3, <2>4, <2>5 DEF UpdateOther, Planned, Active
  <2>8. cooldown[s] > 0 => CooledDown(s)'
    BY <1>5, <2>3, <2>4, <2>6 DEF UpdateOther, Planned, Active
  <2>9. cooldown[s] > 0 => focus'[call[s].item]
    <3>1. call[s].item \in Items \ {t.item} /\ pc[s] = "others"
      BY <1>5, <2>2 DEF UpdateOther, IInv, LocalInv, Calls
    <3> QED
      BY <2>4, <3>1
  <2> QED
    BY <2>3, <2>7, <2>8, <2>9
<1>6. CASE GetStale(s) \/ GetOnly(s) \/ UpdateOwn(s) \/ UpdateOwnStale(s)
           \/ CallFails(s) \/ CallLost(s)
  BY <1>2, <1>6 DEF GetStale, GetOnly, ReadItem, UpdateOwn, UpdateOwnStale, CallFails, CallLost
<1> QED
  BY <1>1, <1>3, <1>4, <1>5, <1>6 DEF Step

\* What a step leaves alone, and what the user and captures do, keep it too.
LEMMA ExecEnv ==
    ASSUME IInv, NEW s \in Slots, ExecInv(s),
           \A i \in Items : where[i] = "absent" => ~focus[i],
           pc'[s] = pc[s], call'[s] = call[s], listed'[s] = listed[s],
           todo'[s] = todo[s], cooldown'[s] = cooldown[s],
           kind' = kind, focus' = focus, snooze' = snooze,
           \A i \in Items : where'[i] = "active" => where[i] \in {"active", "absent"}
    PROVE  ExecInv(s)'
<1>1. \A i \in listed[s] : where[i] # "absent"
  BY DEF IInv, LocalInv
<1>2. Looping(s)' <=> Looping(s)
  BY DEF Looping
<1>3. ASSUME OthersDone(s) PROVE OthersDone(s)'
  BY <1>3 DEF OthersDone, Active, Planned
<1>4. ASSUME CooledDown(s) PROVE CooledDown(s)'
  BY <1>1, <1>4 DEF CooledDown, Active
<1> QED
  BY <1>2, <1>3, <1>4 DEF ExecInv, Looping, Planned

LEMMA FocusStep ==
    ASSUME IInv, FocusInv, [Next]_vars
    PROVE  FocusInv'
<1>1. IInv' /\ kind' = kind
  <2>1. ASSUME NEW s \in Slots, WriteOwn(s) \/ \E t \in todo[s] : WriteOther(t)
        PROVE  kind' = kind
    BY <2>1 DEF WriteOwn, WriteOther
  <2> QED
    BY <2>1, Inductive, NotionMoves DEF OwnerNext, notion
<1>2. AtMostOneFocus' /\ \A i \in Items : where'[i] = "absent" => ~focus'[i]
  <2>1. CASE UNCHANGED notion
    BY <2>1 DEF notion, FocusInv, AtMostOneFocus, Active, Planned
  <2>2. ASSUME NEW s \in Slots, NEW t \in todo[s], WriteOther(t)
        PROVE  AtMostOneFocus' /\ \A i \in Items : where'[i] = "absent" => ~focus'[i]
    <3>1. /\ where' = where /\ kind' = kind
          /\ \A i \in Items : focus'[i] => focus[i]
      BY <2>2 DEF WriteOther, IInv, TypeOK
    <3> QED
      BY <3>1 DEF FocusInv, AtMostOneFocus, Active, Planned
  <2>3. ASSUME NEW s \in Slots, pc[s] = "own", where[call[s].item] = "active", WriteOwn(s)
        PROVE  AtMostOneFocus' /\ \A i \in Items : where'[i] = "absent" => ~focus'[i]
    <3>1. call[s].item \in Items
      BY <2>3 DEF IInv, LocalInv, Calls
    <3>2. \A i \in Items : where'[i] # "trashed" => where'[i] = where[i]
      BY <2>3, <3>1 DEF WriteOwn, IInv, TypeOK
    <3>3. CASE call[s].action.name = "focus"
      <4>1. todo[s] = {} /\ OthersDone(s)
        BY <2>3, <3>3 DEF IInv, LocalInv, FocusInv, ExecInv, Looping
      <4>2. \A j \in (Planned \cap Active) \ {call[s].item} : ~focus[j]
        BY <4>1 DEF OthersDone
      <4>3. where' = where /\ kind' = kind /\ focus' = [focus EXCEPT ![call[s].item] = TRUE]
        BY <2>3, <3>3 DEF WriteOwn
      <4>4. AtMostOneFocus'
        BY <3>1, <4>2, <4>3 DEF AtMostOneFocus, Active, Planned, IInv, TypeOK
      <4>5. \A i \in Items : where'[i] = "absent" => ~focus'[i]
        BY <2>3, <4>3 DEF FocusInv, IInv, TypeOK
      <4> QED
        BY <4>4, <4>5
    <3>4. CASE call[s].action.name # "focus"
      <4>1. focus' = focus /\ kind' = kind
        BY <2>3, <3>4 DEF WriteOwn
      <4> QED
        BY <3>2, <4>1 DEF FocusInv, AtMostOneFocus, Active, Planned
    <3> QED
      BY <3>3, <3>4
  <2>4. ASSUME UNCHANGED <<kind, focus, snooze>>,
               NEW i \in Items, NEW w \in {"active", "trashed"},
               where[i] = IF w = "active" THEN "absent" ELSE "active",
               where' = [where EXCEPT ![i] = w]
        PROVE  AtMostOneFocus' /\ \A j \in Items : where'[j] = "absent" => ~focus'[j]
    BY <2>4 DEF FocusInv, AtMostOneFocus, Active, Planned, IInv, TypeOK
  <2> QED
    BY <2>1, <2>2, <2>3, <2>4, NotionMoves
<1>3. ASSUME NEW s \in Slots PROVE ExecInv(s)'
  <2>1. ExecInv(s) /\ \A i \in Items : where[i] = "absent" => ~focus[i]
    BY DEF FocusInv
  <2>2. CASE Step(s)
    BY <1>1, <2>1, <2>2, ExecStep
  <2>3. ASSUME NEW r \in Slots, r # s, Step(r) PROVE ExecInv(s)'
    <3>1. CASE pc[s] \in Critical
      BY <2>1, <2>3, <3>1, OthersWait, ExecEnv DEF notion
    <3>2. CASE pc[s] \notin Critical
      <4>1. pc'[s] = pc[s] /\ cooldown'[s] = cooldown[s] /\ listed'[s] = listed[s]
            /\ todo'[s] = todo[s]
        BY <2>3
        DEF Step, AnswerOk, AnswerFails, Acquire, GetStale, GetOnly, GetItem, ReadItem, ListPlanned,
            UpdateOther, UpdateOwn, UpdateOwnStale, CallFails, CallLost, Reply, Return,
            GoTo, local, IInv, TypeOK
      <4>2. ~(cooldown[s] > 0)
        BY <3>2 DEF IInv, LocalInv, Critical
      <4> QED
        BY <1>1, <2>1, <3>2, <4>1, <4>2 DEF ExecInv, Critical, Planned
    <3> QED
      BY <3>1, <3>2
  <2>4. ASSUME NEW r \in Slots, NEW a \in Actions, NEW i \in Items, Press(r, a, i)
        PROVE  ExecInv(s)'
    <3>1. CASE r = s
      BY <1>1, <2>1, <2>4, <3>1 DEF Press, local, ExecInv, Planned, IInv, LocalInv, TypeOK
    <3>2. CASE r # s
      BY <2>1, <2>4, <3>2, ExecEnv DEF Press, local, notion, IInv, TypeOK
    <3> QED
      BY <3>1, <3>2
  <2>5. ASSUME NEW i \in Items, Captured(i) \/ UserTrashes(i) PROVE ExecInv(s)'
    <3>1. \A j \in Items : where'[j] = "active" => where[j] \in {"active", "absent"}
      BY <2>5 DEF Captured, UserTrashes, IInv, TypeOK
    <3>2. UNCHANGED <<kind, focus, snooze, process>>
      BY <2>5 DEF Captured, UserTrashes
    <3> QED
      BY <2>1, <3>1, <3>2, ExecEnv DEF process, local
  <2>6. CASE Midnight \/ UNCHANGED vars
    BY <2>1, <2>6, ExecEnv DEF Midnight, vars, notion, process, local
  <2>7. CASE Crash
    BY <2>7 DEF Crash, ExecInv
  <2> QED
    BY <2>2, <2>3, <2>4, <2>5, <2>6, <2>7 DEF Next
<1> QED
  BY <1>2, <1>3 DEF FocusInv

LEMMA FocusAlways == Spec => [](IInv /\ FocusInv)
<1>1. ASSUME Init PROVE FocusInv
  <2>1. AtMostOneFocus /\ \A i \in Items : where[i] = "absent" => ~focus[i]
    <3>1. PICK f \in (Planned \cap Active) \cup {NoItem} : focus = [i \in Items |-> i = f]
      BY <1>1 DEF Init
    <3>2. \A i \in Items : focus[i] <=> i = f
      BY <3>1
    <3> QED
      BY <3>2, ItemActionsAssumption DEF AtMostOneFocus, Active, Planned
  <2>2. \A s \in Slots : ExecInv(s)
    BY <1>1 DEF Init, ExecInv
  <2> QED
    BY <2>1, <2>2 DEF FocusInv
<1>2. IInv /\ FocusInv /\ [Next]_vars => IInv' /\ FocusInv'
  BY FocusStep, Inductive DEF OwnerNext
<1> QED
  BY <1>1, <1>2, InitIInv, PTL DEF Spec

\* AtMostOneFocus: unless a page is restored from Notion's trash, no interleaving
\* of presses, failures and crashes ever leaves two focused purchases.
THEOREM SoleFocus == Spec => []AtMostOneFocus
<1>1. IInv /\ FocusInv => AtMostOneFocus
  BY DEF FocusInv
<1> QED
  BY <1>1, FocusAlways, PTL

\* CooldownBeforeTrash: the focused purchase is trashed only after every listed
\* purchase that is still active was cooled down and unfocused.
THEOREM CooldownComplete == Spec => []CooldownBeforeTrash
<1>1. ASSUME IInv, FocusInv PROVE CooldownBeforeTrash
  <2> SUFFICES ASSUME NEW s \in Slots, pc[s] = "own", cooldown[s] > 0,
                      NEW j \in (listed[s] \cap Active) \ {call[s].item}
               PROVE  snooze[j] >= cooldown[s] /\ ~focus[j]
    BY DEF CooldownBeforeTrash
  <2>1. todo[s] = {}
    BY <1>1 DEF IInv, LocalInv
  <2>2. OthersDone(s) /\ CooledDown(s) /\ listed[s] \subseteq Planned
    BY <1>1 DEF FocusInv, ExecInv, Looping
  <2> QED
    BY <2>1, <2>2 DEF OthersDone, CooledDown
<1> QED
  BY <1>1, FocusAlways, PTL

\* RetrySafe: a Bought that fails among its updates leaves the purchase focused.
THEOREM BoughtRetrySafe == Spec => []RetrySafe
<1>1. IInv /\ FocusInv => RetrySafe
  BY DEF FocusInv, ExecInv, RetrySafe
<1> QED
  BY <1>1, FocusAlways, PTL

-----------------------------------------------------------------------------
\* A page that was trashed stays in the trash.
LEMMA TrashedStays ==
    ASSUME [Next]_vars, IInv, NEW i \in Items, where[i] = "trashed"
    PROVE  where'[i] = "trashed"
<1>1. CASE UNCHANGED notion
  BY <1>1 DEF notion
<1>2. ASSUME NEW s \in Slots, NEW t \in todo[s], WriteOther(t) PROVE where'[i] = "trashed"
  BY <1>2 DEF WriteOther
<1>3. ASSUME NEW s \in Slots, WriteOwn(s) PROVE where'[i] = "trashed"
  BY <1>3 DEF WriteOwn, IInv, TypeOK
<1>4. ASSUME NEW j \in Items, NEW w \in {"active", "trashed"},
             where[j] = IF w = "active" THEN "absent" ELSE "active",
             where' = [where EXCEPT ![j] = w]
      PROVE  where'[i] = "trashed"
  BY <1>4 DEF IInv, TypeOK
<1> QED
  BY <1>1, <1>2, <1>3, <1>4, NotionMoves

\* NoFalseSuccess: a press answered with Done, Bought or Deleted has moved its page to
\* the trash, whatever failed, was lost or ran beside it.
THEOREM SuccessIsReal == Spec => []NoFalseSuccess
<1>1. Init => NoFalseSuccess
  BY DEF Init, NoFalseSuccess
<1>2. IInv /\ NoFalseSuccess /\ [Next]_vars => NoFalseSuccess'
  <2> SUFFICES ASSUME IInv, NoFalseSuccess, [Next]_vars, NEW s \in Slots,
                      pc'[s] = "reply", result'[s] = "applied",
                      call'[s].action.name \in {"done", "bought", "delete"}
               PROVE  where'[call'[s].item] = "trashed"
    BY DEF NoFalseSuccess
  <2>1. CASE pc[s] = "reply" /\ result[s] = "applied" /\ call'[s] = call[s]
    <3>1. where[call[s].item] = "trashed" /\ call[s].item \in Items
      BY <2>1 DEF NoFalseSuccess, IInv, LocalInv, Calls
    <3> QED
      BY <2>1, <3>1, TrashedStays
  <2>2. CASE UpdateOwn(s)
    <3>1. call'[s] = call[s] /\ WriteOwn(s)
      BY <2>2 DEF UpdateOwn, Return
    <3>2. call[s].item \in Items
      BY <2>2 DEF UpdateOwn, IInv, LocalInv, Calls
    <3> QED
      BY <3>1, <3>2 DEF WriteOwn, IInv, TypeOK
  <2>3. \/ UpdateOwn(s)
        \/ pc[s] = "reply" /\ result[s] = "applied" /\ call'[s] = call[s]
    <3>1. CASE Step(s)
      BY <3>1 DEF Step, AnswerOk, AnswerFails, Acquire, GetStale, GetOnly, GetItem, ReadItem,
         ListPlanned, UpdateOther, UpdateOwnStale, CallFails, CallLost, Reply, Return, GoTo,
         IInv, TypeOK
    <3>2. ASSUME NEW r \in Slots, r # s, Step(r)
          PROVE  pc'[s] = pc[s] /\ result'[s] = result[s] /\ call'[s] = call[s]
      BY <3>2 DEF Step, AnswerOk, AnswerFails, Acquire, GetStale, GetOnly, GetItem, ReadItem,
         ListPlanned, UpdateOther, UpdateOwn, UpdateOwnStale, CallFails, CallLost, Reply,
         Return, GoTo, local, IInv, TypeOK
    <3>3. ASSUME NEW r \in Slots, NEW a \in Actions, NEW i \in Items, Press(r, a, i)
          PROVE  pc'[s] = pc[s] /\ result'[s] = result[s] /\ call'[s] = call[s]
      BY <3>3 DEF Press, IInv, TypeOK
    <3>4. CASE (\E i \in Items : Captured(i) \/ UserTrashes(i)) \/ Midnight \/ UNCHANGED vars
      BY <3>4 DEF Captured, UserTrashes, Midnight, vars, process, local
    <3>5. CASE Crash
      BY <3>5 DEF Crash
    <3> QED
      BY <3>1, <3>2, <3>3, <3>4, <3>5 DEF Next
  <2> QED
    BY <2>1, <2>2, <2>3
<1>3. Spec => []IInv
  BY InitIInv, Inductive, PTL DEF Spec, OwnerNext
<1> QED
  BY <1>1, <1>2, <1>3, PTL DEF Spec

-----------------------------------------------------------------------------
\* The dates a loop has still to write are not before those that are there.
SnoozeLater(s) ==
    /\ \A t \in todo[s] : t.until = 0 \/ snooze[t.item] <= t.until
    /\ \A t, u \in todo[s] : t.item = u.item => t = u

\* Each step of the execution itself keeps that: its updates are of different pages.
LEMMA LaterOwnStep ==
    ASSUME IInv, NEW s \in Slots, SnoozeLater(s), Step(s)
    PROVE  SnoozeLater(s)'
<1>1. CASE AnswerOk(s) \/ AnswerFails(s) \/ Acquire(s) \/ Reply(s) \/ GetItem(s)
  <2>1. UNCHANGED <<todo, snooze>>
    BY <1>1 DEF AnswerOk, AnswerFails, Acquire, Reply, GetItem, ReadItem, GoTo, local, notion
  <2> QED
    BY <2>1 DEF SnoozeLater
<1>2. CASE GetStale(s) \/ GetOnly(s) \/ UpdateOwn(s) \/ UpdateOwnStale(s)
           \/ CallFails(s) \/ CallLost(s)
  <2>1. todo'[s] = {}
    BY <1>2 DEF GetStale, GetOnly, ReadItem, UpdateOwn, UpdateOwnStale, CallFails, CallLost, Return,
       IInv, TypeOK
  <2> QED
    BY <2>1 DEF SnoozeLater
<1>3. CASE ListPlanned(s)
  <2> DEFINE others == (Planned \cap Active) \ {call[s].item}
  <2>1. snooze' = snooze /\ todo'[s] = OthersToUpdate(s)
    BY <1>3 DEF ListPlanned, notion, IInv, TypeOK
  <2>2. \A j \in Items : Later(snooze[j], cooldown[s]) >= snooze[j]
    BY DEF Later, IInv, TypeOK, Dates
  <2>3. CASE cooldown[s] > 0
    <3>1. OthersToUpdate(s) =
            {[item |-> j, until |-> Later(snooze[j], cooldown[s])] : j \in others}
      BY <2>3 DEF OthersToUpdate
    <3>2. others \subseteq Items
      BY DEF Planned
    <3>3. \A t \in OthersToUpdate(s) : snooze[t.item] <= t.until
      <4> SUFFICES ASSUME NEW j \in others
                   PROVE  snooze[j] <= Later(snooze[j], cooldown[s])
        BY <3>1
      <4> QED
        BY <2>2, <3>2 DEF Later, IInv, TypeOK, Dates
    <3>4. \A t, u \in OthersToUpdate(s) : t.item = u.item => t = u
      BY <3>1
    <3> QED
      BY <2>1, <3>3, <3>4 DEF SnoozeLater
  <2>4. CASE ~(cooldown[s] > 0)
    <3>1. OthersToUpdate(s) = {[item |-> j, until |-> 0] : j \in {k \in others : focus[k]}}
      BY <2>4 DEF OthersToUpdate
    <3> QED
      BY <2>1, <3>1 DEF SnoozeLater
  <2> QED
    BY <2>3, <2>4
<1>4. CASE UpdateOther(s)
  <2>1. PICK t \in todo[s] :
          /\ IF where[t.item] = "active" THEN WriteOther(t) ELSE UNCHANGED notion
          /\ todo' = [todo EXCEPT ![s] = @ \ {t}]
    BY <1>4 DEF UpdateOther
  <2>2. todo'[s] = todo[s] \ {t}
    BY <2>1 DEF IInv, TypeOK
  <2>3. \A j \in Items \ {t.item} : snooze'[j] = snooze[j]
    BY <2>1 DEF WriteOther, notion, IInv, TypeOK
  <2>4. \A u \in todo'[s] : u.item \in Items \ {t.item}
    BY <2>2 DEF SnoozeLater, IInv, TypeOK, Update
  <2> QED
    BY <2>2, <2>3, <2>4 DEF SnoozeLater
<1> QED
  BY <1>1, <1>2, <1>3, <1>4 DEF Step

LEMMA LaterStep ==
    ASSUME IInv, [Next]_vars, NEW s \in Slots, SnoozeLater(s)
    PROVE  SnoozeLater(s)'
<1>1. CASE Step(s)
  BY <1>1, LaterOwnStep
<1>2. ASSUME NEW r \in Slots, r # s, Step(r) PROVE SnoozeLater(s)'
  <2>1. CASE pc[s] \in Critical
    <3>1. snooze' = snooze /\ todo'[s] = todo[s]
      BY <1>2, <2>1, OthersWait DEF notion
    <3> QED
      BY <3>1 DEF SnoozeLater
  <2>2. CASE pc[s] \notin Critical
    <3>1. todo'[s] = todo[s]
      BY <1>2
      DEF Step, AnswerOk, AnswerFails, Acquire, GetStale, GetOnly, GetItem, ReadItem, ListPlanned,
          UpdateOther, UpdateOwn, UpdateOwnStale, CallFails, CallLost, Reply, Return,
          GoTo, local, IInv, TypeOK
    <3>2. todo[s] = {}
      BY <2>2 DEF IInv, LocalInv, Critical
    <3> QED
      BY <3>1, <3>2 DEF SnoozeLater
  <2> QED
    BY <2>1, <2>2
<1>3. ASSUME \/ \E r \in Slots, a \in Actions, i \in Items : Press(r, a, i)
             \/ \E i \in Items : Captured(i) \/ UserTrashes(i)
             \/ Midnight \/ UNCHANGED vars
      PROVE  SnoozeLater(s)'
  <2>1. UNCHANGED <<snooze, todo>>
    BY <1>3 DEF Press, Captured, UserTrashes, Midnight, vars, process, local, notion
  <2> QED
    BY <2>1 DEF SnoozeLater
<1>4. CASE Crash
  BY <1>4 DEF Crash, SnoozeLater
<1> QED
  BY <1>1, <1>2, <1>3, <1>4 DEF Next

\* CooldownNeverShortens: no Bought, whatever it overlaps with and wherever it fails,
\* wakes a purchase sooner than it would have woken; only its own buttons do.
THEOREM NeverSooner == Spec => CooldownNeverShortens
<1> DEFINE LaterInv == \A s \in Slots : SnoozeLater(s)
           Kept == \A i \in Items : snooze'[i] < snooze[i] =>
                      \E s \in Slots : /\ pc[s] = "own" /\ call[s].item = i
                                       /\ call[s].action.name \in {"keep", "snooze"}
<1>1. Init => LaterInv
  BY DEF Init, SnoozeLater
<1>2. IInv /\ LaterInv /\ [Next]_vars => LaterInv'
  BY LaterStep
<1>3. ASSUME IInv, LaterInv, [Next]_vars PROVE Kept
  <2> SUFFICES ASSUME NEW i \in Items, snooze'[i] < snooze[i]
               PROVE  \E s \in Slots : /\ pc[s] = "own" /\ call[s].item = i
                                       /\ call[s].action.name \in {"keep", "snooze"}
    OBVIOUS
  <2>0. snooze \in [Items -> Nat]
    BY <1>3 DEF IInv, TypeOK, Dates
  <2>1. CASE UNCHANGED snooze
    BY <2>0, <2>1
  <2>2. ASSUME NEW s \in Slots, NEW t \in todo[s], WriteOther(t) PROVE FALSE
    <3>1. snooze' = [snooze EXCEPT ![t.item] = IF t.until = 0 THEN @ ELSE t.until]
      BY <2>2 DEF WriteOther
    <3>2. t.until = 0 \/ snooze[t.item] <= t.until
      BY <1>3, <2>2 DEF SnoozeLater
    <3>3. t.item \in Items /\ t.until \in Nat
      BY <1>3, <2>2 DEF IInv, TypeOK, Update, Dates
    <3> QED
      BY <2>0, <3>1, <3>2, <3>3
  <2>3. ASSUME NEW s \in Slots, pc[s] = "own", WriteOwn(s)
        PROVE  call[s].item = i /\ call[s].action.name \in {"keep", "snooze"}
    <3>1. CASE call[s].action.name \in {"keep", "snooze"}
      <4>1. \A j \in Items : j # call[s].item => snooze'[j] = snooze[j]
        BY <2>0, <2>3, <3>1 DEF WriteOwn
      <4> QED
        BY <2>0, <3>1, <4>1
    <3>2. CASE call[s].action.name \notin {"keep", "snooze"}
      <4>1. snooze' = snooze
        BY <2>3, <3>2 DEF WriteOwn
      <4> QED
        BY <2>0, <4>1
    <3> QED
      BY <3>1, <3>2
  <2> QED
    BY <1>3, <2>1, <2>2, <2>3, NotionMoves DEF notion
<1>4. IInv /\ LaterInv /\ [Next]_vars => [Kept]_vars
  BY <1>3
<1>5. Spec => [](IInv /\ LaterInv)
  BY <1>1, <1>2, InitIInv, Inductive, PTL DEF Spec, OwnerNext
<1>6. Spec => [][Kept]_vars
  BY <1>4, <1>5, PTL DEF Spec
<1> QED
  BY <1>6 DEF CooldownNeverShortens

(***************************************************************************)
(* The keyboards and the service agree.                                    *)
(***************************************************************************)
\* The service accepts a of an item of kind k, or this is the one exception.
Accepted(a, k) ==
    \/ a.name = "menu"
    \/ Available(a, k)
    \/ a.name = "done" /\ k = "shoppingTask"

Offers == \A m \in Messages : \A b \in offered[m] : Accepted(b.action, b.of)

\* A press in a slot is of a button of its message.
Asked ==
    \A s \in Slots : pc[s] # "idle" =>
        /\ tapped[s].action.name = call[s].action.name
        /\ Accepted(call[s].action, tapped[s].of)
        /\ origin[s] \in Messages /\ ItemOf[origin[s]] = call[s].item

\* Replies have a result, and all that show the item have read it.
Answered ==
    \A s \in Slots :
        /\ pc[s] = "reply" <=> result[s] # "none"
        /\ result[s] \in {"applied", "display", "unavailable"} => read[s] \in Kinds

ChatInv ==
    /\ IInv
    /\ Answered
    /\ offered \in [Messages -> SUBSET Buttons]
    /\ origin \in [Slots -> Messages \cup {NoMessage}]
    /\ tapped \in [Slots -> Buttons \cup {NoButton}]
    /\ Offers
    /\ Asked
    /\ RefusedOnlyIfEdited

-----------------------------------------------------------------------------
\* action_keyboard offers nothing that the service refuses for the same kind, with the
\* one exception.
LEMMA KeyboardAccepted ==
    ASSUME NEW k \in Kinds
    PROVE  /\ ActionKeyboard(k) \subseteq Buttons
           /\ \A b \in ActionKeyboard(k) : Accepted(b.action, b.of)
<1> DEFINE Names == {"done", "bought", "delete", "keep", "menu", "focus"}
<1>1. ASSUME NEW names \in SUBSET Names, NEW b \in Plain(names, k)
      PROVE  b \in Buttons /\ b.action.name \in names /\ b.of = k
  <2>1. b \in [action : {[name |-> n, days |-> 0] : n \in names}, back : {FALSE}, of : {k}]
    BY Zenon DEF Plain
  <2>2. b.action \in {[name |-> n, days |-> 0] : n \in names} /\ b.back = FALSE /\ b.of = k
    BY <2>1
  <2>3. PICK n \in names : b.action = [name |-> n, days |-> 0]
    BY <2>2, Zenon
  <2>4. b.action \in Actions /\ b.action.name \in names
    BY <2>3 DEF Actions
  <2>5. b \in [action : Actions, back : BOOLEAN, of : Kinds]
    BY <2>1, <2>2, <2>4
  <2> QED
    BY <2>2, <2>4, <2>5, Zenon DEF Buttons
<1>2. \E names \in SUBSET Names :
          /\ ActionKeyboard(k) = Plain(names, k)
          /\ "done" \in names => k \in {"task", "shoppingTask"}
          /\ "bought" \in names => k \in {"routine", "planned"}
          /\ "focus" \in names => k = "planned"
  <2>1. CASE k = "planned"
    <3> WITNESS {"focus", "bought", "keep", "delete"} \in SUBSET Names
    <3> QED
      BY <2>1 DEF ActionKeyboard
  <2>2. CASE k = "routine"
    <3> WITNESS {"bought", "menu", "delete"} \in SUBSET Names
    <3> QED
      BY <2>2 DEF ActionKeyboard
  <2>3. CASE k \in {"task", "shoppingTask"}
    <3> WITNESS {"done", "menu", "keep", "delete"} \in SUBSET Names
    <3> QED
      BY <2>3 DEF ActionKeyboard
  <2>4. CASE k = "thought"
    <3> WITNESS {"keep", "delete"} \in SUBSET Names
    <3> QED
      BY <2>4 DEF ActionKeyboard
  <2>5. CASE k = "reference"
    <3> WITNESS {"delete"} \in SUBSET Names
    <3> QED
      BY <2>5 DEF ActionKeyboard
  <2> QED
    BY <2>1, <2>2, <2>3, <2>4, <2>5 DEF Kinds
<1> QED
  BY <1>1, <1>2 DEF Accepted, Available

LEMMA SnoozeAccepted ==
    ASSUME NEW k \in Kinds
    PROVE  /\ SnoozeKeyboard(k) \subseteq Buttons
           /\ \A b \in SnoozeKeyboard(k) : Accepted(b.action, b.of)
<1>1. ASSUME NEW b \in [action : [name : {"snooze"}, days : SnoozeDays], back : {FALSE},
                        of : {k}]
      PROVE  b \in Buttons /\ Accepted(b.action, b.of)
  <2>1. /\ b = [action |-> b.action, back |-> FALSE, of |-> k]
        /\ b.action \in [name : {"snooze"}, days : SnoozeDays]
    OBVIOUS
  <2>2. b.action \in Actions /\ b.action.name = "snooze"
    BY <2>1 DEF Actions
  <2> QED
    BY <2>1, <2>2 DEF Buttons, Accepted, Available
<1>2. Back(k) \in Buttons /\ Accepted(Back(k).action, Back(k).of)
  BY DEF Buttons, Back, Accepted, Actions
<1> QED
  BY <1>1, <1>2 DEF SnoozeKeyboard

\* And so does every edit of a message.
LEMMA AfterAccepted ==
    ASSUME ChatInv, NEW s \in Slots, pc[s] = "reply", result[s] # "failed"
    PROVE  /\ KeyboardAfter(s) \subseteq Buttons
           /\ \A b \in KeyboardAfter(s) : Accepted(b.action, b.of)
<1>1. result[s] \in {"applied", "display", "stale", "unavailable"}
  BY DEF ChatInv, Answered, IInv, TypeOK
<1>2. CASE result[s] = "stale"
  BY <1>2 DEF KeyboardAfter
<1>3. CASE result[s] # "stale"
  <2>1. read[s] \in Kinds
    BY <1>1, <1>3 DEF ChatInv, Answered
  <2>2. tapped[s].back \/ ~tapped[s].back
    OBVIOUS
  <2>3. KeyboardAfter(s) \in {{}, ActionKeyboard(read[s]), SnoozeKeyboard(read[s])}
    BY <1>1, <2>2 DEF KeyboardAfter
  <2> QED
    BY <2>1, <2>3, KeyboardAccepted, SnoozeAccepted
<1> QED
  BY <1>2, <1>3

\* An edit keeps what is offered acceptable.
LEMMA ShowsKeeps ==
    ASSUME ChatInv, NEW m \in Messages, NEW keyboard \in SUBSET Buttons,
           \A b \in keyboard : Accepted(b.action, b.of),
           Shows(m, keyboard)
    PROVE  offered' \in [Messages -> SUBSET Buttons] /\ Offers'
BY DEF Shows, ChatInv, Offers

-----------------------------------------------------------------------------
LEMMA ChatInitInv == ASSUME ChatInit PROVE ChatInv
<1>1. IInv
  BY InitIInv DEF ChatInit
<1>2. \A m \in Messages : kind[ItemOf[m]] \in Kinds
  BY <1>1, ItemChatAssumption DEF IInv, TypeOK
<1>3. /\ offered \in [Messages -> SUBSET Buttons]
      /\ \A m \in Messages : offered[m] \in {{}, ActionKeyboard(kind[ItemOf[m]])}
  <2>1. offered = [m \in Messages |-> IF where[ItemOf[m]] = "active"
                                      THEN ActionKeyboard(kind[ItemOf[m]]) ELSE {}]
    BY DEF ChatInit
  <2>2. \A m \in Messages : ActionKeyboard(kind[ItemOf[m]]) \in SUBSET Buttons
    BY <1>2, KeyboardAccepted
  <2> QED
    BY <2>1, <2>2
<1>4. Offers
  BY <1>2, <1>3, KeyboardAccepted DEF Offers
<1>5. Asked /\ RefusedOnlyIfEdited /\ Answered
  <2>1. \A s \in Slots : pc[s] = "idle" /\ result[s] = "none"
    BY DEF ChatInit, Init
  <2> QED
    BY <2>1 DEF Asked, RefusedOnlyIfEdited, Answered
<1>6. /\ origin \in [Slots -> Messages \cup {NoMessage}]
      /\ tapped \in [Slots -> Buttons \cup {NoButton}]
  BY DEF ChatInit
<1> QED
  BY <1>1, <1>3, <1>4, <1>5, <1>6 DEF ChatInv

\* A press asks for the button it is of.
LEMMA TapKeeps ==
    ASSUME ChatInv, NEW s \in Slots, NEW m \in Messages, NEW b \in offered[m], Tap(s, m, b)
    PROVE  ChatInv'
<1>1. b \in Buttons /\ b.action \in Actions /\ Accepted(b.action, b.of)
  BY DEF ChatInv, Offers, Buttons
<1>2. ItemOf[m] \in Items
  BY ItemChatAssumption
<1>3. IInv'
  <2>1. [OwnerNext]_vars
    BY <1>1, <1>2 DEF Tap, OwnerNext, Next
  <2> QED
    BY <2>1, Inductive DEF ChatInv
<1>4. /\ offered' = offered /\ pc[s] = "idle"
      /\ pc' = [pc EXCEPT ![s] = "answer"] /\ result' = result /\ read' = read
      /\ call' = [call EXCEPT ![s] = [action |-> b.action, item |-> ItemOf[m], on |-> 0]]
      /\ origin' = [origin EXCEPT ![s] = m]
      /\ tapped' = [tapped EXCEPT ![s] = b]
  BY DEF Tap, Press
<1>5. Offers' /\ Answered'
  BY <1>4 DEF ChatInv, Offers, Answered, IInv, TypeOK
<1>6. Asked'
  BY <1>1, <1>4 DEF ChatInv, Asked, IInv, TypeOK
<1>7. RefusedOnlyIfEdited'
  <2>1. result[s] # "unavailable"
    BY <1>4 DEF ChatInv, Answered
  <2> QED
    BY <1>4, <2>1 DEF ChatInv, RefusedOnlyIfEdited, IInv, TypeOK
<1> QED
  BY <1>1, <1>3, <1>4, <1>5, <1>6, <1>7 DEF ChatInv

\* A press never changes its call, except for the date, and what it read stays read.
LEMMA WorkKeeps ==
    ASSUME ChatInv, NEW s \in Slots, Work(s)
    PROVE  ChatInv'
<1>1. IInv'
  <2>1. [OwnerNext]_vars
    BY DEF Work, OwnerNext, Next
  <2> QED
    BY <2>1, Inductive DEF ChatInv
<1>2. UNCHANGED <<offered, origin, tapped>>
  BY DEF Work, chat
<1>3. \A r \in Slots : pc'[r] # "idle" =>
        /\ pc[r] # "idle"
        /\ call'[r].action = call[r].action /\ call'[r].item = call[r].item
  <2>1. CASE AnswerOk(s)
    <3>1. call[s] \in Calls
      BY <2>1 DEF AnswerOk, ChatInv, IInv, LocalInv
    <3> QED
      BY <2>1, <3>1 DEF AnswerOk, ChatInv, IInv, TypeOK, Calls
  <2>2. CASE AnswerFails(s)
    BY <2>2 DEF AnswerFails, ChatInv, IInv, TypeOK
  <2>3. CASE ~AnswerOk(s) /\ ~AnswerFails(s)
    <3>1. call' = call /\ \E place \in PCs : pc' = [pc EXCEPT ![s] = place]
      BY <2>3 DEF Work, Step, Acquire, GetStale, GetOnly, GetItem, ReadItem,
         ListPlanned, UpdateOther, UpdateOwn, UpdateOwnStale, CallFails, CallLost, Reply, Return, GoTo, PCs, Critical
    <3>2. pc[s] # "idle"
      BY <2>3 DEF Work, Step, Acquire, GetStale, GetOnly, GetItem, ReadItem,
         ListPlanned, UpdateOther, UpdateOwn, UpdateOwnStale, CallFails, CallLost, LostWrite, Reply, Critical
    <3> QED
      BY <3>1, <3>2 DEF ChatInv, IInv, TypeOK
  <2> QED
    BY <2>1, <2>2, <2>3
<1>4. RefusedOnlyIfEdited'
  <2>1. CASE GetOnly(s) /\ ~Available(call[s].action, kind[call[s].item])
               /\ call[s].action.name # "menu"
    <3>1. /\ pc[s] # "idle" /\ call' = call
          /\ read' = [read EXCEPT ![s] = kind[call[s].item]]
          /\ \A r \in Slots \ {s} : result'[r] = result[r]
      BY <2>1 DEF GetOnly, ReadItem, Return, ChatInv, IInv, TypeOK
    <3>2. tapped[s].of = read'[s] => read'[s] = "shoppingTask" /\ call[s].action.name = "done"
      BY <2>1, <3>1 DEF Accepted, ChatInv, Asked, IInv, TypeOK
    <3> QED
      BY <1>2, <3>1, <3>2 DEF ChatInv, RefusedOnlyIfEdited, IInv, TypeOK
  <2>2. CASE ~(GetOnly(s) /\ ~Available(call[s].action, kind[call[s].item])
                 /\ call[s].action.name # "menu")
    <3>1. /\ result'[s] # "unavailable"
          /\ \A r \in Slots \ {s} : /\ result'[r] = result[r] /\ read'[r] = read[r]
                                    /\ call'[r] = call[r]
      BY <2>2 DEF Work, Step, AnswerOk, AnswerFails, Acquire, GetStale, GetOnly, GetItem,
         ReadItem, ListPlanned, UpdateOther, UpdateOwn, UpdateOwnStale, CallFails, CallLost,
         Reply, Return, GoTo, Available, ChatInv, Answered, IInv, TypeOK
    <3> QED
      BY <1>2, <3>1 DEF ChatInv, RefusedOnlyIfEdited
  <2> QED
    BY <2>1, <2>2
<1>5. Offers' /\ Asked'
  BY <1>2, <1>3 DEF ChatInv, Offers, Asked, Accepted, Available
<1>6. Answered'
  <2>1. \A r \in Slots \ {s} : pc'[r] = pc[r] /\ result'[r] = result[r] /\ read'[r] = read[r]
    BY DEF Work, Step, AnswerOk, AnswerFails, Acquire, GetStale, GetOnly, GetItem, ReadItem,
       ListPlanned, UpdateOther, UpdateOwn, UpdateOwnStale, CallFails, CallLost, Reply, Return,
       GoTo, ChatInv, IInv, TypeOK
  <2>2. \/ pc'[s] # "reply" /\ result'[s] = "none"
        \/ pc'[s] = "reply" /\ result'[s] \in {"stale", "failed"}
        \/ pc'[s] = "reply" /\ result'[s] = "applied" /\ pc[s] = "own" /\ read'[s] = read[s]
        \/ pc'[s] = "reply" /\ GetOnly(s)
    BY DEF Work, Step, AnswerOk, AnswerFails, Acquire, GetStale, GetOnly, GetItem, ReadItem,
       ListPlanned, UpdateOther, UpdateOwn, UpdateOwnStale, CallFails, CallLost, Reply, Return,
       GoTo, ChatInv, Answered, IInv, TypeOK, Critical
  <2>3. GetOnly(s) => read'[s] \in Kinds /\ result'[s] \in {"display", "unavailable"}
    BY DEF GetOnly, ReadItem, Return, ChatInv, IInv, TypeOK, LocalInv, Calls
  <2>4. pc[s] = "own" => read[s] \in Kinds
    BY DEF ChatInv, IInv, LocalInv
  <2>5. ASSUME NEW r \in Slots
        PROVE  /\ pc'[r] = "reply" <=> result'[r] # "none"
               /\ result'[r] \in {"applied", "display", "unavailable"} => read'[r] \in Kinds
    <3>1. CASE r = s
      BY <2>2, <2>3, <2>4, <3>1
    <3>2. CASE r # s
      BY <2>1, <2>5, <3>2 DEF ChatInv, Answered
    <3> QED
      BY <3>1, <3>2
  <2> QED
    BY <2>5 DEF Answered
<1> QED
  BY <1>1, <1>2, <1>4, <1>5, <1>6 DEF ChatInv

\* What a reply does to the slot and to the messages, confirmed or not.
LEMMA ReplyKeeps ==
    ASSUME ChatInv, NEW s \in Slots, EditOrNotice(s)
    PROVE  ChatInv'
<1>1. IInv'
  <2>1. [OwnerNext]_vars
    BY DEF EditOrNotice, OwnerNext, Next, Step
  <2> QED
    BY <2>1, Inductive DEF ChatInv
<1>2. /\ pc[s] = "reply" /\ pc' = [pc EXCEPT ![s] = "idle"]
      /\ result' = [result EXCEPT ![s] = "none"]
      /\ call' = [call EXCEPT ![s] = NoCall]
      /\ read' = [read EXCEPT ![s] = "none"]
      /\ origin' = [origin EXCEPT ![s] = NoMessage]
      /\ tapped' = [tapped EXCEPT ![s] = NoButton]
  BY DEF EditOrNotice, Reply
<1>3. offered' \in [Messages -> SUBSET Buttons] /\ Offers'
  <2>1. CASE UNCHANGED offered
    BY <2>1 DEF ChatInv, Offers
  <2>2. CASE result[s] # "failed" /\ Shows(origin[s], KeyboardAfter(s))
    <3>1. origin[s] \in Messages /\ ItemOf[origin[s]] = call[s].item
      BY <1>2 DEF ChatInv, Asked
    <3>2. /\ KeyboardAfter(s) \subseteq Buttons
          /\ \A b \in KeyboardAfter(s) : Accepted(b.action, b.of)
      BY <1>2, <2>2, AfterAccepted
    <3> QED
      BY <2>2, <3>1, <3>2, ShowsKeeps
  <2> QED
    BY <2>1, <2>2 DEF EditOrNotice
<1>4. Asked' /\ RefusedOnlyIfEdited' /\ Answered'
  BY <1>2 DEF ChatInv, Asked, RefusedOnlyIfEdited, Answered, IInv, TypeOK
<1>5. /\ origin' \in [Slots -> Messages \cup {NoMessage}]
      /\ tapped' \in [Slots -> Buttons \cup {NoButton}]
  BY <1>2 DEF ChatInv
<1> QED
  BY <1>1, <1>3, <1>4, <1>5 DEF ChatInv

\* Messages sent later, what happens elsewhere, and a crash.
LEMMA OthersKeep ==
    ASSUME ChatInv, (\E m \in Messages : Sent(m)) \/ Elsewhere \/ ChatCrash \/ UNCHANGED chatVars
    PROVE  ChatInv'
<1>1. IInv'
  <2>1. [OwnerNext]_vars
    BY DEF Sent, Elsewhere, ChatCrash, chatVars, OwnerNext, Next
  <2> QED
    BY <2>1, Inductive DEF ChatInv
<1>2. ASSUME NEW m \in Messages, Sent(m) PROVE ChatInv'
  <2>1. kind[ItemOf[m]] \in Kinds
    BY ItemChatAssumption DEF ChatInv, IInv, TypeOK
  <2>2. offered' \in [Messages -> SUBSET Buttons] /\ Offers'
    BY <1>2, <2>1, KeyboardAccepted, ShowsKeeps DEF Sent
  <2>3. UNCHANGED <<pc, call, read, result, origin, tapped>>
    BY <1>2 DEF Sent, vars, process
  <2> QED
    BY <1>1, <2>2, <2>3 DEF ChatInv, Asked, Accepted, Available, Answered, RefusedOnlyIfEdited
<1>3. ASSUME Elsewhere \/ UNCHANGED chatVars PROVE ChatInv'
  <2>1. UNCHANGED <<pc, call, read, result, origin, tapped, offered>>
    BY <1>3 DEF Elsewhere, Captured, UserTrashes, UserRestores, UserEdits, Midnight, chat,
                chatVars, vars, process
  <2> QED
    BY <1>1, <2>1
    DEF ChatInv, Offers, Asked, Accepted, Available, Answered, RefusedOnlyIfEdited
<1>4. ASSUME ChatCrash PROVE ChatInv'
  <2>1. offered' \in [Messages -> SUBSET Buttons] /\ Offers'
    <3>1. CASE UNCHANGED offered
      BY <3>1 DEF ChatInv, Offers
    <3>2. ASSUME NEW s \in Slots, pc[s] = "reply", result[s] # "failed",
                 Shows(origin[s], KeyboardAfter(s))
          PROVE  offered' \in [Messages -> SUBSET Buttons] /\ Offers'
      <4>1. origin[s] \in Messages /\ ItemOf[origin[s]] = call[s].item
        BY <3>2 DEF ChatInv, Asked
      <4>2. /\ KeyboardAfter(s) \subseteq Buttons
            /\ \A b \in KeyboardAfter(s) : Accepted(b.action, b.of)
        BY <3>2, AfterAccepted
      <4> QED
        BY <3>2, <4>1, <4>2, ShowsKeeps
    <3> QED
      BY <1>4, <3>1, <3>2 DEF ChatCrash
  <2>2. /\ \A s \in Slots : pc'[s] = "idle" /\ result'[s] = "none"
        /\ origin' \in [Slots -> Messages \cup {NoMessage}]
        /\ tapped' \in [Slots -> Buttons \cup {NoButton}]
    BY <1>4 DEF ChatCrash, Crash
  <2> QED
    BY <1>1, <2>1, <2>2 DEF ChatInv, Asked, Answered, RefusedOnlyIfEdited
<1> QED
  BY <1>2, <1>3, <1>4

LEMMA ChatInductive == ChatInv /\ [ChatNext]_chatVars => ChatInv'
<1> SUFFICES ASSUME ChatInv, [ChatNext]_chatVars PROVE ChatInv'
  OBVIOUS
<1>1. CASE \E m \in Messages, s \in Slots : \E b \in offered[m] : Tap(s, m, b)
  BY <1>1, TapKeeps
<1>2. CASE \E s \in Slots : Work(s)
  BY <1>2, WorkKeeps
<1>3. CASE \E s \in Slots : EditOrNotice(s)
  BY <1>3, ReplyKeeps
<1>4. CASE (\E m \in Messages : Sent(m)) \/ Elsewhere \/ ChatCrash \/ UNCHANGED chatVars
  BY <1>4, OthersKeep
<1> QED
  BY <1>1, <1>2, <1>3, <1>4 DEF ChatNext

LEMMA ChatInvAlways == ChatSpec => []ChatInv
BY ChatInitInv, ChatInductive, PTL DEF ChatSpec

\* A step of a message, a press or a reply is one of ItemActions, or changes nothing there.
LEMMA ChatActs ==
    ASSUME ChatInv, [ChatNext]_chatVars
    PROVE  [OwnerNext]_vars
<1>1. ASSUME NEW s \in Slots, NEW m \in Messages, NEW b \in offered[m], Tap(s, m, b)
      PROVE  Next
  <2>1. ItemOf[m] \in Items
    BY ItemChatAssumption
  <2>2. b.action \in Actions
    BY DEF ChatInv, Buttons
  <2> QED
    BY <1>1, <2>1, <2>2 DEF Tap, Next
<1>2. ASSUME NEW s \in Slots, Work(s) \/ EditOrNotice(s) PROVE Next
  BY <1>2 DEF Work, EditOrNotice, Step, Next
<1>3. ASSUME Elsewhere \/ ChatCrash PROVE OwnerNext
  BY <1>3 DEF Elsewhere, ChatCrash, Next, OwnerNext
<1>4. ASSUME (\E m \in Messages : Sent(m)) \/ UNCHANGED chatVars PROVE UNCHANGED vars
  BY <1>4 DEF Sent, chatVars
<1> QED
  BY <1>1, <1>2, <1>3, <1>4 DEF ChatNext, OwnerNext

\* Pressed through the messages of the chat, the service does what ItemActions says; so
\* while nobody restores or edits a page what is proved of Spec holds: one focus, whole
\* cooldowns, no false success.
THEOREM ChatIsActions ==
    /\ ChatSpec => OwnerSpec
    /\ MaxRestores = 0 /\ MaxEdits = 0 => (ChatSpec => Spec)
<1>1. ChatInit => Init
  BY DEF ChatInit
<1>2. ChatSpec => OwnerSpec
  BY <1>1, ChatActs, ChatInvAlways, PTL DEF ChatSpec, OwnerSpec
<1>3. ASSUME MaxRestores = 0, MaxEdits = 0 PROVE ChatSpec => Spec
  <2>1. ChatInv /\ [ChatNext]_chatVars => [Next]_vars
    <3> SUFFICES ASSUME ChatInv, [OwnerNext]_vars PROVE [Next]_vars
      BY ChatActs
    <3>1. ASSUME NEW i \in Items, UserRestores(i) PROVE FALSE
      BY <1>3, <3>1 DEF UserRestores, ChatInv, IInv, TypeOK
    <3>2. ASSUME NEW i \in Items, NEW k \in EditedKinds, UserEdits(i, k) PROVE FALSE
      BY <1>3, <3>2 DEF UserEdits, ChatInv, IInv, TypeOK
    <3> QED
      BY <3>1, <3>2 DEF OwnerNext
  <2> QED
    BY <1>1, <2>1, ChatInvAlways, PTL DEF ChatSpec, Spec
<1> QED
  BY <1>2, <1>3

\* RefusedOnlyIfEdited: for the same kind of item the keyboards of the views and the
\* checks of the service agree, so that a press of a button, late, repeated or
\* overlapping, is "unavailable" only to an item edited since, or to the one Done that
\* the views offer and the service refuses.
THEOREM RefusedOnlyOnceEdited == ChatSpec => []RefusedOnlyIfEdited
<1>1. ChatInv => RefusedOnlyIfEdited
  BY DEF ChatInv
<1> QED
  BY <1>1, ChatInvAlways, PTL

-----------------------------------------------------------------------------
\* The answer of s takes the keyboard away.
Leaves(s) ==
    \/ result[s] = "stale"
    \/ result[s] = "applied" /\ call[s].action.name \in {"done", "bought", "delete"}

\* Messages and presses are of items that exist, and without restorations an answer
\* that takes the keyboard away is of an item in the trash.
ButtonsInv ==
    /\ buttons \in [Messages -> SUBSET Buttons]
    /\ \A m \in Messages : offered[m] # {} => where[ItemOf[m]] # "absent"
    /\ \A s \in Slots : pc[s] # "idle" => where[call[s].item] # "absent"
    /\ restores = 0 =>
         \A s \in Slots : pc[s] = "reply" /\ Leaves(s) => where[call[s].item] = "trashed"
    /\ ButtonsWhileActive

\* The keyboards have buttons, whatever the kind of the item.
LEMMA KeyboardsShown ==
    ASSUME NEW k \in Kinds
    PROVE  ActionKeyboard(k) # {} /\ SnoozeKeyboard(k) # {}
<1>1. ActionKeyboard(k) # {}
  <2>1. \A names : "delete" \in names =>
          [action |-> [name |-> "delete", days |-> 0], back |-> FALSE, of |-> k]
            \in Plain(names, k)
    BY DEF Plain
  <2>2. \E names : "delete" \in names /\ ActionKeyboard(k) = Plain(names, k)
    BY DEF ActionKeyboard, Kinds
  <2> QED
    BY <2>1, <2>2
<1>2. Back(k) \in SnoozeKeyboard(k)
  BY DEF SnoozeKeyboard
<1> QED
  BY <1>1, <1>2

\* An edit takes the keyboard away only with its item.
LEMMA AfterShown ==
    ASSUME ChatInv, NEW s \in Slots, pc[s] = "reply", result[s] # "failed", ~Leaves(s)
    PROVE  KeyboardAfter(s) # {}
<1>1. result[s] \in {"applied", "display", "unavailable"} /\ read[s] \in Kinds
  BY DEF ChatInv, Answered, IInv, TypeOK, Leaves
<1>2. tapped[s].back \/ ~tapped[s].back
  OBVIOUS
<1>3. KeyboardAfter(s) \in {ActionKeyboard(read[s]), SnoozeKeyboard(read[s])}
  BY <1>1, <1>2 DEF KeyboardAfter, Leaves
<1> QED
  BY <1>1, <1>3, KeyboardsShown

-----------------------------------------------------------------------------
\* No step of the chat takes an item out of existence.
LEMMA StaysPresent ==
    ASSUME IInv, [OwnerNext]_vars, NEW i \in Items, where[i] # "absent"
    PROVE  where'[i] # "absent"
<1>1. CASE UNCHANGED notion
  BY <1>1 DEF notion
<1>2. ASSUME NEW s \in Slots, NEW t \in todo[s], WriteOther(t) PROVE where'[i] # "absent"
  BY <1>2 DEF WriteOther
<1>3. ASSUME NEW s \in Slots, WriteOwn(s) PROVE where'[i] # "absent"
  BY <1>3 DEF WriteOwn, IInv, TypeOK
<1>4. ASSUME NEW j \in Items, NEW w \in {"active", "trashed"}, where' = [where EXCEPT ![j] = w]
      PROVE  where'[i] # "absent"
  BY <1>4 DEF IInv, TypeOK
<1>5. ASSUME NEW j \in Items, UserRestores(j) PROVE where'[i] # "absent"
  BY <1>4, <1>5 DEF UserRestores
<1>6. ASSUME NEW j \in Items, NEW k \in EditedKinds, UserEdits(j, k) PROVE where'[i] # "absent"
  BY <1>6 DEF UserEdits
<1> QED
  BY <1>1, <1>2, <1>3, <1>4, <1>5, <1>6, NotionMoves DEF OwnerNext

\* Until a page is restored a page in the trash stays there.
LEMMA TrashedUntilRestored ==
    ASSUME IInv, [OwnerNext]_vars, restores' = 0
    PROVE  /\ restores = 0
           /\ \A i \in Items : where[i] = "trashed" => where'[i] = "trashed"
<1>1. ASSUME NEW i \in Items, UserRestores(i) PROVE FALSE
  <2>1. restores \in Nat /\ restores' = restores + 1
    BY <1>1, ItemActionsAssumption DEF UserRestores, IInv, TypeOK
  <2> QED
    BY <2>1
<1>2. ASSUME NEW i \in Items, NEW k \in EditedKinds, UserEdits(i, k)
      PROVE  restores' = restores /\ where' = where
  <2> QED
    BY <1>2 DEF UserEdits
<1>3. CASE [Next]_vars
  <2>1. \A i \in Items : where[i] = "trashed" => where'[i] = "trashed"
    BY <1>3, TrashedStays
  <2>2. ASSUME NEW s \in Slots, Step(s) PROVE restores' = restores
    BY <2>2 DEF Step, AnswerOk, AnswerFails, Acquire, GetStale, GetOnly, GetItem, ReadItem,
       ListPlanned, UpdateOther, UpdateOwn, UpdateOwnStale, CallFails, CallLost, Reply, Return,
       GoTo, bounds
  <2>3. restores' = restores
    BY <1>3, <2>2 DEF Next, Press, Captured, UserTrashes, Midnight, Crash, bounds, vars
  <2> QED
    BY <2>1, <2>3
<1> QED
  BY <1>1, <1>2, <1>3 DEF OwnerNext

\* What a step does to a message: nothing, its first keyboard, or the edit of an answer.
LEMMA MessageMoves ==
    ASSUME ChatInv, ButtonsInv, [ChatNext]_chatVars, NEW m \in Messages
    PROVE  \/ buttons'[m] = buttons[m] /\ offered'[m] = offered[m]
           \/ /\ where[ItemOf[m]] # "absent" /\ buttons'[m] # {}
              /\ UNCHANGED vars
           \/ \E s \in Slots : /\ pc[s] = "reply" /\ result[s] # "failed"
                               /\ ItemOf[m] = call[s].item
                               /\ buttons'[m] = KeyboardAfter(s)
<1>1. ASSUME NEW n \in Messages, NEW keyboard, Shows(n, keyboard)
      PROVE  \/ buttons'[m] = buttons[m] /\ offered'[m] = offered[m]
             \/ m = n /\ buttons'[m] = keyboard
  BY <1>1 DEF Shows, ButtonsInv, ChatInv
<1>2. ASSUME NEW s \in Slots, pc[s] = "reply", result[s] # "failed",
             Shows(origin[s], KeyboardAfter(s))
      PROVE  \/ buttons'[m] = buttons[m] /\ offered'[m] = offered[m]
             \/ ItemOf[m] = call[s].item /\ buttons'[m] = KeyboardAfter(s)
  <2>1. origin[s] \in Messages /\ ItemOf[origin[s]] = call[s].item
    BY <1>2 DEF ChatInv, Asked
  <2> QED
    BY <1>1, <1>2, <2>1
<1>3. ASSUME NEW n \in Messages, Sent(n)
      PROVE  \/ buttons'[m] = buttons[m] /\ offered'[m] = offered[m]
             \/ /\ where[ItemOf[m]] # "absent" /\ buttons'[m] # {}
                /\ UNCHANGED vars
  <2>1. kind[ItemOf[n]] \in Kinds
    BY ItemChatAssumption DEF ChatInv, IInv, TypeOK
  <2> QED
    BY <1>1, <1>3, <2>1, KeyboardsShown DEF Sent
<1>4. CASE \E s \in Slots : Work(s) \/ (\E n \in Messages : \E b \in offered[n] : Tap(s, n, b))
  BY <1>4 DEF Work, Tap, chat
<1>5. CASE \E s \in Slots : EditOrNotice(s)
  BY <1>2, <1>5 DEF EditOrNotice, Reply
<1>6. CASE ChatCrash
  BY <1>2, <1>6 DEF ChatCrash
<1>7. CASE Elsewhere \/ UNCHANGED chatVars
  BY <1>7 DEF Elsewhere, chat, chatVars
<1> QED
  BY <1>3, <1>4, <1>5, <1>6, <1>7 DEF ChatNext

\* What a step does to a slot: it leaves the callback as it is and, where it comes to
\* an answer that takes the keyboard away, the item is in the trash; or it is a tap.
LEMMA SlotMoves ==
    ASSUME ChatInv, ButtonsInv, [ChatNext]_chatVars, NEW s \in Slots, pc'[s] # "idle"
    PROVE  /\ where[call'[s].item] # "absent" /\ call'[s].item \in Items
           /\ pc'[s] = "reply" /\ Leaves(s)' =>
                \/ where'[call'[s].item] = "trashed"
                \/ pc[s] = "reply" /\ Leaves(s) /\ call'[s] = call[s]
<1> DEFINE Same == /\ pc'[s] = pc[s] /\ call'[s] = call[s] /\ result'[s] = result[s]
<1>0. pc[s] # "idle" => where[call[s].item] # "absent" /\ call[s].item \in Items
  BY DEF ButtonsInv, ChatInv, IInv, LocalInv, Calls
<1>1. CASE Same
  BY <1>0, <1>1 DEF Leaves
<1>2. ASSUME NEW m \in Messages, NEW b \in offered[m], Tap(s, m, b)
      PROVE  /\ where[call'[s].item] # "absent" /\ call'[s].item \in Items
             /\ pc'[s] # "reply"
  <2>1. ItemOf[m] \in Items
    BY ItemChatAssumption
  <2>2. call'[s].item = ItemOf[m] /\ pc'[s] = "answer" /\ where[ItemOf[m]] # "absent"
    BY <1>2 DEF Tap, Press, ChatInv, IInv, TypeOK
  <2> QED
    BY <2>1, <2>2
<1>3. ASSUME Step(s)
      PROVE  /\ pc[s] # "idle" /\ call'[s].item = call[s].item
             /\ pc'[s] = "reply" /\ Leaves(s)' => where'[call'[s].item] = "trashed"
  <2>1. CASE AnswerOk(s)
    <3>1. call[s] \in Calls
      BY <2>1 DEF AnswerOk, ChatInv, IInv, LocalInv
    <3> QED
      BY <2>1, <3>1 DEF AnswerOk, ChatInv, IInv, TypeOK, Calls
  <2>2. CASE GetStale(s) \/ UpdateOwnStale(s)
    <3>1. /\ pc[s] # "idle" /\ where[call[s].item] # "active" /\ where' = where
          /\ call' = call
      BY <2>2 DEF GetStale, UpdateOwnStale, Return, notion
    <3>2. where[call[s].item] \in {"absent", "active", "trashed"}
      BY <1>0, <3>1 DEF ChatInv, IInv, TypeOK
    <3> QED
      BY <1>0, <3>1, <3>2
  <2>3. CASE UpdateOwn(s)
    <3>1. pc[s] = "own" /\ call'[s] = call[s] /\ result' = [result EXCEPT ![s] = "applied"]
          /\ WriteOwn(s)
      BY <2>3 DEF UpdateOwn, Return
    <3>2. call[s].item \in Items
      BY <1>0, <3>1
    <3>3. Leaves(s)' => call[s].action.name \in {"done", "bought", "delete"}
      BY <3>1 DEF Leaves, ChatInv, IInv, TypeOK
    <3> QED
      BY <3>1, <3>2, <3>3 DEF WriteOwn, ChatInv, IInv, TypeOK
  <2>4. CASE AnswerFails(s) \/ Reply(s)
    BY <2>4 DEF AnswerFails, Reply, ChatInv, IInv, TypeOK
  <2>5. CASE Acquire(s) \/ GetItem(s) \/ ListPlanned(s) \/ UpdateOther(s)
    BY <2>5 DEF Acquire, GetItem, ReadItem, ListPlanned, UpdateOther, GoTo, ChatInv, IInv, TypeOK
  <2>6. CASE GetOnly(s) \/ CallFails(s) \/ CallLost(s)
    <3>1. /\ pc[s] # "idle" /\ call' = call
          /\ \E status \in {"display", "unavailable", "failed"} :
               result' = [result EXCEPT ![s] = status]
      BY <2>6 DEF GetOnly, ReadItem, CallFails, CallLost, LostWrite, Return, Critical
    <3> QED
      BY <3>1 DEF Leaves, ChatInv, IInv, TypeOK
  <2> QED
    BY <1>3, <2>1, <2>2, <2>3, <2>4, <2>5, <2>6 DEF Step
<1>4. ASSUME NEW r \in Slots, r # s, Step(r) PROVE Same
  BY <1>4 DEF Step, AnswerOk, AnswerFails, Acquire, GetStale, GetOnly, GetItem, ReadItem,
     ListPlanned, UpdateOther, UpdateOwn, UpdateOwnStale, CallFails, CallLost, Reply,
     Return, GoTo, local, ChatInv, IInv, TypeOK
<1>5. ASSUME NEW r \in Slots, r # s, NEW m \in Messages, NEW b \in offered[m], Tap(r, m, b)
      PROVE  Same
  BY <1>5 DEF Tap, Press, ChatInv, IInv, TypeOK
<1>6. CASE \E r \in Slots : Work(r) \/ EditOrNotice(r)
  BY <1>0, <1>1, <1>3, <1>4, <1>6 DEF Work, EditOrNotice, Step
<1>7. CASE Elsewhere \/ (\E m \in Messages : Sent(m)) \/ UNCHANGED chatVars
  <2>1. Same
    BY <1>7 DEF Elsewhere, Captured, UserTrashes, UserRestores, UserEdits, Midnight, Sent,
                chatVars, vars, process
  <2> QED
    BY <1>1, <2>1
<1>8. CASE ChatCrash
  BY <1>8 DEF ChatCrash, Crash
<1> QED
  BY <1>1, <1>2, <1>5, <1>6, <1>7, <1>8 DEF ChatNext

-----------------------------------------------------------------------------
LEMMA ButtonsInit == ASSUME ChatInit PROVE ButtonsInv
<1>1. \A m \in Messages : kind[ItemOf[m]] \in Kinds
  BY InitIInv, ItemChatAssumption DEF ChatInit, IInv, TypeOK
<1>2. buttons = [m \in Messages |-> IF where[ItemOf[m]] = "active"
                                    THEN ActionKeyboard(kind[ItemOf[m]]) ELSE {}]
  BY DEF ChatInit
<1>3. \A m \in Messages : ActionKeyboard(kind[ItemOf[m]]) \in SUBSET Buttons
  BY <1>1, KeyboardAccepted
<1>4. buttons \in [Messages -> SUBSET Buttons]
  BY <1>2, <1>3
<1>5. \A m \in Messages : offered[m] # {} => where[ItemOf[m]] # "absent"
  BY <1>2 DEF ChatInit
<1>6. ButtonsWhileActive
  BY <1>1, <1>2, KeyboardsShown DEF ButtonsWhileActive
<1>7. \A s \in Slots : pc[s] = "idle"
  BY DEF ChatInit, Init
<1> QED
  BY <1>4, <1>5, <1>6, <1>7 DEF ButtonsInv

LEMMA ButtonsTyped ==
    ASSUME ChatInv, ButtonsInv, [ChatNext]_chatVars
    PROVE  buttons' \in [Messages -> SUBSET Buttons]
<1>1. ASSUME NEW m, NEW keyboard \in SUBSET Buttons, Shows(m, keyboard)
      PROVE  buttons' \in [Messages -> SUBSET Buttons]
  BY <1>1 DEF Shows, ButtonsInv
<1>2. ASSUME NEW s \in Slots, pc[s] = "reply", result[s] # "failed",
             Shows(origin[s], KeyboardAfter(s))
      PROVE  buttons' \in [Messages -> SUBSET Buttons]
  BY <1>1, <1>2, AfterAccepted
<1>3. ASSUME NEW m \in Messages, Sent(m) PROVE buttons' \in [Messages -> SUBSET Buttons]
  <2>1. kind[ItemOf[m]] \in Kinds
    BY ItemChatAssumption DEF ChatInv, IInv, TypeOK
  <2>2. ActionKeyboard(kind[ItemOf[m]]) \in SUBSET Buttons
    BY <2>1, KeyboardAccepted
  <2> QED
    BY <1>1, <1>3, <2>2 DEF Sent
<1> QED
  BY <1>2, <1>3 DEF ChatNext, Tap, Work, EditOrNotice, Reply, Elsewhere, ChatCrash, chat,
                    chatVars, ButtonsInv

LEMMA ButtonsInductive ==
    ASSUME ChatInv, ButtonsInv, [ChatNext]_chatVars
    PROVE  ButtonsInv'
<1>1. IInv /\ [OwnerNext]_vars
  BY ChatActs DEF ChatInv
<1>2. \A m \in Messages : ItemOf[m] \in Items
  BY ItemChatAssumption
<1>3. ASSUME NEW m \in Messages, offered'[m] # {} PROVE where'[ItemOf[m]] # "absent"
  <2>1. where[ItemOf[m]] # "absent"
    BY <1>3, MessageMoves DEF ButtonsInv
  <2> QED
    BY <1>1, <1>2, <2>1, StaysPresent
<1>4. ASSUME NEW s \in Slots, pc'[s] # "idle" PROVE where'[call'[s].item] # "absent"
  BY <1>1, <1>4, SlotMoves, StaysPresent
<1>5. ASSUME restores' = 0, NEW s \in Slots, pc'[s] = "reply", Leaves(s)'
      PROVE  where'[call'[s].item] = "trashed"
  <2>1. CASE pc[s] = "reply" /\ Leaves(s) /\ call'[s] = call[s]
    <3>1. where[call[s].item] = "trashed"
      BY <1>1, <1>5, <2>1, TrashedUntilRestored DEF ButtonsInv
    <3>2. call[s].item \in Items
      BY <1>5, <2>1, SlotMoves
    <3> QED
      BY <1>1, <1>5, <2>1, <3>1, <3>2, TrashedUntilRestored
  <2> QED
    BY <1>5, <2>1, SlotMoves
<1>6. ASSUME restores' = 0, NEW m \in Messages, offered'[m] # {},
             where'[ItemOf[m]] = "active"
      PROVE  buttons'[m] # {}
  <2>1. restores = 0
    BY <1>1, <1>6, TrashedUntilRestored
  <2>2. where[ItemOf[m]] # "trashed"
    BY <1>1, <1>2, <1>6, TrashedUntilRestored
  <2>3. CASE buttons'[m] = buttons[m] /\ offered'[m] = offered[m]
    <3>1. where[ItemOf[m]] = "active"
      BY <1>2, <1>6, <2>2, <2>3 DEF ButtonsInv, ChatInv, IInv, TypeOK
    <3> QED
      BY <1>6, <2>1, <2>3, <3>1 DEF ButtonsInv, ButtonsWhileActive
  <2>4. ASSUME NEW s \in Slots, pc[s] = "reply", result[s] # "failed",
               ItemOf[m] = call[s].item, buttons'[m] = KeyboardAfter(s)
        PROVE  buttons'[m] # {}
    <3>1. ~Leaves(s)
      BY <2>1, <2>2, <2>4 DEF ButtonsInv
    <3> QED
      BY <2>4, <3>1, AfterShown
  <2> QED
    BY <2>3, <2>4, MessageMoves
<1> QED
  BY <1>3, <1>4, <1>5, <1>6, ButtonsTyped DEF ButtonsInv, ButtonsWhileActive

LEMMA ButtonsAlways == ChatSpec => [](ChatInv /\ ButtonsInv)
<1>1. ChatInit => ButtonsInv
  BY ButtonsInit
<1>2. ChatInv /\ ButtonsInv /\ [ChatNext]_chatVars => ButtonsInv'
  BY ButtonsInductive
<1> QED
  BY <1>1, <1>2, ChatInvAlways, PTL DEF ChatSpec

\* Type correctness of the chat: messages have buttons that there are, presses messages.
THEOREM ChatTyping == ChatSpec => []ChatTypeOK
<1>1. ChatInv /\ ButtonsInv => ChatTypeOK
  BY DEF ChatInv, ButtonsInv, ChatTypeOK, IInv
<1> QED
  BY <1>1, ButtonsAlways, PTL

\* ButtonsWhileActive: as long as nobody restores a page, each message of an item that is
\* in the database has buttons, in any overlap of presses, edits that fail or come out
\* of order, crashes and pages trashed elsewhere.
THEOREM NeverStranded == ChatSpec => []ButtonsWhileActive
<1>1. ButtonsInv => ButtonsWhileActive
  BY DEF ButtonsInv
<1> QED
  BY <1>1, ButtonsAlways, PTL

(***************************************************************************)
(* The month button of Snooze gives a date that exists, 28 to 31 days      *)
(* later, so that it is one of the numbers of days that ItemActions adds,  *)
(* and pressed on a later day it never wakes an item sooner.               *)
(***************************************************************************)
\* A year has 365 or 366 days.
LEMMA YearLength ==
    ASSUME NEW y \in Nat \ {0}
    PROVE  DaysBeforeYear(y + 1) - DaysBeforeYear(y) = IF Leap(y) THEN 366 ELSE 365
<1>1. y \div 4 - (y - 1) \div 4 = IF y % 4 = 0 THEN 1 ELSE 0
  BY SMT
<1>2. y \div 100 - (y - 1) \div 100 = IF y % 100 = 0 THEN 1 ELSE 0
  BY SMT
<1>3. y \div 400 - (y - 1) \div 400 = IF y % 400 = 0 THEN 1 ELSE 0
  BY SMT
<1>4. /\ y % 400 = 0 => y % 100 = 0
      /\ y % 100 = 0 => y % 4 = 0
  BY SMT
<1>5. /\ y \div 4 \in Int /\ y \div 100 \in Int /\ y \div 400 \in Int
      /\ (y - 1) \div 4 \in Int /\ (y - 1) \div 100 \in Int /\ (y - 1) \div 400 \in Int
  BY SMT
<1> QED
  BY <1>1, <1>2, <1>3, <1>4, <1>5 DEF DaysBeforeYear, Leap

\* The table, entry by entry.
LEMMA MonthTable ==
    /\ DaysBeforeMonth[1] = 0 /\ DaysBeforeMonth[2] = 31 /\ DaysBeforeMonth[3] = 59
    /\ DaysBeforeMonth[4] = 90 /\ DaysBeforeMonth[5] = 120 /\ DaysBeforeMonth[6] = 151
    /\ DaysBeforeMonth[7] = 181 /\ DaysBeforeMonth[8] = 212 /\ DaysBeforeMonth[9] = 243
    /\ DaysBeforeMonth[10] = 273 /\ DaysBeforeMonth[11] = 304 /\ DaysBeforeMonth[12] = 334
BY DEF DaysBeforeMonth

\* From the first of a month to the first of the next one it is the month's days.
LEMMA MonthLength ==
    ASSUME NEW d \in CalendarDates
    PROVE  LET a == AddCalendarMonth(d) IN
           /\ a \in CalendarDates
           /\ Ordinal(a) - a.day = Ordinal(d) - d.day + DaysInMonth(d.year, d.month)
           /\ Ordinal(d) \in Int
           /\ a.day = IF d.day <= DaysInMonth(a.year, a.month) THEN d.day
                      ELSE DaysInMonth(a.year, a.month)
<1> DEFINE a == AddCalendarMonth(d)
<1>1. /\ d = [year |-> d.year, month |-> d.month, day |-> d.day]
      /\ d.year \in Nat \ {0} /\ d.month \in 1 .. 12 /\ d.day \in 1 .. 31
  BY DEF CalendarDates
<1>2. /\ a.year = IF d.month = 12 THEN d.year + 1 ELSE d.year
      /\ a.month = IF d.month = 12 THEN 1 ELSE d.month + 1
      /\ a.day = IF d.day <= DaysInMonth(a.year, a.month) THEN d.day
                 ELSE DaysInMonth(a.year, a.month)
      /\ a = [year |-> a.year, month |-> a.month, day |-> a.day]
  BY DEF AddCalendarMonth
<1>3. \A y, m : DaysInMonth(y, m) \in 28 .. 31
  BY DEF DaysInMonth
<1>4. a \in CalendarDates
  BY <1>1, <1>2, <1>3 DEF CalendarDates
<1>5. DaysBeforeYear(d.year) \in Int
  BY <1>1 DEF DaysBeforeYear
<1>6. DaysBeforeMonth[d.month] \in Int
  BY <1>1, MonthTable
<1>7. Ordinal(d) \in Int
  BY <1>1, <1>5, <1>6 DEF Ordinal
<1>8. CASE d.month = 12
  <2>1. DaysBeforeYear(a.year) - DaysBeforeYear(d.year) = IF Leap(d.year) THEN 366 ELSE 365
    BY <1>1, <1>2, <1>8, YearLength
  <2>2. DaysBeforeYear(a.year) \in Int
    BY <1>4 DEF DaysBeforeYear, CalendarDates
  <2>3. /\ Ordinal(a) = DaysBeforeYear(a.year) + a.day
        /\ Ordinal(d) = DaysBeforeYear(d.year) + 334 + (IF Leap(d.year) THEN 1 ELSE 0) + d.day
    BY <1>1, <1>2, <1>4, <1>5, <1>8, <2>2, MonthTable DEF Ordinal, CalendarDates
  <2>4. DaysInMonth(d.year, d.month) = 31
    BY <1>8 DEF DaysInMonth
  <2> QED
    BY <1>1, <1>2, <1>4, <1>5, <1>7, <2>1, <2>2, <2>3, <2>4 DEF CalendarDates
<1>9. CASE d.month # 12
  <2>1. a.year = d.year /\ a.month = d.month + 1
    BY <1>2, <1>9
  <2>2. d.month = 1 \/ d.month = 2 \/ d.month = 3 \/ d.month = 4 \/ d.month = 5 \/ d.month = 6
        \/ d.month = 7 \/ d.month = 8 \/ d.month = 9 \/ d.month = 10 \/ d.month = 11
    BY <1>1, <1>9
  <2>3. /\ DaysBeforeMonth[a.month] \in Int
        /\ DaysBeforeMonth[a.month] + (IF a.month > 2 /\ Leap(d.year) THEN 1 ELSE 0)
             = DaysBeforeMonth[d.month] + (IF d.month > 2 /\ Leap(d.year) THEN 1 ELSE 0)
                 + DaysInMonth(d.year, d.month)
    BY <2>1, <2>2, MonthTable DEF DaysInMonth
  <2>4. /\ Ordinal(a) = DaysBeforeYear(d.year) + DaysBeforeMonth[a.month]
                           + (IF a.month > 2 /\ Leap(d.year) THEN 1 ELSE 0) + a.day
        /\ Ordinal(d) = DaysBeforeYear(d.year) + DaysBeforeMonth[d.month]
                           + (IF d.month > 2 /\ Leap(d.year) THEN 1 ELSE 0) + d.day
    BY <2>1 DEF Ordinal
  <2>5. a.day \in Int /\ d.day \in Int /\ DaysInMonth(d.year, d.month) \in Int
    BY <1>1, <1>3, <1>4 DEF CalendarDates
  <2> QED
    BY <1>2, <1>4, <1>5, <1>6, <1>7, <2>3, <2>4, <2>5
<1> QED
  BY <1>2, <1>4, <1>7, <1>8, <1>9

\* add_calendar_month gives a date of the calendar, 28 to 31 days later: also from the
\* 29th, 30th and 31st, in February and at the end of a year.
THEOREM MonthLater ==
    ASSUME NEW d \in CalendarDates
    PROVE  /\ AddCalendarMonth(d) \in CalendarDates
           /\ Ordinal(AddCalendarMonth(d)) - Ordinal(d) \in 28 .. 31
<1> DEFINE a == AddCalendarMonth(d)
<1>1. \A y, m : DaysInMonth(y, m) \in 28 .. 31
  BY DEF DaysInMonth
<1>2. /\ a \in CalendarDates
      /\ Ordinal(a) - a.day = Ordinal(d) - d.day + DaysInMonth(d.year, d.month)
      /\ Ordinal(d) \in Int /\ Ordinal(a) \in Int
      /\ a.day = IF d.day <= DaysInMonth(a.year, a.month) THEN d.day
                 ELSE DaysInMonth(a.year, a.month)
  BY MonthLength
<1>3. /\ a.day \in Nat /\ d.day \in Nat /\ d.day >= 1 /\ d.day <= DaysInMonth(d.year, d.month)
      /\ a.day <= d.day
  BY <1>1, <1>2 DEF CalendarDates
<1>4. DaysInMonth(a.year, a.month) \in 28 .. 31 /\ DaysInMonth(d.year, d.month) \in 28 .. 31
  BY <1>1
<1> HIDE DEF a
<1>5. d.day <= 28 \/ d.day = 29 \/ d.day = 30 \/ d.day = 31
  BY <1>3, <1>4
<1> QED
  BY <1>2, <1>3, <1>4 DEF a

\* The order of dates.
NotAfter(d, e) ==
    \/ d.year < e.year
    \/ d.year = e.year /\ d.month < e.month
    \/ d.year = e.year /\ d.month = e.month /\ d.day <= e.day

\* The clamp keeps the order: of two presses of the month button the later one never
\* gives the earlier date.
THEOREM MonthKeepsOrder ==
    ASSUME NEW d \in CalendarDates, NEW e \in CalendarDates, NotAfter(d, e)
    PROVE  NotAfter(AddCalendarMonth(d), AddCalendarMonth(e))
<1> DEFINE a == AddCalendarMonth(d)
           b == AddCalendarMonth(e)
<1>1. /\ a.year = IF d.month = 12 THEN d.year + 1 ELSE d.year
      /\ a.month = IF d.month = 12 THEN 1 ELSE d.month + 1
      /\ a.day = IF d.day <= DaysInMonth(a.year, a.month) THEN d.day
                 ELSE DaysInMonth(a.year, a.month)
      /\ b.year = IF e.month = 12 THEN e.year + 1 ELSE e.year
      /\ b.month = IF e.month = 12 THEN 1 ELSE e.month + 1
      /\ b.day = IF e.day <= DaysInMonth(b.year, b.month) THEN e.day
                 ELSE DaysInMonth(b.year, b.month)
  BY DEF AddCalendarMonth
<1>2. /\ d.year \in Nat /\ d.month \in 1 .. 12 /\ d.day \in 1 .. 31
      /\ e.year \in Nat /\ e.month \in 1 .. 12 /\ e.day \in 1 .. 31
  BY DEF CalendarDates
<1>3. DaysInMonth(a.year, a.month) \in 28 .. 31
  BY DEF DaysInMonth
<1> HIDE DEF a, b
<1>4. CASE d.year = e.year /\ d.month = e.month
  <2>1. a.year = b.year /\ a.month = b.month
    BY <1>1, <1>4
  <2>2. d.day <= e.day
    BY <1>2, <1>4 DEF NotAfter
  <2>3. a.day <= b.day
    BY <1>1, <1>2, <1>3, <2>1, <2>2
  <2> QED
    BY <2>1, <2>3 DEF NotAfter, a, b
<1>5. CASE d.year < e.year \/ (d.year = e.year /\ d.month < e.month)
  <2>1. a.year < b.year \/ (a.year = b.year /\ a.month < b.month)
    BY <1>1, <1>2, <1>5
  <2> QED
    BY <2>1 DEF NotAfter, a, b
<1> QED
  BY <1>4, <1>5 DEF NotAfter
=============================================================================
