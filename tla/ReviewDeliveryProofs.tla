------------------------ MODULE ReviewDeliveryProofs ------------------------
(***************************************************************************)
(* Proofs about ReviewDelivery, for every set of pages, every database,    *)
(* every number of runs that overlap and every policy of spacings.         *)
(*                                                                         *)
(* A page is marked only by a run whose message is in the chat             *)
(* (MessageFirst).  When runs end before midnight they all have the date   *)
(* of today (SameDay), so that no run can take back what another has       *)
(* recorded (Progress).                                                    *)
(***************************************************************************)
EXTENDS ReviewDelivery, TLAPS

\* A run that records has shown what it records.
MessageFirst ==
    \A r \in Runs : pc[r] = "record" => /\ todo[r] \subseteq items[r]
                                        /\ \A i \in items[r] : <<i, request[r].on>> \in shown

ShownInv == TypeOK /\ MessageFirst /\ SurfacedOnlyIfShown

\* Every run that is going on was asked for today.
SameDay == \A r \in Runs : pc[r] # "idle" => request[r].on = day

\* No date lies in the future.
Past ==
    /\ \A i \in Items : lastSurfaced[i] <= day
    /\ \A t \in told : t[2] \in 1 .. day

\* The pages a recording run has done with bear the date of today.
Progress ==
    \A r \in Runs : pc[r] = "record" =>
        \A i \in items[r] \ todo[r] : i \in active => lastSurfaced[i] = day

DayInv == TypeOK /\ SameDay /\ Past /\ Progress /\ RecordedIsTrue

-----------------------------------------------------------------------------
\* What the end of a run leaves.
LEMMA EndTypes ==
    ASSUME TypeOK, NEW r \in Runs, End(r)
    PROVE  /\ pc' \in [Runs -> {"idle", "plan", "send", "record", "actions"}]
           /\ request' \in [Runs -> [window : Windows \cup {"none"}, on : Dates]]
           /\ items' \in [Runs -> SUBSET Items]
           /\ todo' \in [Runs -> SUBSET Items]
           /\ attempt' \in [Runs -> 0 .. 2]
<1>1. NoRequest \in [window : Windows \cup {"none"}, on : Dates]
  BY DeliveryAssumption DEF NoRequest, Dates
<1> QED
  BY <1>1 DEF TypeOK, End

\* A write of LastSurfaced is of the run's date, on a page of Notion.
LEMMA WriteTypes ==
    ASSUME TypeOK, NEW r \in Runs, NEW i \in Items, WriteSurfaced(r, i)
    PROVE  lastSurfaced' \in [Items -> Dates]
<1>1. request[r].on \in Dates
  BY DEF TypeOK
<1> QED
  BY <1>1 DEF TypeOK, WriteSurfaced

\* What a run shows is on its date.
LEMMA ShowTypes ==
    ASSUME TypeOK, NEW r \in Runs, Show(r)
    PROVE  shown' \subseteq Items \X Dates
<1>1. request[r].on \in Dates /\ items[r] \subseteq Items
  BY DEF TypeOK
<1> QED
  BY <1>1 DEF TypeOK, Show

\* A batch that fails writes at most one page.
LEMMA BatchTypes ==
    ASSUME TypeOK, NEW r \in Runs, BatchFails(r)
    PROVE  lastSurfaced' \in [Items -> Dates]
<1>1. CASE lastSurfaced' = lastSurfaced
  BY <1>1 DEF TypeOK
<1>2. CASE \E i \in todo[r] : WriteSurfaced(r, i)
  <2>1. PICK i \in todo[r] : WriteSurfaced(r, i)
    BY <1>2
  <2>2. i \in Items
    BY <2>1 DEF TypeOK
  <2> QED
    BY <2>1, <2>2, WriteTypes
<1> QED
  BY <1>1, <1>2 DEF BatchFails

\* Every behaviour begins with values of these types.
LEMMA TypeCorrectStart == Init => TypeOK
BY DeliveryAssumption DEF Init, TypeOK, Dates, NoRequest

\* The type invariant of the reviews: the plan of a run, its progress in the batch, the
\* two attempts and the history are what review_delivery.py and its callers can hold.
THEOREM TypeCorrect == Spec => []TypeOK
<1>1. Init => TypeOK
  BY TypeCorrectStart
<1>2. TypeOK /\ [Next]_vars => TypeOK'
  <2> SUFFICES ASSUME TypeOK, [Next]_vars PROVE TypeOK'
    OBVIOUS
  <2>1. ASSUME NEW r \in Runs, NEW slot \in Slots, Start(r, slot) PROVE TypeOK'
    <3> DEFINE w == ResolveWindow(slot, day \in WeekendDays)
    <3>1. w \in Windows \cup {"none"} /\ day \in Dates
      BY DeliveryAssumption DEF ResolveWindow, Windows, TypeOK, Dates
    <3> HIDE DEF w
    <3>2. request' \in [Runs -> [window : Windows \cup {"none"}, on : Dates]]
      BY <2>1, <3>1 DEF Start, TypeOK, w
    <3>3. runs' \in 0 .. MaxRuns
      BY <2>1, DeliveryAssumption DEF Start, TypeOK
    <3> QED
      BY <2>1, <3>2, <3>3 DEF Start, TypeOK, notion, history
  <2>2. ASSUME NEW r \in Runs, NEW P \in SUBSET Items, Plan(r, P) PROVE TypeOK'
    BY <2>2 DEF Plan, TypeOK, notion, history, bounds
  <2>3. ASSUME NEW r \in Runs, PlanEmptyOrFailed(r) PROVE TypeOK'
    BY <2>3, EndTypes DEF PlanEmptyOrFailed, TypeOK, notion, history, bounds
  <2>4. ASSUME NEW r \in Runs, SendOk(r) PROVE TypeOK'
    <3>1. shown' \subseteq Items \X Dates
      BY <2>4, ShowTypes DEF SendOk
    <3> QED
      BY <2>4, <3>1 DEF SendOk, TypeOK, notion, bounds
  <2>5. ASSUME NEW r \in Runs, SendFails(r) PROVE TypeOK'
    <3>1. shown' \subseteq Items \X Dates
      BY <2>5, ShowTypes DEF SendFails, TypeOK
    <3> QED
      BY <2>5, <3>1, EndTypes DEF SendFails, TypeOK, notion, bounds
  <2>6. ASSUME NEW r \in Runs, NEW i \in Items, RecordPage(r, i) PROVE TypeOK'
    <3>1. lastSurfaced' \in [Items -> Dates]
      BY <2>6, WriteTypes DEF RecordPage
    <3> QED
      BY <2>6, <3>1 DEF RecordPage, TypeOK, history, bounds
  <2>7. ASSUME NEW r \in Runs, Recorded(r) PROVE TypeOK'
    <3>1. items[r] \X {request[r].on} \subseteq Items \X Dates
      BY DEF TypeOK
    <3> QED
      BY <2>7, <3>1 DEF Recorded, TypeOK, notion, local, bounds
  <2>8. ASSUME NEW r \in Runs, Retry(r) PROVE TypeOK'
    BY <2>8, BatchTypes DEF Retry, TypeOK, history, bounds
  <2>9. ASSUME NEW r \in Runs, GiveUp(r) PROVE TypeOK'
    BY <2>9, BatchTypes DEF GiveUp, TypeOK, local, history, bounds
  <2>10. ASSUME NEW r \in Runs, SendActions(r) PROVE TypeOK'
    BY <2>10, EndTypes DEF SendActions, TypeOK, notion, history, bounds
  <2>11. ASSUME NEW i \in Items, UserSnoozes(i) PROVE TypeOK'
    <3>1. day + 1 \in 0 .. MaxDay + 1
      BY DeliveryAssumption DEF TypeOK
    <3>2. userActions' \in 0 .. MaxUserActions
      BY <2>11, DeliveryAssumption DEF UserSnoozes, TypeOK
    <3> QED
      BY <2>11, <3>1, <3>2 DEF UserSnoozes, TypeOK, local, history
  <2>12. ASSUME NEW i \in Items, UserTrashes(i) PROVE TypeOK'
    <3>1. userActions' \in 0 .. MaxUserActions
      BY <2>12, DeliveryAssumption DEF UserTrashes, TypeOK
    <3> QED
      BY <2>12, <3>1 DEF UserTrashes, TypeOK, local, history
  <2>13. ASSUME Midnight PROVE TypeOK'
    <3>1. day' \in FirstDay .. MaxDay
      BY <2>13, DeliveryAssumption DEF Midnight, TypeOK
    <3> QED
      BY <2>13, <3>1 DEF Midnight, TypeOK, notion, local, history
  <2>14. ASSUME Crash PROVE TypeOK'
    <3>1. lastSurfaced' \in [Items -> Dates] /\ shown' \subseteq Items \X Dates
      BY <2>14, ShowTypes, BatchTypes DEF Crash, TypeOK
    <3>2. crashes' \in 0 .. MaxCrashes
      BY <2>14, DeliveryAssumption DEF Crash, TypeOK
    <3>3. NoRequest \in [window : Windows \cup {"none"}, on : Dates]
      BY DeliveryAssumption DEF NoRequest, Dates
    <3> QED
      BY <2>14, <3>1, <3>2, <3>3 DEF Crash, TypeOK
  <2>15. ASSUME UNCHANGED vars PROVE TypeOK'
    BY <2>15 DEF vars, notion, local, history, bounds, TypeOK
  <2> QED
    BY <2>1, <2>2, <2>3, <2>4, <2>5, <2>6, <2>7, <2>8, <2>9, <2>10, <2>11, <2>12, <2>13,
       <2>14, <2>15 DEF Next, Step
<1> QED
  BY <1>1, <1>2, PTL DEF Spec

-----------------------------------------------------------------------------
\* A run that shows, records or ends changes no other run's facts.
LEMMA ShowsMore ==
    ASSUME NEW r \in Runs, Show(r)
    PROVE  shown \subseteq shown' /\ \A i \in items[r] : <<i, request[r].on>> \in shown'
BY DEF Show

\* Writing a shown page keeps every mark one of a message in the chat.
LEMMA WriteShown ==
    ASSUME ShownInv, NEW r \in Runs, NEW i \in Items, WriteSurfaced(r, i),
           pc[r] = "record", i \in todo[r]
    PROVE  \A j \in Items : lastSurfaced'[j] # 0 => <<j, lastSurfaced'[j]>> \in shown
<1>1. <<i, request[r].on>> \in shown
  BY DEF ShownInv, MessageFirst
<1>2. \A j \in Items : lastSurfaced'[j] \in {lastSurfaced[j]} \cup
                          (IF j = i THEN {request[r].on} ELSE {})
  BY DEF WriteSurfaced, ShownInv, TypeOK
<1> QED
  BY <1>1, <1>2 DEF ShownInv, SurfacedOnlyIfShown

\* The same for a batch that fails, wherever it does.
LEMMA BatchShown ==
    ASSUME ShownInv, NEW r \in Runs, BatchFails(r)
    PROVE  \A j \in Items : lastSurfaced'[j] # 0 => <<j, lastSurfaced'[j]>> \in shown
<1>1. CASE lastSurfaced' = lastSurfaced
  BY <1>1 DEF ShownInv, SurfacedOnlyIfShown
<1>2. CASE \E i \in todo[r] : WriteSurfaced(r, i)
  <2>1. PICK i \in todo[r] : WriteSurfaced(r, i)
    BY <1>2
  <2>2. i \in Items
    BY DEF ShownInv, TypeOK
  <2> QED
    BY <2>1, <2>2, WriteShown DEF BatchFails
<1> QED
  BY <1>1, <1>2 DEF BatchFails

\* "records LastSurfaced only after that succeeds": whatever fails or crashes and however
\* runs overlap, a page bears a date only if the chat has a message of that date with it.
THEOREM SurfacedShown == Spec => []SurfacedOnlyIfShown
<1>1. Init => ShownInv
  <2>1. Init => TypeOK
    BY TypeCorrectStart
  <2> QED
    BY <2>1 DEF Init, ShownInv, MessageFirst, SurfacedOnlyIfShown
<1>2. TypeOK' /\ ShownInv /\ [Next]_vars => ShownInv'
  <2> SUFFICES ASSUME TypeOK', ShownInv, [Next]_vars
               PROVE  MessageFirst' /\ SurfacedOnlyIfShown'
    BY DEF ShownInv
  <2> USE DEF ShownInv, MessageFirst, SurfacedOnlyIfShown
  <2>1. ASSUME NEW r \in Runs, NEW slot \in Slots, Start(r, slot)
        PROVE  MessageFirst' /\ SurfacedOnlyIfShown'
    BY <2>1 DEF Start, TypeOK, notion, history
  <2>2. ASSUME NEW r \in Runs, NEW P \in SUBSET Items, Plan(r, P)
        PROVE  MessageFirst' /\ SurfacedOnlyIfShown'
    BY <2>2 DEF Plan, TypeOK, notion, history, bounds
  <2>3. ASSUME NEW r \in Runs, PlanEmptyOrFailed(r)
        PROVE  MessageFirst' /\ SurfacedOnlyIfShown'
    BY <2>3 DEF PlanEmptyOrFailed, End, TypeOK, notion, history, bounds
  <2>4. ASSUME NEW r \in Runs, SendOk(r)
        PROVE  MessageFirst' /\ SurfacedOnlyIfShown'
    BY <2>4, ShowsMore DEF SendOk, TypeOK, notion, bounds
  <2>5. ASSUME NEW r \in Runs, SendFails(r)
        PROVE  MessageFirst' /\ SurfacedOnlyIfShown'
    <3>1. shown \subseteq shown'
      BY <2>5, ShowsMore DEF SendFails
    <3> QED
      BY <2>5, <3>1 DEF SendFails, End, TypeOK, notion, bounds
  <2>6. ASSUME NEW r \in Runs, NEW i \in Items, RecordPage(r, i)
        PROVE  MessageFirst' /\ SurfacedOnlyIfShown'
    <3>1. SurfacedOnlyIfShown'
      BY <2>6, WriteShown DEF RecordPage, history
    <3> QED
      BY <2>6, <3>1 DEF RecordPage, TypeOK, history, bounds
  <2>7. ASSUME NEW r \in Runs, Recorded(r)
        PROVE  MessageFirst' /\ SurfacedOnlyIfShown'
    BY <2>7 DEF Recorded, TypeOK, notion, local, bounds
  <2>8. ASSUME NEW r \in Runs, Retry(r)
        PROVE  MessageFirst' /\ SurfacedOnlyIfShown'
    <3>1. SurfacedOnlyIfShown'
      BY <2>8, BatchShown DEF Retry, history
    <3> QED
      BY <2>8, <3>1 DEF Retry, BatchFails, TypeOK, history, bounds
  <2>9. ASSUME NEW r \in Runs, GiveUp(r)
        PROVE  MessageFirst' /\ SurfacedOnlyIfShown'
    <3>1. SurfacedOnlyIfShown'
      BY <2>9, BatchShown DEF GiveUp, history
    <3> QED
      BY <2>9, <3>1 DEF GiveUp, BatchFails, TypeOK, local, history, bounds
  <2>10. ASSUME NEW r \in Runs, SendActions(r)
         PROVE  MessageFirst' /\ SurfacedOnlyIfShown'
    BY <2>10 DEF SendActions, End, TypeOK, notion, history, bounds
  <2>11. ASSUME NEW i \in Items, UserSnoozes(i) \/ UserTrashes(i)
         PROVE  MessageFirst' /\ SurfacedOnlyIfShown'
    BY <2>11 DEF UserSnoozes, UserTrashes, TypeOK, local, history
  <2>12. ASSUME Midnight
         PROVE  MessageFirst' /\ SurfacedOnlyIfShown'
    BY <2>12 DEF Midnight, TypeOK, notion, local, history
  <2>13. ASSUME Crash
         PROVE  MessageFirst' /\ SurfacedOnlyIfShown'
    <3>1. \A r \in Runs : pc'[r] = "idle"
      BY <2>13 DEF Crash
    <3>2. SurfacedOnlyIfShown'
      <4>1. CASE UNCHANGED lastSurfaced
        <5>1. shown \subseteq shown'
          BY <2>13, ShowsMore DEF Crash
        <5> QED
          BY <4>1, <5>1
      <4>2. CASE \E r \in Runs : BatchFails(r) /\ UNCHANGED shown
        BY <4>2, BatchShown
      <4> QED
        BY <2>13, <4>1, <4>2 DEF Crash
    <3> QED
      BY <3>1, <3>2
  <2>14. ASSUME UNCHANGED vars
         PROVE  MessageFirst' /\ SurfacedOnlyIfShown'
    BY <2>14 DEF vars, notion, local, history, bounds
  <2> QED
    BY <2>1, <2>2, <2>3, <2>4, <2>5, <2>6, <2>7, <2>8, <2>9, <2>10, <2>11, <2>12, <2>13,
       <2>14 DEF Next, Step
<1>3. ShownInv => SurfacedOnlyIfShown
  BY DEF ShownInv
<1> QED
  BY <1>1, <1>2, <1>3, TypeCorrect, PTL DEF Spec

-----------------------------------------------------------------------------
\* With runs of today only, every write of LastSurfaced is of today's date.
LEMMA WriteToday ==
    ASSUME DayInv, NEW r \in Runs, pc[r] = "record", NEW i \in Items, WriteSurfaced(r, i)
    PROVE  /\ \A j \in Items : lastSurfaced'[j] \in {lastSurfaced[j], day}
           /\ i \in active => lastSurfaced'[i] = day
<1>1. request[r].on = day
  BY DEF DayInv, SameDay
<1> QED
  BY <1>1 DEF WriteSurfaced, DayInv, TypeOK

LEMMA BatchToday ==
    ASSUME DayInv, NEW r \in Runs, BatchFails(r)
    PROVE  \A j \in Items : lastSurfaced'[j] \in {lastSurfaced[j], day}
<1>1. CASE lastSurfaced' = lastSurfaced
  BY <1>1
<1>2. CASE \E i \in todo[r] : WriteSurfaced(r, i)
  <2>1. PICK i \in todo[r] : WriteSurfaced(r, i)
    BY <1>2
  <2>2. i \in Items
    BY DEF DayInv, TypeOK
  <2> QED
    BY <2>1, <2>2, WriteToday DEF BatchFails
<1> QED
  BY <1>1, <1>2 DEF BatchFails

\* Marks of today take no mark back.
LEMMA TodayKeeps ==
    ASSUME DayInv, day' = day, told' = told, active' \subseteq active,
           \A j \in Items : lastSurfaced'[j] \in {lastSurfaced[j], day}
    PROVE  /\ \A j \in Items : lastSurfaced'[j] <= day
           /\ \A j \in Items : lastSurfaced[j] = day => lastSurfaced'[j] = day
           /\ RecordedIsTrue'
<1>1. day \in Nat /\ \A j \in Items : lastSurfaced[j] \in Nat
  BY DeliveryAssumption DEF DayInv, TypeOK, Dates
<1>2. \A t \in told : t[1] \in Items /\ t[2] \in Nat /\ t[2] <= day
  BY <1>1 DEF DayInv, TypeOK, Past, Dates
<1>3. RecordedIsTrue'
  <2> SUFFICES ASSUME NEW t \in told, t[1] \in active
               PROVE  lastSurfaced'[t[1]] >= t[2]
    BY DEF RecordedIsTrue
  <2>1. t[1] \in Items /\ t[2] \in Nat /\ t[2] <= day /\ lastSurfaced[t[1]] >= t[2]
    BY <1>2 DEF DayInv, RecordedIsTrue
  <2>2. lastSurfaced'[t[1]] = lastSurfaced[t[1]] \/ lastSurfaced'[t[1]] = day
    BY <2>1
  <2> QED
    BY <1>1, <2>1, <2>2
<1> QED
  BY <1>1, <1>3 DEF DayInv, Past

\* Runs that end before midnight keep to the date of today.
LEMMA DayInvAlways == ASSUME ~AcrossMidnight PROVE Spec => []DayInv
<1>1. Init => DayInv
  <2> SUFFICES ASSUME Init PROVE DayInv
    OBVIOUS
  <2>1. TypeOK
    BY TypeCorrectStart
  <2> QED
    BY <2>1, DeliveryAssumption
       DEF Init, DayInv, SameDay, Past, Progress, RecordedIsTrue
<1>2. TypeOK' /\ DayInv /\ [Next]_vars => DayInv'
  <2> SUFFICES ASSUME TypeOK', DayInv, [Next]_vars
               PROVE  SameDay' /\ Past' /\ Progress' /\ RecordedIsTrue'
    BY DEF DayInv
  <2> DEFINE Goal == SameDay /\ Past /\ Progress /\ RecordedIsTrue
  <2>1. ASSUME NEW r \in Runs, NEW slot \in Slots, Start(r, slot) PROVE Goal'
    <3>1. /\ pc' = [pc EXCEPT ![r] = "plan"]
          /\ request'[r].on = day /\ \A q \in Runs \ {r} : request'[q] = request[q]
      BY <2>1 DEF Start, DayInv, TypeOK
    <3>2. UNCHANGED <<active, lastSurfaced, items, todo, told, day>>
      BY <2>1 DEF Start, notion, history
    <3> QED
      BY <3>1, <3>2 DEF DayInv, TypeOK, SameDay, Past, Progress, RecordedIsTrue
  <2>2. ASSUME NEW r \in Runs, NEW P \in SUBSET Items, Plan(r, P) PROVE Goal'
    BY <2>2 DEF Plan, notion, history, bounds, DayInv, TypeOK, SameDay, Past, Progress,
                RecordedIsTrue
  <2>3. ASSUME NEW r \in Runs, PlanEmptyOrFailed(r) \/ SendFails(r) \/ SendActions(r)
        PROVE  Goal'
    <3>1. /\ End(r)
          /\ UNCHANGED <<active, lastSurfaced, told, day>>
      BY <2>3 DEF PlanEmptyOrFailed, SendFails, SendActions, notion, history, bounds
    <3>2. /\ pc'[r] = "idle"
          /\ \A q \in Runs \ {r} : /\ pc'[q] = pc[q] /\ request'[q] = request[q]
                                   /\ items'[q] = items[q] /\ todo'[q] = todo[q]
      BY <3>1 DEF End, DayInv, TypeOK
    <3>3. SameDay' /\ Progress'
      BY <3>1, <3>2 DEF DayInv, SameDay, Progress
    <3> QED
      BY <3>1, <3>3 DEF DayInv, Past, RecordedIsTrue
  <2>4. ASSUME NEW r \in Runs, SendOk(r) PROVE Goal'
    BY <2>4 DEF SendOk, notion, bounds, DayInv, TypeOK, SameDay, Past, Progress, RecordedIsTrue
  <2>5. ASSUME NEW r \in Runs, NEW i \in Items, RecordPage(r, i) PROVE Goal'
    <3>1. /\ \A j \in Items : lastSurfaced'[j] \in {lastSurfaced[j], day}
          /\ i \in active => lastSurfaced'[i] = day
      BY <2>5, WriteToday DEF RecordPage
    <3>2. /\ todo' = [todo EXCEPT ![r] = @ \ {i}]
          /\ UNCHANGED <<active, pc, request, items, told, day>>
      BY <2>5 DEF RecordPage, history, bounds
    <3>3. /\ \A j \in Items : lastSurfaced'[j] <= day
          /\ \A j \in Items : lastSurfaced[j] = day => lastSurfaced'[j] = day
          /\ RecordedIsTrue'
      BY <3>1, <3>2, TodayKeeps
    <3>4. Progress'
      BY <3>1, <3>2, <3>3 DEF Progress, DayInv, TypeOK
    <3> QED
      BY <3>2, <3>3, <3>4 DEF DayInv, SameDay, Past
  <2>6. ASSUME NEW r \in Runs, Recorded(r) PROVE Goal'
    <3>1. request[r].on = day /\ day \in 1 .. day
      BY <2>6, DeliveryAssumption DEF Recorded, DayInv, TypeOK, SameDay
    <3>2. \A i \in items[r] : i \in active => lastSurfaced[i] = day
      BY <2>6 DEF Recorded, DayInv, Progress
    <3>3. told' = told \cup (items[r] \X {day})
      BY <2>6, <3>1 DEF Recorded
    <3>4. UNCHANGED <<active, lastSurfaced, request, items, todo, day>>
      BY <2>6 DEF Recorded, notion, local, bounds
    <3>5. RecordedIsTrue' /\ Past'
      BY <3>1, <3>2, <3>3, <3>4 DEF DayInv, Past, RecordedIsTrue
    <3>6. SameDay' /\ Progress'
      BY <2>6, <3>4 DEF Recorded, DayInv, TypeOK, SameDay, Progress
    <3> QED
      BY <3>5, <3>6
  <2>7. ASSUME NEW r \in Runs, Retry(r) \/ GiveUp(r) PROVE Goal'
    <3>1. \A j \in Items : lastSurfaced'[j] \in {lastSurfaced[j], day}
      BY <2>7, BatchToday DEF Retry, GiveUp
    <3>2. UNCHANGED <<active, request, items, told, day>>
      BY <2>7 DEF Retry, GiveUp, local, history, bounds
    <3>3. /\ \A j \in Items : lastSurfaced'[j] <= day
          /\ \A j \in Items : lastSurfaced[j] = day => lastSurfaced'[j] = day
          /\ RecordedIsTrue'
      BY <3>1, <3>2, TodayKeeps
    <3>4. /\ pc[r] = "record"
          /\ \/ pc' = pc /\ todo' = [todo EXCEPT ![r] = items[r]]
             \/ pc' = [pc EXCEPT ![r] = "actions"] /\ todo' = todo
      BY <2>7 DEF Retry, GiveUp, BatchFails, local
    <3>5. \A q \in Runs : pc'[q] = "record" => /\ pc[q] = "record"
                                              /\ items'[q] \ todo'[q] \subseteq items[q] \ todo[q]
      BY <3>2, <3>4 DEF DayInv, TypeOK
    <3>6. Progress'
      <4> SUFFICES ASSUME NEW q \in Runs, pc'[q] = "record",
                          NEW i \in items'[q] \ todo'[q], i \in active'
                   PROVE  lastSurfaced'[i] = day'
        BY DEF Progress
      <4>1. i \in items[q] \ todo[q] /\ i \in Items /\ i \in active /\ pc[q] = "record"
        BY <3>2, <3>5 DEF DayInv, TypeOK
      <4>2. lastSurfaced[i] = day
        BY <4>1 DEF DayInv, Progress
      <4> QED
        BY <3>2, <3>3, <4>1, <4>2
    <3>7. SameDay'
      BY <3>2, <3>4 DEF SameDay, DayInv, TypeOK
    <3> QED
      BY <3>2, <3>3, <3>6, <3>7 DEF DayInv, Past
  <2>8. ASSUME NEW i \in Items, UserSnoozes(i) \/ UserTrashes(i) PROVE Goal'
    BY <2>8 DEF UserSnoozes, UserTrashes, local, history, DayInv, SameDay, Past, Progress,
                RecordedIsTrue
  <2>9. ASSUME Midnight PROVE Goal'
    <3>1. \A r \in Runs : pc'[r] = "idle"
      BY <2>9 DEF Midnight
    <3>2. day \in Nat /\ day' = day + 1 /\ UNCHANGED <<active, lastSurfaced, told>>
      BY <2>9, DeliveryAssumption DEF Midnight, DayInv, TypeOK, notion, history
    <3>3. /\ \A j \in Items : lastSurfaced[j] \in Nat
          /\ \A t \in told : t[2] \in Nat
      BY DeliveryAssumption DEF DayInv, TypeOK, Dates
    <3>4. Past'
      BY <3>2, <3>3 DEF DayInv, Past
    <3> QED
      BY <3>1, <3>2, <3>4 DEF DayInv, SameDay, Progress, RecordedIsTrue
  <2>10. ASSUME Crash PROVE Goal'
    <3>1. \A r \in Runs : pc'[r] = "idle"
      BY <2>10 DEF Crash
    <3>2. UNCHANGED <<active, told, day>>
      BY <2>10 DEF Crash
    <3>3. \A j \in Items : lastSurfaced'[j] \in {lastSurfaced[j], day}
      BY <2>10, BatchToday DEF Crash
    <3>4. (\A j \in Items : lastSurfaced'[j] <= day) /\ RecordedIsTrue'
      BY <3>2, <3>3, TodayKeeps
    <3> QED
      BY <3>1, <3>2, <3>4 DEF DayInv, SameDay, Past, Progress
  <2>11. ASSUME UNCHANGED vars PROVE Goal'
    BY <2>11 DEF vars, notion, local, history, bounds, DayInv, SameDay, Past, Progress,
                 RecordedIsTrue
  <2> QED
    BY <2>1, <2>2, <2>3, <2>4, <2>5, <2>6, <2>7, <2>8, <2>9, <2>10, <2>11 DEF Next, Step
<1> QED
  BY <1>1, <1>2, TypeCorrect, PTL DEF Spec

\* When runs end before midnight, every page that a run reported as recorded and that is
\* still there bears the run's date or a later one: overlapping runs, failed batches
\* and crashes take no mark back.
THEOREM RecordedStays == ASSUME ~AcrossMidnight PROVE Spec => []RecordedIsTrue
<1>1. DayInv => RecordedIsTrue
  BY DEF DayInv
<1> QED
  BY <1>1, DayInvAlways, PTL

\* And then the passive spacing holds between any two reviews: what a run recorded is not
\* planned again on that date, and later only after its spacing or as a Task due by then.
THEOREM SpacingHolds == ASSUME ~AcrossMidnight PROVE Spec => SpacingKept
<1> DEFINE Spaced ==
      \A r \in Runs : pc[r] = "plan" /\ pc'[r] = "send" =>
          \A t \in told :
              LET a == attr[t[1]] on == request[r].on IN
              t[1] \in items'[r] =>
                  on > t[2] /\ (on - t[2] >= Spacing(a) \/ DueNow(a, on))
<1>1. DayInv /\ Next => Spaced
  <2> SUFFICES ASSUME DayInv, Next, NEW r \in Runs, pc[r] = "plan", pc'[r] = "send",
                      NEW t \in told, t[1] \in items'[r]
               PROVE  /\ request[r].on > t[2]
                      /\ \/ request[r].on - t[2] >= Spacing(attr[t[1]])
                         \/ DueNow(attr[t[1]], request[r].on)
    BY Zenon
  <2>1. PICK P \in SUBSET Items : Plan(r, P)
    <3>1. ASSUME NEW q \in Runs, NEW slot \in Slots, Start(q, slot) PROVE FALSE
      BY <3>1 DEF Start, DayInv, TypeOK
    <3>2. ASSUME NEW q \in Runs, NEW Q \in SUBSET Items, Plan(q, Q)
          PROVE  \E P \in SUBSET Items : Plan(r, P)
      <4>1. pc' = [pc EXCEPT ![q] = "send"] 
        BY <3>2 DEF Plan
      <4>2. pc \in [Runs -> {"idle", "plan", "send", "record", "actions"}]
        BY DEF DayInv, TypeOK
      <4>3. q = r
        BY <4>1, <4>2
      <4> QED
        BY <3>2, <4>3
    <3>3. ASSUME NEW q \in Runs,
                 PlanEmptyOrFailed(q) \/ SendOk(q) \/ SendFails(q)
                   \/ (\E i \in Items : RecordPage(q, i)) \/ Recorded(q) \/ Retry(q)
                   \/ GiveUp(q) \/ SendActions(q)
          PROVE  FALSE
      <4>1. \E place \in {pc[q], "idle", "record", "actions"} : pc' = [pc EXCEPT ![q] = place]
        BY <3>3 DEF PlanEmptyOrFailed, SendOk, SendFails, RecordPage, Recorded, Retry, GiveUp,
           SendActions, End, DayInv, TypeOK
      <4>2. pc \in [Runs -> {"idle", "plan", "send", "record", "actions"}]
        BY DEF DayInv, TypeOK
      <4> QED
        BY <4>1, <4>2
    <3>4. ASSUME (\E i \in Items : UserSnoozes(i) \/ UserTrashes(i)) \/ Midnight \/ Crash
          PROVE  FALSE
      BY <3>4 DEF UserSnoozes, UserTrashes, Midnight, Crash
    <3> QED
      BY <3>1, <3>2, <3>3, <3>4 DEF Next, Step
  <2>2. t[1] \in Candidates(r)
    BY <2>1 DEF Plan, DayInv, TypeOK
  <2>3. /\ t[1] \in active
        /\ SpacedOut(attr[t[1]], lastSurfaced[t[1]], request[r].on)
    BY <2>2 DEF Candidates, Eligible
  <2>4. /\ t[2] \in Nat /\ t[2] > 0
        /\ lastSurfaced[t[1]] \in Nat /\ lastSurfaced[t[1]] >= t[2]
        /\ request[r].on \in Nat
    BY <2>3, DeliveryAssumption DEF DayInv, TypeOK, Past, RecordedIsTrue, Dates
  <2>5. Spacing(attr[t[1]]) \in Nat
    <3>1. attr[t[1]] \in Attributes
      BY <2>3, DeliveryAssumption DEF DayInv, TypeOK
    <3>2. Category(attr[t[1]]) \in Categories
      BY <3>1 DEF Category, Categories, Attributes
    <3> QED
      BY <3>2, EligibilityAssumption DEF Spacing
  <2> HIDE DEF Spaced
  <2> QED
    BY <2>3, <2>4, <2>5 DEF SpacedOut
<1>2. DayInv /\ [Next]_vars => [Spaced]_vars
  BY <1>1
<1> QED
  BY <1>2, DayInvAlways, PTL DEF Spec, SpacingKept
=============================================================================
