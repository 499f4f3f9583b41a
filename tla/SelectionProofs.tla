-------------------------- MODULE SelectionProofs --------------------------
(***************************************************************************)
(* Proofs about Selection, for any number of entries and domains, every    *)
(* limit and every soft cap.                                               *)
(*                                                                         *)
(* The three loops are one argument: an entry that is neither selected nor *)
(* still to be visited, by the loop that runs or by a later one, is left   *)
(* out because of a category cap or because the review is full, and both   *)
(* reasons last (NoLoss).                                                  *)
(***************************************************************************)
EXTENDS Selection, FiniteSetTheorems, TLAPS

\* Entries the loops will still visit.
Waiting ==
    CASE loop = "urgent"   -> rest \cup (Places \ Urgent)
      [] loop = "others"   -> rest \cup deferred
      [] loop = "deferred" -> rest
      [] loop = "done"     -> {}

NoLoss == \A e \in Places \ (selected \cup Waiting) : Capped(e) \/ Full

IInv == TypeOK /\ IsFiniteSet(selected) /\ WithinCaps /\ NoLoss

-----------------------------------------------------------------------------
\* The loops never visit an entry that is not there.
LEMMA VisitsPlace ==
    ASSUME TypeOK, NEW e, Visits(e)
    PROVE  e \in Places /\ rest' \subseteq Places
  BY DEF TypeOK, Visits, IsBest

\* An entry the category caps allow, added to a review with room, keeps the caps.
LEMMA AddKeeps ==
    ASSUME IInv, UNCHANGED <<entry, setting>>, NEW e \in Places, ~Full, CategoryCapAllows(e),
           selected' = selected \cup {e}
    PROVE  IsFiniteSet(selected') /\ WithinCaps'
<1>1. /\ IsFiniteSet(selected')
      /\ Cardinality(selected') = IF e \in selected THEN Cardinality(selected)
                                  ELSE Cardinality(selected) + 1
  BY FS_AddElement DEF IInv
<1>2. Cardinality(selected) \in Nat /\ setting.limit \in Nat
  BY FS_CardinalityType, SelectionAssumption DEF IInv, TypeOK
<1>3. Cardinality(selected') <= setting'.limit
  BY <1>1, <1>2 DEF IInv, WithinCaps, Full
<1>4. Planned' = Planned /\ Thoughts' = Thoughts
  BY DEF Planned, Thoughts, Places
<1>5. \A f, g \in selected' \cap Planned : f = g
  BY DEF IInv, WithinCaps, CategoryCapAllows
<1>6. \A f, g \in selected' \cap (Thoughts \ Planned) : f = g
  BY DEF IInv, WithinCaps, CategoryCapAllows
<1> QED
  BY <1>1, <1>3, <1>4, <1>5, <1>6 DEF WithinCaps

\* Both reasons to be left out last while the selection grows.
LEMMA ReasonsLast ==
    ASSUME IsFiniteSet(selected'), TypeOK, UNCHANGED <<entry, setting>>,
           selected \subseteq selected', NEW e \in Places, Capped(e) \/ Full
    PROVE  (Capped(e) \/ Full)'
<1>1. Planned' = Planned /\ Thoughts' = Thoughts
  BY DEF Planned, Thoughts, Places
<1>2. CASE Capped(e)
  BY <1>1, <1>2 DEF Capped
<1>3. CASE Full
  <2>1. /\ Cardinality(selected) <= Cardinality(selected')
        /\ Cardinality(selected) \in Nat /\ Cardinality(selected') \in Nat
    BY FS_Subset, FS_CardinalityType
  <2>2. setting.limit \in Nat
    BY SelectionAssumption DEF TypeOK
  <2> QED
    BY <1>3, <2>1, <2>2 DEF Full
<1> QED
  BY <1>2, <1>3

\* A visit that takes the entry, puts it off or finds it capped loses none.
LEMMA VisitKeeps ==
    ASSUME IInv, UNCHANGED <<entry, setting, loop, plan>>, NEW e, Visits(e),
           deferred' \subseteq Places,
           deferred \subseteq deferred',
           \/ CategoryCapAllows(e) /\ selected' = selected \cup {e}
           \/ ~CategoryCapAllows(e) /\ selected' = selected
           \/ loop = "others" /\ e \in deferred' /\ selected' = selected,
           loop \in {"urgent", "others", "deferred"}
    PROVE  IInv'
<1>1. e \in Places /\ rest' \subseteq Places /\ ~Full /\ rest' = rest \ {e}
  BY VisitsPlace DEF IInv, Visits, Ends
<1>2. UNCHANGED <<Places, Urgent, Planned, Thoughts>>
  BY DEF Places, Urgent, Planned, Thoughts
<1>3. IsFiniteSet(selected') /\ WithinCaps'
  <2>1. CASE selected' = selected
    BY <1>2, <2>1 DEF IInv, WithinCaps
  <2> QED
    BY <1>1, <2>1, AddKeeps
<1>4. selected \subseteq selected' /\ selected' \subseteq Places
  BY <1>1 DEF IInv, TypeOK
<1>5. TypeOK'
  BY <1>1, <1>2, <1>4 DEF IInv, TypeOK
<1>6. \A f \in Places : Capped(f) \/ Full => (Capped(f) \/ Full)'
  BY <1>3, <1>4, ReasonsLast DEF IInv
<1>7. Waiting \subseteq Waiting' \cup {e}
  BY <1>1, <1>2 DEF Waiting
<1>8. e \in selected' \/ e \in Waiting' \/ Capped(e)
  BY <1>1, <1>2 DEF Waiting, Capped, CategoryCapAllows
<1>9. NoLoss'
  <2> SUFFICES ASSUME NEW f \in Places, f \notin selected', f \notin Waiting'
               PROVE  (Capped(f) \/ Full)'
    BY <1>2 DEF NoLoss
  <2>1. CASE f = e
    BY <1>6, <1>8, <2>1
  <2>2. CASE f # e
    BY <1>4, <1>6, <1>7, <2>2 DEF IInv, NoLoss
  <2> QED
    BY <2>1, <2>2
<1> QED
  BY <1>3, <1>5, <1>9 DEF IInv

\* A loop that ends hands over everything that may still be taken.
LEMMA EndKeeps ==
    ASSUME IInv, UNCHANGED <<entry, setting, selected>>, Ends,
           TypeOK', Waiting \subseteq Waiting' \cup rest
    PROVE  IInv'
<1>1. UNCHANGED <<Places, Planned, Thoughts, Full>>
  BY DEF Places, Planned, Thoughts, Full
<1>2. WithinCaps' /\ IsFiniteSet(selected')
  BY <1>1 DEF IInv, WithinCaps
<1>3. NoLoss'
  <2> SUFFICES ASSUME NEW f \in Places, f \notin selected, f \notin Waiting'
               PROVE  (Capped(f) \/ Full)'
    BY <1>1 DEF NoLoss
  <2>1. CASE Full
    BY <1>1, <2>1
  <2>2. CASE rest = {}
    BY <1>1, <2>2 DEF IInv, NoLoss, Capped
  <2> QED
    BY <2>1, <2>2 DEF Ends
<1> QED
  BY <1>2, <1>3 DEF IInv

LEMMA InitIInv == Init => IInv
<1> SUFFICES ASSUME Init PROVE IInv
  OBVIOUS
<1>1. TypeOK
  BY DEF Init, TypeOK, Urgent
<1>2. IsFiniteSet(selected) /\ Cardinality(selected) = 0
  BY FS_EmptySet DEF Init
<1>3. setting.limit \in Nat
  BY SelectionAssumption DEF Init
<1>4. WithinCaps
  BY <1>2, <1>3 DEF Init, WithinCaps
<1>5. NoLoss
  BY DEF Init, NoLoss, Waiting
<1> QED
  BY <1>1, <1>2, <1>4, <1>5 DEF IInv

LEMMA StepIInv == IInv /\ [Next]_vars => IInv'
<1> SUFFICES ASSUME IInv, [Next]_vars PROVE IInv'
  OBVIOUS
<1>1. ASSUME NEW e \in Places, VisitUrgent(e) PROVE IInv'
  BY <1>1, VisitKeeps DEF VisitUrgent, IInv, TypeOK
<1>2. ASSUME NEW e \in Places, VisitOther(e) PROVE IInv'
  BY <1>2, VisitKeeps DEF VisitOther, IInv, TypeOK
<1>3. ASSUME NEW e \in Places, VisitDeferred(e) PROVE IInv'
  BY <1>3, VisitKeeps DEF VisitDeferred, IInv, TypeOK
<1>4. CASE UrgentEnds
  <2>1. TypeOK'
    BY <1>4 DEF UrgentEnds, IInv, TypeOK, Places
  <2>2. Waiting \subseteq Waiting' \cup rest
    BY <1>4 DEF UrgentEnds, Waiting, Places, Urgent
  <2> QED
    BY <1>4, <2>1, <2>2, EndKeeps DEF UrgentEnds
<1>5. CASE OthersEnd
  <2>1. TypeOK'
    BY <1>5 DEF OthersEnd, IInv, TypeOK, Places
  <2>2. Waiting \subseteq Waiting' \cup rest
    BY <1>5 DEF OthersEnd, Waiting
  <2> QED
    BY <1>5, <2>1, <2>2, EndKeeps DEF OthersEnd
<1>6. CASE DeferredEnds
  <2>1. TypeOK'
    BY <1>6 DEF DeferredEnds, IInv, TypeOK, Places
  <2>2. Waiting \subseteq Waiting' \cup rest
    BY <1>6 DEF DeferredEnds, Waiting
  <2> QED
    BY <1>6, <2>1, <2>2, EndKeeps DEF DeferredEnds
<1>7. CASE UNCHANGED vars
  BY <1>7 DEF vars, IInv, TypeOK, Places, WithinCaps, Planned, Thoughts, NoLoss, Waiting,
              Urgent, Capped, Full
<1> QED
  BY <1>1, <1>2, <1>3, <1>4, <1>5, <1>6, <1>7 DEF Next

LEMMA Invariance == Spec => []IInv
<1>1. Init => IInv
  BY InitIInv
<1>2. IInv /\ [Next]_vars => IInv'
  BY StepIInv
<1> QED
  BY <1>1, <1>2, PTL DEF Spec

-----------------------------------------------------------------------------
\* Every state of the selection is well typed.
THEOREM Typing == Spec => []TypeOK
<1>1. IInv => TypeOK
  BY DEF IInv
<1> QED
  BY <1>1, Invariance, PTL

\* The limit and the category caps hold after every iteration of every loop.
THEOREM CapsHold == Spec => []WithinCaps
<1>1. IInv => WithinCaps
  BY DEF IInv
<1> QED
  BY <1>1, Invariance, PTL

\* No candidate is left out of a review with room for it, unless by a category cap:
\* the soft cap only puts off.
THEOREM Complete == Spec => []NoEmptyPlace
<1>1. IInv => NoEmptyPlace
  BY DEF IInv, NoLoss, Waiting, NoEmptyPlace
<1> QED
  BY <1>1, Invariance, PTL

-----------------------------------------------------------------------------
\* An urgent task that is left out is capped, is still to be visited, or came after
\* those that filled the review.
UrgentKept ==
    IF loop = "urgent"
    THEN /\ selected \cup rest \subseteq Urgent
         /\ \A e \in Urgent \ selected : Capped(e) \/ e \in rest
         /\ \A f \in selected, e \in rest : f < e
    ELSE \A e \in Urgent \ selected :
            Capped(e) \/ (Full /\ \A f \in selected : f \in Urgent /\ f < e)

\* Another entry that is left out is capped, has a full domain, or comes after those
\* that were selected, for it has not been visited yet or the review was full first.
RankKept ==
    /\ loop = "others" =>
         /\ rest \subseteq Places \ Urgent
         /\ \A f \in selected \ Urgent, e \in rest : f < e
    /\ loop # "urgent" =>
         \A e \in Places \ (Urgent \cup selected) :
            \/ Capped(e) \/ OverSoftCap(e)
            \/ /\ \A f \in selected \ Urgent : f < e
               /\ IF loop = "others" THEN e \in rest ELSE Full

Better(f) == {g \in selected \cap InDomain(entry[f].domain) : g \in Urgent \/ g <= f}

\* Domains exceed their soft cap only when nothing else is left to take.
SoftKept ==
    \/ \A e \in Places \ (Urgent \cup selected) : Capped(e) \/ OverSoftCap(e)
    \/ \A f \in selected \ Urgent : Cardinality(Better(f)) <= setting.softCap

RankInv == IInv /\ UrgentKept /\ RankKept /\ SoftKept

\* The sets the entries are classified by do not change.
LEMMA SameEntries ==
    ASSUME UNCHANGED entry
    PROVE  /\ UNCHANGED <<Places, Urgent, Planned, Thoughts>>
           /\ \A d : InDomain(d)' = InDomain(d)
  BY DEF Places, Urgent, Planned, Thoughts, InDomain

\* A cap that keeps an entry out goes on to do so while the selection grows.
LEMMA CapsLast ==
    ASSUME IsFiniteSet(selected'), TypeOK, UNCHANGED <<entry, setting>>,
           selected \subseteq selected', NEW e \in Places
    PROVE  /\ Capped(e) => Capped(e)'
           /\ OverSoftCap(e) => OverSoftCap(e)'
<1>1. UNCHANGED <<Places, Urgent, Planned, Thoughts>> /\ \A d : InDomain(d)' = InDomain(d)
  BY SameEntries
<1>2. Capped(e) => Capped(e)'
  BY <1>1 DEF Capped
<1>3. OverSoftCap(e) => OverSoftCap(e)'
  <2> DEFINE D == InDomain(entry[e].domain)
  <2>1. OverSoftCap(e) <=> Cardinality(selected \cap D) >= setting.softCap
    BY DEF OverSoftCap
  <2>2. OverSoftCap(e)' <=> Cardinality(selected' \cap D) >= setting.softCap
    BY <1>1 DEF OverSoftCap
  <2> HIDE DEF D
  <2>3. selected \cap D \subseteq selected' \cap D /\ IsFiniteSet(selected' \cap D)
    BY FS_Subset
  <2>4. /\ Cardinality(selected \cap D) <= Cardinality(selected' \cap D)
        /\ Cardinality(selected \cap D) \in Nat /\ Cardinality(selected' \cap D) \in Nat
    BY <2>3, FS_Subset, FS_CardinalityType
  <2>5. setting.softCap \in Nat
    BY SelectionAssumption DEF TypeOK
  <2> QED
    BY <2>1, <2>2, <2>4, <2>5
<1> QED
  BY <1>2, <1>3

\* The places are numbers, in the order of which they are visited.
LEMMA VisitOrder ==
    ASSUME TypeOK, NEW e, Visits(e)
    PROVE  /\ e \in Places /\ e \in rest /\ rest' = rest \ {e} /\ ~Full
           /\ Places \subseteq Nat
           /\ \A f \in rest' : e < f
<1>1. Places \subseteq Nat
  BY DEF TypeOK, Places
<1>2. e \in Places /\ e \in rest /\ rest' = rest \ {e} /\ ~Full /\ \A f \in rest : e <= f
  BY DEF TypeOK, Visits, IsBest, Ends
<1> QED
  BY <1>1, <1>2 DEF TypeOK

LEMMA RankVisitUrgent ==
    ASSUME RankInv, IInv', NEW e \in Places, VisitUrgent(e)
    PROVE  RankInv'
<1>1. /\ e \in rest /\ rest' = rest \ {e} /\ ~Full /\ \A f \in rest' : e < f
      /\ Places \subseteq Nat
  BY VisitOrder DEF VisitUrgent, RankInv, IInv
<1>2. UNCHANGED <<entry, setting, loop, Places, Urgent, Planned, Thoughts>>
  BY SameEntries DEF VisitUrgent
<1>3. selected \subseteq selected' /\ selected' \subseteq selected \cup {e}
  BY DEF VisitUrgent
<1>4. \A f \in Places : Capped(f) => Capped(f)'
  BY <1>2, <1>3, CapsLast DEF RankInv, IInv
<1>5. e \in selected' \/ Capped(e)
  BY DEF VisitUrgent, Capped, CategoryCapAllows
<1>6. UrgentKept'
  <2>1. loop = "urgent" /\ UrgentKept
    BY DEF VisitUrgent, RankInv
  <2>2. selected' \cup rest' \subseteq Urgent
    BY <1>1, <1>3, <2>1 DEF UrgentKept
  <2>3. \A f \in Urgent \ selected' : Capped(f)' \/ f \in rest'
    <3> TAKE f \in Urgent \ selected'
    <3>1. f \in Places /\ f \notin selected
      BY <1>3 DEF Urgent
    <3>2. Capped(f) \/ f \in rest
      BY <2>1, <3>1 DEF UrgentKept
    <3> QED
      BY <1>1, <1>4, <1>5, <3>1, <3>2
  <2>4. \A f \in selected', g \in rest' : f < g
    BY <1>1, <1>3, <2>1 DEF UrgentKept
  <2> QED
    BY <1>2, <2>1, <2>2, <2>3, <2>4 DEF UrgentKept
<1>7. RankKept'
  BY <1>2 DEF VisitUrgent, RankKept
<1>8. SoftKept'
  <2>1. selected' \ Urgent = {}
    BY <1>2, <1>6 DEF UrgentKept, VisitUrgent
  <2> QED
    BY <1>2, <2>1 DEF SoftKept
<1> QED
  BY <1>6, <1>7, <1>8 DEF RankInv

\* Beyond the first loop, urgent tasks that are left out stay so for the same reason.
LEMMA UrgentStays ==
    ASSUME RankInv, IInv', UNCHANGED <<entry, setting>>, loop # "urgent", loop' # "urgent",
           selected \subseteq selected', Full => selected' = selected
    PROVE  UrgentKept'
<1>1. UNCHANGED <<Places, Urgent, Planned, Thoughts>>
  BY SameEntries
<1>2. \A f \in Places : Capped(f) => Capped(f)'
  BY CapsLast DEF RankInv, IInv
<1>3. Full /\ selected' = selected => Full'
  BY DEF Full
<1> SUFFICES ASSUME NEW e \in Urgent \ selected'
             PROVE  Capped(e)' \/ (Full' /\ \A f \in selected' : f \in Urgent /\ f < e)
  BY <1>1 DEF UrgentKept
<1>4. e \in Places /\ e \in Urgent \ selected
  BY DEF Urgent
<1>5. Capped(e) \/ (Full /\ \A f \in selected : f \in Urgent /\ f < e)
  BY <1>4 DEF RankInv, UrgentKept
<1> QED
  BY <1>2, <1>3, <1>4, <1>5

LEMMA RankVisitOther ==
    ASSUME RankInv, IInv', NEW e \in Places, VisitOther(e)
    PROVE  RankInv'
<1>1. /\ e \in rest /\ rest' = rest \ {e} /\ ~Full /\ \A f \in rest' : e < f
      /\ Places \subseteq Nat
  BY VisitOrder DEF VisitOther, RankInv, IInv
<1>2. /\ UNCHANGED <<entry, setting, loop, Places, Urgent, Planned, Thoughts>>
      /\ \A d : InDomain(d)' = InDomain(d)
  BY SameEntries DEF VisitOther
<1>3. selected \subseteq selected' /\ selected' \subseteq selected \cup {e}
  BY DEF VisitOther
<1>4. \A f \in Places : (Capped(f) => Capped(f)') /\ (OverSoftCap(f) => OverSoftCap(f)')
  BY <1>2, <1>3, CapsLast DEF RankInv, IInv
<1>5. \/ e \in selected' /\ ~OverSoftCap(e)
      \/ selected' = selected /\ (Capped(e) \/ OverSoftCap(e))
  BY DEF VisitOther, Capped, CategoryCapAllows
<1>6. /\ loop = "others" /\ rest \subseteq Places \ Urgent
      /\ \A f \in selected \ Urgent, g \in rest : f < g
  BY DEF VisitOther, RankInv, RankKept
<1>7. UrgentKept'
  BY <1>1, <1>2, <1>3, <1>6, UrgentStays
<1>8. RankKept'
  <2>1. \A f \in selected' \ Urgent, g \in rest' : f < g
    BY <1>1, <1>3, <1>6
  <2>2. ASSUME NEW g \in Places \ (Urgent \cup selected')
        PROVE  \/ Capped(g)' \/ OverSoftCap(g)'
               \/ (\A f \in selected' \ Urgent : f < g) /\ g \in rest'
    <3>1. g \notin selected /\ g \in Places
      BY <1>3
    <3>2. Capped(g) \/ OverSoftCap(g) \/ g \in rest
      BY <1>6, <3>1 DEF RankInv, RankKept
    <3>3. CASE g = e
      BY <1>4, <1>5, <2>2, <3>3
    <3>4. CASE g # e
      BY <1>1, <1>4, <2>1, <3>1, <3>2, <3>4
    <3> QED
      BY <3>3, <3>4
  <2>3. rest' \subseteq Places \ Urgent
    BY <1>1, <1>6
  <2> QED
    BY <1>2, <1>6, <2>1, <2>2, <2>3 DEF RankKept
<1>9. SoftKept'
  <2>1. CASE \A f \in Places \ (Urgent \cup selected) : Capped(f) \/ OverSoftCap(f)
    BY <1>2, <1>3, <1>4, <2>1 DEF SoftKept
  <2>2. CASE \A f \in selected \ Urgent : Cardinality(Better(f)) <= setting.softCap
    <3>1. ASSUME NEW f \in selected' \ Urgent
          PROVE  Cardinality(Better(f)') <= setting.softCap
      <4>0. Better(f)' = {g \in selected' \cap InDomain(entry[f].domain) : g \in Urgent \/ g <= f}
        BY <1>2 DEF Better
      <4>1. CASE f \in selected
        <5>1. f < e /\ e \notin Urgent /\ f \in Nat /\ e \in Nat
          BY <1>1, <1>3, <1>6, <3>1, <4>1 DEF RankInv, IInv, TypeOK
        <5>2. ~(e \in Urgent \/ e <= f)
          BY <5>1
        <5>3. Better(f)' = Better(f)
          BY <1>3, <4>0, <5>2 DEF Better
        <5> QED
          BY <2>2, <3>1, <4>1, <5>3
      <4>2. CASE f \notin selected
        <5>1. f = e /\ ~OverSoftCap(e)
          BY <1>3, <1>5, <3>1, <4>2
        <5> DEFINE D == selected \cap InDomain(entry[e].domain)
        <5>2. ~(Cardinality(D) >= setting.softCap)
          BY <5>1 DEF OverSoftCap
        <5>3. IsFiniteSet(D)
          BY FS_Subset DEF RankInv, IInv
        <5>4. Better(f)' \subseteq D \cup {e}
          BY <1>3, <4>0, <5>1
        <5> HIDE DEF D
        <5>5. /\ IsFiniteSet(D \cup {e}) /\ Cardinality(D) \in Nat
              /\ Cardinality(D \cup {e}) <= Cardinality(D) + 1
          <6>1. /\ IsFiniteSet(D \cup {e})
                /\ Cardinality(D \cup {e})
                      = IF e \in D THEN Cardinality(D) ELSE Cardinality(D) + 1
            BY <5>3, FS_AddElement
          <6>2. Cardinality(D) \in Nat
            BY <5>3, FS_CardinalityType
          <6> QED
            BY <6>1, <6>2
        <5>6. /\ Cardinality(Better(f)') <= Cardinality(D \cup {e})
              /\ Cardinality(Better(f)') \in Nat /\ Cardinality(D \cup {e}) \in Nat
          BY <5>4, <5>5, FS_Subset, FS_CardinalityType
        <5>7. setting.softCap \in Nat
          BY SelectionAssumption DEF RankInv, IInv, TypeOK
        <5> QED
          BY <5>2, <5>5, <5>6, <5>7
      <4> QED
        BY <4>1, <4>2
    <3> QED
      BY <1>2, <3>1 DEF SoftKept
  <2> QED
    BY <2>1, <2>2 DEF RankInv, SoftKept
<1> QED
  BY <1>7, <1>8, <1>9 DEF RankInv

\* A review that the last loop still adds to was not full when the second one ended.
LEMMA RankVisitDeferred ==
    ASSUME RankInv, IInv', NEW e \in Places, VisitDeferred(e)
    PROVE  RankInv'
<1>1. ~Full /\ loop = "deferred"
  BY VisitOrder DEF VisitDeferred, RankInv, IInv
<1>2. UNCHANGED <<entry, setting, loop, Places, Urgent, Planned, Thoughts>>
  BY SameEntries DEF VisitDeferred
<1>3. selected \subseteq selected'
  BY DEF VisitDeferred
<1>4. \A f \in Places : (Capped(f) => Capped(f)') /\ (OverSoftCap(f) => OverSoftCap(f)')
  BY <1>2, <1>3, CapsLast DEF RankInv, IInv
<1>5. UrgentKept'
  BY <1>1, <1>2, <1>3, UrgentStays
<1>6. \A f \in Places \ (Urgent \cup selected) : Capped(f) \/ OverSoftCap(f)
  BY <1>1 DEF RankInv, RankKept
<1>7. \A f \in Places \ (Urgent \cup selected') : Capped(f)' \/ OverSoftCap(f)'
  BY <1>3, <1>4, <1>6
<1> QED
  BY <1>1, <1>2, <1>5, <1>7 DEF RankInv, RankKept, SoftKept

LEMMA RankStep == RankInv /\ [Next]_vars => RankInv'
<1> SUFFICES ASSUME RankInv, [Next]_vars PROVE RankInv'
  OBVIOUS
<1>0. IInv'
  BY StepIInv DEF RankInv
<1>1. ASSUME NEW e \in Places, VisitUrgent(e) \/ VisitOther(e) \/ VisitDeferred(e)
      PROVE  RankInv'
  BY <1>0, <1>1, RankVisitUrgent, RankVisitOther, RankVisitDeferred
<1>2. ASSUME UNCHANGED <<entry, setting, selected>>
      PROVE  /\ UNCHANGED <<Places, Urgent, Planned, Thoughts, Full>>
             /\ \A e : UNCHANGED <<Capped(e), OverSoftCap(e), Better(e)>>
  BY <1>2 DEF Places, Urgent, Planned, Thoughts, Full, Capped, OverSoftCap, Better, InDomain
<1>3. ASSUME UNCHANGED <<entry, setting, selected>> PROVE SoftKept'
  BY <1>2, <1>3 DEF RankInv, SoftKept
<1>4. CASE UrgentEnds
  <2>1. loop = "urgent" /\ loop' = "others" /\ rest' = Places \ Urgent /\ Ends
        /\ UNCHANGED <<entry, setting, selected>>
    BY <1>4 DEF UrgentEnds
  <2>2. selected \subseteq Urgent
    BY <2>1 DEF RankInv, UrgentKept
  <2>3. UrgentKept'
    BY <1>2, <2>1, <2>2 DEF RankInv, UrgentKept, Ends
  <2>4. RankKept'
    BY <1>2, <2>1, <2>2 DEF RankKept
  <2> QED
    BY <1>0, <1>3, <2>1, <2>3, <2>4 DEF RankInv
<1>5. CASE OthersEnd
  <2>1. loop = "others" /\ loop' = "deferred" /\ Ends /\ UNCHANGED <<entry, setting, selected>>
    BY <1>5 DEF OthersEnd
  <2>2. UrgentKept'
    BY <1>2, <2>1 DEF RankInv, UrgentKept
  <2>3. RankKept'
    BY <1>2, <2>1 DEF RankInv, RankKept, Ends
  <2> QED
    BY <1>0, <1>3, <2>1, <2>2, <2>3 DEF RankInv
<1>6. CASE DeferredEnds
  <2>1. loop = "deferred" /\ loop' = "done" /\ UNCHANGED <<entry, setting, selected>>
    BY <1>6 DEF DeferredEnds
  <2>2. UrgentKept' /\ RankKept'
    BY <1>2, <2>1 DEF RankInv, UrgentKept, RankKept
  <2> QED
    BY <1>0, <1>3, <2>1, <2>2 DEF RankInv
<1>7. CASE UNCHANGED vars
  <2>1. UNCHANGED <<entry, setting, selected, loop, rest>>
    BY <1>7 DEF vars
  <2>2. UrgentKept' /\ RankKept'
    BY <1>2, <2>1 DEF RankInv, UrgentKept, RankKept
  <2> QED
    BY <1>0, <1>3, <2>1, <2>2 DEF RankInv
<1> QED
  BY <1>1, <1>4, <1>5, <1>6, <1>7 DEF Next

LEMMA RankAlways == Spec => []RankInv
<1>1. Init => RankInv
  BY InitIInv DEF Init, RankInv, UrgentKept, RankKept, SoftKept
<1>2. RankInv /\ [Next]_vars => RankInv'
  BY RankStep
<1> QED
  BY <1>1, <1>2, PTL DEF Spec

\* An urgent task that no category cap excludes gives way only to urgent tasks that
\* rank before it, in whatever loop the review is filled.
THEOREM UrgentKeepsPlace == Spec => []UrgentFirst
<1>1. RankInv => UrgentFirst
  BY DEF RankInv, UrgentKept, UrgentFirst
<1> QED
  BY <1>1, RankAlways, PTL

\* Only the soft cap of its domain lets an entry lose its place to a worse one that is
\* not urgent.
THEOREM RankKeepsPlace == Spec => []RankUnlessDomainFull
<1>1. ASSUME RankInv PROVE RankUnlessDomainFull
  <2> SUFFICES ASSUME loop = "done", NEW e \in Places \ (Urgent \cup selected),
                      NEW f \in selected \ Urgent, e < f, ~Capped(e)
               PROVE  OverSoftCap(e)
    BY DEF RankUnlessDomainFull, OverSoftCap
  <2>1. e \in Nat /\ f \in Nat
    BY <1>1 DEF RankInv, IInv, TypeOK, Places
  <2>2. ~(f < e)
    BY <2>1
  <2> QED
    BY <1>1, <2>2 DEF RankInv, RankKept
<1> QED
  BY <1>1, RankAlways, PTL

\* The last loop fills up a review beyond the soft caps only when no candidate of
\* another domain, below its soft cap, is left.
THEOREM BackfillComesLast == Spec => []BackfillLast
<1>1. ASSUME RankInv PROVE BackfillLast
  <2> SUFFICES ASSUME NEW f \in selected \ Urgent, Cardinality(Better(f)) > setting.softCap,
                      NEW e \in Places \ (Urgent \cup selected), ~Capped(e)
               PROVE  OverSoftCap(e)
    BY DEF BackfillLast, Better, OverSoftCap
  <2>1. Cardinality(Better(f)) \in Nat /\ setting.softCap \in Nat
    <3>1. Better(f) \subseteq selected
      BY DEF Better
    <3>2. IsFiniteSet(Better(f))
      BY <1>1, <3>1, FS_Subset DEF RankInv, IInv
    <3> QED
      BY <1>1, <3>2, FS_CardinalityType, SelectionAssumption DEF RankInv, IInv, TypeOK
  <2> QED
    BY <1>1, <2>1 DEF RankInv, SoftKept
<1> QED
  BY <1>1, RankAlways, PTL
=============================================================================
