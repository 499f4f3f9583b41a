--------------------------- MODULE CaptureProofs ---------------------------
(***************************************************************************)
(* Proofs about Capture, for every set of updates, request slots, page ids *)
(* and classifications and every number of crashes.                        *)
(*                                                                         *)
(* The lock guards only its acquisition (Acquire); that the steps after it *)
(* exclude each other is LockInv, and everything else rests on it.         *)
(***************************************************************************)
EXTENDS Capture, SequenceTheorems, TLAPS

\* Whoever is past the acquisition is the head of the lock's queue.
LockInv ==
    \A r \in Requests : pc[r] \in Critical => captureLock # <<>> /\ Head(captureLock) = r

\* A request carries an update, and from the model's answer on a classification.
CarriesInv ==
    \A r \in Requests :
        /\ pc[r] # "idle" => update[r] \in Updates \ Blank
        /\ pc[r] \in {"save", "create", "ack"} => summary[r] \in Classes

\* A page of Notion that stands for something stands for a text message, classified.
PageInv ==
    \A p \in PageIds : pages[p].state # "free" =>
        pages[p].update \in Updates \ Blank /\ pages[p].class \in Classes

IInv == TypeOK /\ LockInv /\ CarriesInv /\ PageInv

-----------------------------------------------------------------------------
\* The holder leaves the critical section, to the idle slot or to the confirmation.
LEMMA HolderLeaves ==
    ASSUME IInv, NEW r \in Requests, pc[r] \in Critical,
           NEW where \in {"idle", "ack"}, pc' = [pc EXCEPT ![r] = where],
           captureLock' = Tail(captureLock)
    PROVE  /\ captureLock' \in Seq(Requests)
           /\ pc' \in [Requests -> {"idle", "queued", "ack"} \cup Critical]
           /\ LockInv'
<1>1. captureLock # <<>> /\ Head(captureLock) = r
  BY DEF IInv, LockInv
<1>2. \A s \in Requests : pc'[s] \notin Critical
  BY <1>1 DEF IInv, LockInv, TypeOK, Critical
<1> QED
  BY <1>1, <1>2, HeadTailProperties DEF IInv, LockInv, TypeOK

\* A request moves on without touching the lock.
LEMMA HolderMoves ==
    ASSUME IInv, NEW r \in Requests,
           NEW where \in {"idle"} \cup Critical, pc' = [pc EXCEPT ![r] = where],
           where \in Critical => captureLock # <<>> /\ Head(captureLock) = r,
           captureLock' = captureLock
    PROVE  /\ captureLock' \in Seq(Requests)
           /\ pc' \in [Requests -> {"idle", "queued", "ack"} \cup Critical]
           /\ LockInv'
BY DEF IInv, LockInv, TypeOK

\* Types, the lock, what requests carry and what pages stand for, together.
LEMMA Inductive == IInv /\ [Next]_vars => IInv'
<1> SUFFICES ASSUME IInv, [Next]_vars PROVE IInv'
  OBVIOUS
<1>1. ASSUME NEW u \in Updates, DeliverBlank(u) PROVE IInv'
  BY <1>1 DEF DeliverBlank, IInv, TypeOK, LockInv, CarriesInv, PageInv, process, bounds
<1>2. ASSUME NEW r \in Requests, NEW u \in Updates, Deliver(r, u) PROVE IInv'
  <2>1. captureLock' \in Seq(Requests) /\ captureLock' # <<>>
    BY <1>2, AppendProperties DEF Deliver, IInv, TypeOK
  <2>2. captureLock # <<>> => Head(captureLock') = Head(captureLock)
    BY <1>2, HeadTailAppend DEF Deliver, IInv, TypeOK
  <2>3. TypeOK'
    BY <1>2, <2>1 DEF Deliver, IInv, TypeOK, telegram, bounds
  <2>4. LockInv'
    BY <1>2, <2>1, <2>2 DEF Deliver, IInv, TypeOK, LockInv, Critical
  <2>5. CarriesInv' /\ PageInv'
    BY <1>2 DEF Deliver, IInv, TypeOK, CarriesInv, PageInv
  <2> QED
    BY <2>3, <2>4, <2>5 DEF IInv
<1>3. ASSUME NEW r \in Requests, Step(r) PROVE IInv'
  <2> USE DEF bounds, telegram
  <2>1. CASE Acquire(r)
    <3>1. captureLock' \in Seq(Requests) /\ LockInv'
          /\ pc' \in [Requests -> {"idle", "queued", "ack"} \cup Critical]
      BY <2>1, HolderMoves DEF Acquire, LockFree, Critical
    <3> QED
      BY <2>1, <3>1 DEF Acquire, IInv, TypeOK, CarriesInv, PageInv, Critical
  <2>2. CASE ValidateOk(r)
    BY <2>2 DEF ValidateOk, IInv, TypeOK, LockInv, CarriesInv, PageInv
  <2>3. CASE FindMissing(r) \/ SaveMissing(r)
    <3>1. captureLock' \in Seq(Requests) /\ LockInv'
          /\ pc' \in [Requests -> {"idle", "queued", "ack"} \cup Critical]
      BY <2>3, HolderMoves DEF FindMissing, SaveMissing, IInv, LockInv, Critical
    <3> QED
      BY <2>3, <3>1 DEF FindMissing, SaveMissing, IInv, TypeOK, CarriesInv, PageInv, Critical
  <2>4. CASE Classify(r)
    <3>1. captureLock' \in Seq(Requests) /\ LockInv'
          /\ pc' \in [Requests -> {"idle", "queued", "ack"} \cup Critical]
      BY <2>4, HolderMoves DEF Classify, IInv, LockInv, Critical
    <3> QED
      BY <2>4, <3>1 DEF Classify, IInv, TypeOK, CarriesInv, PageInv, Critical
  <2>5. CASE FindFound(r) \/ SaveExisting(r)
    <3>1. PICK p \in PageIds : p \in ActivePages(update[r]) /\ ReleaseWith(r, pages[p].class)
      BY <2>5 DEF FindFound, SaveExisting, ActivePages
    <3>2. captureLock' \in Seq(Requests) /\ LockInv'
          /\ pc' \in [Requests -> {"idle", "queued", "ack"} \cup Critical]
      BY <2>5, <3>1, HolderLeaves DEF FindFound, SaveExisting, ReleaseWith, Critical
    <3>3. pages[p].class \in Classes
      BY <3>1 DEF IInv, PageInv, ActivePages
    <3>4. TypeOK'
      BY <2>5, <3>1, <3>2, <3>3 DEF FindFound, SaveExisting, ReleaseWith, IInv, TypeOK
    <3>5. CarriesInv'
      BY <2>5, <3>1, <3>3 DEF FindFound, SaveExisting, ReleaseWith, IInv, TypeOK, CarriesInv
    <3>6. PageInv'
      BY <2>5 DEF FindFound, SaveExisting, IInv, PageInv
    <3> QED
      BY <3>2, <3>4, <3>5, <3>6 DEF IInv
  <2>6. CASE CallFails(r)
    <3>1. captureLock' \in Seq(Requests) /\ LockInv'
          /\ pc' \in [Requests -> {"idle", "queued", "ack"} \cup Critical]
      BY <2>6, HolderLeaves DEF CallFails, AbortCapture, Leave, Critical
    <3> QED
      BY <2>6, <3>1 DEF CallFails, AbortCapture, Leave, IInv, TypeOK, CarriesInv, PageInv
  <2>7. CASE CreateOk(r) \/ CreateLost(r)
    <3>1. captureLock' \in Seq(Requests) /\ LockInv'
          /\ pc' \in [Requests -> {"idle", "queued", "ack"} \cup Critical]
      BY <2>7, HolderLeaves
      DEF CreateOk, CreateLost, ReleaseWith, AbortCapture, Leave, Critical
    <3>2. update[r] \in Updates \ Blank /\ summary[r] \in Classes
      BY <2>7 DEF CreateOk, CreateLost, IInv, CarriesInv
    <3>3. PICK p \in PageIds, s \in {"active", "inflight"} :
            PutPage(p, s, update[r], summary[r])
      BY <2>7 DEF CreateOk, CreateLost
    <3>4. pages' \in [PageIds -> Page] /\ PageInv'
      BY <3>2, <3>3 DEF PutPage, Page, IInv, TypeOK, PageInv
    <3>5. TypeOK'
      BY <2>7, <3>1, <3>2, <3>4
      DEF CreateOk, CreateLost, ReleaseWith, AbortCapture, Leave, IInv, TypeOK
    <3>6. CarriesInv'
      BY <2>7, <3>2
      DEF CreateOk, CreateLost, ReleaseWith, AbortCapture, Leave, IInv, TypeOK, CarriesInv
    <3> QED
      BY <3>1, <3>4, <3>5, <3>6 DEF IInv
  <2>8. CASE AckConfirmed(r) \/ AckUnconfirmed(r) \/ AckFails(r)
    <3>1. captureLock' \in Seq(Requests) /\ LockInv'
          /\ pc' \in [Requests -> {"idle", "queued", "ack"} \cup Critical]
      BY <2>8, HolderMoves DEF AckConfirmed, AckUnconfirmed, AckFails, Leave, Critical
    <3>2. update[r] \in Updates /\ summary[r] \in Classes
      BY <2>8 DEF AckConfirmed, AckUnconfirmed, AckFails, IInv, CarriesInv
    <3>3. acked' \in [Updates -> SUBSET Classes] /\ pending' \in SUBSET Updates
      BY <2>8, <3>2 DEF AckConfirmed, AckUnconfirmed, AckFails, Confirm, IInv, TypeOK
    <3> QED
      BY <2>8, <3>1, <3>3
      DEF AckConfirmed, AckUnconfirmed, AckFails, Leave, IInv, TypeOK, CarriesInv, PageInv
  <2> QED
    BY <1>3, <2>1, <2>2, <2>3, <2>4, <2>5, <2>6, <2>7, <2>8 DEF Step
<1>4. ASSUME NEW p \in PageIds, CreateLands(p) \/ UserTrashesPage(p) PROVE IInv'
  <2>1. PICK s \in {"active", "trashed"} : pages' = [pages EXCEPT ![p].state = s]
                                        /\ pages[p].state # "free"
    BY <1>4 DEF CreateLands, UserTrashesPage
  <2>3. pages' \in [PageIds -> Page]
    BY <2>1 DEF IInv, TypeOK, Page
  <2>4. PageInv'
    BY <2>1 DEF IInv, TypeOK, PageInv, Page
  <2>2. trashes' \in 0 .. MaxTrashes
    BY <1>4, CaptureAssumption DEF CreateLands, UserTrashesPage, IInv, TypeOK, bounds
  <2> QED
    BY <1>4, <2>2, <2>3, <2>4
    DEF CreateLands, UserTrashesPage, telegram, process, bounds, IInv, TypeOK, LockInv, CarriesInv
<1>5. CASE Crash
  <2>1. pages' \in [PageIds -> Page] /\ PageInv'
    <3>1. CASE UNCHANGED pages
      BY <3>1 DEF IInv, TypeOK, PageInv
    <3>2. CASE ~UNCHANGED pages
      <4>1. PICK r \in Requests, p \in PageIds, s \in {"active", "inflight"} :
              pc[r] = "create" /\ PutPage(p, s, update[r], summary[r])
        BY <1>5, <3>2 DEF Crash
      <4>2. update[r] \in Updates \ Blank /\ summary[r] \in Classes
        BY <4>1 DEF IInv, CarriesInv
      <4> QED
        BY <4>1, <4>2 DEF PutPage, Page, IInv, TypeOK, PageInv
    <3> QED
      BY <3>1, <3>2
  <2>2. crashes' \in 0 .. MaxCrashes
    BY <1>5, CaptureAssumption DEF Crash, IInv, TypeOK
  <2>5. captureLock' \in Seq(Requests)
    BY <1>5 DEF Crash
  <2>3. TypeOK'
    BY <1>5, <2>1, <2>2, <2>5 DEF Crash, IInv, TypeOK, telegram
  <2>4. LockInv' /\ CarriesInv'
    BY <1>5 DEF Crash, LockInv, CarriesInv, Critical
  <2> QED
    BY <2>1, <2>3, <2>4 DEF IInv
<1>6. CASE UNCHANGED vars
  BY <1>6 DEF vars, telegram, process, bounds, IInv, TypeOK, LockInv, CarriesInv, PageInv
<1> QED
  BY <1>1, <1>2, <1>3, <1>4, <1>5, <1>6 DEF Next

LEMMA InitIInv == ASSUME Init PROVE IInv
<1>1. FreePage \in Page
  BY DEF FreePage, Page
<1>2. captureLock \in Seq(Requests)
  BY DEF Init
<1>3. crashes \in 0 .. MaxCrashes /\ trashes \in 0 .. MaxTrashes
  BY CaptureAssumption DEF Init
<1>6. acked \in [Updates -> SUBSET Classes] /\ pending \in SUBSET Updates
  BY DEF Init
<1>7. TypeOK
  BY <1>1, <1>2, <1>3, <1>6 DEF Init, TypeOK
<1>4. LockInv /\ CarriesInv
  BY DEF Init, LockInv, CarriesInv, Critical
<1>5. PageInv
  BY DEF Init, PageInv, FreePage
<1> QED
  BY <1>4, <1>5, <1>7 DEF IInv

LEMMA IInvAlways == Spec => []IInv
BY InitIInv, Inductive, PTL DEF Spec

\* Type correctness of the capture flow, with any number of slots and crashes.
THEOREM Typing == Spec => []TypeOK
BY IInvAlways, PTL DEF IInv

\* OneAtATime: no two requests are ever inside _capture_lock together.
THEOREM MutualExclusion == Spec => []OneAtATime
<1>1. IInv => OneAtATime
  BY DEF IInv, LockInv, OneAtATime
<1> QED
  BY <1>1, IInvAlways, PTL

-----------------------------------------------------------------------------
\* Message u is stored with classification c.
Stored(u, c) == \E p \in StoredPages(u) : pages[p].class = c

\* What is about to be confirmed is stored, with the classification confirmed.
ReadyInv == \A r \in Requests : pc[r] = "ack" => Stored(update[r], summary[r])

\* Every action leaves the pages alone, puts a page on a free id, or moves a
\* page towards the trash.
LEMMA PagesMove ==
    ASSUME IInv, [Next]_vars
    PROVE  \/ UNCHANGED pages
           \/ \E p \in PageIds, s \in {"active", "inflight"}, r \in Requests :
                /\ pc[r] = "create" /\ pages[p].state = "free"
                /\ PutPage(p, s, update[r], summary[r])
           \/ \E p \in PageIds, s \in {"active", "trashed"} :
                /\ pages[p].state = IF s = "active" THEN "inflight" ELSE "active"
                /\ pages' = [pages EXCEPT ![p].state = s]
<1> USE DEF Step
<1>1. CASE \E u \in Updates : DeliverBlank(u) \/ \E r \in Requests : Deliver(r, u)
  BY <1>1 DEF DeliverBlank, Deliver
<1>2. ASSUME NEW r \in Requests, CreateOk(r) \/ CreateLost(r)
      PROVE  \E p \in PageIds, s \in {"active", "inflight"} :
                /\ pc[r] = "create" /\ pages[p].state = "free"
                /\ PutPage(p, s, update[r], summary[r])
  BY <1>2 DEF CreateOk, CreateLost
<1>3. ASSUME NEW r \in Requests, Step(r), ~CreateOk(r), ~CreateLost(r)
      PROVE  UNCHANGED pages
  BY <1>3 DEF Acquire, ValidateOk, FindFound, FindMissing, Classify, SaveExisting,
     SaveMissing, CallFails, AckConfirmed, AckUnconfirmed, AckFails
<1>4. ASSUME NEW p \in PageIds, CreateLands(p) \/ UserTrashesPage(p)
      PROVE  \E s \in {"active", "trashed"} :
                /\ pages[p].state = IF s = "active" THEN "inflight" ELSE "active"
                /\ pages' = [pages EXCEPT ![p].state = s]
  BY <1>4 DEF CreateLands, UserTrashesPage
<1>5. CASE Crash
  BY <1>5 DEF Crash
<1>6. CASE UNCHANGED vars
  BY <1>6 DEF vars
<1> QED
  BY <1>1, <1>2, <1>3, <1>4, <1>5, <1>6 DEF Next

\* What Notion has stored stays stored, with its classification.
LEMMA StoredStays ==
    ASSUME IInv, [Next]_vars, NEW u, NEW c, Stored(u, c)
    PROVE  Stored(u, c)'
<1>1. PICK p \in PageIds : pages[p].state \in {"active", "trashed"}
                           /\ pages[p].update = u /\ pages[p].class = c
  BY DEF Stored, StoredPages
<1>2. pages'[p].state \in {"active", "trashed"}
      /\ pages'[p].update = u /\ pages'[p].class = c
  BY <1>1, PagesMove DEF PutPage, IInv, TypeOK, Page
<1> QED
  BY <1>2 DEF Stored, StoredPages

\* A request reaches the confirmation only with a page that is stored.
LEMMA ReadyStep ==
    ASSUME IInv, ReadyInv, [Next]_vars
    PROVE  ReadyInv'
<1> SUFFICES ASSUME NEW r \in Requests, pc'[r] = "ack"
             PROVE  Stored(update[r], summary[r])'
  BY DEF ReadyInv, Stored, StoredPages
<1>1. CASE pc[r] = "ack"
  <2>1. update'[r] = update[r] /\ summary'[r] = summary[r]
    <3>1. CASE \E u \in Updates : DeliverBlank(u) \/ \E s \in Requests : Deliver(s, u)
      BY <1>1, <3>1 DEF DeliverBlank, Deliver, process, IInv, TypeOK
    <3>2. ASSUME NEW s \in Requests, Step(s)
          PROVE  update'[r] = update[r] /\ summary'[r] = summary[r]
      BY <1>1, <3>2
      DEF Step, Acquire, ValidateOk, FindFound, FindMissing, Classify, SaveExisting,
          SaveMissing, CallFails, CreateOk, CreateLost, AckConfirmed, AckUnconfirmed,
          AckFails, Leave, AbortCapture, ReleaseWith, IInv, TypeOK
    <3>3. CASE \E p \in PageIds : CreateLands(p) \/ UserTrashesPage(p)
      BY <3>3 DEF CreateLands, UserTrashesPage, process
    <3>4. CASE Crash
      BY <3>4 DEF Crash
    <3>5. CASE UNCHANGED vars
      BY <3>5 DEF vars, process
    <3> QED
      BY <3>1, <3>2, <3>3, <3>4, <3>5 DEF Next
  <2> QED
    BY <1>1, <2>1, StoredStays DEF ReadyInv
<1>2. CASE pc[r] # "ack"
  <2>1. CASE FindFound(r) \/ SaveExisting(r)
    <3>1. PICK p \in ActivePages(update[r]) : ReleaseWith(r, pages[p].class)
      BY <2>1 DEF FindFound, SaveExisting
    <3>2. update'[r] = update[r] /\ summary'[r] = pages[p].class /\ pages' = pages
      BY <2>1, <3>1 DEF FindFound, SaveExisting, ReleaseWith, IInv, TypeOK
    <3> QED
      BY <3>1, <3>2 DEF Stored, StoredPages, ActivePages
  <2>2. CASE CreateOk(r)
    <3>1. PICK p \in PageIds : PutPage(p, "active", update[r], summary[r])
      BY <2>2 DEF CreateOk
    <3>2. update'[r] = update[r] /\ summary'[r] = summary[r]
      BY <2>2 DEF CreateOk, ReleaseWith, IInv, TypeOK
    <3>3. pages'[p] = [state |-> "active", update |-> update[r], class |-> summary[r]]
      BY <3>1 DEF PutPage, IInv, TypeOK
    <3> QED
      BY <3>2, <3>3 DEF Stored, StoredPages
  <2>3. CASE \E u \in Updates : DeliverBlank(u) \/ \E s \in Requests : Deliver(s, u)
    BY <1>2, <2>3 DEF DeliverBlank, Deliver, process, IInv, TypeOK
  <2>4. ASSUME NEW s \in Requests, Step(s), s # r \/ ~(FindFound(r) \/ SaveExisting(r) \/ CreateOk(r))
        PROVE  FALSE
    BY <1>2, <2>4
    DEF Step, Acquire, ValidateOk, FindFound, FindMissing, Classify, SaveExisting,
        SaveMissing, CallFails, CreateOk, CreateLost, AckConfirmed, AckUnconfirmed,
        AckFails, Leave, AbortCapture, ReleaseWith, IInv, TypeOK
  <2>5. CASE \E p \in PageIds : CreateLands(p) \/ UserTrashesPage(p)
    BY <1>2, <2>5 DEF CreateLands, UserTrashesPage, process
  <2>6. CASE Crash
    BY <2>6 DEF Crash
  <2>7. CASE UNCHANGED vars
    BY <1>2, <2>7 DEF vars, process
  <2> QED
    BY <2>1, <2>2, <2>3, <2>4, <2>5, <2>6, <2>7 DEF Next
<1> QED
  BY <1>1, <1>2

SafetyInv == IInv /\ ReadyInv /\ NoSilentLoss /\ AckMatchesStore

LEMMA SafetyStep == SafetyInv /\ [Next]_vars => SafetyInv'
<1> SUFFICES ASSUME SafetyInv, [Next]_vars PROVE SafetyInv'
  OBVIOUS
<1> USE DEF SafetyInv
<1>1. IInv' /\ ReadyInv'
  BY Inductive, ReadyStep
<1>2. \A u \in Updates, c \in Classes : Stored(u, c) => Stored(u, c)'
  BY StoredStays
<1>3. ASSUME NEW r \in Requests, AckConfirmed(r) \/ AckUnconfirmed(r)
      PROVE  /\ acked' = [acked EXCEPT ![update[r]] = @ \cup {summary[r]}]
             /\ pending' \in {pending, pending \ {update[r]}}
             /\ update[r] \in Updates /\ summary[r] \in Classes
             /\ Stored(update[r], summary[r])
  BY <1>3 DEF AckConfirmed, AckUnconfirmed, Confirm, ReadyInv, IInv, CarriesInv
<1>4. CASE \E r \in Requests : AckConfirmed(r) \/ AckUnconfirmed(r)
  <2>1. PICK r \in Requests : AckConfirmed(r) \/ AckUnconfirmed(r)
    BY <1>4
  <2>2. AckMatchesStore'
    <3> SUFFICES ASSUME NEW u \in Updates, NEW c \in acked'[u] PROVE Stored(u, c)'
      BY DEF AckMatchesStore, Stored
    <3>1. c \in acked[u] \/ (u = update[r] /\ c = summary[r])
      BY <1>3, <2>1 DEF IInv, TypeOK
    <3>2. Stored(u, c) /\ c \in Classes
      BY <1>3, <2>1, <3>1 DEF AckMatchesStore, Stored, IInv, TypeOK
    <3> QED
      BY <1>2, <3>2
  <2>3. NoSilentLoss'
    <3> SUFFICES ASSUME NEW u \in Updates, u \notin pending', u \notin Blank
                 PROVE  StoredPages(u)' # {}
      BY DEF NoSilentLoss
    <3>1. StoredPages(u) # {}
      BY <1>3, <2>1 DEF NoSilentLoss, Stored
    <3>2. PICK c : Stored(u, c)
      BY <3>1 DEF Stored
    <3>3. Stored(u, c)'
      BY <3>2, StoredStays
    <3> QED
      BY <3>3 DEF Stored
  <2> QED
    BY <1>1, <2>2, <2>3
<1>5. CASE ~\E r \in Requests : AckConfirmed(r) \/ AckUnconfirmed(r)
  <2>1. acked' = acked /\ \A u \in Updates \ Blank : u \in pending <=> u \in pending'
    BY <1>5
    DEF Next, vars, telegram, process, Step, DeliverBlank, Deliver, Acquire, ValidateOk,
        FindFound, FindMissing, Classify, SaveExisting, SaveMissing, CallFails, CreateOk,
        CreateLost, AckFails, CreateLands, UserTrashesPage, Crash
  <2>2. AckMatchesStore'
    <3> SUFFICES ASSUME NEW u \in Updates, NEW c \in acked[u] PROVE Stored(u, c)'
      BY <2>1 DEF AckMatchesStore, Stored
    <3>1. Stored(u, c) /\ c \in Classes
      BY DEF AckMatchesStore, Stored, IInv, TypeOK
    <3> QED
      BY <1>2, <3>1
  <2>3. NoSilentLoss'
    <3> SUFFICES ASSUME NEW u \in Updates, u \notin pending', u \notin Blank
                 PROVE  StoredPages(u)' # {}
      BY DEF NoSilentLoss
    <3>1. PICK c : Stored(u, c)
      BY <2>1 DEF NoSilentLoss, Stored
    <3>2. Stored(u, c)'
      BY <3>1, StoredStays
    <3> QED
      BY <3>2 DEF Stored
  <2> QED
    BY <1>1, <2>2, <2>3
<1> QED
  BY <1>4, <1>5

LEMMA SafetyAlways == Spec => []SafetyInv
<1>1. Init => ReadyInv /\ NoSilentLoss /\ AckMatchesStore
  BY DEF Init, ReadyInv, NoSilentLoss, AckMatchesStore
<1>2. Init => IInv
  BY InitIInv
<1> QED
  BY <1>1, <1>2, SafetyStep, PTL DEF Spec, SafetyInv

\* NoSilentLoss: a text message Telegram was told 200 for is stored in Notion,
\* whatever failed, was lost or crashed on the way.
THEOREM Lossless == Spec => []NoSilentLoss
BY SafetyAlways, PTL DEF SafetyInv

\* AckMatchesStore: every confirmation in the chat shows a stored page's classification.
THEOREM HonestAck == Spec => []AckMatchesStore
BY SafetyAlways, PTL DEF SafetyInv

-----------------------------------------------------------------------------
\* With creations applied before their clients give up, no page is in flight, no
\* request is about to classify or create what is active, and no message has two.
UniqueInv ==
    /\ \A p \in PageIds : pages[p].state # "inflight"
    /\ \A r \in Requests : pc[r] \in {"classify", "create"} => ActivePages(update[r]) = {}
    /\ AtMostOneActivePage

LEMMA UniqueStep ==
    ASSUME ~LateCreates
    PROVE  IInv /\ UniqueInv /\ [Next]_vars => UniqueInv'
<1> SUFFICES ASSUME IInv, UniqueInv, [Next]_vars PROVE UniqueInv'
  OBVIOUS
<1>1. ASSUME UNCHANGED pages, ~Crash PROVE UniqueInv'
  <2>1. \A p \in PageIds : pages'[p].state # "inflight"
    BY <1>1 DEF UniqueInv
  <2>2. AtMostOneActivePage'
    BY <1>1 DEF UniqueInv, AtMostOneActivePage, ActivePages
  <2>3. ASSUME NEW r \in Requests, pc'[r] \in {"classify", "create"}
        PROVE  ActivePages(update'[r]) = {}
    <3>1. CASE \E u \in Updates : DeliverBlank(u) \/ \E s \in Requests : Deliver(s, u)
      BY <2>3, <3>1 DEF DeliverBlank, Deliver, process, IInv, TypeOK, UniqueInv
    <3>2. ASSUME NEW s \in Requests, Step(s)
          PROVE  ActivePages(update'[r]) = {}
      BY <2>3, <3>2
      DEF Step, Acquire, ValidateOk, FindFound, FindMissing, Classify, SaveExisting,
          SaveMissing, CallFails, CreateOk, CreateLost, AckConfirmed, AckUnconfirmed,
          AckFails, Leave, AbortCapture, ReleaseWith, IInv, TypeOK, UniqueInv
    <3>3. CASE \E p \in PageIds : CreateLands(p) \/ UserTrashesPage(p)
      BY <2>3, <3>3 DEF CreateLands, UserTrashesPage, process, UniqueInv
    <3>4. CASE UNCHANGED vars
      BY <2>3, <3>4 DEF vars, process, UniqueInv
    <3> QED
      BY <1>1, <3>1, <3>2, <3>3, <3>4 DEF Next
  <2> QED
    BY <1>1, <2>1, <2>2, <2>3 DEF UniqueInv, ActivePages
<1>2. ASSUME NEW r \in Requests, NEW p \in PageIds, pc[r] = "create",
             PutPage(p, "active", update[r], summary[r]),
             \A s \in Requests : pc'[s] \notin Critical
      PROVE  UniqueInv'
  <2>1. ActivePages(update[r]) = {}
    BY <1>2 DEF UniqueInv
  <2>2. \A q \in PageIds \ {p} : pages'[q] = pages[q]
    BY <1>2 DEF PutPage, IInv, TypeOK
  <2>3. pages'[p].state = "active" /\ pages'[p].update = update[r]
    BY <1>2 DEF PutPage, IInv, TypeOK
  <2>4. \A q \in PageIds : pages'[q].state # "inflight"
    BY <2>2, <2>3 DEF UniqueInv
  <2>5. AtMostOneActivePage'
    BY <2>1, <2>2, <2>3 DEF UniqueInv, AtMostOneActivePage, ActivePages
  <2> QED
    BY <1>2, <2>4, <2>5 DEF UniqueInv, Critical
<1>3. ASSUME NEW p \in PageIds, UserTrashesPage(p) PROVE UniqueInv'
  <2>1. \A q \in PageIds : pages'[q] = pages[q] \/ pages'[q].state = "trashed"
    BY <1>3 DEF UserTrashesPage, IInv, TypeOK, Page
  <2>2. \A u : ActivePages(u)' \subseteq ActivePages(u)
    BY <2>1 DEF ActivePages
  <2>3. pc' = pc /\ update' = update
    BY <1>3 DEF UserTrashesPage, process
  <2> QED
    BY <2>1, <2>2, <2>3 DEF UniqueInv, AtMostOneActivePage
<1>4. ASSUME NEW r \in Requests, CreateOk(r) \/ CreateLost(r) PROVE UniqueInv'
  <2>1. PICK p \in PageIds : PutPage(p, "active", update[r], summary[r])
    BY <1>4 DEF CreateOk, CreateLost
  <2>2. pc[r] = "create" /\ pc' \in {[pc EXCEPT ![r] = "ack"], [pc EXCEPT ![r] = "idle"]}
    BY <1>4 DEF CreateOk, CreateLost, ReleaseWith, AbortCapture, Leave
  <2>3. \A s \in Requests : pc'[s] \notin Critical
    BY <2>2 DEF IInv, LockInv, TypeOK, Critical
  <2> QED
    BY <1>2, <2>1, <2>2, <2>3
<1>5. CASE Crash
  <2>1. \A s \in Requests : pc'[s] \notin Critical
    BY <1>5 DEF Crash, Critical
  <2>2. CASE UNCHANGED pages
    BY <2>1, <2>2 DEF UniqueInv, AtMostOneActivePage, ActivePages, Critical
  <2>3. CASE ~UNCHANGED pages
    <3>1. PICK r \in Requests, p \in PageIds :
            pc[r] = "create" /\ PutPage(p, "active", update[r], summary[r])
      BY <1>5, <2>3 DEF Crash
    <3> QED
      BY <1>2, <2>1, <3>1
  <2> QED
    BY <2>2, <2>3
<1>6. ASSUME NEW r \in Requests, Step(r), ~CreateOk(r), ~CreateLost(r)
      PROVE  UNCHANGED pages
  BY <1>6 DEF Step, Acquire, ValidateOk, FindFound, FindMissing, Classify, SaveExisting,
     SaveMissing, CallFails, AckConfirmed, AckUnconfirmed, AckFails
<1>7. ASSUME NEW p \in PageIds, CreateLands(p) PROVE FALSE
  BY <1>7 DEF CreateLands, UniqueInv
<1>8. CASE \E u \in Updates : DeliverBlank(u) \/ \E r \in Requests : Deliver(r, u)
  <2>1. UNCHANGED pages
    BY <1>8 DEF DeliverBlank, Deliver
  <2> QED
    BY <1>1, <1>5, <2>1
<1>9. CASE UNCHANGED vars
  BY <1>1, <1>5, <1>9 DEF vars
<1> QED
  BY <1>1, <1>3, <1>4, <1>5, <1>6, <1>7, <1>8, <1>9 DEF Next

\* When Notion never applies a creation after its client gave up, no message has
\* two active pages, however many deliveries of it overlap, fail or are repeated.
THEOREM NoDuplicate == ASSUME ~LateCreates PROVE Spec => []AtMostOneActivePage
<1>1. Init => UniqueInv
  BY DEF Init, UniqueInv, AtMostOneActivePage, ActivePages, FreePage
<1>2. IInv /\ UniqueInv /\ [Next]_vars => UniqueInv'
  BY UniqueStep
<1>3. UniqueInv => AtMostOneActivePage
  BY DEF UniqueInv
<1> QED
  BY <1>1, <1>2, <1>3, IInvAlways, PTL DEF Spec

\* ActiveNeverReclassified, under the same condition: the model is never asked about a
\* message the database holds.
THEOREM NeverReclassified == ASSUME ~LateCreates PROVE Spec => []ActiveNeverReclassified
<1>1. Init => UniqueInv
  BY DEF Init, UniqueInv, AtMostOneActivePage, ActivePages, FreePage
<1>2. IInv /\ UniqueInv /\ [Next]_vars => UniqueInv'
  BY UniqueStep
<1>3. UniqueInv => ActiveNeverReclassified
  BY DEF UniqueInv, ActiveNeverReclassified
<1> QED
  BY <1>1, <1>2, <1>3, IInvAlways, PTL DEF Spec

-----------------------------------------------------------------------------
\* What is kept of a message is what is stored of it.
LEMMA KeptIsStored ==
    ASSUME NEW u \in Updates, NEW c
    PROVE  /\ c \in Kept[u] <=> Stored(u, c)
           /\ c \in Kept'[u] <=> Stored(u, c)'
BY DEF Kept, Stored

\* A step that changes what is kept stores one classification of one text message.
LEMMA KeptMoves ==
    ASSUME IInv, [Next]_vars
    PROVE  \/ Kept' = Kept
           \/ \E u \in Updates \ Blank, c \in Classes : Kept' = [Kept EXCEPT ![u] = @ \cup {c}]
<1>1. ASSUME NEW p \in PageIds, pages[p].state \notin {"active", "trashed"},
             \A q \in PageIds \ {p} : pages'[q] = pages[q], pages'[p].state = "active",
             pages'[p].update \in Updates \ Blank, pages'[p].class \in Classes
      PROVE  Kept' = [Kept EXCEPT ![pages'[p].update] = @ \cup {pages'[p].class}]
  <2> DEFINE m == pages'[p].update
             k == pages'[p].class
  <2>1. ASSUME NEW u \in Updates
        PROVE  Kept'[u] = IF u = m THEN Kept[u] \cup {k} ELSE Kept[u]
    <3>1. \A c : Stored(u, c)' <=> Stored(u, c) \/ (u = m /\ c = k)
      BY <1>1 DEF Stored, StoredPages
    <3> QED
      BY <3>1, KeptIsStored
  <2> QED
    BY <2>1, <1>1 DEF Kept
<1>2. ASSUME NEW p \in PageIds,
             \A q \in PageIds \ {p} : pages'[q] = pages[q],
             \/ pages[p].state = "free" /\ pages'[p].state = "inflight"
             \/ /\ pages[p].state = "active" /\ pages'[p].state = "trashed"
                /\ pages'[p].update = pages[p].update /\ pages'[p].class = pages[p].class
      PROVE  Kept' = Kept
  <2>1. ASSUME NEW u \in Updates PROVE Kept'[u] = Kept[u]
    <3>1. \A c : Stored(u, c)' <=> Stored(u, c)
      BY <1>2 DEF Stored, StoredPages
    <3> QED
      BY <3>1, KeptIsStored
  <2> QED
    BY <2>1 DEF Kept
<1>3. CASE UNCHANGED pages
  BY <1>3 DEF Kept, StoredPages
<1>4. ASSUME NEW p \in PageIds, NEW s \in {"active", "inflight"}, NEW r \in Requests,
             pc[r] = "create", pages[p].state = "free",
             PutPage(p, s, update[r], summary[r])
      PROVE  \/ Kept' = Kept
             \/ \E u \in Updates \ Blank, c \in Classes :
                   Kept' = [Kept EXCEPT ![u] = @ \cup {c}]
  <2>1. /\ \A q \in PageIds \ {p} : pages'[q] = pages[q]
        /\ pages'[p] = [state |-> s, update |-> update[r], class |-> summary[r]]
    BY <1>4 DEF PutPage, IInv, TypeOK
  <2>2. update[r] \in Updates \ Blank /\ summary[r] \in Classes
    BY <1>4 DEF IInv, CarriesInv
  <2> QED
    BY <1>1, <1>2, <1>4, <2>1, <2>2
<1>5. ASSUME NEW p \in PageIds, NEW s \in {"active", "trashed"},
             pages[p].state = IF s = "active" THEN "inflight" ELSE "active",
             pages' = [pages EXCEPT ![p].state = s]
      PROVE  \/ Kept' = Kept
             \/ \E u \in Updates \ Blank, c \in Classes :
                   Kept' = [Kept EXCEPT ![u] = @ \cup {c}]
  <2>1. /\ \A q \in PageIds \ {p} : pages'[q] = pages[q]
        /\ pages'[p].state = s
        /\ pages'[p].update = pages[p].update /\ pages'[p].class = pages[p].class
    BY <1>5 DEF IInv, TypeOK, Page
  <2>2. pages[p].update \in Updates \ Blank /\ pages[p].class \in Classes
    BY <1>5 DEF IInv, PageInv
  <2> QED
    BY <1>1, <1>2, <1>5, <2>1, <2>2
<1> QED
  BY <1>3, <1>4, <1>5, PagesMove

\* Every step of the flow is a step of Inbox, or none.
LEMMA BoxStep == SafetyInv /\ [Next]_vars => [Box!Next]_(Box!vars)
<1> SUFFICES ASSUME SafetyInv, [Next]_vars PROVE [Box!Next]_(Box!vars)
  OBVIOUS
<1> USE DEF SafetyInv
<1>1. ASSUME NEW u \in Updates, DeliverBlank(u) PROVE Box!Ignore(u)
  <2>1. Kept' = Kept
    BY <1>1 DEF DeliverBlank, Kept, StoredPages
  <2>2. Updates \ pending' = (Updates \ pending) \cup {u}
    BY <1>1 DEF DeliverBlank
  <2> QED
    BY <1>1, <2>1, <2>2 DEF DeliverBlank, Box!Ignore
<1>2. ASSUME NEW r \in Requests, AckConfirmed(r) \/ AckUnconfirmed(r)
      PROVE  Box!Tell(update[r], summary[r]) /\ update[r] \in Updates /\ summary[r] \in Classes
  <2>1. update[r] \in Updates /\ summary[r] \in Classes /\ Stored(update[r], summary[r])
    BY <1>2 DEF AckConfirmed, AckUnconfirmed, ReadyInv, IInv, CarriesInv
  <2>2. summary[r] \in Kept[update[r]]
    BY <2>1, KeptIsStored
  <2>3. Kept' = Kept
    BY <1>2 DEF AckConfirmed, AckUnconfirmed, Kept, StoredPages
  <2>4. Updates \ pending' \in {Updates \ pending, (Updates \ pending) \cup {update[r]}}
    BY <1>2, <2>1 DEF AckConfirmed, AckUnconfirmed
  <2>5. acked' = [acked EXCEPT ![update[r]] = @ \cup {summary[r]}]
    BY <1>2 DEF AckConfirmed, AckUnconfirmed, Confirm
  <2> QED
    BY <2>1, <2>2, <2>3, <2>4, <2>5 DEF Box!Tell
<1>3. CASE UNCHANGED telegram
  <2>1. UNCHANGED <<acked, Updates \ pending>>
    BY <1>3 DEF telegram
  <2>2. CASE Kept' = Kept
    BY <2>1, <2>2 DEF Box!vars
  <2>3. ASSUME NEW u \in Updates \ Blank, NEW c \in Classes,
               Kept' = [Kept EXCEPT ![u] = @ \cup {c}]
        PROVE  Box!Next
    <3>1. Box!Keep(u, c)
      BY <2>1, <2>3 DEF Box!Keep
    <3> QED
      BY <3>1 DEF Box!Next
  <2> QED
    BY <2>2, <2>3, KeptMoves
<1>4. \/ \E u \in Updates : DeliverBlank(u)
      \/ \E r \in Requests : AckConfirmed(r) \/ AckUnconfirmed(r)
      \/ UNCHANGED telegram
  BY DEF Next, vars, Step, Deliver, Acquire, ValidateOk, FindFound, FindMissing, Classify,
     SaveExisting, SaveMissing, CallFails, CreateOk, CreateLost, AckFails, CreateLands,
     UserTrashesPage, Crash
<1> QED
  BY <1>1, <1>2, <1>3, <1>4 DEF Box!Next

\* InboxSpec: whatever overlaps, fails, crashes or is repeated, the flow implements Inbox.
THEOREM Refinement == Spec => InboxSpec
<1>1. Init => Box!Init
  <2> SUFFICES ASSUME Init PROVE Box!Init
    OBVIOUS
  <2>1. \A u \in Updates : StoredPages(u) = {}
    BY DEF Init, StoredPages, FreePage
  <2>2. Kept = [u \in Updates |-> {}] /\ Updates \ pending = {}
    BY <2>1 DEF Kept, Init
  <2> QED
    BY <2>2 DEF Init, Box!Init
<1>2. SafetyInv /\ [Next]_vars => [Box!Next]_(Box!vars)
  BY BoxStep
<1> QED
  BY <1>1, <1>2, SafetyAlways, PTL DEF Spec, InboxSpec, Box!Spec
=============================================================================
