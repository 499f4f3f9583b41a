------------------------------ MODULE Capture ------------------------------
(***************************************************************************)
(* The capture flow: a Telegram text message becomes exactly one page of   *)
(* the Notion database and is then confirmed in the chat.                  *)
(*                                                                         *)
(* One asyncio process serves the webhook.  Telegram delivers an update    *)
(* again and again until it is told 200, also while an earlier delivery of *)
(* it is still being handled.  Each delivery occupies one request slot.    *)
(* A step of this module is what runs between two awaits of a request,     *)
(* with the outcome of the call that the await was for.                    *)
(*                                                                         *)
(* Pages live in Notion and survive a crash; everything else the service   *)
(* keeps is process memory.  The repository's own locks (_save_lock and    *)
(* _validation_lock) are left out: every save is made under the capture    *)
(* lock, and validations only check and set one flag.                      *)
(***************************************************************************)
EXTENDS Naturals, Sequences

CONSTANTS
    Updates,      \* the owner's message updates that Telegram has to deliver
    Blank,        \* those without text, or with blank text
    Requests,     \* request slots of the process (Cloud Run concurrency)
    Classes,      \* classifications the model or the fallback may yield
    PageIds,      \* page ids Notion can still hand out (a bound)
    MaxCrashes,   \* process crashes considered (a bound)
    LateCreates,  \* may Notion apply a page creation after the client gave up?
    MaxTrashes,   \* pages the user moves to Notion's trash (a bound)
    None          \* no update, no classification

ASSUME CaptureAssumption ==
    /\ Blank \subseteq Updates
    /\ None \notin Updates \cup Classes
    /\ MaxCrashes \in Nat
    /\ MaxTrashes \in Nat
    /\ LateCreates \in BOOLEAN

VARIABLES
    pending,      \* updates Telegram has not been told 200 for
    acked,        \* history: classifications confirmed in the chat, per update
    pages,        \* Notion: [PageIds -> Page]
    pc,           \* where each request is
    update,       \* the update each request handles
    summary,      \* its classification, and later the summary it confirms
    captureLock,  \* FIFO of requests at _capture_lock; its head is the holder
    validated,    \* the repository's _validated flag
    crashes,      \* so far
    trashes       \* so far

telegram == <<pending, acked>>
process  == <<pc, update, summary, captureLock, validated>>
bounds   == <<crashes, trashes>>
vars     == <<telegram, pages, process, bounds>>

Page == [state  : {"free", "inflight", "active", "trashed"},
         update : Updates \cup {None},
         class  : Classes \cup {None}]

FreePage == [state |-> "free", update |-> None, class |-> None]

Critical == {"find", "classify", "save", "create"}

TypeOK ==
    /\ pending \in SUBSET Updates
    /\ acked \in [Updates -> SUBSET Classes]
    /\ pages \in [PageIds -> Page]
    /\ pc \in [Requests -> {"idle", "queued", "ack"} \cup Critical]
    /\ update \in [Requests -> Updates \cup {None}]
    /\ summary \in [Requests -> Classes \cup {None}]
    /\ captureLock \in Seq(Requests)
    /\ validated \in BOOLEAN
    /\ crashes \in 0 .. MaxCrashes
    /\ trashes \in 0 .. MaxTrashes

Init ==
    /\ pending = Updates
    /\ acked = [u \in Updates |-> {}]
    /\ pages = [p \in PageIds |-> FreePage]
    /\ pc = [r \in Requests |-> "idle"]
    /\ update = [r \in Requests |-> None]
    /\ summary = [r \in Requests |-> None]
    /\ captureLock = <<>>
    /\ validated = FALSE
    /\ crashes = 0
    /\ trashes = 0

-----------------------------------------------------------------------------
\* What _find can return: the query excludes trashed pages.
ActivePages(u) == {p \in PageIds : pages[p].state = "active" /\ pages[p].update = u}

\* What Notion has persisted, in the database or in its trash.
StoredPages(u) ==
    {p \in PageIds : pages[p].state \in {"active", "trashed"} /\ pages[p].update = u}

\* Mutant: whoever asks is let in.
UnfairLock(r) == captureLock # <<>>

LockFree(r) == captureLock # <<>> /\ Head(captureLock) = r

\* The request leaves the slot; with a status other than 200 Telegram keeps the update.
Leave(r) ==
    /\ pc' = [pc EXCEPT ![r] = "idle"]
    /\ update' = [update EXCEPT ![r] = None]
    /\ summary' = [summary EXCEPT ![r] = None]

\* Mutant: the error path does not release the lock.
AbortHoldingLock(r) ==
    /\ Leave(r)
    /\ UNCHANGED captureLock

\* CapturePersistenceError inside the lock: released, answered 502.
AbortCapture(r) ==
    /\ Leave(r)
    /\ captureLock' = Tail(captureLock)

\* Leave the lock with the summary to confirm.
ReleaseWith(r, c) ==
    /\ pc' = [pc EXCEPT ![r] = "ack"]
    /\ summary' = [summary EXCEPT ![r] = c]
    /\ captureLock' = Tail(captureLock)
    /\ UNCHANGED update

PutPage(p, state, u, c) ==
    pages' = [pages EXCEPT ![p] = [state |-> state, update |-> u, class |-> c]]

-----------------------------------------------------------------------------
\* A delivery of a text message: the handler runs up to the capture lock.
Deliver(r, u) ==
    /\ pc[r] = "idle"
    /\ u \in pending \ Blank
    /\ pc' = [pc EXCEPT ![r] = "queued"]
    /\ update' = [update EXCEPT ![r] = u]
    /\ captureLock' = Append(captureLock, r)
    /\ UNCHANGED <<telegram, pages, summary, validated, bounds>>

\* A delivery without text is ignored with status 200.
DeliverBlank(u) ==
    /\ u \in pending \cap Blank
    /\ pending' = pending \ {u}
    /\ UNCHANGED <<acked, pages, process, bounds>>

Acquire(r) ==
    /\ pc[r] = "queued"
    /\ LockFree(r)
    /\ pc' = [pc EXCEPT ![r] = "find"]
    /\ UNCHANGED <<telegram, pages, update, summary, captureLock, validated, bounds>>

\* The target and its schema are checked once per process.
ValidateOk(r) ==
    /\ pc[r] = "find"
    /\ ~validated
    /\ validated' = TRUE
    /\ UNCHANGED <<telegram, pages, pc, update, summary, captureLock, bounds>>

\* find_by_telegram_identity: a page is stored already, its summary is confirmed.
FindFound(r) ==
    /\ pc[r] = "find"
    /\ validated
    /\ \E p \in ActivePages(update[r]) : ReleaseWith(r, pages[p].class)
    /\ UNCHANGED <<telegram, pages, validated, bounds>>

FindMissing(r) ==
    /\ pc[r] = "find"
    /\ validated
    /\ ActivePages(update[r]) = {}
    /\ pc' = [pc EXCEPT ![r] = "classify"]
    /\ UNCHANGED <<telegram, pages, update, summary, captureLock, validated, bounds>>

\* The classifier always answers: a model failure is the fallback classification.
Classify(r) ==
    /\ pc[r] = "classify"
    /\ \E c \in Classes : summary' = [summary EXCEPT ![r] = c]
    /\ pc' = [pc EXCEPT ![r] = "save"]
    /\ UNCHANGED <<telegram, pages, update, captureLock, validated, bounds>>

\* Mutant: the second lookup's summary is ignored for the fresh classification.
SaveExistingFresh(r) ==
    /\ pc[r] = "save"
    /\ ActivePages(update[r]) # {}
    /\ ReleaseWith(r, summary[r])
    /\ UNCHANGED <<telegram, pages, validated, bounds>>

\* save_if_new looks again (the process is validated by now).
SaveExisting(r) ==
    /\ pc[r] = "save"
    /\ \E p \in ActivePages(update[r]) : ReleaseWith(r, pages[p].class)
    /\ UNCHANGED <<telegram, pages, validated, bounds>>

SaveMissing(r) ==
    /\ pc[r] = "save"
    /\ ActivePages(update[r]) = {}
    /\ pc' = [pc EXCEPT ![r] = "create"]
    /\ UNCHANGED <<telegram, pages, update, summary, captureLock, validated, bounds>>

\* Mutant: a failed save is answered 200.
CallFailsSwallowed(r) ==
    /\ pc[r] \in {"find", "save", "create"}
    /\ pending' = pending \ {update[r]}
    /\ AbortCapture(r)
    /\ UNCHANGED <<acked, pages, validated, bounds>>

\* Validation, a lookup or the creation fails before Notion did anything.
CallFails(r) ==
    /\ pc[r] \in {"find", "save", "create"}
    /\ AbortCapture(r)
    /\ UNCHANGED <<telegram, pages, validated, bounds>>

CreateOk(r) ==
    /\ pc[r] = "create"
    /\ \E p \in PageIds :
          /\ pages[p].state = "free"
          /\ PutPage(p, "active", update[r], summary[r])
    /\ ReleaseWith(r, summary[r])
    /\ UNCHANGED <<telegram, validated, bounds>>

\* Notion applies the creation, but the reply is lost or unreadable; or the
\* client times out with the creation still to be applied.
CreateLost(r) ==
    /\ pc[r] = "create"
    /\ \E p \in PageIds, s \in {"active"} \cup (IF LateCreates THEN {"inflight"} ELSE {}) :
          /\ pages[p].state = "free"
          /\ PutPage(p, s, update[r], summary[r])
    /\ AbortCapture(r)
    /\ UNCHANGED <<telegram, validated, bounds>>

-----------------------------------------------------------------------------
\* The confirmation is sent outside the lock.  It can reach the chat and still
\* end in an error, and the 200 can be lost: then Telegram delivers again.
Confirm(r) == acked' = [acked EXCEPT ![update[r]] = @ \cup {summary[r]}]

AckConfirmed(r) ==
    /\ pc[r] = "ack"
    /\ Confirm(r)
    /\ pending' = pending \ {update[r]}
    /\ Leave(r)
    /\ UNCHANGED <<pages, captureLock, validated, bounds>>

AckUnconfirmed(r) ==
    /\ pc[r] = "ack"
    /\ Confirm(r)
    /\ Leave(r)
    /\ UNCHANGED <<pending, pages, captureLock, validated, bounds>>

\* Mutant: a failed confirmation is logged and answered 200.
AckFailsSwallowed(r) ==
    /\ pc[r] = "ack"
    /\ pending' = pending \ {update[r]}
    /\ Leave(r)
    /\ UNCHANGED <<acked, pages, captureLock, validated, bounds>>

AckFails(r) ==
    /\ pc[r] = "ack"
    /\ Leave(r)
    /\ UNCHANGED <<telegram, pages, captureLock, validated, bounds>>

-----------------------------------------------------------------------------
\* Notion applies a creation whose client gave up.
CreateLands(p) ==
    /\ pages[p].state = "inflight"
    /\ pages' = [pages EXCEPT ![p].state = "active"]
    /\ UNCHANGED <<telegram, process, bounds>>

\* Done, Bought, Delete or the Notion user interface.
UserTrashesPage(p) ==
    /\ trashes < MaxTrashes
    /\ trashes' = trashes + 1
    /\ pages[p].state = "active"
    /\ pages' = [pages EXCEPT ![p].state = "trashed"]
    /\ UNCHANGED <<telegram, process, crashes>>

\* The process dies and a new one starts; a creation that had been sent may
\* have been applied, or may still be.
Crash ==
    /\ crashes < MaxCrashes
    /\ crashes' = crashes + 1
    /\ \/ UNCHANGED pages
       \/ \E r \in Requests, p \in PageIds,
             s \in {"active"} \cup (IF LateCreates THEN {"inflight"} ELSE {}) :
             /\ pc[r] = "create"
             /\ pages[p].state = "free"
             /\ PutPage(p, s, update[r], summary[r])
    /\ pc' = [r \in Requests |-> "idle"]
    /\ update' = [r \in Requests |-> None]
    /\ summary' = [r \in Requests |-> None]
    /\ captureLock' = <<>>
    /\ validated' = FALSE
    /\ UNCHANGED <<telegram, trashes>>

-----------------------------------------------------------------------------
\* A delivered request always moves on: every call it awaits has a timeout.
Step(r) ==
    \/ Acquire(r) \/ ValidateOk(r)
    \/ FindFound(r) \/ FindMissing(r)
    \/ Classify(r)
    \/ SaveExisting(r) \/ SaveMissing(r)
    \/ CallFails(r)
    \/ CreateOk(r) \/ CreateLost(r)
    \/ AckConfirmed(r) \/ AckUnconfirmed(r) \/ AckFails(r)

Next ==
    \/ \E u \in Updates : DeliverBlank(u) \/ \E r \in Requests : Deliver(r, u)
    \/ \E r \in Requests : Step(r)
    \/ \E p \in PageIds : CreateLands(p) \/ UserTrashesPage(p)
    \/ Crash

Spec == Init /\ [][Next]_vars

HandlerFairness == \A r \in Requests : WF_vars(Step(r))

\* Telegram keeps delivering what is pending, and a service that is called
\* again and again for one update answers in the end.
For(u, A(_)) == \E r \in Requests : update[r] = u /\ A(r)

RetryFairness ==
    \A u \in Updates :
        /\ WF_vars(DeliverBlank(u))
        /\ SF_vars(\E r \in Requests : Deliver(r, u))
        /\ SF_vars(For(u, ValidateOk))
        /\ SF_vars(For(u, FindFound) \/ For(u, FindMissing))
        /\ SF_vars(For(u, SaveExisting) \/ For(u, SaveMissing))
        /\ SF_vars(For(u, CreateOk))
        /\ SF_vars(For(u, AckConfirmed))

FairSpec == Spec /\ HandlerFairness /\ RetryFairness

-----------------------------------------------------------------------------
\* At most one request is between the lookup and the end of the save: the
\* lookup, the model call and the creation form one critical section.
OneAtATime ==
    \A r, s \in Requests : pc[r] \in Critical /\ pc[s] \in Critical => r = s

\* No silent loss: once Telegram is told 200 for a text message it never
\* delivers it again, so by then the message is stored in Notion.
NoSilentLoss == \A u \in Updates \ (pending \cup Blank) : StoredPages(u) # {}

\* A confirmation in the chat is sent only after persistence succeeded, and
\* shows the classification of a stored page: a retry that classified anew
\* confirms what is stored, not what the model said this time.
AckMatchesStore ==
    \A u \in Updates : \A c \in acked[u] :
        \E p \in StoredPages(u) : pages[p].class = c

\* Two active pages never stand for one message (with every creation applied
\* before its client gives up, see LateCreates).
AtMostOneActivePage ==
    \A u \in Updates : \A p, q \in ActivePages(u) : p = q

\* "Telegram retries must not produce duplicate Notion entries."
RetriesNeverDuplicate ==
    \A u \in Updates : \A p, q \in StoredPages(u) : p = q

\* A retry after persistence finds the record "instead of classifying or
\* inserting it again": no model call for a message the database holds.
ActiveNeverReclassified ==
    \A r \in Requests : pc[r] = "classify" => ActivePages(update[r]) = {}

\* The capture flow keeps the promise of Inbox: nothing stored is forgotten, nothing is
\* confirmed that is not stored, and no message is given up without a confirmation.
Kept == [u \in Updates |-> {pages[p].class : p \in StoredPages(u)}]

Box == INSTANCE Inbox WITH kept <- Kept, told <- acked, done <- Updates \ pending

InboxSpec == Box!Spec

\* Every request ends: no failure leaves the capture lock taken.
RequestsEnd == \A r \in Requests : pc[r] # "idle" ~> pc[r] = "idle"

\* Every message is confirmed to Telegram in the end, and a text message then
\* is stored and was acknowledged in the chat.
EventuallyCaptured ==
    \A u \in Updates : <>[](u \notin pending /\ (u \in Blank \/ acked[u] # {}))
=============================================================================
