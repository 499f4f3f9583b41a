# Verification of the brain dump pipeline

The service turns the owner's Telegram messages into pages of a Notion database,
acts on those pages through inline buttons, and sends scheduled reviews of them.
This directory models its behaviour in TLA+, checks it with TLC on small
instances and proves the main invariants with TLAPS for all of them.

One asyncio process serves everything (Cloud Run with one instance and a
concurrency of four). Every lock, the run guard and the validated flag are memory
of that process; Notion holds all that survives it. There are no transactions:
each Notion call is one page, and each may fail, succeed, or succeed with its
reply lost. Telegram delivers an update again until it is told 200.

- [Inventory](#inventory)
- [Modules](#modules)
- [Runs, bounds and fairness](#runs-bounds-and-fairness)
- [Proofs](#proofs)
- [Where code and documents disagree](#where-code-and-documents-disagree)
- [Not modelled, and the plan](#not-modelled-and-the-plan)

## Inventory

Paths are below `src/app/`.

| Component | State | Operations | Interacts with |
| --- | --- | --- | --- |
| Capture flow: `services/telegram_updates.py` `handle`, `repositories/notion.py`, `services/classification.py` | `_capture_lock`, `_validated`; pages in Notion | receive, look up, classify, save if new, acknowledge | Telegram delivers and redelivers; Notion; Gemini |
| Item actions: `_handle_callback`, `services/item_actions.py` | `_lock`; `in_trash`, `SnoozedUntil`, `PurchaseFocus` of pages | Done, Bought, Delete, Keep, Snooze (4), Snooze menu, Back, Focus | callback queries; Notion, one page at a time |
| Run guard: `services/scheduler.py` `RecentRunGuard` | `_entries`: task and completion time per key | `execute_once`, `_settle`, `_prune` | its callers; done callbacks of its tasks |
| Scheduled review: `ScheduledReviewService`, `api/routes.py` | none | resolve the window, run once under the guard | Cloud Scheduler; guard; delivery |
| Review delivery: `services/review_delivery.py` | none; `LastSurfaced` in Notion | plan, send, record with one retry, send action messages | planner, Telegram, Notion |
| Review planning: `services/resurfacing.py`, `models/reviews.py` | none | eligibility, score, selection, routine group | Notion query |
| Manual questions: `services/queries.py`, `_handle_query` | none | detect, interpret, search, rank, send | Gemini, Notion, Telegram |
| Item views: `services/item_views.py` | none | keyboards of an item | capture, actions, reviews |
| Adapters: `integrations/` | HTTP clients | one call each, with a timeout | Notion, Telegram, Gemini |
| Calendar: `core/time.py` | none | Singapore date, one calendar month later | actions, reviews |
| Application, configuration, logging, tools | configuration | wiring; command line checks | everything |

What makes each correct, and what is hard about it:

- **Capture.** A message told 200 is stored; it has one active page however often
  and concurrently it is delivered; the chat is told what is stored. Hard: the
  lookup, the model call and the creation span three awaits, a creation may be
  applied although its call failed, and the process may die anywhere.
- **Item actions.** One focused purchase in every state; Bought cools every other
  purchase down before its page goes, never shortens a snooze, and can be pressed
  again after a failure; every press ends. Hard: the loops of single page updates
  can stop anywhere, two presses overlap, and the user also works in Notion.
- **Run guard.** One run at a time for a key, successes remembered for as long and
  as many as promised, no key stuck. Hard: a finished task is settled by its done
  callback and by every caller, in any order, perhaps after its key has a new task.
- **Delivery.** `LastSurfaced` tells the truth about the chat, and the spacing
  is kept towards what a run has recorded; two runs that both plan before either
  records can show an item twice. Hard: failed sends, lost confirmations, batches that
  fail in the middle, crashes and user actions.
- **Selection.** Limit, caps, urgency, diversity and backfill at once, in three
  loops over one list, and agreement with the validators of the plan.
- **Scheduled review.** A key's message is sent once, unless its confirmation, the
  process or the guard's memory is lost; a due Task is not crowded out. Hard: what
  fails after the message must not free the key, and what fails before it must.
- **Questions.** An answer that was told 200 is whole and is the best of what the
  database holds, and every question gets one. Hard: results come in pages while
  items come and go, an answer is many messages, and any of them may fail.
- **Item views.** Views and service agree on what an item allows, so that a button is
  refused only when its item was edited since, and an item in the database keeps its
  buttons. Hard: messages are edited outside the lock, so that the keyboard of one
  press may be overwritten by that of an older one, and items are edited in Notion.

`PROJECT.json` lists the hazards line by line with the properties that watch them.

## Modules

A step of a module is the code between two awaits, with the outcome of the call
that was awaited. Where the code holds a lock over awaits the lock is in the
model, a FIFO as asyncio's is; where it holds one over none (the guard) a whole
section is a step.

### Capture

`Capture.tla` models `TelegramUpdateService.handle` for messages that are not
questions, with the repository calls it makes.

| Model | Code |
| --- | --- |
| `pending`, `Deliver`, `DeliverBlank` | updates not yet told 200; a delivery takes a free request slot, also while the same update is handled in another |
| `captureLock`, `Acquire`, `LockFree` | `_capture_lock` |
| `validated`, `ValidateOk` | `validate`, once per process |
| `FindFound`, `FindMissing` | `find_by_telegram_identity`; a query never answers trashed pages |
| `Classify` | `CaptureClassifier.classify`: some classification, the fallback if the model fails |
| `SaveExisting`, `SaveMissing`, `CreateOk`, `CreateLost` | `save_if_new` |
| `CallFails`, `AbortCapture` | any `CapturePersistenceError`: lock released, 502 |
| `AckConfirmed`, `AckUnconfirmed`, `AckFails` | the acknowledgement, which may arrive although it is reported as failed |
| `CreateLands` | Notion applies a creation after its client gave up |
| `UserTrashesPage`, `Crash` | Notion's trash; the end of the process, a creation under way being applied, or to be, or not |

`acked` is a history variable: what the chat was told. `LateCreates` says whether
a creation can be applied after the client's timeout. With it a retry can look up,
find nothing and create the second page before the first one lands, so
`AtMostOneActivePage` and `ActiveNeverReclassified` are stated without it; the
other three properties hold with it too. Page identity is modelled by the update:
the message id that the lookup also matches belongs to the same message. The locks
inside the repository are left out: `_save_lock` is taken only under the capture lock,
and `_validation_lock` guards the check and setting of one flag.

### Inbox

`Inbox.tla` is what Capture promises, without requests, locks, calls or crashes:
classifications are kept for good, the chat is told only of what is kept, and a
message with text is given up only after a confirmation. In `Capture` the mapping is
`Kept` (the classifications of the pages stored, trashed ones included), `acked`, and
the messages that are not pending; `InboxSpec` is the specification under it.

### ItemActions

`ItemActions.tla` models the callback handler and `ItemActionService`. `call`
holds the decoded callback and the date that is read before the lock is asked
for. A press answers the callback (`AnswerOk`, `AnswerFails`), gets its page
(`GetStale`, `GetOnly`, `GetItem`), lists the planned purchases for Focus and for
the Bought of the focused one (`ListPlanned`), updates the others one at a time
(`UpdateOther`, with `OthersToUpdate` the updates of the two loops) and its own page
last (`UpdateOwn`). `CallFails` and `CallLost` are an `ItemPersistenceError` without and
with effect in Notion. `Reply` is the edit of the chat message or the notice in
its place, whose failures only log. The order in which Notion lists purchases is
not known, hence any order of the updates. `UserTrashes` and `UserRestores` are the
user in Notion, as is `UserEdits`; `Captured` is a new page of the capture flow. A
page's check and its update are one step: a page that goes in between makes the
update fail, which is `CallFails`. So is a listing of planned purchases, which is one
answer below a hundred of them.

`kind` says what an item is as far as views and service tell apart, "thought" standing for
Ideas too and "shoppingTask" for a Task of domain Shopping without a ShoppingKind. No
capture creates the latter, as classification refuses Shopping without a kind, but
an edit in Notion does. `read` is the kind of the item as `get_by_id` read it, by which
the rest of an execution goes. Durations are numbers of days (`KeepDays`, `SnoozeDays`,
`CooldownDays`). `Next` has everything but restorations from the trash and edits of
kinds; these are in `OwnerNext`, since what they do to the focus is a question of its own.

### ItemChat and Calendar

`ItemChat.tla` extends ItemActions by the messages of items: `ActionKeyboard` and
`SnoozeKeyboard` are `ItemActionViewBuilder`, `KeyboardAfter` the view that an edit
makes of the result of a press, `Tap` a press of any button the message ever had (a
client may show it longer than the chat), `EditOrNotice` the edit, which happens
after the lock was released and may fail. History: `offered`, the buttons so far, and in
each button `of`, the kind of the item when it was offered. The link to Notion is no
action and is left out.

`Calendar.tla` is `add_calendar_month` on dates of year, month and day, with their
day numbers. The other modules count days: `MCItemChat` takes the number of days of
its month button from Calendar, on 31 January of a leap year.

### RecentRunGuard and RunLedger

`RunLedger.tla` is the promise: of each key a status (`none`, `running`,
`succeeded`, `failed`, `remembered`) and a time, with forgetting allowed only by age
or by number. `RecentRunGuard.tla` is the guard: `entry` and `completed` together
are the ordered dict (the order of entries without a completion time is never
used), `settling` the settlements scheduled by done callbacks, `Call` the section
of `execute_once`, `Wake`, `CallerSettles` and `CallerCancelled` what follows its
shield, `Settle` and `Prune` the functions of these names. `status` and `at` are the
refinement mapping, under which `LedgerSpec` is the ledger's specification. A run
that fails by cancellation of its task is a failed one.

### Eligibility and ReviewDelivery

`Eligibility.tla` has the hard rules of `resurfacing.py` as operators on an item, a
window and a date, and `resolve_review_window`. An item is its attributes, `attr[i]`,
and `Databases` the assignments of attributes considered. `ReviewDelivery.tla` extends
it with the runs of `ReviewDeliveryService.deliver`: `Start`, `Plan` (any eligible items
up to `Limit`: which of them is a matter of scores and selection; query and plan are one
step, since planning awaits nothing but the pages of the query and below a hundred
candidates there is one page), `SendOk`, `SendFails`,
`RecordPage` page by page, `Retry` and `GiveUp` of the batch, `Recorded`,
`SendActions`. Runs overlap freely: the guard separates only runs of one key. The
history variables are `shown`, the items in the chat, and `told`, those a run
reported as recorded. Pages of a batch are recorded in any order; the code's is
that of the review, which nothing depends on.

### Selection

`Selection.tla` is `_select_entries`, one iteration of one of its loops a step, on
entries numbered by their rank. An entry has what the caps look at: whether it is
an urgent task, a Thought or neither, its domain, whether it is a planned
purchase. Shopping entries are planned purchases, as classification admits
Shopping only with a kind and routine purchases go to their group. `DeferredEnds`
includes what `ReviewPlan.validate_contents` makes of the result.

### ReviewScoring and ScheduledReviews

`ReviewScoring.tla` computes a review from a database: the filter of the Notion
query (`Listed`), `review_score` by its parts with the weights of `ReviewPolicy`, the rank
of the entries, the selection as one function, the routine group and
`validate_contents`. Scores are exact integers, as in the code. The loops of
`_select_entries` are `Loop` of one iteration each: `Take` (the urgent loop and the
backfill) and `Pick` (the loop with the soft cap).

`ScheduledReviews.tla` composes a review from the request to its response. The guard
is taken as it promises to be (`L`, an instance of RunLedger, which RecentRunGuard is
proved to implement), the delivery as ReviewDelivery has it (`D`), and the plan is
the one `ReviewScoring` computes. `Ask` is the route and the start of the run, `Ends`
what its outcome does to the key, `Settle` the settlement some time later. History
variables count the primary messages of each key (`sends`) and the events that may
excuse another one (`excuses`): a send that was reported as failed and arrived, a
crash, a success that was forgotten. `DeliverySpec` is ReviewDelivery's
specification: every computed plan is one that ReviewDelivery allows, within the
eligibility rules and the limits, also when runs cross midnight.

### Lists

`Lists.tla` is what sorts and loops compute. An order is a set of pairs; `Ranked` is
`sorted` by a key without ties, `Then` the order of a stable `list.sort` of a list
that is in order already, `Less` the comparison of tuples, `Loop` a `for` loop over
a list whose body is a function of state and element. Orders are sets, and bodies
functions, because the prover cannot reason about operators passed as arguments;
that `Then` is what Python's stable sort does is the theorem `SortedAgain`.

### ManualQueries

`ManualQueries.tla` is `_handle_query` with `detect_query_request`, the interpreter,
`QueryService` and `rank_query_items`. A question has a form (shortcut, command with
or without text, `/search`, a sentence that asks for items), which decides whether
it has a plan at once, gets a hint, or goes to the model (`InterpretOk`,
`InterpretFails`). `FetchMore` and `FetchLast` are the pages of the Notion query,
`SearchFails` an error on any of them, `SendOk` and `SendFails` one message of the
answer, `Respond` and `ResponseLost` the 200. `Rank` is written as the code sorts,
by stable sorts from the weakest key to the strongest (`SortedBy`, with `Then` for
each sort after the first); `Before` is the order it should have, key by key.

A text is the set of the words that it contains, as they were spelled when saved, and
`Norm` is what `normalize_search_text` makes of a spelling. The location of a question is
looked for twice, as asked by Notion (`Filtered`) and normalized in the process (`Matches`):
an item that has it in another spelling is not fetched, though it would match. Two
things are assumed of Notion: that its `contains` finds the spelling it is given, and
that a cursor repeats no page of results and drops none that is there all the time
(`Remaining`, `LastPages`). The code neither removes duplicates nor looks again, so with
another cursor an item could be shown twice or missed.

History variables: `steady`, the items that were there all through a search, and
`answer`, what the delivery that was told 200 has sent.

### MC and proof modules

`MC<module>.tla` gives constants and symmetry for TLC, `<module>Proofs.tla` holds the
theorems; those about ItemActions, ItemChat and Calendar are in `ItemProofs.tla`.
Definitions commented "Mutant" are wrong variants of the definition that follows
them, which some property refutes; they take no part in a specification.

## Runs, bounds and fairness

| Run | Instance | Shows |
| --- | --- | --- |
| `capture_faults` | 2 messages, 2 slots, 2 classifications, 3 pages, 1 crash, 1 trashed page, late creations | `OneAtATime`, `NoSilentLoss`, `AckMatchesStore`, `InboxSpec` |
| `capture_live` | a message and a blank one, 2 slots, 2 pages, 1 crash, 1 trashed page | `AtMostOneActivePage`, `ActiveNeverReclassified`, `RequestsEnd`, `EventuallyCaptured` |
| `capture_retry` | as `capture_live` | `RetriesNeverDuplicate` fails |
| `items_focus` | 3 planned purchases, 2 presses in 2 slots over 2 days, a Keep of 4 days against a cooldown of 3, 1 crash, 1 page trashed in Notion | `TypeOK`, `AtMostOneFocus`, `CooldownBeforeTrash`, `RetrySafe`, `NoFalseSuccess`, `CooldownNeverShortens` |
| `item_chat` | a planned purchase and a Task with a message each, 2 presses in 2 slots, the month button of 31 January 2024, 1 crash, 1 restored page, 1 edit into a planned purchase or into Shopping without a kind | `ButtonsWhileActive`, `RefusedOnlyIfEdited`, `PressesEnd` |
| `items_restore` | 2 purchases, 3 presses, 1 restored page | `AtMostOneFocus` fails |
| `run_guard` | 2 keys, 2 callers, 3 tasks, retention 2 of 2 ticks, 1 completed run kept, 1 restart | `AtMostOneRunning`, `CompletedBounded`, `NoStuckEntry`, `LedgerSpec` |
| `selection` | all lists of up to 5 entries of 3 domains, 3 settings of limit and soft cap | `WithinCaps`, `NoEmptyPlace`, `UrgentFirst`, `RankUnlessDomainFull`, `BackfillLast` |
| `selection_plan` | as `selection`, up to 3 entries | `AlwaysAPlan` fails |
| `review_days` | a Task due on day 2 and an Idea, 3 runs, 2 at a time, 3 days, day 3 a weekend, 1 crash, 1 user action | `TypeOK`, `SurfacedOnlyIfShown`, `RecordedIsTrue`, `SpacingKept` |
| `scheduled` | 3 databases of 3 items, 2 keys, 2 runs over a weekend day and a weekday, also past midnight, 1 success remembered, 1 crash, 1 user action | `TypeOK`, `NoRepeatWithoutExcuse`, `DeliverySpec`, `DueTaskReminded`, `RunsSettle` |
| `queries` | 1 question of 3 forms, all databases of up to 3 items of 3 kinds, a location in 2 spellings, 4 plans and a shortcut, pages of 2 results, 2 items shown, 1 item that comes or goes, 1 crash | `TypeOK`, `AnsweredInFull`, `BestFirst`, `NothingMissed`, `QuestionsAnswered` |

Why the bounds suffice to be of interest: two slots are what it takes for a race,
and one crash or failure between any two steps is explored at each of them
(failures of calls are not bounded). Three purchases are one acted upon and two
others, so that a loop can stop between its updates. In `items_focus` a Keep reaches
past the cooldown, so that a Bought meets a purchase that sleeps longer than it
would make it. Three tasks on two keys let one key be settled late, reused and
pushed out by the other. With five entries and limits of two and three every loop
of the selection runs, overflows and backfills. The dates of `review_days` let a
spacing pass, a deadline come and the weekend begin. The databases of `scheduled`
are an urgent Task that scores less than another one because it was shown the day
before, a routine group larger than its limit beside an overdue Task, and the two
Thoughts that make the validators refuse a plan. Three matches with pages of two
results need a second page, and with plans of limits one to three and two items
shown every cut of the answer happens, also before a better match on the second
page; the kinds differ in each key of the orders or tie in it. The edit
of `item_chat` falls between offer and press and between any two steps of a press, and
makes the Task a purchase, the purchase a Task of Shopping, or the Task one of
Shopping that keeps its buttons. Page, task, day,
press, run, change, crash, trash, restore and edit limits are bounds of the model, in
its guards; the process has none of them. Symmetry is used only where no liveness is
checked. Deadlock is not checked because each instance may really stop: its presses, runs or messages are used up.

`review_days` sets `AcrossMidnight` to FALSE: a review starts at 8, 18 or 21 h and
has a deadline of 120 s, so it ends on the day it began. Were it to pass midnight and
another run to record the same page on the new day, the older run would take
that mark back and `RecordedIsTrue` would fail. `scheduled` lifts this, and what it
checks does not depend on it; nor does `SurfacedOnlyIfShown`, which is proved
without it.

Fairness. `WF` of a request's, a press's or a run's steps and of the settlement of a
key: every adapter call has a timeout and the event loop runs what is ready, so a
handler always goes on, and a done callback always runs. That is all that
`RequestsEnd`, `PressesEnd` and `RunsSettle` need. For `EventuallyCaptured` and
`QuestionsAnswered` more is needed: Telegram keeps redelivering what is pending
(`SF` of a delivery), and a Notion or Telegram that is called again and again for
one update answers in the end (`SF` of the successful outcomes of that update: of
each message of an answer, for a question, and of its 200). No fairness is assumed
of users, crashes, failures, of the scheduler or of new deliveries as such.

Refinements. Capture implements Inbox, RecentRunGuard implements RunLedger, and
ScheduledReviews implements ReviewDelivery: all three are checked and proved.

## Proofs

All for every value of the constants within the modules' assumptions, which TLC
evaluates in each run.

- **CaptureProofs.** `IInv` = `TypeOK`, `LockInv` (a request in the critical section is
  the head of the lock), `CarriesInv` (a request past idle carries an update and,
  from save on, a classification) and `PageInv` (a page in use belongs to an
  update). It gives `Typing` and `MutualExclusion`. With `ReadyInv` (a request about to
  acknowledge holds the classification of a stored page) and the lemma that what
  is stored stays stored, `Lossless` and `HonestAck`. `UniqueInv` (no creation is
  in flight, and no active page exists for a message that a request is about to
  classify or create) gives `NoDuplicate` and `NeverReclassified`, assuming
  `~LateCreates`. `Refinement` maps each step to one of Inbox or a stutter: no step,
  a crash during a creation and a late one included, stores more than one
  classification (`KeptMoves`), and a confirmed one is stored (`ReadyInv`).
- **ItemProofs, the actions.** `IInv` = `TypeOK`, `LockInv`, `LocalInv` (what the variables of an
  execution say about its callback). The lock guards only entry, so the proofs
  first show that an execution has the service to itself (`OthersWait`). `ExecInv` is
  what holds in the middle of the loops: another purchase that is still focused, or
  not yet asleep, is among the updates still to do. It gives `SoleFocus`,
  `CooldownComplete` and `BoughtRetrySafe`; `SuccessIsReal` follows from `TrashedStays`, as
  nothing returns from the trash under `Next`. `NeverSooner` needs that the dates a
  loop has still to write are not before those that are there (`SnoozeLater`), which
  lasts because its updates are of different pages and no one else writes meanwhile.
  `Typing` is of `OwnerSpec`.
- **ItemProofs, the keyboards.** `ChatInv`: whatever a message ever offered is an action
  that the kind it was offered for has, unless it is the Done of a Shopping Task without a
  kind, a press in a slot is of such a button, and a refusal is of an action that the kind
  read does not have. It gives `RefusedOnlyOnceEdited`, with edits at any moment, for any
  number of items and messages. `ButtonsInv` ties the results of executions to the item: a
  press that would take the keyboard away was applied to, or found, a page that is not in
  the database (`TrashedUntilRestored`). It gives `NeverStranded` (what a restored page shows
  is excepted in the property) and `ChatTyping`. `ChatIsActions` maps every step of the
  chat to one of `ItemActions` or a stutter: the chat implements `OwnerSpec`, and `Spec` when
  nobody restores or edits a page, so the theorems about presses hold of the chat too.
- **RecentRunGuardProofs.** `IInv` says that a running task is the entry of its key
  (`DictInv`), that only finished tasks are settled and only created ones awaited
  (`CallInv`), that the completed entries are in order, of distinct keys and of
  succeeded tasks (`Recorded`), and that no entry is stuck. That `_prune` leaves a
  suffix short enough is the lemma `PruneIsSuffix`. It gives `NoOverlap`, `BoundedMemory`,
  `NeverStuck` and `Typing`. `Refinement` rests on `PruneForgets`: as the completed entries
  are in the order of their completion, each one that goes is too old or has
  `MaxCompleted` later ones behind it.
- **SelectionProofs.** `CapsHold` by induction on the steps of the loops, and `Complete`
  from `NoLoss`: an entry that is neither selected nor still to be visited, by the
  loop that runs or a later one, is kept out by a category cap or by the limit.
  Both reasons last, as nothing is deselected. `RankInv` says of each entry left out
  why: capped, its domain full, or after those selected because it has not been
  visited yet or the review was full first (`UrgentKept`, `RankKept`). It gives
  `UrgentKeepsPlace` and `RankKeepsPlace`. For `BackfillComesLast`, `SoftKept`: no domain
  exceeds its soft cap until every other candidate is capped or of a full domain,
  since the last loop takes an entry only if the second one came to its end.
- **ReviewDeliveryProofs.** `ShownInv`: a run records only what its message has shown
  (`MessageFirst`), which gives `SurfacedShown` for runs that overlap in any way.
  `DayInv`, for runs that end on their day (`~AcrossMidnight`): all runs have the date of
  today (`SameDay`), no mark is of the future (`Past`), and what a run has recorded so
  far bears today's date (`Progress`). It gives `RecordedStays` and `SpacingHolds`, which is
  about what a run has recorded: nothing keeps apart runs that plan before that.
- **ListsProofs.** What the lists compute, for lists of any length. Induction over the
  iterations goes through a set of numbers that has 0 and is closed under successors
  (`NatAll`), as the library's induction theorems take an operator. `LoopKeeps`: what
  every iteration keeps holds after the loop. `RankedSorted`: `Ranked` lists every
  element once and in order. `SortedOnce` (only one list does) and `StableSorted` give
  `SortedAgain`: a stable sort by another key, ties and all, is `Then`.
- **ScheduledReviewsProofs.** `IInv`: a run that is going on has its key, running, to
  itself (`Tied`), and a key has at most one message beyond its excuses, that one
  belonging to a run past its sending or to a success that is not forgotten
  (`Excused`). It gives `NoRepeat`. The plan: `TakeLoop` and `PickLoop` say what each loop
  adds, and that a Task which no category cap excludes is left out of the urgent loop
  only when that has filled the limit; `SelectKeeps` puts the three loops together;
  `ScoreType` shows that a due Task scores enough in each window; `EntriesKeep` and
  `GroupKeeps` bound the two parts of a review. With `DeliveryInv` (the types of the
  delivery, and a run that goes on has a window) every computed plan is one that
  ReviewDelivery allows (`PlanAllowed`), and action by action the composition is a
  delivery or leaves it alone (`Delivers`): `Refinement`, for every database, any
  limits and runs across midnight. `Reminded` is `DueTaskReminded`: a Task that is owed
  is in the shortlist, as its deadline cuts the spacing short (`OwedListed`), hence in
  the review or crowded out by urgent Tasks only (`OwedPlanned`), and only a plan or an
  empty review lets a run go on or succeed (`PlanningStep`). `Typing` adds that the
  guard's times are dates of the model.
- **ManualQueriesProofs.** `ReplyInv`: what a request has sent is a beginning of its answer,
  the messages in order and none twice, from this delivery (`Reply`), and no question
  told 200 has anything but a whole one. It gives `Typing` and `WholeAnswers`. `SearchInv`:
  while a search goes on, what was there all the time still is, so the last page
  leaves none of it out; what the sorts make of the matches is in the order of
  `Before`, and the cut leaves only what comes after each item of the answer (`Best` and
  `Complete`, from `SortedByBefore` and `RankCut`). It gives `BestAnswers` and `CompleteAnswers`, for any number of questions
  and deliveries at a time, any database, plan, page size and limit.
- **ItemProofs, the calendar.** `MonthLater` (one calendar month later is a date, 28 to
  31 days away) and `MonthKeepsOrder` (a later press never wakes sooner).

What is assumed of the constants is what the code gives: pages and words are finitely
many, limits, spacings and page sizes are positive, attributes have the types of the
models, and the bounds of the model are numbers.

Only model-checked: all liveness (`RequestsEnd`, `EventuallyCaptured`, `PressesEnd`,
`RunsSettle`, `QuestionsAnswered`), as liveness and `ENABLED` are beyond the prover. Every
invariant, action property and refinement of the passing runs is proved. No module
uses a recursive operator; the one recursive function is that of `Loop`.

## Where code and documents disagree

1. `README.md:661`, "Telegram retries must not produce duplicate Notion entries."
   The lookup cannot see trashed pages: save, failed acknowledgement, trash and
   redelivery make a second page (`capture_retry`).
2. `README.md:199` and `:565`, one focused purchase. Delete keeps the flag of a page
   that `README.md:203` says can be recovered, and Focus clears only pages that are
   not in the trash (`items_restore`). An edit in Notion is a second way: a focused
   purchase that is made something else for a while is not in the list either.
3. `docs/resurfacing.md:55`, absolute caps. A Thought and a lower ranked planned
   purchase of type Thought are both selected, and the validator of `ReviewPlan` refuses
   the plan with an error, so that no review goes out (`selection_plan`).
4. `README.md:184`, buttons by the item's metadata. A Task edited into Shopping without a
   kind is offered Done, which `item_actions.py:88` refuses, and the refreshed message
   offers it again. `RefusedOnlyIfEdited` excepts this press, and would fail without.
5. `docs/resurfacing.md:31`, nothing twice on a date. LastSurfaced is read when a run
   plans and written after its message, and the guard keeps apart runs of one key only: a
   deliberate run beside a scheduled one shows the same items. The model has these
   interleavings; `SpacingKept` speaks only of items that a run has recorded.

That a repeated run shows items again when its keys are lost in a restart is a
limitation the deployment guide states; the models have the restart, and no property
forbids the repeat.

## Not modelled, and the plan

Not modelled, because nothing the properties speak of depends on it: payload
formats and message texts, the parsing of a Notion page into an item (a page that
does not parse is a call that fails), prompts, secrets and authorisation, logging,
configuration and wiring, the command line tools and evaluations, and the inside
of Notion, Telegram and Gemini beyond the outcomes of a call. Dates are day numbers,
so the conversion of instants to Singapore dates is the choice of the day; only the
calendar month is modelled as such. Domain and ShoppingKind filters of a question
have the form of the Type filter, which stands for them.

The order was: Capture, ItemActions, the guard with its ledger, Selection,
Eligibility with ReviewDelivery, which carry the promises of the system; then the
scores and the composition of a scheduled review, questions, keyboards, the
calendar, and Inbox. All of it is there. What could follow are larger instances:
two questions that overlap, and a review of more items than its limits in each
window.
