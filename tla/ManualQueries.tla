--------------------------- MODULE ManualQueries ---------------------------
(***************************************************************************)
(* Questions: a message that asks for saved items is interpreted as a      *)
(* query plan, Notion is searched page by page, the candidates are matched *)
(* and ranked in the process, and the answer is sent as one heading and    *)
(* one message per item.                                                   *)
(*                                                                         *)
(* There is no lock on this path.  A step is what runs between two awaits. *)
(* Any message of the answer that Telegram refuses ends the delivery with  *)
(* 502, and Telegram delivers the question again.                          *)
(*                                                                         *)
(* A text field is the set of the words it contains, in the spelling that  *)
(* was saved; a title also knows whether several of them stand together.   *)
(* Pages are numbered in the order of their ids, dates so that 1 is a      *)
(* Monday, and 0 is no date.                                               *)
(*                                                                         *)
(* Of Notion it is assumed that a cursor repeats no page and drops none    *)
(* that is there all the time: search() neither removes duplicates nor     *)
(* looks twice.                                                            *)
(***************************************************************************)
EXTENDS Integers, Sequences, FiniteSets, Lists

CONSTANTS
    Items,        \* pages of the database, in the order of their ids
    Spellings,    \* words as they may be saved and asked for
    Norm,         \* [Spellings -> the word that normalize_search_text makes of it]
    Attributes,   \* what an item may be
    Questions,    \* updates whose text asks for items
    AskedForms,   \* forms they may have
    ShortcutPlan, \* [Questions -> plan of the shortcut]
    Plans,        \* plans the model may answer
    Requests,     \* request slots of the process
    PageSize,     \* results of one Notion query
    ResultLimit,  \* TELEGRAM_QUERY_RESULT_LIMIT
    Today,        \* the date of the questions
    MaxChanges,   \* pages trashed or captured meanwhile (a bound)
    MaxCrashes,   \* crashes considered (a bound)
    None          \* no question, no location, no plan

Types      == {"Task", "Idea", "Thought", "Reference"}
DueFilters == {"Any", "Today", "Overdue", "ThisWeek", "Upcoming", "NoDueDate"}
Sorts      == {"Relevance", "Newest", "Oldest", "DueSoon"}
Forms      == {"search", "search_empty", "shortcut", "command", "command_text", "retrieval"}

Item ==
    [type : Types, title : SUBSET Spellings, location : SUBSET Spellings,
     original : SUBSET Spellings, adjacent : BOOLEAN, created : Nat, due : Nat]

Plan ==
    [types : SUBSET Types, location : Spellings \cup {None}, keywords : SUBSET Spellings,
     due : DueFilters, sort : Sorts, limit : 1 .. 20]

ASSUME QueriesAssumption ==
    /\ Items \subseteq Nat /\ IsFiniteSet(Items) /\ IsFiniteSet(Spellings)
    /\ DOMAIN Norm = Spellings
    /\ Attributes \subseteq Item
    /\ AskedForms \subseteq Forms
    /\ ShortcutPlan \in [Questions -> Plan]
    /\ Plans \subseteq Plan
    /\ PageSize \in Nat \ {0} /\ ResultLimit \in Nat \ {0} /\ Today \in Nat \ {0}
    /\ MaxChanges \in Nat /\ MaxCrashes \in Nat
    /\ None \notin Spellings \cup Questions \cup Plan

VARIABLES
    item,       \* what each page says
    form,       \* what each question looks like
    active,     \* Notion: pages that are there and not in the trash
    pending,    \* questions Telegram has not been told 200 for
    answer,     \* history: what the delivery that was told 200 has sent
    pc,         \* where each request is
    question,   \* the question it answers
    plan,       \* its query plan
    fetched,    \* candidates fetched so far
    steady,     \* history: pages that were active all through the search
    results,    \* QueryResults.items
    sent,       \* history: messages of this delivery Telegram has confirmed
    changes, crashes   \* so far

notion  == <<item, form, active>>
process == <<pc, question, plan, fetched, steady, results, sent>>
vars    == <<notion, pending, answer, process, changes, crashes>>

\* A short notice instead of an answer, the heading, or one item of the answer.
Message ==
    [what : {"hint", "failure", "nothing"}]
        \cup [what : {"heading"}, shown : Nat] \cup [what : {"item"}, place : Nat \ {0}]

TypeOK ==
    /\ item \in [Items -> Attributes]
    /\ form \in [Questions -> AskedForms]
    /\ active \subseteq Items
    /\ pending \subseteq Questions
    /\ answer \in [Questions -> Seq(Message)]
    /\ pc \in [Requests -> {"idle", "interpret", "search", "hint", "failure", "nothing",
                            "heading", "items", "respond"}]
    /\ question \in [Requests -> Questions \cup {None}]
    /\ plan \in [Requests -> Plan \cup {None}]
    /\ fetched \in [Requests -> SUBSET Items]
    /\ steady \in [Requests -> SUBSET Items]
    /\ results \in [Requests -> Seq(Items)]
    /\ sent \in [Requests -> Seq(Message)]
    /\ changes \in 0 .. MaxChanges
    /\ crashes \in 0 .. MaxCrashes

Init ==
    /\ item \in [Items -> Attributes]
    /\ form \in [Questions -> AskedForms]
    /\ active \in SUBSET Items
    /\ pending = Questions
    /\ answer = [q \in Questions |-> <<>>]
    /\ pc = [r \in Requests |-> "idle"]
    /\ question = [r \in Requests |-> None]
    /\ plan = [r \in Requests |-> None]
    /\ fetched = [r \in Requests |-> {}]
    /\ steady = [r \in Requests |-> {}]
    /\ results = [r \in Requests |-> <<>>]
    /\ sent = [r \in Requests |-> <<>>]
    /\ changes = 0 /\ crashes = 0

-----------------------------------------------------------------------------
\* The filter of the Notion query.  Type, Domain and ShoppingKind are conditions of
\* the same kind, for which the type stands.
WeekStart == Today - ((Today - 1) % 7)

DueMatches(f, due) ==
    CASE f = "Any"       -> TRUE
      [] f = "Today"     -> due = Today
      [] f = "Overdue"   -> due # 0 /\ due < Today
      [] f = "Upcoming"  -> due > Today
      [] f = "NoDueDate" -> due = 0
      [] f = "ThisWeek"  -> due # 0 /\ WeekStart <= due /\ due <= WeekStart + 6

Fields(i) == item[i].title \cup item[i].location \cup item[i].original

\* The location is sent to Notion as the plan has it, which looks for that spelling
\* ("contains").
Filtered(i, p) ==
    /\ p.types # {} => item[i].type \in p.types
    /\ p.location # None => p.location \in Fields(i)
    /\ DueMatches(p.due, item[i].due)

-----------------------------------------------------------------------------
\* rank_query_items: the local matching, of normalized texts and words ...
Said(text)      == {Norm[w] : w \in text}
Hits(p, text)   == {k \in p.keywords : Norm[k] \in Said(text)}

Matches(i, p) ==
    /\ p.location # None => Norm[p.location] \in Said(Fields(i))
    /\ p.keywords # {} => Hits(p, Fields(i)) # {}

\* The keywords joined by blanks occur in the title.
Phrase(i, p) ==
    /\ p.keywords # {} /\ Hits(p, item[i].title) = p.keywords
    /\ Cardinality(p.keywords) = 1 \/ item[i].adjacent

Relevance(i, p) ==
    <<Cardinality(Hits(p, Fields(i))),
      IF Phrase(i, p) THEN 1 ELSE 0,
      Cardinality(Hits(p, item[i].title)),
      Cardinality(Hits(p, item[i].location)),
      Cardinality(Hits(p, item[i].original))>>

\* The keys of the sorts, as the pairs of items that they put one before the other.
ById        == {q \in Items \X Items : q[1] < q[2]}
NewerFirst  == {q \in Items \X Items : item[q[1]].created > item[q[2]].created}
OlderFirst  == {q \in Items \X Items : item[q[1]].created < item[q[2]].created}
BestFit(p)  == {q \in Items \X Items : Less(Relevance(q[2], p), Relevance(q[1], p))}
SoonerFirst ==
    {q \in Items \X Items :
        /\ item[q[1]].due # 0
        /\ item[q[2]].due = 0 \/ item[q[1]].due < item[q[2]].due}

\* Mutant: the sorts of the relevance order are made the other way round.
SortedBySwapped(p) ==
    CASE p.sort = "Relevance" -> Then(NewerFirst, Then(BestFit(p), ById))
      [] p.sort = "Newest"    -> Then(NewerFirst, ById)
      [] p.sort = "Oldest"    -> Then(OlderFirst, ById)
      [] p.sort = "DueSoon"   -> Then(SoonerFirst, Then(NewerFirst, ById))

\* ... and the sorts: by page id, then by the weaker keys before the stronger ones.
SortedBy(p) ==
    CASE p.sort = "Relevance" -> Then(BestFit(p), Then(NewerFirst, ById))
      [] p.sort = "Newest"    -> Then(NewerFirst, ById)
      [] p.sort = "Oldest"    -> Then(OlderFirst, ById)
      [] p.sort = "DueSoon"   -> Then(SoonerFirst, Then(NewerFirst, ById))

Rank(S, p) == Ranked({i \in S : Matches(i, p)}, SortedBy(p))

Smaller(a, b) == IF a <= b THEN a ELSE b

\* The first few of a sequence, as in s[:n].
Upto(s, n) == SubSeq(s, 1, Smaller(n, Len(s)))

-----------------------------------------------------------------------------
\* The request leaves its slot; without a 200 Telegram keeps the question.
Leave(r) ==
    /\ pc' = [pc EXCEPT ![r] = "idle"]
    /\ question' = [question EXCEPT ![r] = None]
    /\ plan' = [plan EXCEPT ![r] = None]
    /\ fetched' = [fetched EXCEPT ![r] = {}]
    /\ steady' = [steady EXCEPT ![r] = {}]
    /\ results' = [results EXCEPT ![r] = <<>>]
    /\ sent' = [sent EXCEPT ![r] = <<>>]

GoTo(r, place) == pc' = [pc EXCEPT ![r] = place]

BeginSearch(r, p) ==
    /\ GoTo(r, "search")
    /\ plan' = [plan EXCEPT ![r] = p]
    /\ steady' = [steady EXCEPT ![r] = active]

\* detect_query_request: a shortcut has its plan, a command without text has nothing
\* to interpret, anything else is for the model.
Deliver(r, q) ==
    /\ pc[r] = "idle"
    /\ q \in pending
    /\ question' = [question EXCEPT ![r] = q]
    /\ \/ form[q] = "shortcut" /\ BeginSearch(r, ShortcutPlan[q])
       \/ /\ form[q] \in {"search_empty", "command"}
          /\ GoTo(r, "hint")
          /\ UNCHANGED <<plan, steady>>
       \/ /\ form[q] \in {"search", "command_text", "retrieval"}
          /\ GoTo(r, "interpret")
          /\ UNCHANGED <<plan, steady>>
    /\ UNCHANGED <<notion, pending, answer, fetched, results, sent, changes, crashes>>

InterpretOk(r) ==
    /\ pc[r] = "interpret"
    /\ \E p \in Plans : BeginSearch(r, p)
    /\ UNCHANGED <<notion, pending, answer, question, fetched, results, sent, changes, crashes>>

\* Mutant: an error of the model is not caught, and answered 502.
InterpretFailsRaised(r) ==
    /\ pc[r] = "interpret"
    /\ Leave(r)
    /\ UNCHANGED <<notion, pending, answer, changes, crashes>>

\* An error of the model, an invalid plan, or one of low confidence.
InterpretFails(r) ==
    /\ pc[r] = "interpret"
    /\ GoTo(r, "hint")
    /\ UNCHANGED <<notion, pending, answer, question, plan, fetched, steady, results, sent,
                   changes, crashes>>

\* What the query has still to answer: by assumption, what it answered already its
\* cursor does not repeat.
Remaining(r) == {i \in active \ fetched[r] : Filtered(i, plan[r])}

\* A page of the results that is full, and Notion says there are more.
FetchMore(r) ==
    /\ pc[r] = "search"
    /\ \E S \in SUBSET Remaining(r) :
          /\ Cardinality(S) = PageSize /\ S # Remaining(r)
          /\ fetched' = [fetched EXCEPT ![r] = @ \cup S]
    /\ UNCHANGED <<notion, pending, answer, pc, question, plan, steady, results, sent,
                   changes, crashes>>

\* The last page.  What appeared in the meantime may be on it or not; by assumption
\* the cursor drops nothing that was there all the time.
LastPages(r) ==
    {S \in SUBSET Remaining(r) :
        Cardinality(S) <= PageSize /\ Remaining(r) \cap steady[r] \subseteq S}

\* The candidates are known; the ranked ones become the results.
Found(r, all, ranked) ==
    /\ fetched' = [fetched EXCEPT ![r] = all]
    /\ results' = [results EXCEPT ![r] = ranked]
    /\ GoTo(r, IF results'[r] = <<>> THEN "nothing" ELSE "heading")
    /\ UNCHANGED <<notion, pending, answer, question, plan, steady, sent, changes, crashes>>

\* Mutant: no more pages are fetched once the matches fill the limit.
FetchUntilFull(r) ==
    /\ pc[r] = "search"
    /\ \E S \in SUBSET Remaining(r) :
          LET all == fetched[r] \cup S
              best == Upto(Rank(all, plan[r]), plan[r].limit) IN
          /\ \/ S \in LastPages(r)
             \/ Cardinality(S) = PageSize /\ Len(best) = plan[r].limit
          /\ Found(r, all, best)

\* After the last page the candidates are matched, ranked and cut to the limit.
FetchLast(r) ==
    /\ pc[r] = "search"
    /\ \E S \in LastPages(r) :
          LET all == fetched[r] \cup S IN
          Found(r, all, Upto(Rank(all, plan[r]), plan[r].limit))

\* QueryPersistenceError: the pages fetched so far are dropped.
SearchFails(r) ==
    /\ pc[r] = "search"
    /\ GoTo(r, "failure")
    /\ fetched' = [fetched EXCEPT ![r] = {}]
    /\ UNCHANGED <<notion, pending, answer, question, plan, steady, results, sent,
                   changes, crashes>>

-----------------------------------------------------------------------------
Visible(r) == Smaller(ResultLimit, Len(results[r]))

\* Mutant: the items are counted from zero.
NextMessageFromZero(r) ==
    CASE pc[r] = "heading" -> [what |-> "heading", shown |-> Visible(r)]
      [] pc[r] = "items"   -> [what |-> "item", place |-> Len(sent[r]) - 1]
      [] OTHER             -> [what |-> pc[r]]

\* The message that is sent next.  The heading comes before the items.
NextMessage(r) ==
    CASE pc[r] = "heading" -> [what |-> "heading", shown |-> Visible(r)]
      [] pc[r] = "items"   -> [what |-> "item", place |-> Len(sent[r])]
      [] OTHER             -> [what |-> pc[r]]

Sending == {"hint", "failure", "nothing", "heading", "items"}

SendOk(r) ==
    /\ pc[r] \in Sending
    /\ sent' = [sent EXCEPT ![r] = Append(@, NextMessage(r))]
    /\ GoTo(r, IF pc[r] = "heading" \/ (pc[r] = "items" /\ Len(sent[r]) < Visible(r))
                THEN "items" ELSE "respond")
    /\ UNCHANGED <<notion, pending, answer, question, plan, fetched, steady, results,
                   changes, crashes>>

\* Mutant: a failed item message is logged and the next one sent.
SendFailsSwallowed(r) ==
    /\ pc[r] \in Sending
    /\ GoTo(r, "respond")
    /\ UNCHANGED <<notion, pending, answer, question, plan, fetched, steady, results, sent,
                   changes, crashes>>

\* TelegramDeliveryError, whether or not the message arrived: answered 502.
SendFails(r) ==
    /\ pc[r] \in Sending
    /\ Leave(r)
    /\ UNCHANGED <<notion, pending, answer, changes, crashes>>

\* 200; its loss makes Telegram deliver the question again.
Respond(r) ==
    /\ pc[r] = "respond"
    /\ pending' = pending \ {question[r]}
    /\ answer' = [answer EXCEPT ![question[r]] = sent[r]]
    /\ Leave(r)
    /\ UNCHANGED <<notion, changes, crashes>>

ResponseLost(r) ==
    /\ pc[r] = "respond"
    /\ Leave(r)
    /\ UNCHANGED <<notion, pending, answer, changes, crashes>>

-----------------------------------------------------------------------------
\* A page is trashed, captured or restored while a search is under way (at any other
\* time it is as if the question had been asked later).
Searching == \E r \in Requests : pc[r] = "search"

PageGoes(i) ==
    /\ changes < MaxChanges
    /\ Searching
    /\ i \in active
    /\ active' = active \ {i}
    /\ steady' = [r \in Requests |-> steady[r] \ {i}]
    /\ changes' = changes + 1
    /\ UNCHANGED <<item, form, pending, answer, pc, question, plan, fetched, results, sent, crashes>>

PageComes(i) ==
    /\ changes < MaxChanges
    /\ Searching
    /\ i \notin active
    /\ active' = active \cup {i}
    /\ changes' = changes + 1
    /\ UNCHANGED <<item, form, pending, answer, process, crashes>>

Crash ==
    /\ crashes < MaxCrashes
    /\ crashes' = crashes + 1
    /\ pc' = [r \in Requests |-> "idle"]
    /\ question' = [r \in Requests |-> None]
    /\ plan' = [r \in Requests |-> None]
    /\ fetched' = [r \in Requests |-> {}]
    /\ steady' = [r \in Requests |-> {}]
    /\ results' = [r \in Requests |-> <<>>]
    /\ sent' = [r \in Requests |-> <<>>]
    /\ UNCHANGED <<notion, pending, answer, changes>>

-----------------------------------------------------------------------------
Step(r) ==
    \/ InterpretOk(r) \/ InterpretFails(r)
    \/ FetchMore(r) \/ FetchLast(r) \/ SearchFails(r)
    \/ SendOk(r) \/ SendFails(r)
    \/ Respond(r) \/ ResponseLost(r)

Next ==
    \/ \E r \in Requests : Step(r) \/ \E q \in Questions : Deliver(r, q)
    \/ \E i \in Items : PageGoes(i) \/ PageComes(i)
    \/ Crash

Spec == Init /\ [][Next]_vars

\* Every call has a timeout, so a request moves on; Telegram delivers a pending
\* question again and again, and a chat that is written to again and again for one
\* question takes each message in the end.
Sends(q, n) ==
    \E r \in Requests : question[r] = q /\ Len(sent[r]) = n /\ SendOk(r)

FairSpec ==
    /\ Spec
    /\ \A r \in Requests : WF_vars(Step(r))
    /\ \A q \in Questions :
          /\ SF_vars(\E r \in Requests : Deliver(r, q))
          /\ \A n \in 0 .. ResultLimit : SF_vars(Sends(q, n))
          /\ SF_vars(\E r \in Requests : question[r] = q /\ Respond(r))

-----------------------------------------------------------------------------
\* A question told 200, which Telegram never delivers again, has had a whole answer, all
\* of it from that delivery: a notice, or a heading and after it each of the items it
\* announces, in their order.
AnsweredInFull ==
    \A q \in Questions \ pending :
        \/ Len(answer[q]) = 1 /\ answer[q][1].what \in {"hint", "failure", "nothing"}
        \/ /\ answer[q] # <<>> /\ answer[q][1].what = "heading" /\ answer[q][1].shown >= 1
           /\ Tail(answer[q]) =
                 [n \in 1 .. answer[q][1].shown |-> [what |-> "item", place |-> n]]

\* The order of the answer, key by key.
Before(i, j, p) ==
    LET same == item[i].created = item[j].created /\ i < j
        newest == item[i].created > item[j].created \/ same
        oldest == item[i].created < item[j].created \/ same
        undated(k) == item[k].due = 0 IN
    \/ /\ p.sort = "Relevance"
       /\ \/ Less(Relevance(j, p), Relevance(i, p))
          \/ Relevance(i, p) = Relevance(j, p) /\ newest
    \/ p.sort = "Newest" /\ newest
    \/ p.sort = "Oldest" /\ oldest
    \/ /\ p.sort = "DueSoon"
       /\ \/ ~undated(i) /\ (undated(j) \/ item[i].due < item[j].due)
          \/ item[i].due = item[j].due /\ newest

\* The answer is the best of what the search found, in one order without ties: every
\* item of it goes before the next, and before every match that was left out.
BestFirst ==
    \A r \in Requests : results[r] # <<>> =>
        LET p == plan[r] s == results[r]
            out == {i \in fetched[r] : Matches(i, p)} \ {s[n] : n \in DOMAIN s} IN
        /\ \A n \in DOMAIN s : \A m \in 1 .. n - 1 : Before(s[m], s[n], p)
        /\ out # {} => Len(s) = p.limit /\ \A i \in out : Before(s[Len(s)], i, p)

\* "Full cursor pagination": nothing is missed, however many pages of results there are
\* and whatever happens to other items meanwhile.  A match that Notion's filter lets
\* through and that was there all through the search is found, unless the limit is
\* filled with items that all go before it.
NothingMissed ==
    \A r \in Requests : pc[r] \in {"nothing", "heading"} =>
        LET p == plan[r] s == results[r] IN
        \A i \in steady[r] : Filtered(i, p) /\ Matches(i, p) =>
            \/ \E n \in DOMAIN s : s[n] = i
            \/ Len(s) = p.limit /\ \A n \in DOMAIN s : Before(s[n], i, p)

\* Every question is answered in the end.
QuestionsAnswered == \A q \in Questions : q \in pending ~> q \notin pending
=============================================================================
