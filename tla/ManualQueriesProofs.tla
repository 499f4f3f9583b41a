------------------------ MODULE ManualQueriesProofs ------------------------
(***************************************************************************)
(* Proofs about ManualQueries, for every database and every plan, any      *)
(* number of questions and of deliveries that overlap, every page size and *)
(* limit.                                                                  *)
(*                                                                         *)
(* What a request has sent so far is the beginning of its answer (Reply),  *)
(* so that what is told 200 is whole.  What a search has fetched includes  *)
(* in the end every match that was there all the time (Search), and the    *)
(* sorts of rank_query_items put it in the order of Before (ListsProofs).  *)
(***************************************************************************)
EXTENDS ManualQueries, ListsProofs, SequenceTheorems

\* The first k messages of an answer that announces v items.
Part(v, k) ==
    [n \in 1 .. k |-> IF n = 1 THEN [what |-> "heading", shown |-> v]
                               ELSE [what |-> "item", place |-> n - 1]]

\* A notice, or a heading with the items it announces.
Whole(s) ==
    \/ Len(s) = 1 /\ s[1].what \in {"hint", "failure", "nothing"}
    \/ /\ s # <<>> /\ s[1].what = "heading" /\ s[1].shown >= 1
       /\ Tail(s) = [n \in 1 .. s[1].shown |-> [what |-> "item", place |-> n]]

NoResults == {"idle", "interpret", "search", "hint", "failure", "nothing"}

\* What a request has of its question, its results and its answer.
Reply(r) ==
    /\ pc[r] # "idle" => question[r] \in Questions
    /\ pc[r] = "search" => plan[r] \in Plan
    /\ pc[r] \in NoResults => results[r] = <<>>
    /\ pc[r] \in NoResults \cup {"heading"} => sent[r] = <<>>
    /\ pc[r] = "heading" => results[r] # <<>>
    /\ pc[r] = "items" => /\ Len(sent[r]) \in 1 .. Visible(r)
                          /\ sent[r] = Part(Visible(r), Len(sent[r]))
    /\ pc[r] = "respond" => Whole(sent[r])

ReplyInv == TypeOK /\ (\A r \in Requests : Reply(r)) /\ AnsweredInFull

\* The results s are the best of the items F that the search of the plan p has found.
Best(p, s, F) ==
    LET out == {i \in F : Matches(i, p)} \ {s[n] : n \in DOMAIN s} IN
    /\ \A n \in DOMAIN s : \A m \in 1 .. n - 1 : Before(s[m], s[n], p)
    /\ out # {} => Len(s) = p.limit /\ \A i \in out : Before(s[Len(s)], i, p)

\* The results s have every match of the plan p in S, but those that come after all of
\* them when the limit is filled.
Complete(p, s, S) ==
    \A i \in S : Filtered(i, p) /\ Matches(i, p) =>
        \/ \E n \in DOMAIN s : s[n] = i
        \/ Len(s) = p.limit /\ \A n \in DOMAIN s : Before(s[n], i, p)

\* What a search has of the database.
Search(r) ==
    /\ pc[r] = "search" => steady[r] \subseteq active
    /\ pc[r] \in NoResults => results[r] = <<>>
    /\ results[r] # <<>> => Best(plan[r], results[r], fetched[r])
    /\ pc[r] \in {"nothing", "heading"} => Complete(plan[r], results[r], steady[r])

SearchInv == \A r \in Requests : Search(r)

-----------------------------------------------------------------------------
\* The pairs that the keys put in order.
LEMMA Keys ==
    ASSUME NEW i \in Items, NEW j \in Items
    PROVE  /\ <<i, j>> \in ById <=> i < j
           /\ <<i, j>> \in NewerFirst <=> item[i].created > item[j].created
           /\ <<i, j>> \in OlderFirst <=> item[i].created < item[j].created
           /\ <<i, j>> \in SoonerFirst <=>
                 item[i].due # 0 /\ (item[j].due = 0 \/ item[i].due < item[j].due)
           /\ \A p : <<i, j>> \in BestFit(p) <=> Less(Relevance(j, p), Relevance(i, p))
<1> DEFINE q == <<i, j>>
<1>1. q \in Items \X Items /\ q[1] = i /\ q[2] = j
  OBVIOUS
<1> HIDE DEF q
<1>2. /\ q \in ById <=> q[1] < q[2]
      /\ q \in NewerFirst <=> item[q[1]].created > item[q[2]].created
      /\ q \in OlderFirst <=> item[q[1]].created < item[q[2]].created
      /\ q \in SoonerFirst <=> /\ item[q[1]].due # 0
                               /\ item[q[2]].due = 0 \/ item[q[1]].due < item[q[2]].due
  BY <1>1 DEF ById, NewerFirst, OlderFirst, SoonerFirst
<1>3. \A p : q \in BestFit(p) <=> Less(Relevance(q[2], p), Relevance(q[1], p))
  BY <1>1 DEF BestFit
<1> QED
  BY <1>1, <1>2, <1>3 DEF q

\* The relevance of an item is five numbers.
LEMMA RelevanceType ==
    ASSUME item \in [Items -> Attributes], NEW p \in Plan, NEW i \in Items
    PROVE  Relevance(i, p) \in [1 .. 5 -> Int]
<1>1. IsFiniteSet(p.keywords)
  BY FS_Subset, QueriesAssumption DEF Plan
<1>2. \A S : Cardinality(Hits(p, S)) \in Int
  <2> SUFFICES ASSUME NEW S PROVE Cardinality(Hits(p, S)) \in Int
    OBVIOUS
  <2>1. IsFiniteSet(Hits(p, S))
    BY <1>1, FS_Subset DEF Hits
  <2> QED
    BY <2>1, FS_CardinalityType
<1> QED
  BY <1>2 DEF Relevance

\* Each key but the page id has ties; the page id has none.
LEMMA KeysOrder ==
    ASSUME item \in [Items -> Attributes], NEW p \in Plan
    PROVE  /\ Strict(ById, Items)
           /\ Weak(NewerFirst, Items) /\ Weak(OlderFirst, Items)
           /\ Weak(SoonerFirst, Items) /\ Weak(BestFit(p), Items)
<1> DEFINE Better(i, j) == Less(Relevance(j, p), Relevance(i, p))
<1>1. \A i \in Items : i \in Nat /\ item[i].created \in Nat /\ item[i].due \in Nat
  BY QueriesAssumption DEF Item
<1>2. Strict(ById, Items)
  BY <1>1, Keys DEF Strict
<1>3. Weak(NewerFirst, Items)
  BY <1>1, Keys DEF Weak
<1>4. Weak(OlderFirst, Items)
  BY <1>1, Keys DEF Weak
<1>5. Weak(SoonerFirst, Items)
  BY <1>1, Keys DEF Weak
<1>6. Weak(BestFit(p), Items)
  <2>1. \A i \in Items : Relevance(i, p) \in [1 .. 5 -> Int]
    BY RelevanceType
  <2>2. \A i \in Items : ~Better(i, i)
    BY <2>1, LessIrreflexive
  <2>3. \A i, j, k \in Items : Better(i, j) /\ Better(j, k) => Better(i, k)
    BY <2>1, LessTransitive
  <2>4. \A i, j, k \in Items : Better(i, k) => Better(i, j) \/ Better(j, k)
    <3> SUFFICES ASSUME NEW i \in Items, NEW j \in Items, NEW k \in Items, Better(i, k)
                 PROVE  Better(i, j) \/ Better(j, k)
      OBVIOUS
    <3>1. Better(i, j) \/ Better(j, i) \/ Relevance(i, p) = Relevance(j, p)
      BY <2>1, LessTotal
    <3> QED
      BY <2>3, <3>1
  <2>5. \A i, j \in Items : <<i, j>> \in BestFit(p) <=> Better(i, j)
    BY Keys
  <2> HIDE DEF Better
  <2> QED
    BY <2>2, <2>3, <2>4, <2>5 DEF Weak
<1> QED
  BY <1>2, <1>3, <1>4, <1>5, <1>6

\* rank_query_items sorts by an order without ties, which is that of Before.
LEMMA SortedByBefore ==
    ASSUME item \in [Items -> Attributes], NEW p \in Plan
    PROVE  /\ Strict(SortedBy(p), Items)
           /\ \A i, j \in Items : <<i, j>> \in SortedBy(p) => Before(i, j, p)
<1> DEFINE Newest == Then(NewerFirst, ById)
           Oldest == Then(OlderFirst, ById)
           DueSoon == Then(SoonerFirst, Newest)
           Relevant == Then(BestFit(p), Newest)
           Newer(i, j) == \/ item[i].created > item[j].created
                          \/ item[i].created = item[j].created /\ i < j
           Older(i, j) == \/ item[i].created < item[j].created
                          \/ item[i].created = item[j].created /\ i < j
<1>1. \A i \in Items : i \in Nat /\ item[i].created \in Nat /\ item[i].due \in Nat
  BY QueriesAssumption DEF Item
<1>2. Strict(Newest, Items) /\ Strict(Oldest, Items)
  BY KeysOrder, ThenStrict
<1>3. ASSUME NEW i \in Items, NEW j \in Items, <<i, j>> \in Newest PROVE Newer(i, j)
  <2>1. \/ <<i, j>> \in NewerFirst
        \/ <<i, j>> \in ById /\ <<j, i>> \notin NewerFirst
    BY <1>3, ThenPair
  <2> QED
    BY <1>1, <2>1, Keys
<1>4. ASSUME NEW i \in Items, NEW j \in Items, <<i, j>> \in Oldest PROVE Older(i, j)
  <2>1. \/ <<i, j>> \in OlderFirst
        \/ <<i, j>> \in ById /\ <<j, i>> \notin OlderFirst
    BY <1>4, ThenPair
  <2> QED
    BY <1>1, <2>1, Keys
<1> HIDE DEF Newest, Oldest
<1>5. p.sort = "Relevance" \/ p.sort = "Newest" \/ p.sort = "Oldest" \/ p.sort = "DueSoon"
  BY DEF Plan, Sorts
<1>6. CASE p.sort = "Relevance"
  <2>1. SortedBy(p) = Relevant
    BY <1>6 DEF SortedBy, Newest
  <2>2. ASSUME NEW i \in Items, NEW j \in Items, <<i, j>> \in Relevant PROVE Before(i, j, p)
    <3>1. \/ <<i, j>> \in BestFit(p)
          \/ <<i, j>> \in Newest /\ <<j, i>> \notin BestFit(p)
      BY <2>2, ThenPair
    <3>2. CASE Less(Relevance(j, p), Relevance(i, p))
      BY <1>6, <3>2 DEF Before
    <3>3. CASE ~Less(Relevance(j, p), Relevance(i, p))
      <4>1. <<i, j>> \in Newest /\ ~Less(Relevance(i, p), Relevance(j, p))
        BY <3>1, <3>3, Keys
      <4>2. Relevance(i, p) = Relevance(j, p)
        BY <3>3, <4>1, RelevanceType, LessTotal
      <4>3. Newer(i, j)
        BY <1>3, <4>1
      <4> QED
        BY <1>6, <4>2, <4>3 DEF Before
    <3> QED
      BY <3>2, <3>3
  <2>3. Strict(Relevant, Items)
    BY <1>2, KeysOrder, ThenStrict
  <2> QED
    BY <2>1, <2>2, <2>3
<1>7. CASE p.sort = "Newest"
  <2>1. SortedBy(p) = Newest
    BY <1>7 DEF SortedBy, Newest
  <2> QED
    BY <1>2, <1>3, <1>7, <2>1 DEF Before
<1>8. CASE p.sort = "Oldest"
  <2>1. SortedBy(p) = Oldest
    BY <1>8 DEF SortedBy, Oldest
  <2> QED
    BY <1>2, <1>4, <1>8, <2>1 DEF Before
<1>9. CASE p.sort = "DueSoon"
  <2>1. SortedBy(p) = DueSoon
    BY <1>9 DEF SortedBy, Newest
  <2>2. ASSUME NEW i \in Items, NEW j \in Items, <<i, j>> \in DueSoon PROVE Before(i, j, p)
    <3>1. \/ <<i, j>> \in SoonerFirst
          \/ <<i, j>> \in Newest /\ <<j, i>> \notin SoonerFirst
      BY <2>2, ThenPair
    <3>2. CASE <<i, j>> \in SoonerFirst
      BY <1>9, <3>2, Keys DEF Before
    <3>3. CASE <<i, j>> \notin SoonerFirst
      <4>1. item[i].due = item[j].due
        BY <1>1, <3>1, <3>3, Keys
      <4>2. Newer(i, j)
        BY <1>3, <3>1, <3>3
      <4> QED
        BY <1>9, <4>1, <4>2 DEF Before
    <3> QED
      BY <3>2, <3>3
  <2>3. Strict(DueSoon, Items)
    BY <1>2, KeysOrder, ThenStrict
  <2> QED
    BY <2>1, <2>2, <2>3
<1> QED
  BY <1>5, <1>6, <1>7, <1>8, <1>9

\* The ranked matches, cut to the limit: they are the best of what was found, and what is
\* not among them comes after each of them.
LEMMA RankCut ==
    ASSUME item \in [Items -> Attributes], NEW p \in Plan, NEW F \in SUBSET Items
    PROVE  /\ Upto(Rank(F, p), p.limit) \in Seq(Items)
           /\ Best(p, Upto(Rank(F, p), p.limit), F)
           /\ Complete(p, Upto(Rank(F, p), p.limit), F)
<1> DEFINE M == {i \in F : Matches(i, p)}
           N == Cardinality(M)
           k == Smaller(p.limit, N)
           w == Rank(F, p)
           s == Upto(w, p.limit)
<1>1. M \subseteq Items /\ IsFiniteSet(M) /\ N \in Nat
  BY FS_Subset, FS_CardinalityType, QueriesAssumption
<1>2. Strict(SortedBy(p), M)
  BY <1>1, SortedByBefore DEF Strict
<1>3. Lists(w, M) /\ Sorted(w, SortedBy(p))
  BY <1>1, <1>2, RankedSorted DEF Rank
<1>4. p.limit \in Nat /\ p.limit >= 1
  BY DEF Plan
<1>5. /\ w \in [1 .. N -> M]
      /\ \A i \in M : \E n \in 1 .. N : w[n] = i
      /\ \A m, n \in 1 .. N : m < n => <<w[m], w[n]>> \in SortedBy(p)
  BY <1>3 DEF Lists, Sorted
<1>6. k \in 0 .. N /\ k <= p.limit /\ (k = p.limit \/ k = N)
  BY <1>1, <1>4 DEF Smaller
<1>7. w \in Seq(M) /\ Len(w) = N
  BY <1>1, <1>5
<1>8. s = [n \in 1 .. k |-> w[n]]
  <2>1. s = SubSeq(w, 1, k)
    BY <1>7 DEF Upto
  <2> HIDE DEF k, w, M, N
  <2> QED
    BY <1>1, <1>6, <1>7, <2>1
<1> HIDE DEF s, k, w, N
<1>9. s \in [1 .. k -> M] /\ DOMAIN s = 1 .. k
  BY <1>1, <1>5, <1>6, <1>8
<1>10. s \in Seq(Items) /\ Len(s) = k
  BY <1>1, <1>6, <1>9
<1>11. \A m, n \in 1 .. N : m < n => Before(w[m], w[n], p)
  <2> SUFFICES ASSUME NEW m \in 1 .. N, NEW n \in 1 .. N, m < n
               PROVE  Before(w[m], w[n], p)
    OBVIOUS
  <2>1. w[m] \in Items /\ w[n] \in Items /\ <<w[m], w[n]>> \in SortedBy(p)
    BY <1>1, <1>5
  <2> QED
    BY <2>1, SortedByBefore
<1>12. \A n \in DOMAIN s : \A m \in 1 .. n - 1 : Before(s[m], s[n], p)
  <2> SUFFICES ASSUME NEW n \in 1 .. k, NEW m \in 1 .. n - 1
               PROVE  Before(s[m], s[n], p)
    BY <1>9
  <2>1. m \in 1 .. N /\ n \in 1 .. N /\ m < n /\ s[m] = w[m] /\ s[n] = w[n]
    BY <1>1, <1>6, <1>8
  <2> QED
    BY <1>11, <2>1
<1>13. ASSUME NEW i \in M \ {s[n] : n \in DOMAIN s}
       PROVE  k = p.limit /\ k \in 1 .. k /\ \A m \in 1 .. k : Before(s[m], i, p)
  <2>1. PICK n \in 1 .. N : w[n] = i
    BY <1>5
  <2>2. ~(n <= k)
    <3> SUFFICES ASSUME n <= k PROVE FALSE
      OBVIOUS
    <3>1. n \in DOMAIN s /\ s[n] = i
      BY <1>6, <1>8, <1>9, <2>1
    <3> QED
      BY <3>1
  <2>3. /\ k = p.limit /\ k \in 1 .. k
        /\ \A m \in 1 .. k : m \in 1 .. N /\ m < n /\ s[m] = w[m]
    BY <1>1, <1>4, <1>6, <1>8, <2>2
  <2> QED
    BY <1>11, <2>1, <2>3
<1>14. Best(p, s, F)
  BY <1>10, <1>12, <1>13 DEF Best
<1>15. Complete(p, s, F)
  BY <1>9, <1>10, <1>13 DEF Complete
<1> QED
  BY <1>10, <1>14, <1>15 DEF s, w

-----------------------------------------------------------------------------
\* A request and a question are all that a step of a request changes of the rest.
LEMMA OthersKept ==
    ASSUME TypeOK, NEW r \in Requests,
           Step(r) \/ \E q \in Questions : Deliver(r, q)
    PROVE  /\ item' = item /\ active' = active
           /\ \A o \in Requests \ {r} :
                 /\ pc'[o] = pc[o] /\ question'[o] = question[o] /\ plan'[o] = plan[o]
                 /\ fetched'[o] = fetched[o] /\ steady'[o] = steady[o]
                 /\ results'[o] = results[o] /\ sent'[o] = sent[o]
<1> USE DEF TypeOK, notion, GoTo
<1>1. CASE \E q \in Questions : Deliver(r, q)
  BY <1>1 DEF Deliver, BeginSearch
<1>2. CASE InterpretOk(r)
  BY <1>2 DEF InterpretOk, BeginSearch
<1>3. CASE InterpretFails(r)
  BY <1>3 DEF InterpretFails
<1>4. CASE FetchMore(r)
  BY <1>4 DEF FetchMore
<1>5. CASE FetchLast(r)
  BY <1>5 DEF FetchLast, Found
<1>6. CASE SearchFails(r)
  BY <1>6 DEF SearchFails
<1>7. CASE SendOk(r)
  BY <1>7 DEF SendOk
<1>8. CASE SendFails(r)
  BY <1>8 DEF SendFails, Leave
<1>9. CASE Respond(r)
  BY <1>9 DEF Respond, Leave
<1>10. CASE ResponseLost(r)
  BY <1>10 DEF ResponseLost, Leave
<1> QED
  BY <1>1, <1>2, <1>3, <1>4, <1>5, <1>6, <1>7, <1>8, <1>9, <1>10 DEF Step

\* A request of which nothing changes, has of its answer what it had.
LEMMA ReplyKept ==
    ASSUME NEW r \in Requests, Reply(r),
           pc'[r] = pc[r], question'[r] = question[r],
           plan'[r] = plan[r], results'[r] = results[r], sent'[r] = sent[r]
    PROVE  Reply(r)'
BY DEF Reply, Visible, Part, Whole

\* As long as nothing is edited, items match and rank as they did.
LEMMA ItemsKept ==
    ASSUME NEW r \in Requests, NEW p, item' = item, plan'[r] = p
    PROVE  /\ \A i : Matches(i, plan[r])' = Matches(i, p)
           /\ \A i : Filtered(i, plan[r])' = Filtered(i, p)
           /\ \A i, j : Before(i, j, plan[r])' = Before(i, j, p)
<1>1. ASSUME NEW i PROVE Matches(i, plan[r])' = Matches(i, p)
  BY DEF Matches, Said, Hits, Fields
<1>2. ASSUME NEW i PROVE Filtered(i, plan[r])' = Filtered(i, p)
  BY DEF Filtered, Fields, DueMatches, WeekStart
<1>3. ASSUME NEW i, NEW j PROVE Before(i, j, plan[r])' = Before(i, j, p)
  <2>1. ASSUME NEW k PROVE Relevance(k, plan[r])' = Relevance(k, p)
    BY DEF Relevance, Phrase, Hits, Said, Fields
  <2> QED
    BY <2>1 DEF Before
<1> QED
  BY <1>1, <1>2, <1>3

\* The results of a search stay the best ...
LEMMA BestKept ==
    ASSUME NEW r \in Requests, NEW p, NEW s, NEW F, item' = item,
           plan'[r] = p, results'[r] = s, fetched'[r] = F, Best(p, s, F)
    PROVE  Best(plan[r], results[r], fetched[r])'
<1>1. \A i : Matches(i, plan[r])' <=> Matches(i, p)
  BY ItemsKept
<1>2. \A i, j : Before(i, j, p) => Before(i, j, plan[r])'
  BY ItemsKept
<1> QED
  BY <1>1, <1>2 DEF Best

\* ... and complete.
LEMMA CompleteKept ==
    ASSUME NEW r \in Requests, NEW p, NEW s, NEW S, item' = item,
           plan'[r] = p, results'[r] = s, steady'[r] \subseteq S, Complete(p, s, S)
    PROVE  Complete(plan[r], results[r], steady[r])'
BY ItemsKept DEF Complete

\* And of the database, as long as nothing is trashed that it has seen all the time.
LEMMA SearchKept ==
    ASSUME NEW r \in Requests, Search(r), item' = item,
           pc'[r] = pc[r], plan'[r] = plan[r], fetched'[r] = fetched[r],
           results'[r] = results[r], steady'[r] \subseteq steady[r],
           pc[r] = "search" => steady'[r] \subseteq active'
    PROVE  Search(r)'
<1>1. Best(plan[r], results[r], fetched[r]) => Best(plan[r], results[r], fetched[r])'
  BY BestKept
<1>2. Complete(plan[r], results[r], steady[r]) => Complete(plan[r], results[r], steady[r])'
  BY CompleteKept
<1> QED
  BY <1>1, <1>2 DEF Search

-----------------------------------------------------------------------------
\* A notice is whole at once; heading and items follow one another until it is.
LEMMA Answering ==
    ASSUME NEW v \in Nat, v >= 1
    PROVE  /\ \A m \in Message : m.what \in {"hint", "failure", "nothing"} =>
                  Whole(Append(<<>>, m))
           /\ Append(<<>>, [what |-> "heading", shown |-> v]) = Part(v, 1)
           /\ \A k \in 1 .. v :
                  Append(Part(v, k), [what |-> "item", place |-> k]) = Part(v, k + 1)
           /\ Whole(Part(v, v + 1))
<1>1. \A k \in 1 .. v + 1 : /\ Part(v, k) \in Seq(Message) /\ Len(Part(v, k)) = k
                            /\ Part(v, k)[1] = [what |-> "heading", shown |-> v]
                            /\ \A n \in 2 .. k :
                                  Part(v, k)[n] = [what |-> "item", place |-> n - 1]
  BY DEF Part, Message
<1>2. \A m \in Message : m.what \in {"hint", "failure", "nothing"} =>
          Whole(Append(<<>>, m))
  BY DEF Whole
<1>3. Append(<<>>, [what |-> "heading", shown |-> v]) = Part(v, 1)
  BY DEF Part
<1>4. ASSUME NEW k \in 1 .. v
      PROVE  Append(Part(v, k), [what |-> "item", place |-> k]) = Part(v, k + 1)
  BY DEF Part
<1>5. Whole(Part(v, v + 1))
  <2> DEFINE s == Part(v, v + 1)
  <2>1. /\ s \in Seq(Message) /\ Len(s) = v + 1
        /\ s[1] = [what |-> "heading", shown |-> v]
        /\ \A n \in 2 .. v + 1 : s[n] = [what |-> "item", place |-> n - 1]
    BY <1>1
  <2> HIDE DEF s
  <2>2. s # <<>> /\ s[1].what = "heading" /\ s[1].shown = v
    BY <2>1
  <2>3. Tail(s) = [n \in 1 .. v |-> [what |-> "item", place |-> n]]
    <3> DEFINE t == Tail(s)
    <3>1. /\ t \in Seq(Message) /\ Len(t) = v
          /\ \A n \in 1 .. Len(t) : t[n] = s[n + 1]
      BY <2>1, <2>2, HeadTailProperties
    <3> HIDE DEF t
    <3>2. \A n \in 1 .. v : s[n + 1] = [what |-> "item", place |-> n]
      BY <2>1
    <3>3. t = [n \in 1 .. v |-> t[n]]
      BY <3>1
    <3>4. \A n \in 1 .. v : t[n] = [what |-> "item", place |-> n]
      BY <3>1, <3>2
    <3> QED
      BY <3>3, <3>4 DEF t
  <2> QED
    BY <2>2, <2>3 DEF Whole, s
<1> QED
  BY <1>2, <1>3, <1>4, <1>5

\* A request that leaves its slot keeps the types and has nothing.
LEMMA LeaveReply ==
    ASSUME ReplyInv, NEW r \in Requests, Leave(r)
    PROVE  /\ pc' \in [Requests -> {"idle", "interpret", "search", "hint", "failure",
                                    "nothing", "heading", "items", "respond"}]
           /\ question' \in [Requests -> Questions \cup {None}]
           /\ plan' \in [Requests -> Plan \cup {None}]
           /\ fetched' \in [Requests -> SUBSET Items]
           /\ steady' \in [Requests -> SUBSET Items]
           /\ results' \in [Requests -> Seq(Items)]
           /\ sent' \in [Requests -> Seq(Message)]
           /\ Reply(r)'
<1>1. <<>> \in Seq(Items) /\ <<>> \in Seq(Message)
  OBVIOUS
<1> QED
  BY <1>1 DEF ReplyInv, TypeOK, Leave, Reply, NoResults

\* As long as nothing is told 200, the answers stay whole.
LEMMA AnswersKept ==
    ASSUME AnsweredInFull, pending' = pending, answer' = answer
    PROVE  AnsweredInFull'
BY DEF AnsweredInFull

\* Every step of a request keeps all this.
LEMMA StepReply ==
    ASSUME ReplyInv, NEW r \in Requests,
           Step(r) \/ \E q \in Questions : Deliver(r, q)
    PROVE  ReplyInv'
<1>1. \A o \in Requests \ {r} : Reply(o)'
  BY OthersKept, ReplyKept DEF ReplyInv
<1>2. SUFFICES TypeOK' /\ Reply(r)' /\ AnsweredInFull'
  BY <1>1 DEF ReplyInv
<1> USE DEF notion, GoTo
<1>3. TypeOK /\ Reply(r) /\ AnsweredInFull
  BY DEF ReplyInv
<1>4. CASE \E q \in Questions : Deliver(r, q)
  <2> PICK q \in Questions : Deliver(r, q)
    BY <1>4
  <2>1. ShortcutPlan[q] \in Plan
    BY QueriesAssumption
  <2>2. TypeOK'
    BY <1>3, <2>1 DEF TypeOK, Deliver, BeginSearch
  <2>3. Reply(r)'
    BY <1>3, <2>1 DEF TypeOK, Deliver, BeginSearch, Reply, NoResults
  <2> QED
    BY <1>3, <2>2, <2>3, AnswersKept DEF Deliver
<1>5. CASE InterpretOk(r)
  <2>1. TypeOK'
    BY <1>3, <1>5, QueriesAssumption DEF TypeOK, InterpretOk, BeginSearch
  <2>2. Reply(r)'
    BY <1>3, <1>5, QueriesAssumption
    DEF TypeOK, InterpretOk, BeginSearch, Reply, NoResults
  <2> QED
    BY <1>3, <1>5, <2>1, <2>2, AnswersKept DEF InterpretOk
<1>6. CASE InterpretFails(r)
  <2>1. TypeOK'
    BY <1>3, <1>6 DEF TypeOK, InterpretFails
  <2>2. Reply(r)'
    BY <1>3, <1>6 DEF TypeOK, InterpretFails, Reply, NoResults
  <2> QED
    BY <1>3, <1>6, <2>1, <2>2, AnswersKept DEF InterpretFails
<1>7. CASE FetchMore(r)
  <2>1. TypeOK'
    BY <1>3, <1>7 DEF TypeOK, FetchMore, Remaining
  <2>2. Reply(r)'
    BY <1>3, <1>7 DEF TypeOK, FetchMore, Reply, NoResults
  <2> QED
    BY <1>3, <1>7, <2>1, <2>2, AnswersKept DEF FetchMore
<1>8. CASE FetchLast(r)
  <2> PICK S \in LastPages(r) :
        Found(r, fetched[r] \cup S,
              Upto(Rank(fetched[r] \cup S, plan[r]), plan[r].limit))
    BY <1>8 DEF FetchLast
  <2> DEFINE all == fetched[r] \cup S
             s == Upto(Rank(all, plan[r]), plan[r].limit)
  <2>1. all \subseteq Items
    BY <1>3 DEF LastPages, Remaining, TypeOK
  <2>2. s \in Seq(Items)
    BY <1>3, <1>8, <2>1, RankCut DEF TypeOK, Reply, FetchLast
  <2> HIDE DEF all, s
  <2>3. Found(r, all, s)
    BY DEF all, s
  <2>4. TypeOK'
    BY <1>3, <2>1, <2>2, <2>3 DEF TypeOK, Found
  <2>5. Reply(r)'
    BY <1>3, <1>8, <2>2, <2>3 DEF TypeOK, Found, FetchLast, Reply, NoResults
  <2> QED
    BY <1>3, <2>3, <2>4, <2>5, AnswersKept DEF Found
<1>9. CASE SearchFails(r)
  <2>1. TypeOK'
    BY <1>3, <1>9 DEF TypeOK, SearchFails
  <2>2. Reply(r)'
    BY <1>3, <1>9 DEF TypeOK, SearchFails, Reply, NoResults
  <2> QED
    BY <1>3, <1>9, <2>1, <2>2, AnswersKept DEF SearchFails
<1>10. CASE SendOk(r)
  <2> DEFINE v == Visible(r)
             m == NextMessage(r)
  <2>1. /\ sent' = [sent EXCEPT ![r] = Append(@, m)]
        /\ pc' = [pc EXCEPT ![r] =
                      IF pc[r] = "heading" \/ (pc[r] = "items" /\ Len(sent[r]) < v)
                      THEN "items" ELSE "respond"]
        /\ pc[r] \in Sending /\ v' = v /\ results' = results /\ plan' = plan
        /\ question' = question
    BY <1>10 DEF SendOk, Visible
  <2>2. v \in Nat /\ (pc[r] \in {"heading", "items"} => v >= 1)
    <3>1. Len(results[r]) \in Nat /\ ResultLimit \in Nat /\ ResultLimit >= 1
      BY <1>3, QueriesAssumption DEF TypeOK
    <3>2. pc[r] = "items" => Len(sent[r]) \in 1 .. v
      BY <1>3 DEF Reply
    <3>3. pc[r] = "heading" => Len(results[r]) >= 1
      BY <1>3 DEF Reply, TypeOK
    <3>4. v \in Nat /\ (Len(results[r]) >= 1 => v >= 1)
      BY <3>1 DEF Visible, Smaller
    <3> HIDE DEF v
    <3> QED
      BY <3>2, <3>3, <3>4
  <2> HIDE DEF v, m
  <2>3. CASE pc[r] \in {"hint", "failure", "nothing"}
    <3>1. m \in Message /\ m.what \in {"hint", "failure", "nothing"}
      BY <2>3 DEF m, NextMessage, Message
    <3>2. Whole(Append(sent[r], m))
      <4>1. sent[r] = <<>>
        BY <1>3, <2>3 DEF Reply, NoResults
      <4> QED
        BY <3>1, <4>1 DEF Whole
    <3>3. TypeOK'
      BY <1>3, <1>10, <2>1, <3>1 DEF TypeOK, SendOk
    <3>4. pc'[r] = "respond" /\ sent'[r] = Append(sent[r], m)
      BY <1>3, <2>1, <2>3 DEF TypeOK
    <3>5. Reply(r)'
      BY <1>3, <2>1, <2>3, <3>2, <3>4 DEF Reply, NoResults, Whole
    <3> QED
      BY <1>3, <1>10, <3>3, <3>5, AnswersKept DEF SendOk
  <2>4. CASE pc[r] = "heading"
    <3>1. m = [what |-> "heading", shown |-> v] /\ m \in Message
      BY <2>2, <2>4 DEF m, v, NextMessage, Message
    <3>2. sent[r] = <<>>
      BY <1>3, <2>4 DEF Reply
    <3>3. pc'[r] = "items" /\ sent'[r] = Part(v, 1)
      BY <1>3, <2>1, <2>2, <2>4, <3>1, <3>2, Answering DEF TypeOK
    <3>4. TypeOK'
      BY <1>3, <1>10, <2>1, <3>1 DEF TypeOK, SendOk
    <3>5. Len(Part(v, 1)) = 1
      BY DEF Part
    <3>6. (pc[r] = "items")' /\ Visible(r)' = v /\ (sent[r])' = Part(v, 1)
      BY <2>1, <3>3 DEF v
    <3>7. Reply(r)'
      BY <1>3, <2>1, <2>2, <2>4, <3>3, <3>5, <3>6 DEF Reply, NoResults, Part
    <3> QED
      BY <1>3, <1>10, <3>4, <3>7, AnswersKept DEF SendOk
  <2>5. CASE pc[r] = "items"
    <3> DEFINE k == Len(sent[r])
    <3>1. k \in 1 .. v /\ sent[r] = Part(v, k)
      BY <1>3, <2>5 DEF Reply, v
    <3>2. m = [what |-> "item", place |-> k] /\ m \in Message
      BY <2>5, <3>1 DEF m, NextMessage, Message
    <3> HIDE DEF k
    <3>3. sent'[r] = Part(v, k + 1)
      <4>1. sent'[r] = Append(sent[r], m)
        BY <1>3, <2>1 DEF TypeOK
      <4>2. Append(Part(v, k), [what |-> "item", place |-> k]) = Part(v, k + 1)
        BY <2>2, <2>5, <3>1, Answering
      <4> QED
        BY <3>1, <3>2, <4>1, <4>2
    <3>4. TypeOK'
      BY <1>3, <1>10, <2>1, <3>2 DEF TypeOK, SendOk
    <3>5. Len(Part(v, k + 1)) = k + 1
      BY <3>1 DEF Part
    <3>6. CASE k < v
      <4>1. pc'[r] = "items" /\ k + 1 \in 1 .. v
        BY <1>3, <2>1, <2>2, <2>5, <3>1, <3>6 DEF TypeOK, k
      <4>2. Visible(r)' = v
        BY <2>1 DEF v
      <4>3. Reply(r)'
        BY <1>3, <2>1, <2>5, <3>3, <3>5, <4>1, <4>2 DEF Reply, NoResults, Part
      <4> QED
        BY <1>3, <1>10, <3>4, <4>3, AnswersKept DEF SendOk
    <3>7. CASE k = v
      <4>1. pc'[r] = "respond"
        BY <1>3, <2>1, <2>2, <2>5, <3>7 DEF TypeOK, k
      <4>2. Whole(sent'[r])
        BY <2>2, <2>5, <3>3, <3>7, Answering
      <4>3. Reply(r)'
        BY <1>3, <2>1, <2>5, <4>1, <4>2 DEF Reply, NoResults, Whole
      <4> QED
        BY <1>3, <1>10, <3>4, <4>3, AnswersKept DEF SendOk
    <3> QED
      BY <2>2, <3>1, <3>6, <3>7
  <2> QED
    BY <2>1, <2>3, <2>4, <2>5 DEF Sending
<1>11. CASE SendFails(r)
  <2>1. TypeOK' /\ Reply(r)'
    BY <1>3, <1>11, LeaveReply DEF TypeOK, SendFails
  <2> QED
    BY <1>3, <1>11, <2>1, AnswersKept DEF SendFails
<1>12. CASE Respond(r)
  <2>1. question[r] \in Questions /\ Whole(sent[r])
    BY <1>3, <1>12 DEF Respond, Reply
  <2>2. TypeOK' /\ Reply(r)'
    BY <1>3, <1>12, LeaveReply DEF TypeOK, Respond
  <2>3. AnsweredInFull'
    <3> SUFFICES ASSUME NEW q \in Questions \ pending' PROVE Whole(answer[q])'
      BY DEF AnsweredInFull, Whole
    <3>1. CASE q = question[r]
      BY <1>3, <1>12, <2>1, <3>1 DEF TypeOK, Respond, Whole
    <3>2. CASE q # question[r]
      BY <1>3, <1>12, <3>2 DEF TypeOK, Respond, Whole, AnsweredInFull
    <3> QED
      BY <3>1, <3>2
  <2> QED
    BY <2>2, <2>3
<1>13. CASE ResponseLost(r)
  <2>1. TypeOK' /\ Reply(r)'
    BY <1>3, <1>13, LeaveReply DEF TypeOK, ResponseLost
  <2> QED
    BY <1>3, <1>13, <2>1, AnswersKept DEF ResponseLost
<1> QED
  BY <1>4, <1>5, <1>6, <1>7, <1>8, <1>9, <1>10, <1>11, <1>12, <1>13 DEF Step

\* So does every other step: what happens in Notion leaves the answers alone, and a crash
\* leaves no request.
LEMMA NextReply ==
    ASSUME ReplyInv, [Next]_vars
    PROVE  ReplyInv'
<1>1. ASSUME NEW r \in Requests, Step(r) \/ \E q \in Questions : Deliver(r, q)
      PROVE  ReplyInv'
  BY <1>1, StepReply
<1>2. TypeOK /\ (\A r \in Requests : Reply(r)) /\ AnsweredInFull
  BY DEF ReplyInv
<1>3. ASSUME NEW i \in Items, PageGoes(i) \/ PageComes(i) PROVE ReplyInv'
  <2>1. TypeOK'
    <3>1. changes' \in 0 .. MaxChanges
      BY <1>2, <1>3, QueriesAssumption DEF TypeOK, PageGoes, PageComes
    <3>2. active' \subseteq Items /\ steady' \in [Requests -> SUBSET Items]
      BY <1>2, <1>3 DEF TypeOK, PageGoes, PageComes, process
    <3> QED
      BY <1>2, <1>3, <3>1, <3>2 DEF TypeOK, PageGoes, PageComes, process
  <2>2. \A r \in Requests : Reply(r)'
    <3>1. /\ pc' = pc /\ question' = question /\ plan' = plan
          /\ results' = results /\ sent' = sent
      BY <1>3 DEF PageGoes, PageComes, process
    <3> QED
      BY <1>2, <3>1, ReplyKept
  <2>3. AnsweredInFull'
    BY <1>2, <1>3, AnswersKept DEF PageGoes, PageComes
  <2> QED
    BY <2>1, <2>2, <2>3 DEF ReplyInv
<1>4. CASE Crash
  <2>1. <<>> \in Seq(Items) /\ <<>> \in Seq(Message)
    OBVIOUS
  <2>2. TypeOK'
    BY <1>2, <1>4, <2>1, QueriesAssumption DEF TypeOK, Crash, notion
  <2>3. \A r \in Requests : Reply(r)'
    BY <1>4 DEF Crash, Reply, NoResults
  <2>4. AnsweredInFull'
    BY <1>2, <1>4, AnswersKept DEF Crash
  <2> QED
    BY <2>2, <2>3, <2>4 DEF ReplyInv
<1>5. CASE UNCHANGED vars
  <2>1. TypeOK'
    BY <1>2, <1>5 DEF TypeOK, vars, notion, process
  <2>2. \A r \in Requests : Reply(r)'
    BY <1>2, <1>5, ReplyKept DEF vars, process
  <2>3. AnsweredInFull'
    BY <1>2, <1>5, AnswersKept DEF vars
  <2> QED
    BY <2>1, <2>2, <2>3 DEF ReplyInv
<1> QED
  BY <1>1, <1>3, <1>4, <1>5 DEF Next

LEMMA InitReply == ASSUME Init PROVE ReplyInv
<1>1. <<>> \in Seq(Items) /\ <<>> \in Seq(Message)
  OBVIOUS
<1>2. TypeOK
  BY <1>1, QueriesAssumption DEF Init, TypeOK
<1>3. \A r \in Requests : Reply(r)
  BY DEF Init, Reply, NoResults
<1>4. AnsweredInFull
  BY DEF Init, AnsweredInFull
<1> QED
  BY <1>2, <1>3, <1>4 DEF ReplyInv

LEMMA ReplyAlways == Spec => []ReplyInv
<1>1. Init => ReplyInv
  BY InitReply
<1>2. ReplyInv /\ [Next]_vars => ReplyInv'
  BY NextReply
<1> QED
  BY <1>1, <1>2, PTL DEF Spec

\* Every variable keeps its type; above all each message that is sent is one of those of
\* the answer, and the items are counted from one.
THEOREM Typing == Spec => []TypeOK
<1>1. ReplyInv => TypeOK
  BY DEF ReplyInv
<1> QED
  BY <1>1, ReplyAlways, PTL

\* A question told 200 has had a whole answer, all of it from that delivery: a notice, or
\* a heading and after it each of the items it announces, in their order.
THEOREM WholeAnswers == Spec => []AnsweredInFull
<1>1. ReplyInv => AnsweredInFull
  BY DEF ReplyInv
<1> QED
  BY <1>1, ReplyAlways, PTL

-----------------------------------------------------------------------------
\* Every step of a request keeps what it has of the database.
LEMMA StepSearch ==
    ASSUME TypeOK, \A o \in Requests : Reply(o), SearchInv, NEW r \in Requests,
           Step(r) \/ \E q \in Questions : Deliver(r, q)
    PROVE  SearchInv'
<1> USE DEF notion, GoTo
<1>1. ASSUME NEW o \in Requests \ {r} PROVE Search(o)'
  <2>1. Search(o)
    BY DEF SearchInv
  <2>2. /\ item' = item /\ active' = active
        /\ pc'[o] = pc[o] /\ plan'[o] = plan[o] /\ fetched'[o] = fetched[o]
        /\ results'[o] = results[o] /\ steady'[o] = steady[o]
    BY OthersKept
  <2>3. pc[o] = "search" => steady'[o] \subseteq active'
    BY <2>1, <2>2 DEF Search
  <2> QED
    BY <2>1, <2>2, <2>3, SearchKept
<1>2. SUFFICES Search(r)'
  BY <1>1 DEF SearchInv
<1>3. Search(r) /\ Reply(r)
  BY DEF SearchInv
<1>4. item' = item /\ active' = active
  BY OthersKept
<1>5. CASE /\ results'[r] = <<>>
           /\ pc'[r] \notin {"nothing", "heading"}
           /\ pc'[r] = "search" => steady'[r] \subseteq active
  BY <1>4, <1>5 DEF Search
<1>6. CASE FetchLast(r)
  <2> PICK S \in LastPages(r) :
        Found(r, fetched[r] \cup S,
              Upto(Rank(fetched[r] \cup S, plan[r]), plan[r].limit))
    BY <1>6 DEF FetchLast
  <2> DEFINE all == fetched[r] \cup S
             s == Upto(Rank(all, plan[r]), plan[r].limit)
  <2>1. all \in SUBSET Items
    BY DEF LastPages, Remaining, TypeOK
  <2>2. plan[r] \in Plan /\ steady[r] \subseteq active
    BY <1>3, <1>6 DEF Search, Reply, FetchLast
  <2>3. /\ Best(plan[r], s, all)
        /\ Complete(plan[r], s, all)
    BY <2>1, <2>2, RankCut DEF TypeOK
  <2>4. Found(r, all, s)
    OBVIOUS
  <2>5. \A i \in steady[r] : Filtered(i, plan[r]) => i \in all
    BY <2>2 DEF LastPages, Remaining
  <2> HIDE DEF all, s
  <2>6. Complete(plan[r], s, steady[r])
    BY <2>3, <2>5 DEF Complete
  <2>7. /\ pc'[r] \in {"nothing", "heading"}
        /\ pc'[r] \in NoResults => s = <<>>
        /\ fetched'[r] = all /\ results'[r] = s /\ plan'[r] = plan[r]
        /\ steady'[r] = steady[r]
    BY <2>4 DEF Found, TypeOK, NoResults
  <2>8. Best(plan[r], results[r], fetched[r])'
    BY <1>4, <2>3, <2>7, BestKept
  <2>9. Complete(plan[r], results[r], steady[r])'
    BY <1>4, <2>6, <2>7, CompleteKept
  <2> QED
    BY <2>7, <2>8, <2>9 DEF Search
<1>7. CASE SendOk(r)
  <2>1. /\ plan'[r] = plan[r] /\ fetched'[r] = fetched[r] /\ results'[r] = results[r]
        /\ pc'[r] \in {"items", "respond"}
    BY <1>7 DEF SendOk, TypeOK
  <2>2. Best(plan[r], results[r], fetched[r]) => Best(plan[r], results[r], fetched[r])'
    BY <1>4, <2>1, BestKept
  <2> QED
    BY <1>3, <2>1, <2>2 DEF Search, NoResults
<1>8. CASE \E q \in Questions : Deliver(r, q)
  BY <1>3, <1>5, <1>8 DEF Deliver, BeginSearch, TypeOK, Reply, NoResults
<1>9. CASE InterpretOk(r)
  BY <1>3, <1>5, <1>9 DEF InterpretOk, BeginSearch, TypeOK, Reply, NoResults
<1>10. CASE InterpretFails(r)
  BY <1>3, <1>5, <1>10 DEF InterpretFails, TypeOK, Reply, NoResults
<1>11. CASE FetchMore(r)
  BY <1>3, <1>5, <1>11 DEF FetchMore, TypeOK, Reply, Search, NoResults
<1>12. CASE SearchFails(r)
  BY <1>3, <1>5, <1>12 DEF SearchFails, TypeOK, Reply, NoResults
<1>13. CASE SendFails(r) \/ Respond(r) \/ ResponseLost(r)
  <2>1. Leave(r)
    BY <1>13 DEF SendFails, Respond, ResponseLost
  <2> QED
    BY <1>5, <2>1 DEF Leave, TypeOK
<1> QED
  BY <1>6, <1>7, <1>8, <1>9, <1>10, <1>11, <1>12, <1>13 DEF Step

\* A page that goes is no longer there all the time; one that comes was not.
LEMMA NextSearch ==
    ASSUME ReplyInv, SearchInv, [Next]_vars
    PROVE  SearchInv'
<1>1. TypeOK /\ \A o \in Requests : Reply(o)
  BY DEF ReplyInv
<1>2. ASSUME NEW r \in Requests, Step(r) \/ \E q \in Questions : Deliver(r, q)
      PROVE  SearchInv'
  BY <1>1, <1>2, StepSearch
<1>3. ASSUME NEW i \in Items, PageGoes(i) \/ PageComes(i) PROVE SearchInv'
  <2> SUFFICES ASSUME NEW r \in Requests PROVE Search(r)'
    BY DEF SearchInv
  <2>1. Search(r)
    BY DEF SearchInv
  <2>2. /\ item' = item /\ pc' = pc /\ plan' = plan /\ fetched' = fetched
        /\ results' = results
        /\ \/ active' = active \ {i} /\ steady'[r] = steady[r] \ {i}
           \/ active' = active \cup {i} /\ steady' = steady
    BY <1>3 DEF PageGoes, PageComes, process
  <2>3. steady'[r] \subseteq steady[r]
    BY <2>2
  <2>4. pc[r] = "search" => steady'[r] \subseteq active'
    BY <2>1, <2>2 DEF Search
  <2> QED
    BY <2>1, <2>2, <2>3, <2>4, SearchKept
<1>4. CASE Crash
  BY <1>4 DEF Crash, SearchInv, Search
<1>5. CASE UNCHANGED vars
  <2> SUFFICES ASSUME NEW r \in Requests PROVE Search(r)'
    BY DEF SearchInv
  <2>1. Search(r)
    BY DEF SearchInv
  <2>2. /\ item' = item /\ active' = active /\ pc' = pc /\ plan' = plan
        /\ fetched' = fetched /\ results' = results /\ steady' = steady
    BY <1>5 DEF vars, notion, process
  <2>3. pc[r] = "search" => steady'[r] \subseteq active'
    BY <2>1, <2>2 DEF Search
  <2> QED
    BY <2>1, <2>2, <2>3, SearchKept
<1> QED
  BY <1>2, <1>3, <1>4, <1>5 DEF Next

LEMMA SearchAlways == Spec => []SearchInv
<1>1. Init => SearchInv
  BY DEF Init, SearchInv, Search
<1>2. ReplyInv /\ SearchInv /\ [Next]_vars => SearchInv'
  BY NextSearch
<1> QED
  BY <1>1, <1>2, ReplyAlways, PTL DEF Spec

\* The answer is the best of what the search found, in one order without ties: every item
\* of it goes before the next, and before every match that the limit leaves out.
THEOREM BestAnswers == Spec => []BestFirst
<1>1. SearchInv => BestFirst
  BY DEF SearchInv, Search, BestFirst, Best
<1> QED
  BY <1>1, SearchAlways, PTL

\* However many pages of results there are and whatever happens to other items meanwhile,
\* a match that was there all through the search is found.
THEOREM CompleteAnswers == Spec => []NothingMissed
<1>1. SearchInv => NothingMissed
  BY DEF SearchInv, Search, NothingMissed, Complete
<1> QED
  BY <1>1, SearchAlways, PTL
=============================================================================
