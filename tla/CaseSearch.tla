----------------------------- MODULE CaseSearch -----------------------------
(***************************************************************************)
(* The case list: useCaseSearch on the page, searchCases on the server.    *)
(*                                                                         *)
(* The server orders the matching cases by identifier and answers one page *)
(* from an offset; the page appends what it gets to what it has.  Cases    *)
(* are opened meanwhile, anywhere in the order: identifiers are random.    *)
(* A list is the sequence of its pages, each shown in the server's order.  *)
(***************************************************************************)
EXTENDS Integers, Sequences, FiniteSets, SequencesExt

CONSTANTS
  Ids,        \* case identifiers, in their order: numbers
  Matching,   \* identifiers of cases the non-empty query matches
  PageSize,   \* MAX_CASE_LIST_ITEMS
  Opened,     \* the cases there are at first, oldest first
  MaxActs     \* bound on what the operator does

\* What the constants are taken to be.
SearchBounds == PageSize \in Nat \ {0} /\ Ids \subseteq Nat /\ Opened \in Seq(Ids)

VARIABLES
  cases,        \* server: the cases, oldest first
  acts,         \* what the operator has done so far
  query,        \* page: "empty" or "some"
  cursor,       \* page: the offset asked for, 0 for none
  phase,        \* page: loading, error, or ready with cases and nextCursor
  loadingMore,  \* page
  requests,     \* searches under way, oldest first
  first,        \* the matching cases when the list on the screen was begun
  missed        \* a page of this list failed to load

searchVars == <<cases, acts, query, cursor, phase, loadingMore, requests, first, missed>>

-----------------------------------------------------------------------------
(* searchCases.                                                            *)

Matched(q) == {c \in Range(cases) : q = "empty" \/ c \in Matching}

\* The place of a case in the order, from 0 on, and the slice from an offset.
Place(c, S) == Cardinality({d \in S : d < c})
Slice(S, start) == {c \in S : start <= Place(c, S) /\ Place(c, S) < start + PageSize}

\* nextCursor, 0 when the end is reached; a page before the last is full.
NextCursor(start, total) == IF start + PageSize >= total THEN 0 ELSE start + PageSize

Search(q, start) ==
  [at |-> "ready", list |-> Slice(Matched(q), start), next |-> NextCursor(start, Cardinality(Matched(q)))]

NewCase(c) ==
  /\ c \notin Range(cases) /\ cases' = Append(cases, c)
  /\ UNCHANGED <<acts, query, cursor, phase, loadingMore, requests, first, missed>>

-----------------------------------------------------------------------------
(* useCaseSearch.                                                          *)

NoAnswer == [at |-> "none", list |-> {}, next |-> 0]
Blank == [status |-> "loading", list |-> <<>>, next |-> 0]
Request(q, at) == [query |-> q, cursor |-> at, settled |-> FALSE, answer |-> NoAnswer, had |-> {}]

\* The effect, which React runs within the event that caused it: earlier
\* requests are ignored from here on, a fresh list shows the loading state.
RunEffect(q, at) ==
  /\ query' = q /\ cursor' = at
  /\ loadingMore' = (at # 0)
  /\ phase' = IF at = 0 THEN Blank ELSE phase
  /\ missed' = (missed /\ at # 0)
  /\ requests' = Append([i \in DOMAIN requests |-> [requests[i] EXCEPT !.settled = TRUE]], Request(q, at))

Act == acts < MaxActs /\ acts' = acts + 1 /\ UNCHANGED <<cases, first>>

\* search.
StartOver(q) == RunEffect(q, 0)

\* States that do not change run no effect.
HandleSubmit(q) == Act /\ (q # query \/ cursor # 0) /\ StartOver(q)

LoadMore == Act /\ phase.status = "ready" /\ phase.next # 0 /\ ~loadingMore /\ RunEffect(query, phase.next)

Retry == Act /\ phase.status = "error" /\ RunEffect(query, cursor)

Answer(i) ==
  LET request == requests[i] IN
  /\ request.answer.at = "none"
  /\ \/ requests' = [requests EXCEPT ![i].answer = Search(request.query, request.cursor),
                                     ![i].had = Matched(request.query)]
     \/ requests' = [requests EXCEPT ![i].answer.at = "error"]
  /\ UNCHANGED <<cases, acts, query, cursor, phase, loadingMore, first, missed>>

\* setLoadingMore when a request is over.
MoreAfter(failed) == FALSE

Deliver(i) ==
  LET request == requests[i]
      previous == IF request.cursor = 0 \/ phase.status # "ready" THEN <<>> ELSE phase.list
  IN  /\ request.answer.at # "none" /\ requests' = RemoveAt(requests, i)
      /\ \/ request.settled /\ UNCHANGED <<phase, loadingMore, first, missed>>
         \/ /\ ~request.settled /\ request.answer.at = "ready"
            /\ phase' = [status |-> "ready", list |-> Append(previous, request.answer.list), next |-> request.answer.next]
            /\ first' = IF request.cursor = 0 THEN request.had ELSE first
            /\ loadingMore' = MoreAfter(FALSE) /\ UNCHANGED missed
         \/ /\ ~request.settled /\ request.answer.at = "error"
            /\ phase' = [status |-> "error", list |-> <<>>, next |-> 0]
            /\ missed' = (missed \/ request.cursor # 0)
            /\ loadingMore' = MoreAfter(TRUE) /\ UNCHANGED first
      /\ UNCHANGED <<cases, acts, query, cursor>>

-----------------------------------------------------------------------------
SearchInit ==
  /\ cases = Opened /\ acts = 0 /\ query = "empty" /\ cursor = 0
  /\ phase = Blank /\ loadingMore = FALSE /\ requests = <<Request("empty", 0)>> /\ first = {} /\ missed = FALSE

AnswerSome == \E i \in DOMAIN requests : Answer(i)
DeliverSome == \E i \in DOMAIN requests : Deliver(i)

SearchNext ==
  \/ (\E q \in {"empty", "some"} : HandleSubmit(q)) \/ LoadMore \/ Retry \/ AnswerSome \/ DeliverSome
  \/ (\E c \in Ids : NewCase(c))

\* Requests end, by an answer or by a failure.
SearchSpec ==
  /\ SearchInit /\ [][SearchNext]_searchVars
  /\ WF_searchVars(AnswerSome) /\ WF_searchVars(DeliverSome)

-----------------------------------------------------------------------------
(* Properties.                                                             *)

Listed == phase.status = "ready" /\ ~loadingMore
Shown == UNION Range(phase.list)

\* A list on the screen is of the query above it: an answer to an earlier
\* query, or to a page of it, never gets in.
ListedMatch == Listed => Shown \subseteq Matched(query)

\* When the end is reached no case that was there when the list was begun has
\* been passed over, whatever was opened while the operator was paging.
CompleteAtEnd == (Listed /\ phase.next = 0 /\ ~missed) => first \subseteq Shown

\* The "Load more" button comes back.
MoreComesBack == loadingMore ~> ~loadingMore

\* "loadMore appends the server's cursor page": a list on the screen begins
\* with the first matching case.
BeginsAtFirst == Listed => \A c \in Matched(query) : Place(c, Matched(query)) = 0 => c \in phase.list[1]

\* "Latest cases first."
LatestFirst ==
  (Listed /\ query = "empty") =>
    \A i \in DOMAIN phase.list, k, l \in DOMAIN cases :
      ({cases[k], cases[l]} \subseteq phase.list[i] /\ cases[k] < cases[l]) => k >= l

\* The case list is of its query and complete at its end.
CaseListIsTrue == ListedMatch /\ CompleteAtEnd
=============================================================================
