----------------------------- MODULE MessagesPage -----------------------------
(***************************************************************************)
(* The dashboard's overview page and the listings it shows.  refresh()      *)
(* sends several requests and shows their answers when all are in; an       *)
(* effect sends it at once and every ten seconds with the filter and offset *)
(* it closed over, and is set up anew when either changes, while the        *)
(* refreshes under way go on.  The operator turns pages, sets filters and   *)
(* acts on failed jobs; the tables behind the page change all the while.    *)
(***************************************************************************)
EXTENDS Integers, Sequences, FiniteSets

CONSTANTS
  Calls,              \* the requests of a refresh that a run follows
  Statuses, Channels, \* of rows; Unset is a select left at "all"
  Queues,             \* of jobs: those of the channels, and of webhooks
  Unset, None,
  PageSize,           \* PAGE_SIZE, the limit of the list request
  ListLimit, RetryLimit,  \* failed jobs the dead-letter list returns, and retryAll() takes
  Filters,            \* those the operator sets
  Slots, Acts,        \* bound the refreshes, and the dead-letter actions, under way
  MaxRows             \* bounds the messages

AllCalls == {"messages", "dlq", "status", "qr"}
Filter == [status : Statuses \cup {Unset}, channel : Channels \cup {Unset}]
Everything == [status |-> Unset, channel |-> Unset]

\* What the constants are.
PageAssumption ==
  /\ Calls \subseteq AllCalls /\ Calls # {}
  /\ {"queued", "failed"} \subseteq Statuses
  /\ Everything \in Filters /\ Filters \subseteq Filter
  /\ Unset \notin Statuses \cup Channels
  /\ Channels \subseteq Queues /\ Queues \subseteq Channels \cup {"webhooks"}
  /\ PageSize \in Nat \ {0} /\ MaxRows \in Nat
  /\ ListLimit \in Nat \ {0} /\ RetryLimit \in Nat \ {0}

VARIABLES
  row,        \* messages table, oldest first
  failed,     \* of each queue: the messages of its failed jobs, latest first
  link,       \* the state of the WhatsApp client
  open,       \* the page is mounted
  filter, offset,
  timers,     \* what the intervals that run were set up for
  call,       \* refreshes under way
  shown,      \* the answers on the screen
  error,      \* an error is on the screen
  act         \* dead-letter actions under way

server == <<row, failed, link>>
page == <<open, filter, offset, timers>>
vars == <<server, page, call, shown, error, act>>

Row == [status : Statuses, channel : Channels, at : 1..MaxRows]
Ids == 1..MaxRows
Params == [filter |-> filter, offset |-> offset]
ParamsType == [filter : Filters, offset : 0..MaxRows]
NoAnswers == [c \in Calls |-> None]
Deed == ({"all"} \X Queues) \cup ({"retry", "discard"} \X Queues \X Ids)
NoActions == [a \in Acts |-> None]

-----------------------------------------------------------------------------
\* MessagesService.list: the rows a filter admits, newest first.

Matches(f, r) ==
  /\ f.status \in {Unset, r.status}
  /\ f.channel \in {Unset, r.channel}
Matching(f) == {i \in DOMAIN row : Matches(f, row[i])}

Least(a, b) == IF a < b THEN a ELSE b
FirstOf(s, n) == SubSeq(s, 1, Least(n, Len(s)))

\* What "the n newest of these" may be: the database breaks ties as it likes.
\* As a bug, the query has no order.
AnyFew(ids, n) == {s \in SUBSET ids : Cardinality(s) = Least(n, Cardinality(ids))}
Newest(ids, n) ==
  {s \in SUBSET ids :
     /\ Cardinality(s) = Least(n, Cardinality(ids))
     /\ \A i \in s, j \in ids \ s : row[i].at >= row[j].at}

\* The rows a list request may return: take after skip.
Pages(p) ==
  LET ids == Matching(p.filter)
  IN {pair[2] \ pair[1] : pair \in
        {x \in Newest(ids, p.offset) \X Newest(ids, p.offset + PageSize) : x[1] \subseteq x[2]}}

\* DlqService.listFailed.
ListFailed == [q \in Queues |-> FirstOf(failed[q], ListLimit)]

\* What a request sent with these parameters may be answered now.
Answers(c, p) ==
  CASE c = "messages" -> [total : {Cardinality(Matching(p.filter))}, items : Pages(p)]
    [] c = "dlq" -> {ListFailed}
    [] c = "status" -> {link}
    [] c = "qr" -> {link = "qr_pending"}

AnswerType(c) ==
  CASE c = "messages" -> [total : 0..MaxRows, items : SUBSET Ids]
    [] c = "dlq" -> [Queues -> UNION {[1..n -> Ids] : n \in 0..Least(ListLimit, MaxRows)}]
    [] c = "status" -> {"connected", "qr_pending"}
    [] c = "qr" -> BOOLEAN

Refresh(p) == [for |-> p, got |-> NoAnswers]

TypeOK ==
  /\ row \in UNION {[1..n -> Row] : n \in 0..MaxRows}
  /\ \A q \in Queues : failed[q] \in Seq(DOMAIN row)
  /\ link \in {"connected", "qr_pending"}
  /\ open \in BOOLEAN /\ error \in BOOLEAN
  /\ filter \in Filters
  /\ offset \in 0..MaxRows /\ offset % PageSize = 0 /\ (offset = 0 \/ offset < MaxRows)
  /\ \A i \in DOMAIN timers : timers[i] \in ParamsType
  /\ \A s \in Slots :
       \/ call[s] = None
       \/ call[s].for \in ParamsType /\ \A c \in Calls : call[s].got[c] \in AnswerType(c) \cup {None}
  /\ \/ shown = None
     \/ shown.for \in ParamsType /\ \A c \in Calls : shown.got[c] \in AnswerType(c)
  /\ \A a \in Acts :
       \/ act[a] = None
       \/ act[a].for \in ParamsType /\ act[a].todo \in Seq(Deed)

Init ==
  /\ row = <<>> /\ failed = [q \in Queues |-> <<>>]
  /\ link = "qr_pending"
  /\ open = FALSE /\ filter = Everything /\ offset = 0 /\ timers = <<>>
  /\ call = [s \in Slots |-> None]
  /\ shown = None /\ error = FALSE /\ act = NoActions

-----------------------------------------------------------------------------
\* What happens elsewhere: requests, workers, other administrators.

\* The rows of a bulk request have one creation time, which only the message
\* list tells apart.
Arrive ==
  /\ Len(row) < MaxRows
  /\ \E c \in Channels, tie \in {FALSE, "messages" \in Calls} :
       row' = Append(row, [status |-> "queued", channel |-> c,
                           at |-> IF row = <<>> THEN 1
                                  ELSE IF tie THEN row[Len(row)].at ELSE row[Len(row)].at + 1])
  /\ UNCHANGED <<failed, link, page, call, shown, error, act>>

\* A failed set holds a job once.
Has(s, i) == \E k \in DOMAIN s : s[k] = i
Without(s, i) ==
  [k \in 1..(Len(s) - 1) |-> IF \E j \in 1..k : s[j] = i THEN s[k + 1] ELSE s[k]]

\* A run ends well, or its job uses up its attempts.
Settle(i, status) ==
  /\ row[i].status = "queued" /\ status # "queued"
  /\ ~Has(failed[row[i].channel], i)
  /\ row' = [row EXCEPT ![i].status = status]
  /\ failed' = IF status = "failed" THEN [failed EXCEPT ![row[i].channel] = <<i>> \o @] ELSE failed
  /\ UNCHANGED <<link, page, call, shown, error, act>>

DeliveryFails(i) ==
  /\ ~Has(failed["webhooks"], i)
  /\ failed' = [failed EXCEPT !["webhooks"] = <<i>> \o @]
  /\ UNCHANGED <<row, link, page, call, shown, error, act>>

LinkChanges ==
  /\ link' \in {"connected", "qr_pending"} \ {link}
  /\ UNCHANGED <<row, failed, page, call, shown, error, act>>

\* DlqService: job.retry() and markRequeued(), job.remove().
Requeue(q, i) ==
  /\ failed' = [failed EXCEPT ![q] = Without(@, i)]
  /\ row' = IF q = "webhooks" THEN row ELSE [row EXCEPT ![i].status = "queued"]
Discard(q, i) == failed' = [failed EXCEPT ![q] = Without(@, i)] /\ row' = row

Elsewhere(q, i) ==
  /\ Has(failed[q], i)
  /\ Requeue(q, i) \/ Discard(q, i)
  /\ UNCHANGED <<link, page, call, shown, error, act>>

-----------------------------------------------------------------------------
\* The effect: refresh() at once and from an interval; its clean-up clears the
\* interval of the parameters before.  As a bug, there is no clean-up.

Free == {s \in Slots : call[s] = None}
Send(p) == \E s \in Free : call' = [call EXCEPT ![s] = Refresh(p)]

SetUpAgain(p) == Send(p) /\ timers' = Append(SelectSeq(timers, LAMBDA q : q # p), p)
SetUp(p) == Send(p) /\ timers' = <<p>>

Visit ==
  /\ ~open
  /\ open' = TRUE /\ filter' = Everything /\ offset' = 0
  /\ SetUp([filter |-> Everything, offset |-> 0])
  /\ UNCHANGED <<server, shown, error, act>>

\* Unmounting forgets the state; what is still under way sets nothing.  (What
\* the server goes on doing of an action is a step of Elsewhere from then on.)
Unmount ==
  /\ open' = FALSE /\ filter' = Everything /\ offset' = 0 /\ timers' = <<>>
  /\ call' = [s \in Slots |-> None]
  /\ shown' = None /\ error' = FALSE /\ act' = NoActions

Leave == open /\ Unmount /\ UNCHANGED server

\* The interval; of the bounded slots it leaves one to the operator.
Tick ==
  /\ Cardinality(Free) > 1
  /\ \E i \in DOMAIN timers : Send(timers[i])
  /\ UNCHANGED <<server, page, shown, error, act>>

\* The answer to one request of a refresh; the last one puts all on the screen.
Answer(s) ==
  /\ call[s] # None
  /\ \E c \in Calls :
       /\ call[s].got[c] = None
       /\ \E a \in Answers(c, call[s].for) :
            LET now == [call[s] EXCEPT !.got[c] = a]
            IN IF \E other \in Calls : now.got[other] = None
               THEN call' = [call EXCEPT ![s] = now] /\ UNCHANGED <<shown, error>>
               ELSE /\ call' = [call EXCEPT ![s] = None]
                    /\ shown' = now /\ error' = FALSE
  /\ UNCHANGED <<server, page, act>>

\* One request fails, and Promise.all with it: nothing new is shown but the
\* error, or a 401 sends the browser to the login page.
Fail(s) ==
  /\ call[s] # None
  /\ \/ /\ call' = [call EXCEPT ![s] = None]
        /\ error' = TRUE
        /\ UNCHANGED <<page, shown, act>>
     \/ Unmount
  /\ UNCHANGED server

-----------------------------------------------------------------------------
\* The controls.

Turn(f, o) ==
  /\ open
  /\ filter' = f /\ offset' = o
  /\ <<f, o>> # <<filter, offset>>
  /\ SetUp([filter |-> f, offset |-> o])
  /\ UNCHANGED <<server, open, shown, error, act>>

\* Setting a filter starts again at the first page; choosing the option that is
\* set already is no change.
SetFilter(f) ==
  /\ f # filter
  /\ f.status = filter.status \/ f.channel = filter.channel
  /\ Turn(f, 0)

\* The pager goes by the total on the screen, whatever filter it is of.
Total == shown.got["messages"].total
PagerShown == "messages" \in Calls /\ shown # None /\ Total > PageSize
Previous == PagerShown /\ offset # 0 /\ Turn(filter, offset - PageSize)

\* As a bug, Next is enabled on the last page.
NextPageBeyond == PagerShown /\ offset + PageSize <= Total /\ Turn(filter, offset + PageSize)
NextPage == PagerShown /\ offset + PageSize < Total /\ Turn(filter, offset + PageSize)

\* dlqAction on a job of the list on the screen, or on all of a queue.  The buttons
\* stay enabled: one may be pressed, or pressed again, while others are under way.
\* "todo" is what the server has left of it; it reads the jobs when the request arrives.
Listed(q) == IF shown # None /\ "dlq" \in Calls THEN shown.got["dlq"][q] ELSE <<>>
Begin(first) ==
  /\ \E a \in Acts :
       /\ act[a] = None
       /\ act' = [act EXCEPT ![a] = [for |-> Params, todo |-> <<first>>]]
  /\ UNCHANGED <<server, page, call, shown, error>>

Press(q) ==
  \E k \in DOMAIN Listed(q), op \in {"retry", "discard"} : Begin(<<op, q, Listed(q)[k]>>)
PressAll(q) == Listed(q) # <<>> /\ Begin(<<"all", q>>)

\* retryAll: queue.getFailed(0, 999); as a bug, (1, 999).
TakenFromSecond(q) == SubSeq(failed[q], 2, Least(RetryLimit, Len(failed[q])))
TakenBy(q) == FirstOf(failed[q], RetryLimit)
GetFailed(a) ==
  /\ act[a] # None /\ act[a].todo # <<>> /\ Head(act[a].todo)[1] = "all"
  /\ LET q == Head(act[a].todo)[2]
         jobs == TakenBy(q)
     IN act' = [act EXCEPT ![a].todo = [k \in DOMAIN jobs |-> <<"retry", q, jobs[k]>>]]
  /\ UNCHANGED <<server, page, call, shown, error>>

\* A job that is not in the failed set any more ends the request with an error.
DoOne(a) ==
  /\ act[a] # None /\ act[a].todo # <<>> /\ Head(act[a].todo)[1] # "all"
  /\ LET op == Head(act[a].todo)[1]
         q == Head(act[a].todo)[2]
         i == Head(act[a].todo)[3]
     IN IF ~Has(failed[q], i)
        THEN act' = [act EXCEPT ![a] = None] /\ error' = TRUE /\ UNCHANGED <<row, failed>>
        ELSE /\ IF op = "retry" THEN Requeue(q, i) ELSE Discard(q, i)
             /\ act' = [act EXCEPT ![a].todo = Tail(@)]
             /\ UNCHANGED error
  /\ UNCHANGED <<link, page, call, shown>>

\* The answer: refresh() again, with what the action's render closed over.
Acted(a) ==
  /\ act[a] # None /\ act[a].todo = <<>>
  /\ Send(act[a].for)
  /\ act' = [act EXCEPT ![a] = None]
  /\ UNCHANGED <<server, page, shown, error>>

ActFails(a) ==
  /\ act[a] # None
  /\ act' = [act EXCEPT ![a] = None] /\ error' = TRUE
  /\ UNCHANGED <<server, page, call, shown>>

-----------------------------------------------------------------------------
\* The tables no request of the run reads stand still.
Tables ==
  \/ Arrive
  \/ Calls \cap {"status", "qr"} # {} /\ LinkChanges
  \/ \E i \in DOMAIN row :
       \/ \E status \in Statuses : Settle(i, status)
       \/ "dlq" \in Calls /\ "webhooks" \in Queues /\ DeliveryFails(i)
       \/ \E q \in Queues : Elsewhere(q, i)
Controls ==
  \/ Visit \/ Leave \/ Previous \/ NextPage
  \/ \E f \in Filters : SetFilter(f)
Acting == \E a \in Acts : GetFailed(a) \/ DoOne(a) \/ Acted(a)
Faults == (\E a \in Acts : ActFails(a)) \/ \E s \in Slots : Fail(s)
Pressing == \E q \in Queues : Press(q) \/ PressAll(q)
OnItsOwn == Tick \/ Acting \/ \E s \in Slots : Answer(s)

Next == Tables \/ Controls \/ Pressing \/ Faults \/ OnItsOwn

\* The browser's timer goes on, and every request is answered in the end, by an
\* error or otherwise: weak fairness of Tick and of Answer, which stay enabled
\* until they are taken, said by what they put an end to.
Fairness ==
  /\ []<>(timers = <<>> \/ \E s \in Slots : call[s] # None)
  /\ \A a \in Acts : []<>(act[a] = None)
  /\ \A s \in Slots : []<>(call[s] = None)

Spec == Init /\ [][Next]_vars

-----------------------------------------------------------------------------
\* One interval runs while the page is mounted, and for the parameters now set:
\* nothing goes on asking for a filter or page the operator has left, however
\* often they change and whatever is still under way (page.tsx:114).
OneTimer == timers = IF open THEN <<Params>> ELSE <<>>

\* Whatever pages the list serves of a table that does not change, together they
\* show every message the filter admits, if no two of them were created at the
\* same moment (messages.service.ts:213).
FullHistory ==
  \A f \in Filters :
    LET ids == Matching(f)
        offsets == {o \in 0..MaxRows : o % PageSize = 0 /\ o < Cardinality(ids)}
    IN (\A i, j \in ids : row[i].at = row[j].at => i = j) =>
         \A served \in [offsets -> SUBSET ids] :
           (\A o \in offsets : served[o] \in Pages([filter |-> f, offset |-> o]))
             => UNION {served[o] : o \in offsets} = ids

\* What the page comes to show when tables and operator come to rest and requests
\* go through: what is so, for the filter and page set, however many refreshes
\* were under way and in whatever order they were answered (page.tsx:94).
Current ==
  open =>
    /\ ~error /\ shown # None
    /\ shown.for = Params
    /\ \A c \in Calls : shown.got[c] \in Answers(c, Params)
=============================================================================
