--------------------------- MODULE DashboardProofs ----------------------------
(***************************************************************************)
(* The pages of the dashboard, for any size of a page of the list, any     *)
(* number of messages, refreshes, requests, keys and tabs.                 *)
(***************************************************************************)
EXTENDS MCDashboard, Integers, Sequences, FiniteSets, FiniteSetTheorems, SequenceTheorems, TLAPS

\* A step of the run is one of the part it follows, and leaves the others be.
LEMMA ListSteps ==
  ASSUME part = "list", [Next]_vars
  PROVE  part' = part /\ (List!Next \/ UNCHANGED overview)
  BY DEF Next, vars, InBadge, InList, InPanel, InSession, InTables, InKeyForm, InTemplateForm,
         Panel, Table, Templates, overview, session, tables, keys, forms

\* The part a run follows stays the one it was.
LEMMA PartStays == ASSUME [Next]_vars PROVE part' = part
  BY DEF Next, vars, InBadge, InList, InPanel, InSession, InTables, InKeyForm, InTemplateForm

-----------------------------------------------------------------------------
(* The interval: each action that sets a filter or a page sets up the      *)
(* interval for them, and only a page that is left has none.               *)

\* Every step of the list keeps OneTimer.
LEMMA ListKeepsOneTimer ==
  ASSUME List!OneTimer, List!Next
  PROVE  List!OneTimer'
  <1> USE DEF List!OneTimer, List!Params
  <1>1. CASE UNCHANGED <<open, filter, offset, timers>>
    BY <1>1
  <1>2. CASE List!Unmount
    BY <1>2 DEF List!Unmount
  <1>3. CASE List!Visit
    BY <1>3 DEF List!Visit, List!SetUp
  <1>4. ASSUME NEW f, NEW o, List!Turn(f, o)
        PROVE  List!OneTimer'
    BY <1>4 DEF List!Turn, List!SetUp
  <1>5. List!Tables \/ List!Pressing \/ List!OnItsOwn
          => UNCHANGED <<open, filter, offset, timers>>
    BY DEF List!Tables, List!Pressing, List!OnItsOwn, List!Arrive, List!LinkChanges, List!Settle,
           List!DeliveryFails, List!Elsewhere, List!Press, List!PressAll, List!Begin, List!Tick,
           List!Answer, List!Acting, List!GetFailed, List!DoOne, List!Acted, List!page
  <1>6. List!Faults => UNCHANGED <<open, filter, offset, timers>> \/ List!Unmount
    BY DEF List!Faults, List!ActFails, List!Fail, List!page
  <1>7. List!Controls => List!OneTimer'
    BY <1>2, <1>3, <1>4 DEF List!Controls, List!Leave, List!Previous, List!NextPage, List!SetFilter
  <1> QED
    BY <1>1, <1>2, <1>5, <1>6, <1>7 DEF List!Next

\* One interval runs while the overview is mounted, and for what is set now.
THEOREM OnlyOneTimer == Spec => []OneTimer
  <1>1. Init => OneTimer
    BY DEF Init, OneTimer, List!Init, List!OneTimer
  <1>2. OneTimer /\ [Next]_vars => OneTimer'
    <2> SUFFICES ASSUME OneTimer, [Next]_vars, part = "list"
                 PROVE  List!OneTimer'
      BY PartStays DEF OneTimer
    <2>1. CASE UNCHANGED overview
      BY <2>1 DEF OneTimer, overview, List!OneTimer, List!Params
    <2> QED
      BY <2>1, ListSteps, ListKeepsOneTimer DEF OneTimer
  <1> QED
    BY <1>1, <1>2, PTL DEF Spec

-----------------------------------------------------------------------------
(* The overview, for any of its requests, filters and number of messages.   *)
(* What is on the screen or under way was read from the tables when they    *)
(* held fewer messages, and an id that was one then is one still.           *)

Page(cs, fs, n, qs) == INSTANCE MessagesPage
  WITH Calls <- cs, Filters <- fs, MaxRows <- n, Statuses <- {"queued", "failed"},
       Channels <- {"email"}, Queues <- qs, ListLimit <- 1, RetryLimit <- 1

Setting(cs, fs, n, qs) ==
  /\ cs \subseteq {"messages", "dlq", "status", "qr"} /\ AllOf \in fs /\ n \in Nat
  /\ "email" \in qs

Message == [status : {"queued", "failed"}, channel : {"email"}, at : Nat]
OverviewTables(n, qs) ==
  /\ row \in Seq(Message) /\ Len(row) <= n
  /\ \A i \in 1..Len(row) : row[i].at \in 1..i
  /\ failed \in [qs -> Seq(1..Len(row))]
  /\ link \in {"connected", "qr_pending"}

\* A function over 1..m is a sequence of length m.
LEMMA FunctionIsSeq ==
  ASSUME NEW S, NEW m \in Nat, NEW f \in [1..m -> S]
  PROVE  f \in Seq(S) /\ Len(f) = m
  OBVIOUS

\* The request of a row, and that of a job, keep the row's time.
LEMMA StatusKeepsTime ==
  ASSUME NEW n, NEW qs, OverviewTables(n, qs), NEW i, NEW status \in {"queued", "failed"},
         row' = [row EXCEPT ![i].status = status]
  PROVE  /\ row' \in Seq(Message) /\ Len(row') = Len(row)
         /\ \A j \in 1..Len(row') : row'[j].at \in 1..j
  <1>1. DOMAIN row' = 1..Len(row) /\ Len(row) \in Nat
    BY DEF OverviewTables
  <1>2. ASSUME NEW j \in 1..Len(row)
        PROVE  row'[j] \in Message /\ row'[j].at \in 1..j
    <2>1. row[j] \in Message /\ row[j].at \in 1..j
      BY DEF OverviewTables
    <2>2. row'[j] = IF j = i THEN [row[j] EXCEPT !.status = status] ELSE row[j]
      BY DEF OverviewTables
    <2> QED
      BY <2>1, <2>2 DEF Message
  <1>3. row' = [j \in 1..Len(row) |-> row'[j]]
    BY <1>1
  <1>4. row' \in [1..Len(row) -> Message]
    BY <1>2, <1>3
  <1>5. row' \in Seq(Message) /\ Len(row') = Len(row)
    <2>1. PICK m \in Nat : m = Len(row)
      BY <1>1
    <2>2. row' \in [1..m -> Message]
      BY <1>4, <2>1
    <2>3. row' \in Seq(Message) /\ Len(row') = m
      BY <2>2, FunctionIsSeq
    <2> QED
      BY <2>1, <2>3
  <1> QED
    BY <1>2, <1>5

\* A failed set without one of its jobs.
LEMMA WithoutOne ==
  ASSUME NEW cs, NEW fs, NEW n, NEW qs, NEW S, NEW s \in Seq(S), NEW i, Page(cs, fs, n, qs)!Has(s, i)
  PROVE  Page(cs, fs, n, qs)!Without(s, i) \in Seq(S)
  <1> DEFINE w == Page(cs, fs, n, qs)!Without(s, i)
             m == Len(s) - 1
  <1>1. m \in Nat
    BY DEF Page!Has
  <1>2. \A k \in 1..m : s[k] \in S /\ s[k + 1] \in S
    <2> SUFFICES ASSUME NEW k \in 1..m PROVE s[k] \in S /\ s[k + 1] \in S
      OBVIOUS
    <2>1. k \in 1..Len(s) /\ k + 1 \in 1..Len(s)
      BY <1>1
    <2> QED
      BY <2>1, ElementOfSeq
  <1>3. w \in [1..m -> S]
    BY <1>2 DEF Page!Without
  <1> HIDE DEF w, m
  <1>4. w \in Seq(S)
    BY <1>1, <1>3
  <1> QED
    BY <1>4 DEF w

\* A job is taken out of a failed set, and its message queued again or not.
LEMMA TakenOut ==
  ASSUME NEW cs, NEW fs, NEW n, NEW qs, OverviewTables(n, qs), NEW q \in qs, NEW i,
         Page(cs, fs, n, qs)!Has(failed[q], i),
         Page(cs, fs, n, qs)!Requeue(q, i) \/ Page(cs, fs, n, qs)!Discard(q, i), link' = link
  PROVE  OverviewTables(n, qs)' /\ Len(row') = Len(row)
  <1>1. failed' = [failed EXCEPT ![q] = Page(cs, fs, n, qs)!Without(@, i)]
    BY DEF Page!Requeue, Page!Discard
  <1>2. failed[q] \in Seq(1..Len(row))
    BY DEF OverviewTables
  <1>3. Page(cs, fs, n, qs)!Without(failed[q], i) \in Seq(1..Len(row))
    BY <1>2, WithoutOne
  <1>4. failed' \in [qs -> Seq(1..Len(row))]
    BY <1>1, <1>3 DEF OverviewTables
  <1>5. /\ row' \in Seq(Message) /\ Len(row') = Len(row)
        /\ \A j \in 1..Len(row') : row'[j].at \in 1..j
    <2>1. CASE row' = row
      BY <2>1 DEF OverviewTables
    <2>2. CASE row' = [row EXCEPT ![i].status = "queued"]
      BY <2>2, StatusKeepsTime
    <2> QED
      BY <2>1, <2>2 DEF Page!Requeue, Page!Discard
  <1> QED
    BY <1>4, <1>5 DEF OverviewTables

\* A job comes into a failed set.
LEMMA PutIn ==
  ASSUME NEW n, NEW qs, OverviewTables(n, qs), NEW q \in qs, NEW i \in 1..Len(row),
         failed' = [failed EXCEPT ![q] = <<i>> \o @]
  PROVE  failed' \in [qs -> Seq(1..Len(row))]
  <1>1. failed[q] \in Seq(1..Len(row)) /\ <<i>> \in Seq(1..Len(row))
    BY DEF OverviewTables
  <1>2. <<i>> \o failed[q] \in Seq(1..Len(row))
    BY <1>1, ConcatProperties
  <1> QED
    BY <1>2 DEF OverviewTables

\* What happens elsewhere keeps the tables, and no message is taken away.
LEMMA TablesKeep ==
  ASSUME NEW cs, NEW fs, NEW n, NEW qs, Setting(cs, fs, n, qs), OverviewTables(n, qs), Page(cs, fs, n, qs)!Tables
  PROVE  OverviewTables(n, qs)' /\ Len(row) <= Len(row')
  <1>0. DOMAIN row = 1..Len(row) /\ Len(row) \in Nat /\ n \in Nat
    BY DEF OverviewTables, Setting
  <1>1. CASE Page(cs, fs, n, qs)!Arrive
    <2>1. PICK c \in {"email"}, tie \in {FALSE, "messages" \in cs} :
            row' = Append(row, [status |-> "queued", channel |-> c,
                                at |-> IF row = <<>> THEN 1
                                       ELSE IF tie THEN row[Len(row)].at ELSE row[Len(row)].at + 1])
      BY <1>1 DEF Page!Arrive
    <2> DEFINE r == [status |-> "queued", channel |-> c,
                     at |-> IF row = <<>> THEN 1
                            ELSE IF tie THEN row[Len(row)].at ELSE row[Len(row)].at + 1]
    <2>2. row # <<>> => Len(row) \in 1..Len(row) /\ row[Len(row)].at \in 1..Len(row)
      BY <1>0 DEF OverviewTables
    <2>3. r.at \in 1..(Len(row) + 1)
      BY <1>0, <2>2
    <2>4. r \in Message
      BY <2>3 DEF Message
    <2> HIDE DEF r
    <2>5. row' = Append(row, r) /\ row \in Seq(Message)
      BY <2>1 DEF r, OverviewTables
    <2>6. /\ row' \in Seq(Message) /\ Len(row') = Len(row) + 1
          /\ \A j \in 1..Len(row) : row'[j] = row[j]
          /\ row'[Len(row) + 1] = r
      BY <2>4, <2>5, AppendProperties
    <2>7. Len(row') <= n
      BY <1>0, <1>1, <2>6 DEF Page!Arrive
    <2>8. ASSUME NEW j \in 1..Len(row')
          PROVE  row'[j].at \in 1..j
      <3>1. CASE j \in 1..Len(row)
        BY <2>6, <3>1 DEF OverviewTables
      <3>2. CASE j = Len(row) + 1
        BY <2>3, <2>6, <3>2
      <3> QED
        BY <1>0, <2>6, <3>1, <3>2
    <2>9. failed' \in [qs -> Seq(1..Len(row'))]
      <3>1. 1..Len(row) \subseteq 1..Len(row')
        BY <1>0, <2>6
      <3>2. ASSUME NEW q \in qs
            PROVE  failed[q] \in Seq(1..Len(row'))
        <4>1. failed[q] \in Seq(1..Len(row))
          BY DEF OverviewTables
        <4> QED
          BY <3>1, <4>1, SeqMonotonic
      <3> QED
        BY <1>1, <3>2 DEF Page!Arrive, OverviewTables
    <2> QED
      BY <1>0, <1>1, <2>6, <2>7, <2>8, <2>9 DEF OverviewTables, Page!Arrive
  <1>2. CASE Page(cs, fs, n, qs)!LinkChanges
    BY <1>0, <1>2 DEF Page!LinkChanges, OverviewTables
  <1>3. ASSUME NEW i \in DOMAIN row, NEW status \in {"queued", "failed"},
               Page(cs, fs, n, qs)!Settle(i, status)
        PROVE  OverviewTables(n, qs)' /\ Len(row) <= Len(row')
    <2>1. /\ row' \in Seq(Message) /\ Len(row') = Len(row)
          /\ \A j \in 1..Len(row') : row'[j].at \in 1..j
      BY <1>3, StatusKeepsTime DEF Page!Settle
    <2>2. row[i].channel \in qs
      <3>1. row[i] \in Message
        BY DEF OverviewTables
      <3> QED
        BY <3>1 DEF Message, Setting
    <2>3. failed' \in [qs -> Seq(1..Len(row))]
      <3>1. CASE failed' = failed
        BY <3>1 DEF OverviewTables
      <3>2. CASE failed' = [failed EXCEPT ![row[i].channel] = <<i>> \o @]
        BY <1>0, <2>2, <3>2, PutIn
      <3> QED
        BY <1>3, <3>1, <3>2 DEF Page!Settle
    <2> QED
      BY <1>0, <1>3, <2>1, <2>3 DEF OverviewTables, Page!Settle
  <1>4. ASSUME NEW i \in DOMAIN row, "webhooks" \in qs, Page(cs, fs, n, qs)!DeliveryFails(i)
        PROVE  OverviewTables(n, qs)' /\ Len(row) <= Len(row')
    <2>1. failed' = [failed EXCEPT !["webhooks"] = <<i>> \o @] /\ row' = row /\ link' = link
      BY <1>4 DEF Page!DeliveryFails
    <2>2. failed' \in [qs -> Seq(1..Len(row))]
      BY <1>0, <1>4, <2>1, PutIn
    <2> QED
      BY <1>0, <2>1, <2>2 DEF OverviewTables
  <1>5. ASSUME NEW i \in DOMAIN row, NEW q \in qs,
               Page(cs, fs, n, qs)!Elsewhere(q, i)
        PROVE  OverviewTables(n, qs)' /\ Len(row) <= Len(row')
    <2>1. OverviewTables(n, qs)' /\ Len(row') = Len(row)
      BY <1>5, TakenOut DEF Page!Elsewhere
    <2> QED
      BY <1>0, <2>1
  <1> QED
    BY <1>1, <1>2, <1>3, <1>4, <1>5 DEF Page!Tables

-----------------------------------------------------------------------------
(* The screen.                                                              *)

Asked(fs, n) == [filter : fs, offset : 0..n]
AnyAnswer(cs, fs, n, qs) == {None} \cup UNION {Page(cs, fs, n, qs)!AnswerType(c) : c \in cs}
Fetched(cs, fs, n, qs) ==
  {r \in [for : Asked(fs, n), got : [cs -> AnyAnswer(cs, fs, n, qs)]] :
     \A c \in cs : r.got[c] \in Page(cs, fs, n, qs)!AnswerType(c) \cup {None}}
Deeds(n, qs) == ({"all"} \X qs) \cup ({"retry", "discard"} \X qs \X (1..n))
Action(fs, n, qs) == [for : Asked(fs, n), todo : Seq(Deeds(n, qs))]

OverviewControls(fs, n) ==
  /\ open \in BOOLEAN /\ filter \in fs
  /\ offset \in 0..n /\ offset % PageSize = 0 /\ (offset = 0 \/ offset < n)
  /\ timers \in Seq(Asked(fs, n))
OverviewAnswers(cs, fs, n, qs) ==
  /\ call \in [Slots -> Fetched(cs, fs, n, qs) \cup {None}]
  /\ \/ shown = None
     \/ /\ shown \in Fetched(cs, fs, n, qs)
        /\ \A c \in cs : shown.got[c] \in Page(cs, fs, n, qs)!AnswerType(c)
  /\ error \in BOOLEAN
OverviewActions(fs, n, qs) == act \in [Acts -> Action(fs, n, qs) \cup {None}]
OverviewInv(cs, fs, n, qs) ==
  OverviewTables(n, qs) /\ OverviewControls(fs, n) /\ OverviewAnswers(cs, fs, n, qs) /\ OverviewActions(fs, n, qs)

\* MessagesPage counts as FiniteSets does.
LEMMA PageCounts ==
  ASSUME NEW cs, NEW fs, NEW n, NEW qs, NEW S
  PROVE  Page(cs, fs, n, qs)!Cardinality(S) = Cardinality(S)
  BY DEF Page!Cardinality, Cardinality

\* An interval of positions has as many as it says.
LEMMA CountOfAnInterval ==
  ASSUME NEW m \in Nat
  PROVE  IsFiniteSet(1..m) /\ Cardinality(1..m) = m
  <1>1. 1 \in Int /\ m \in Int
    OBVIOUS
  <1>2. IsFiniteSet(1..m) /\ Cardinality(1..m) = IF 1 > m THEN 0 ELSE m - 1 + 1
    BY <1>1, FS_Interval
  <1> QED
    BY <1>2

\* What a failed set's list begins with.
LEMMA FirstOfAQueue ==
  ASSUME NEW cs, NEW fs, NEW n \in Nat, NEW qs, NEW m \in Nat, m <= n, NEW s \in Seq(1..m)
  PROVE  /\ Page(cs, fs, n, qs)!FirstOf(s, 1) \in Seq(1..n)
         /\ Page(cs, fs, n, qs)!FirstOf(s, 1)
              \in UNION {[1..k -> 1..n] : k \in 0..Page(cs, fs, n, qs)!Least(1, n)}
  <1> DEFINE k == Page(cs, fs, n, qs)!Least(1, Len(s))
             f == Page(cs, fs, n, qs)!FirstOf(s, 1)
  <1>1. k \in Nat /\ k <= 1 /\ k <= Len(s) /\ Len(s) \in Nat
    BY DEF Page!Least
  <1>2. k <= n
    <2>1. CASE Len(s) = 0
      BY <1>1, <2>1
    <2>2. CASE Len(s) # 0
      <3>1. 1 \in 1..Len(s)
        BY <1>1, <2>2
      <3>2. s[1] \in 1..m
        BY <3>1, ElementOfSeq
      <3> QED
        BY <1>1, <3>2
    <2> QED
      BY <2>1, <2>2
  <1>3. k <= Page(cs, fs, n, qs)!Least(1, n)
    BY <1>1, <1>2 DEF Page!Least
  <1>4. \A i \in 1..k : s[i] \in 1..n
    <2> SUFFICES ASSUME NEW i \in 1..k PROVE s[i] \in 1..n
      OBVIOUS
    <2>1. i \in 1..Len(s)
      BY <1>1
    <2>2. s[i] \in 1..m
      BY <2>1, ElementOfSeq
    <2> QED
      BY <2>2
  <1>5. f = SubSeq(s, 1, k)
    BY DEF Page!FirstOf
  <1> HIDE DEF k, f
  <1>6. f \in Seq(1..n) /\ Len(f) = k
    <2>1. 1 \in Int /\ k \in Int
      BY <1>1
    <2>2. SubSeq(s, 1, k) \in Seq(1..n)
          /\ Len(SubSeq(s, 1, k)) = IF 1 <= k THEN k - 1 + 1 ELSE 0
      BY <1>4, <2>1, SubSeqProperties
    <2> QED
      BY <1>1, <1>5, <2>2
  <1>7. f \in [1..k -> 1..n]
    BY <1>6, LenProperties
  <1>8. Page(cs, fs, n, qs)!Least(1, n) \in Nat
    BY DEF Page!Least
  <1>9. k \in 0..Page(cs, fs, n, qs)!Least(1, n)
    BY <1>1, <1>3, <1>8
  <1> QED
    BY <1>6, <1>7, <1>9 DEF f

\* What a request may be answered is of its type.
LEMMA AnswersAreTyped ==
  ASSUME NEW cs, NEW fs, NEW n, NEW qs, Setting(cs, fs, n, qs), OverviewTables(n, qs),
         NEW c \in cs, NEW p \in Asked(fs, n), NEW a \in Page(cs, fs, n, qs)!Answers(c, p)
  PROVE  a \in Page(cs, fs, n, qs)!AnswerType(c)
  <1>0. n \in Nat /\ Len(row) \in Nat /\ Len(row) <= n /\ DOMAIN row = 1..Len(row)
    BY DEF Setting, OverviewTables
  <1>1. CASE c = "messages"
    <2> DEFINE ids == Page(cs, fs, n, qs)!Matching(p.filter)
    <2>1. ids \in SUBSET (1..Len(row)) /\ ids \in SUBSET (1..n)
      BY <1>0 DEF Page!Matching
    <2>2. PICK total \in {Page(cs, fs, n, qs)!Cardinality(ids)}, items \in Page(cs, fs, n, qs)!Pages(p) :
            a = [total |-> total, items |-> items]
      BY <1>1 DEF Page!Answers
    <2>3. items \in SUBSET ids
      BY <2>2 DEF Page!Pages, Page!Newest
    <2> HIDE DEF ids
    <2>4. total \in 0..n
      <3>1. total = Cardinality(ids)
        BY <2>2, PageCounts
      <3>2. IsFiniteSet(1..Len(row)) /\ Cardinality(1..Len(row)) = Len(row)
        BY <1>0, CountOfAnInterval
      <3>3. IsFiniteSet(ids) /\ Cardinality(ids) <= Len(row)
        BY <2>1, <3>2, FS_Subset
      <3>4. Cardinality(ids) \in Nat
        BY <3>3, FS_CardinalityType
      <3> QED
        BY <1>0, <3>1, <3>3, <3>4
    <2> QED
      BY <1>1, <2>1, <2>2, <2>3, <2>4 DEF Page!AnswerType, Page!Ids
  <1>2. CASE c = "dlq"
    <2>1. a = [q \in qs |-> Page(cs, fs, n, qs)!FirstOf(failed[q], 1)]
      BY <1>2 DEF Page!Answers, Page!ListFailed
    <2>2. ASSUME NEW q \in qs
          PROVE  Page(cs, fs, n, qs)!FirstOf(failed[q], 1)
                   \in UNION {[1..k -> 1..n] : k \in 0..Page(cs, fs, n, qs)!Least(1, n)}
      <3>1. failed[q] \in Seq(1..Len(row))
        BY DEF OverviewTables
      <3> QED
        BY <1>0, <3>1, FirstOfAQueue
    <2> QED
      BY <1>2, <2>1, <2>2 DEF Page!AnswerType, Page!Ids
  <1>3. CASE c = "status"
    BY <1>3 DEF Page!Answers, Page!AnswerType, OverviewTables
  <1>4. CASE c = "qr"
    BY <1>4 DEF Page!Answers, Page!AnswerType
  <1> QED
    BY <1>1, <1>2, <1>3, <1>4 DEF Setting

\* A refresh that is sent has no answer yet.
LEMMA RefreshIsSent ==
  ASSUME NEW cs, NEW fs, NEW n, NEW qs, OverviewAnswers(cs, fs, n, qs), NEW p \in Asked(fs, n),
         Page(cs, fs, n, qs)!Send(p)
  PROVE  call' \in [Slots -> Fetched(cs, fs, n, qs) \cup {None}]
  <1>1. Page(cs, fs, n, qs)!NoAnswers \in [cs -> AnyAnswer(cs, fs, n, qs)]
        /\ \A c \in cs : Page(cs, fs, n, qs)!NoAnswers[c] = None
    <2>1. None \in AnyAnswer(cs, fs, n, qs)
      BY DEF AnyAnswer
    <2> QED
      BY <2>1 DEF Page!NoAnswers
  <1> DEFINE r == Page(cs, fs, n, qs)!Refresh(p)
  <1>2. r \in [for : Asked(fs, n), got : [cs -> AnyAnswer(cs, fs, n, qs)]] /\ r.got = Page(cs, fs, n, qs)!NoAnswers
    BY <1>1 DEF Page!Refresh
  <1>3. r \in Fetched(cs, fs, n, qs)
    BY <1>1, <1>2 DEF Fetched
  <1>4. PICK s \in Slots : call' = [call EXCEPT ![s] = r]
    BY DEF Page!Send, Page!Free
  <1> HIDE DEF r
  <1> QED
    BY <1>3, <1>4 DEF OverviewAnswers

\* A page's size divides its multiples.
LEMMA Multiple ==
  ASSUME NEW size \in Nat \ {0}, NEW k \in Nat
  PROVE  (size * k) % size = 0
  OBVIOUS

\* And what it divides is one.
LEMMA Quotient ==
  ASSUME NEW o \in Nat, NEW size \in Nat \ {0}, o % size = 0
  PROVE  o \div size \in Nat /\ o = size * (o \div size)
  OBVIOUS

\* From one page's offset to the next one's, and back.
LEMMA NextPageOfASize ==
  ASSUME NEW o \in Nat, NEW size \in Nat \ {0}, o % size = 0
  PROVE  /\ (o + size) % size = 0
         /\ o # 0 => o - size \in Nat /\ (o - size) % size = 0
  <1>1. PICK k \in Nat : o = size * k
    BY Quotient
  <1>2. o + size = size * (k + 1)
    BY <1>1
  <1>3. (size * (k + 1)) % size = 0
    BY Multiple
  <1>4. ASSUME o # 0
        PROVE  o - size \in Nat /\ (o - size) % size = 0
    <2>1. k # 0
      BY <1>1, <1>4
    <2>2. PICK m \in Nat : k = m + 1
      <3>1. k - 1 \in Nat /\ k = (k - 1) + 1
        BY <2>1
      <3> QED
        BY <3>1
    <2>3. o - size = size * m
      BY <1>1, <2>2
    <2>4. (size * m) % size = 0
      BY Multiple
    <2>5. size * m \in Nat
      OBVIOUS
    <2> QED
      BY <2>3, <2>4, <2>5
  <1> QED
    BY <1>2, <1>3, <1>4

\* What is set, with the interval and the refresh set up for it.
LEMMA SetUpKeeps ==
  ASSUME NEW cs, NEW fs, NEW n, NEW qs, OverviewInv(cs, fs, n, qs), NEW f \in fs, NEW o \in 0..n,
         o % PageSize = 0, o = 0 \/ o < n,
         Page(cs, fs, n, qs)!SetUp([filter |-> f, offset |-> o]),
         filter' = f, offset' = o, open' \in BOOLEAN,
         UNCHANGED <<row, failed, link, shown, error, act>>
  PROVE  OverviewInv(cs, fs, n, qs)'
  <1> DEFINE p == [filter |-> f, offset |-> o]
  <1>1. p \in Asked(fs, n)
    BY DEF Asked
  <1>2. Page(cs, fs, n, qs)!Send(p) /\ timers' = <<p>>
    BY DEF Page!SetUp
  <1> HIDE DEF p
  <1>3. call' \in [Slots -> Fetched(cs, fs, n, qs) \cup {None}]
    BY <1>1, <1>2, RefreshIsSent DEF OverviewInv
  <1>4. timers' \in Seq(Asked(fs, n))
    BY <1>1, <1>2
  <1>5. OverviewControls(fs, n)'
    BY <1>4 DEF OverviewControls
  <1>6. OverviewAnswers(cs, fs, n, qs)'
    BY <1>3 DEF OverviewInv, OverviewAnswers
  <1> QED
    BY <1>5, <1>6 DEF OverviewInv, OverviewTables, OverviewActions

\* A page that is left shows nothing and asks for nothing.
LEMMA UnmountKeeps ==
  ASSUME NEW cs, NEW fs, NEW n, NEW qs, Setting(cs, fs, n, qs), OverviewInv(cs, fs, n, qs),
         Page(cs, fs, n, qs)!Unmount, UNCHANGED <<row, failed, link>>
  PROVE  OverviewInv(cs, fs, n, qs)'
  <1>1. 0 \in 0..n /\ 0 % PageSize = 0
    BY PartAssumptions DEF Setting, List!PageAssumption
  <1>2. open' = FALSE /\ filter' = AllOf /\ offset' = 0 /\ timers' = <<>>
    BY DEF Page!Unmount, Page!Everything, AllOf
  <1>3. AllOf \in fs /\ <<>> \in Seq(Asked(fs, n))
    BY EmptySeq DEF Setting
  <1>4. OverviewControls(fs, n)'
    BY <1>1, <1>2, <1>3 DEF OverviewControls
  <1>5. OverviewAnswers(cs, fs, n, qs)'
    BY DEF Page!Unmount, OverviewAnswers
  <1> QED
    BY <1>4, <1>5 DEF OverviewInv, OverviewTables, OverviewActions, Page!Unmount, Page!NoActions

\* The operator's controls.
LEMMA ControlsKeep ==
  ASSUME NEW cs, NEW fs, NEW n, NEW qs, Setting(cs, fs, n, qs), OverviewInv(cs, fs, n, qs),
         Page(cs, fs, n, qs)!Controls
  PROVE  OverviewInv(cs, fs, n, qs)'
  <1>0. n \in Nat /\ PageSize \in Nat \ {0} /\ 0 % PageSize = 0 /\ 0 \in 0..n
    BY PartAssumptions DEF Setting, List!PageAssumption
  <1>1. CASE Page(cs, fs, n, qs)!Visit
    BY <1>0, <1>1, SetUpKeeps DEF Page!Visit, Page!Everything, Page!server, Setting, AllOf
  <1>2. CASE Page(cs, fs, n, qs)!Leave
    BY <1>2, UnmountKeeps DEF Page!Leave, Page!server
  <1>3. ASSUME NEW f \in fs, NEW o \in 0..n, o % PageSize = 0, o = 0 \/ o < n,
               Page(cs, fs, n, qs)!Turn(f, o)
        PROVE  OverviewInv(cs, fs, n, qs)'
    BY <1>3, SetUpKeeps DEF Page!Turn, Page!server, OverviewInv, OverviewControls
  <1>4. filter \in fs /\ offset \in 0..n /\ offset % PageSize = 0 /\ (offset = 0 \/ offset < n)
    BY DEF OverviewInv, OverviewControls
  <1>5. CASE Page(cs, fs, n, qs)!Previous
    <2>1. offset # 0 /\ Page(cs, fs, n, qs)!Turn(filter, offset - PageSize)
      BY <1>5 DEF Page!Previous
    <2>2. offset \in Nat
      BY <1>4
    <2>3. offset - PageSize \in Nat /\ (offset - PageSize) % PageSize = 0
      BY <1>0, <1>4, <2>1, <2>2, NextPageOfASize
    <2>4. offset - PageSize \in 0..n /\ offset - PageSize < n
      BY <1>0, <1>4, <2>1, <2>3
    <2> QED
      BY <1>3, <1>4, <2>1, <2>3, <2>4
  <1>6. CASE Page(cs, fs, n, qs)!NextPage
    <2>1. /\ "messages" \in cs /\ shown # None
          /\ offset + PageSize < shown.got["messages"].total
          /\ Page(cs, fs, n, qs)!Turn(filter, offset + PageSize)
      BY <1>6 DEF Page!NextPage, Page!PagerShown, Page!Total
    <2>2. shown.got["messages"] \in [total : 0..n, items : SUBSET (1..n)]
      BY <2>1 DEF OverviewInv, OverviewAnswers, Page!AnswerType, Page!Ids
    <2>3. shown.got["messages"].total \in 0..n
      BY <2>2
    <2>4. offset \in Nat
      BY <1>4
    <2>5. (offset + PageSize) % PageSize = 0
      BY <1>0, <1>4, <2>4, NextPageOfASize
    <2>6. offset + PageSize \in 0..n /\ offset + PageSize < n
      BY <1>0, <2>1, <2>3, <2>4
    <2> QED
      BY <1>3, <1>4, <2>1, <2>5, <2>6
  <1>7. ASSUME NEW f \in fs, Page(cs, fs, n, qs)!SetFilter(f)
        PROVE  OverviewInv(cs, fs, n, qs)'
    BY <1>0, <1>3, <1>7 DEF Page!SetFilter
  <1> QED
    BY <1>1, <1>2, <1>5, <1>6, <1>7 DEF Page!Controls

\* The answer to one request: to wait for the others, or to be shown with them.
LEMMA AnswerKeeps ==
  ASSUME NEW cs, NEW fs, NEW n, NEW qs, Setting(cs, fs, n, qs), OverviewInv(cs, fs, n, qs),
         NEW s \in Slots, Page(cs, fs, n, qs)!Answer(s)
  PROVE  OverviewInv(cs, fs, n, qs)'
  <1>1. PICK c \in cs : \E a \in Page(cs, fs, n, qs)!Answers(c, call[s].for) :
               LET now == [call[s] EXCEPT !.got[c] = a]
               IN IF \E other \in cs : now.got[other] = None
                  THEN call' = [call EXCEPT ![s] = now] /\ UNCHANGED <<shown, error>>
                  ELSE /\ call' = [call EXCEPT ![s] = None]
                       /\ shown' = now /\ error' = FALSE
    BY DEF Page!Answer
  <1>2. PICK a \in Page(cs, fs, n, qs)!Answers(c, call[s].for) :
               LET now == [call[s] EXCEPT !.got[c] = a]
               IN IF \E other \in cs : now.got[other] = None
                  THEN call' = [call EXCEPT ![s] = now] /\ UNCHANGED <<shown, error>>
                  ELSE /\ call' = [call EXCEPT ![s] = None]
                       /\ shown' = now /\ error' = FALSE
    BY <1>1
  <1> DEFINE now == [call[s] EXCEPT !.got[c] = a]
  <1>3. call[s] \in Fetched(cs, fs, n, qs)
    BY DEF Page!Answer, OverviewInv, OverviewAnswers
  <1>4. call[s] \in [for : Asked(fs, n), got : [cs -> AnyAnswer(cs, fs, n, qs)]]
    BY <1>3 DEF Fetched
  <1>5. a \in Page(cs, fs, n, qs)!AnswerType(c)
    BY <1>2, <1>4, AnswersAreTyped DEF OverviewInv
  <1>6. a \in AnyAnswer(cs, fs, n, qs)
    BY <1>5 DEF AnyAnswer
  <1>7. now \in [for : Asked(fs, n), got : [cs -> AnyAnswer(cs, fs, n, qs)]]
    BY <1>4, <1>6
  <1>8. \A x \in cs : now.got[x] = IF x = c THEN a ELSE call[s].got[x]
    BY <1>4
  <1>9. \A x \in cs : now.got[x] \in Page(cs, fs, n, qs)!AnswerType(x) \cup {None}
    BY <1>3, <1>5, <1>8 DEF Fetched
  <1>10. \/ call' = [call EXCEPT ![s] = now] /\ UNCHANGED <<shown, error>>
         \/ /\ \A other \in cs : now.got[other] # None
            /\ call' = [call EXCEPT ![s] = None] /\ shown' = now /\ error' = FALSE
    BY <1>2
  <1> HIDE DEF now
  <1>11. now \in Fetched(cs, fs, n, qs)
    BY <1>7, <1>9 DEF Fetched
  <1>12. OverviewAnswers(cs, fs, n, qs)'
    BY <1>9, <1>10, <1>11 DEF OverviewInv, OverviewAnswers
  <1> QED
    BY <1>12 DEF OverviewInv, OverviewTables, OverviewControls, OverviewActions, Page!Answer,
                 Page!server, Page!page

\* A list of a queue's first jobs is one of jobs.
LEMMA ListedJobs ==
  ASSUME NEW cs, NEW fs, NEW n, NEW qs, Setting(cs, fs, n, qs), OverviewInv(cs, fs, n, qs), NEW q \in qs
  PROVE  \A k \in DOMAIN Page(cs, fs, n, qs)!Listed(q) : Page(cs, fs, n, qs)!Listed(q)[k] \in 1..n
  <1>1. CASE shown # None /\ "dlq" \in cs
    <2>1. shown.got["dlq"] \in Page(cs, fs, n, qs)!AnswerType("dlq")
      BY <1>1 DEF OverviewInv, OverviewAnswers
    <2>2. shown.got["dlq"][q] \in UNION {[1..k -> 1..n] : k \in 0..Page(cs, fs, n, qs)!Least(1, n)}
      BY <2>1 DEF Page!AnswerType, Page!Ids
    <2> QED
      BY <1>1, <2>2 DEF Page!Listed
  <1>2. CASE ~(shown # None /\ "dlq" \in cs)
    BY <1>2 DEF Page!Listed
  <1> QED
    BY <1>1, <1>2

\* The operator's buttons.
LEMMA PressingKeeps ==
  ASSUME NEW cs, NEW fs, NEW n, NEW qs, Setting(cs, fs, n, qs), OverviewInv(cs, fs, n, qs),
         Page(cs, fs, n, qs)!Pressing
  PROVE  OverviewInv(cs, fs, n, qs)'
  <1>1. ASSUME NEW first \in Deeds(n, qs), Page(cs, fs, n, qs)!Begin(first)
        PROVE  OverviewInv(cs, fs, n, qs)'
    <2>1. Page(cs, fs, n, qs)!Params \in Asked(fs, n)
      BY DEF Page!Params, Asked, OverviewInv, OverviewControls
    <2> DEFINE begun == [for |-> Page(cs, fs, n, qs)!Params, todo |-> <<first>>]
    <2>2. begun \in Action(fs, n, qs)
      <3>1. <<first>> \in Seq(Deeds(n, qs))
        OBVIOUS
      <3> QED
        BY <2>1, <3>1 DEF Action
    <2>3. PICK a \in Acts : act' = [act EXCEPT ![a] = begun]
      BY <1>1 DEF Page!Begin
    <2> HIDE DEF begun
    <2>4. OverviewActions(fs, n, qs)'
      BY <2>2, <2>3 DEF OverviewInv, OverviewActions
    <2> QED
      BY <1>1, <2>4 DEF Page!Begin, Page!server, Page!page, OverviewInv, OverviewTables,
                        OverviewControls, OverviewAnswers
  <1>2. ASSUME NEW q \in qs, Page(cs, fs, n, qs)!Press(q)
        PROVE  OverviewInv(cs, fs, n, qs)'
    <2>1. PICK k \in DOMAIN Page(cs, fs, n, qs)!Listed(q), op \in {"retry", "discard"} :
            Page(cs, fs, n, qs)!Begin(<<op, q, Page(cs, fs, n, qs)!Listed(q)[k]>>)
      BY <1>2 DEF Page!Press
    <2>2. Page(cs, fs, n, qs)!Listed(q)[k] \in 1..n
      BY ListedJobs
    <2>3. <<op, q, Page(cs, fs, n, qs)!Listed(q)[k]>> \in Deeds(n, qs)
      BY <2>2 DEF Deeds
    <2> QED
      BY <1>1, <2>1, <2>3
  <1>3. ASSUME NEW q \in qs, Page(cs, fs, n, qs)!PressAll(q)
        PROVE  OverviewInv(cs, fs, n, qs)'
    <2>1. <<"all", q>> \in Deeds(n, qs)
      BY DEF Deeds
    <2> QED
      BY <1>1, <1>3, <2>1 DEF Page!PressAll
  <1> QED
    BY <1>2, <1>3 DEF Page!Pressing

\* What the server has to do is to be done on a queue, and unless it is "all", to a job.
LEMMA DeedForms ==
  ASSUME NEW n, NEW qs, NEW d \in Deeds(n, qs)
  PROVE  d[2] \in qs /\ (d[1] # "all" => d[1] \in {"retry", "discard"} /\ d[3] \in 1..n)
  BY DEF Deeds

\* What the server does of an action.
LEMMA ActingKeeps ==
  ASSUME NEW cs, NEW fs, NEW n, NEW qs, Setting(cs, fs, n, qs), OverviewInv(cs, fs, n, qs),
         NEW a \in Acts,
         \/ Page(cs, fs, n, qs)!GetFailed(a) \/ Page(cs, fs, n, qs)!DoOne(a)
         \/ Page(cs, fs, n, qs)!Acted(a)
  PROVE  OverviewInv(cs, fs, n, qs)'
  <1>0. n \in Nat /\ Len(row) \in Nat /\ Len(row) <= n
    BY DEF Setting, OverviewInv, OverviewTables
  <1>1. act \in [Acts -> Action(fs, n, qs) \cup {None}]
    BY DEF OverviewInv, OverviewActions
  <1>2. act[a] \in Action(fs, n, qs)
    BY <1>1 DEF Page!GetFailed, Page!DoOne, Page!Acted
  <1>3. act[a].todo \in Seq(Deeds(n, qs)) /\ act[a].for \in Asked(fs, n)
    BY <1>2 DEF Action
  <1>4. act[a].todo # <<>> =>
          Head(act[a].todo) \in Deeds(n, qs) /\ Tail(act[a].todo) \in Seq(Deeds(n, qs))
    BY <1>3, HeadTailProperties
  <1>5. ASSUME NEW rest \in Seq(Deeds(n, qs)), act' = [act EXCEPT ![a].todo = rest]
        PROVE  OverviewActions(fs, n, qs)'
    <2>1. [act[a] EXCEPT !.todo = rest] \in Action(fs, n, qs)
      BY <1>2 DEF Action
    <2>2. act' = [act EXCEPT ![a] = [act[a] EXCEPT !.todo = rest]]
      BY <1>5
    <2> QED
      BY <1>1, <2>1, <2>2 DEF OverviewActions
  <1>6. ASSUME act' = [act EXCEPT ![a] = None]
        PROVE  OverviewActions(fs, n, qs)'
    BY <1>1, <1>6 DEF OverviewActions
  <1>7. CASE Page(cs, fs, n, qs)!GetFailed(a)
    <2> DEFINE q == Head(act[a].todo)[2]
               jobs == Page(cs, fs, n, qs)!TakenBy(q)
               rest == [k \in DOMAIN jobs |-> <<"retry", q, jobs[k]>>]
    <2>1. q \in qs
      BY <1>4, <1>7, DeedForms DEF Page!GetFailed
    <2>2. failed[q] \in Seq(1..Len(row))
      BY <2>1 DEF OverviewInv, OverviewTables
    <2>3. jobs \in Seq(1..n)
      BY <1>0, <2>2, FirstOfAQueue DEF Page!TakenBy
    <2>4. rest \in Seq(Deeds(n, qs))
      <3> HIDE DEF q, jobs
      <3>1. DOMAIN jobs = 1..Len(jobs) /\ Len(jobs) \in Nat
        BY <2>3, LenProperties
      <3>2. \A k \in 1..Len(jobs) : jobs[k] \in 1..n
        BY <2>3, ElementOfSeq
      <3>3. \A k \in 1..Len(jobs) : <<"retry", q, jobs[k]>> \in Deeds(n, qs)
        BY <2>1, <3>2 DEF Deeds
      <3>4. rest \in [1..Len(jobs) -> Deeds(n, qs)]
        BY <3>1, <3>3
      <3> HIDE DEF rest
      <3> QED
        BY <3>1, <3>4, FunctionIsSeq
    <2>5. act' = [act EXCEPT ![a].todo = rest]
      BY <1>7 DEF Page!GetFailed
    <2> HIDE DEF rest
    <2>6. OverviewActions(fs, n, qs)'
      BY <1>5, <2>4, <2>5
    <2> QED
      BY <1>7, <2>6 DEF Page!GetFailed, Page!server, Page!page, OverviewInv, OverviewTables,
                        OverviewControls, OverviewAnswers
  <1>8. CASE Page(cs, fs, n, qs)!DoOne(a)
    <2> DEFINE q == Head(act[a].todo)[2]
               i == Head(act[a].todo)[3]
    <2>1. UNCHANGED <<link, open, filter, offset, timers, call, shown>>
      BY <1>8 DEF Page!DoOne, Page!page
    <2>2. q \in qs
      BY <1>4, <1>8, DeedForms DEF Page!DoOne
    <2>3. \/ act' = [act EXCEPT ![a] = None] /\ error' = TRUE /\ UNCHANGED <<row, failed>>
          \/ /\ Page(cs, fs, n, qs)!Has(failed[q], i)
             /\ Page(cs, fs, n, qs)!Requeue(q, i) \/ Page(cs, fs, n, qs)!Discard(q, i)
             /\ act' = [act EXCEPT ![a].todo = Tail(act[a].todo)]
             /\ UNCHANGED error
      BY <1>8 DEF Page!DoOne
    <2>4. act[a].todo # <<>>
      BY <1>8 DEF Page!DoOne
    <2> HIDE DEF q, i
    <2>5. OverviewActions(fs, n, qs)'
      BY <1>4, <1>5, <1>6, <2>3, <2>4
    <2>6. OverviewTables(n, qs)'
      <3>1. CASE UNCHANGED <<row, failed>>
        BY <2>1, <3>1 DEF OverviewInv, OverviewTables
      <3>2. CASE /\ Page(cs, fs, n, qs)!Has(failed[q], i)
                 /\ Page(cs, fs, n, qs)!Requeue(q, i) \/ Page(cs, fs, n, qs)!Discard(q, i)
        BY <2>1, <2>2, <3>2, TakenOut DEF OverviewInv
      <3> QED
        BY <2>3, <3>1, <3>2
    <2>7. error' \in BOOLEAN
      BY <2>3 DEF OverviewInv, OverviewAnswers
    <2> QED
      BY <2>1, <2>5, <2>6, <2>7 DEF OverviewInv, OverviewControls, OverviewAnswers
  <1>9. CASE Page(cs, fs, n, qs)!Acted(a)
    <2>1. call' \in [Slots -> Fetched(cs, fs, n, qs) \cup {None}]
      BY <1>3, <1>9, RefreshIsSent DEF Page!Acted, OverviewInv
    <2>2. OverviewActions(fs, n, qs)'
      BY <1>6, <1>9 DEF Page!Acted
    <2> QED
      BY <1>9, <2>1, <2>2 DEF Page!Acted, Page!server, Page!page, OverviewInv, OverviewTables,
                              OverviewControls, OverviewAnswers
  <1> QED
    BY <1>7, <1>8, <1>9

\* Every step of the overview keeps its invariant.
LEMMA OverviewKeeps ==
  ASSUME NEW cs, NEW fs, NEW n, NEW qs, Setting(cs, fs, n, qs), OverviewInv(cs, fs, n, qs),
         Page(cs, fs, n, qs)!Next
  PROVE  OverviewInv(cs, fs, n, qs)'
  <1>1. CASE Page(cs, fs, n, qs)!Tables
    <2>1. OverviewTables(n, qs)'
      BY <1>1, TablesKeep DEF OverviewInv
    <2>2. UNCHANGED <<open, filter, offset, timers, call, shown, error, act>>
      BY <1>1 DEF Page!Tables, Page!Arrive, Page!LinkChanges, Page!Settle, Page!DeliveryFails,
                  Page!Elsewhere, Page!page
    <2> QED
      BY <2>1, <2>2 DEF OverviewInv, OverviewControls, OverviewAnswers, OverviewActions
  <1>2. CASE Page(cs, fs, n, qs)!Controls
    BY <1>2, ControlsKeep
  <1>3. CASE Page(cs, fs, n, qs)!Pressing
    BY <1>3, PressingKeeps
  <1>4. ASSUME NEW a \in Acts, Page(cs, fs, n, qs)!ActFails(a)
        PROVE  OverviewInv(cs, fs, n, qs)'
    BY <1>4 DEF Page!ActFails, Page!server, Page!page, OverviewInv, OverviewTables,
                OverviewControls, OverviewAnswers, OverviewActions
  <1>5. ASSUME NEW s \in Slots, Page(cs, fs, n, qs)!Fail(s)
        PROVE  OverviewInv(cs, fs, n, qs)'
    <2>1. CASE Page(cs, fs, n, qs)!Unmount
      BY <1>5, <2>1, UnmountKeeps DEF Page!Fail, Page!server
    <2>2. CASE ~Page(cs, fs, n, qs)!Unmount
      <3>1. /\ call' = [call EXCEPT ![s] = None] /\ error' = TRUE
            /\ UNCHANGED <<row, failed, link, open, filter, offset, timers, shown, act>>
        BY <1>5, <2>2 DEF Page!Fail, Page!server, Page!page
      <3> QED
        BY <3>1 DEF OverviewInv, OverviewTables, OverviewControls, OverviewAnswers, OverviewActions
    <2> QED
      BY <2>1, <2>2
  <1>6. CASE Page(cs, fs, n, qs)!Tick
    <2>1. PICK i \in DOMAIN timers : Page(cs, fs, n, qs)!Send(timers[i])
      BY <1>6 DEF Page!Tick
    <2>2. timers[i] \in Asked(fs, n)
      BY DEF OverviewInv, OverviewControls
    <2>3. call' \in [Slots -> Fetched(cs, fs, n, qs) \cup {None}]
      BY <2>1, <2>2, RefreshIsSent DEF OverviewInv
    <2> QED
      BY <1>6, <2>3 DEF Page!Tick, Page!server, Page!page, OverviewInv, OverviewTables,
                        OverviewControls, OverviewAnswers, OverviewActions
  <1>7. CASE Page(cs, fs, n, qs)!Acting
    BY <1>7, ActingKeeps DEF Page!Acting
  <1>8. ASSUME NEW s \in Slots, Page(cs, fs, n, qs)!Answer(s)
        PROVE  OverviewInv(cs, fs, n, qs)'
    BY <1>8, AnswerKeeps
  <1> QED
    BY <1>1, <1>2, <1>3, <1>4, <1>5, <1>6, <1>7, <1>8 DEF Page!Next, Page!Faults, Page!OnItsOwn

\* A page starts empty.
LEMMA OverviewStarts ==
  ASSUME NEW cs, NEW fs, NEW n, NEW qs, Setting(cs, fs, n, qs), Page(cs, fs, n, qs)!Init
  PROVE  OverviewInv(cs, fs, n, qs)
  <1>1. 0 \in 0..n /\ 0 % PageSize = 0 /\ n \in Nat
    BY PartAssumptions DEF Setting, List!PageAssumption
  <1>2. row = <<>> /\ row \in Seq(Message) /\ Len(row) = 0
    BY EmptySeq DEF Page!Init
  <1>3. failed \in [qs -> Seq(1..Len(row))]
    <2>1. <<>> \in Seq(1..Len(row))
      BY EmptySeq
    <2> QED
      BY <2>1 DEF Page!Init
  <1>4. OverviewTables(n, qs)
    BY <1>1, <1>2, <1>3 DEF OverviewTables, Page!Init
  <1>5. OverviewControls(fs, n)
    <2>1. AllOf \in fs /\ <<>> \in Seq(Asked(fs, n))
      BY EmptySeq DEF Setting
    <2>2. open = FALSE /\ filter = AllOf /\ offset = 0 /\ timers = <<>>
      BY DEF Page!Init, Page!Everything, AllOf
    <2> QED
      BY <1>1, <2>1, <2>2 DEF OverviewControls
  <1>6. OverviewAnswers(cs, fs, n, qs)
    BY DEF OverviewAnswers, Page!Init
  <1> QED
    BY <1>4, <1>5, <1>6 DEF OverviewInv, OverviewActions, Page!Init, Page!NoActions

\* The invariant says what the page's variables are.
LEMMA OverviewIsTyped ==
  ASSUME NEW cs, NEW fs, NEW n, NEW qs, Setting(cs, fs, n, qs), OverviewInv(cs, fs, n, qs)
  PROVE  Page(cs, fs, n, qs)!TypeOK
  <1>0. n \in Nat /\ Len(row) \in Nat /\ Len(row) <= n /\ row \in Seq(Message) /\ DOMAIN row = 1..Len(row)
    BY DEF Setting, OverviewInv, OverviewTables
  <1>1. row \in UNION {[1..k -> Page(cs, fs, n, qs)!Row] : k \in 0..n}
    <2>1. ASSUME NEW i \in 1..Len(row)
          PROVE  row[i] \in Page(cs, fs, n, qs)!Row
      <3>1. row[i] \in Message /\ row[i].at \in 1..i
        BY <1>0, ElementOfSeq DEF OverviewInv, OverviewTables
      <3>2. row[i].at \in 1..n
        BY <1>0, <3>1
      <3> QED
        BY <3>1, <3>2 DEF Message, Page!Row
    <2>2. row \in [1..Len(row) -> Page(cs, fs, n, qs)!Row]
      BY <1>0, <2>1, LenProperties
    <2>3. Len(row) \in 0..n
      BY <1>0
    <2> QED
      BY <2>2, <2>3
  <1>2. Page(cs, fs, n, qs)!ParamsType = Asked(fs, n)
    BY DEF Page!ParamsType, Asked
  <1>3. \A q \in qs : failed[q] \in Seq(DOMAIN row)
    BY <1>0 DEF OverviewInv, OverviewTables
  <1>4. \A i \in DOMAIN timers : timers[i] \in Asked(fs, n)
    BY DEF OverviewInv, OverviewControls
  <1>5. \A r \in Fetched(cs, fs, n, qs) :
           r.for \in Asked(fs, n) /\ \A c \in cs : r.got[c] \in Page(cs, fs, n, qs)!AnswerType(c) \cup {None}
    BY DEF Fetched
  <1>6. \A s \in Slots : call[s] = None \/ call[s] \in Fetched(cs, fs, n, qs)
    BY DEF OverviewInv, OverviewAnswers
  <1>7. \/ shown = None
        \/ shown.for \in Asked(fs, n) /\ \A c \in cs : shown.got[c] \in Page(cs, fs, n, qs)!AnswerType(c)
    BY <1>5 DEF OverviewInv, OverviewAnswers
  <1>8. \A a \in Acts :
          \/ act[a] = None
          \/ act[a].for \in Asked(fs, n) /\ act[a].todo \in Seq(Page(cs, fs, n, qs)!Deed)
    <2>1. Page(cs, fs, n, qs)!Deed = Deeds(n, qs)
      BY DEF Page!Deed, Deeds, Page!Ids
    <2> QED
      BY <2>1 DEF OverviewInv, OverviewActions, Action
  <1>9. \A s \in Slots :
          \/ call[s] = None
          \/ /\ call[s].for \in Asked(fs, n)
             /\ \A c \in cs : call[s].got[c] \in Page(cs, fs, n, qs)!AnswerType(c) \cup {None}
    BY <1>5, <1>6
  <1>10. /\ link \in {"connected", "qr_pending"} /\ open \in BOOLEAN /\ error \in BOOLEAN
         /\ filter \in fs /\ offset \in 0..n /\ offset % PageSize = 0 /\ (offset = 0 \/ offset < n)
    BY DEF OverviewInv, OverviewTables, OverviewControls, OverviewAnswers
  <1> QED
    BY <1>1, <1>2, <1>3, <1>4, <1>7, <1>8, <1>9, <1>10 DEF Page!TypeOK

TwoFilters == {AllOf, [AllOf EXCEPT !.status = "queued"]}

\* The badge, the list and the panel's two are pages of this kind.
LEMMA BadgeIsAPage ==
  /\ Badge!Init <=> Page({"status", "qr"}, {AllOf}, 0, {"email"})!Init
  /\ Badge!Next <=> Page({"status", "qr"}, {AllOf}, 0, {"email"})!Next
  /\ Badge!TypeOK <=> Page({"status", "qr"}, {AllOf}, 0, {"email"})!TypeOK
  <1>1. Badge!Init <=> Page({"status", "qr"}, {AllOf}, 0, {"email"})!Init
    BY DEF Badge!Init, Page!Init, Badge!Everything, Page!Everything, Badge!NoActions,
           Page!NoActions
  <1>2. Badge!Tables <=> Page({"status", "qr"}, {AllOf}, 0, {"email"})!Tables
    BY DEF Badge!Tables, Page!Tables, Badge!Arrive, Page!Arrive, Badge!LinkChanges,
           Page!LinkChanges, Badge!Settle, Page!Settle, Badge!DeliveryFails,
           Page!DeliveryFails, Badge!Elsewhere, Page!Elsewhere, Badge!Has, Page!Has,
           Badge!Without, Page!Without, Badge!Requeue, Page!Requeue, Badge!Discard,
           Page!Discard, Badge!page, Page!page
  <1>3. Badge!Controls <=> Page({"status", "qr"}, {AllOf}, 0, {"email"})!Controls
    BY DEF Badge!Controls, Page!Controls, Badge!Visit, Page!Visit, Badge!Leave, Page!Leave,
           Badge!Previous, Page!Previous, Badge!NextPage, Page!NextPage, Badge!SetFilter,
           Page!SetFilter, Badge!Turn, Page!Turn, Badge!SetUp, Page!SetUp, Badge!Send,
           Page!Send, Badge!Free, Page!Free, Badge!Refresh, Page!Refresh, Badge!NoAnswers,
           Page!NoAnswers, Badge!Unmount, Page!Unmount, Badge!NoActions, Page!NoActions,
           Badge!Everything, Page!Everything, Badge!PagerShown, Page!PagerShown,
           Badge!Total, Page!Total, Badge!server, Page!server
  <1>4. Badge!Pressing <=> Page({"status", "qr"}, {AllOf}, 0, {"email"})!Pressing
    BY DEF Badge!Pressing, Page!Pressing, Badge!Press, Page!Press, Badge!PressAll,
           Page!PressAll, Badge!Begin, Page!Begin, Badge!Listed, Page!Listed, Badge!Params,
           Page!Params, Badge!server, Page!server, Badge!page, Page!page
  <1>5. Badge!Faults <=> Page({"status", "qr"}, {AllOf}, 0, {"email"})!Faults
    BY DEF Badge!Faults, Page!Faults, Badge!ActFails, Page!ActFails, Badge!Fail, Page!Fail,
           Badge!Unmount, Page!Unmount, Badge!NoActions, Page!NoActions, Badge!Everything,
           Page!Everything, Badge!server, Page!server, Badge!page, Page!page
  <1>6. Badge!OnItsOwn <=> Page({"status", "qr"}, {AllOf}, 0, {"email"})!OnItsOwn
    BY DEF Badge!OnItsOwn, Page!OnItsOwn, Badge!Tick, Page!Tick, Badge!Acting, Page!Acting,
           Badge!GetFailed, Page!GetFailed, Badge!DoOne, Page!DoOne, Badge!Acted,
           Page!Acted, Badge!Answer, Page!Answer, Badge!Answers, Page!Answers,
           Badge!Matching, Page!Matching, Badge!Matches, Page!Matches, Badge!Pages,
           Page!Pages, Badge!Newest, Page!Newest, Badge!Least, Page!Least, Badge!FirstOf,
           Page!FirstOf, Badge!ListFailed, Page!ListFailed, Badge!TakenBy, Page!TakenBy,
           Badge!Has, Page!Has, Badge!Without, Page!Without, Badge!Requeue, Page!Requeue,
           Badge!Discard, Page!Discard, Badge!Send, Page!Send, Badge!Free, Page!Free,
           Badge!Refresh, Page!Refresh, Badge!NoAnswers, Page!NoAnswers, Badge!Cardinality,
           Page!Cardinality, Badge!server, Page!server, Badge!page, Page!page
  <1>7. Badge!Next <=> Page({"status", "qr"}, {AllOf}, 0, {"email"})!Next
    BY <1>2, <1>3, <1>4, <1>5, <1>6 DEF Badge!Next, Page!Next
  <1>8. Badge!TypeOK <=> Page({"status", "qr"}, {AllOf}, 0, {"email"})!TypeOK
    BY DEF Badge!TypeOK, Page!TypeOK, Badge!Row, Page!Row, Badge!Deed, Page!Deed,
           Badge!ParamsType, Page!ParamsType, Badge!AnswerType, Page!AnswerType, Badge!Ids,
           Page!Ids, Badge!Least, Page!Least
  <1> QED
    BY <1>1, <1>7, <1>8

\* The list.
LEMMA ListIsAPage ==
  /\ List!Init <=> Page({"messages"}, TwoFilters, MaxRows, {"email"})!Init
  /\ List!Next <=> Page({"messages"}, TwoFilters, MaxRows, {"email"})!Next
  /\ List!TypeOK <=> Page({"messages"}, TwoFilters, MaxRows, {"email"})!TypeOK
  <1>1. List!Init <=> Page({"messages"}, TwoFilters, MaxRows, {"email"})!Init
    BY DEF List!Init, Page!Init, List!Everything, Page!Everything, List!NoActions,
           Page!NoActions, TwoFilters
  <1>2. List!Tables <=> Page({"messages"}, TwoFilters, MaxRows, {"email"})!Tables
    BY DEF List!Tables, Page!Tables, List!Arrive, Page!Arrive, List!LinkChanges,
           Page!LinkChanges, List!Settle, Page!Settle, List!DeliveryFails,
           Page!DeliveryFails, List!Elsewhere, Page!Elsewhere, List!Has, Page!Has,
           List!Without, Page!Without, List!Requeue, Page!Requeue, List!Discard,
           Page!Discard, List!page, Page!page, TwoFilters
  <1>3. List!Controls <=> Page({"messages"}, TwoFilters, MaxRows, {"email"})!Controls
    BY DEF List!Controls, Page!Controls, List!Visit, Page!Visit, List!Leave, Page!Leave,
           List!Previous, Page!Previous, List!NextPage, Page!NextPage, List!SetFilter,
           Page!SetFilter, List!Turn, Page!Turn, List!SetUp, Page!SetUp, List!Send,
           Page!Send, List!Free, Page!Free, List!Refresh, Page!Refresh, List!NoAnswers,
           Page!NoAnswers, List!Unmount, Page!Unmount, List!NoActions, Page!NoActions,
           List!Everything, Page!Everything, List!PagerShown, Page!PagerShown, List!Total,
           Page!Total, List!server, Page!server, TwoFilters
  <1>4. List!Pressing <=> Page({"messages"}, TwoFilters, MaxRows, {"email"})!Pressing
    BY DEF List!Pressing, Page!Pressing, List!Press, Page!Press, List!PressAll,
           Page!PressAll, List!Begin, Page!Begin, List!Listed, Page!Listed, List!Params,
           Page!Params, List!server, Page!server, List!page, Page!page, TwoFilters
  <1>5. List!Faults <=> Page({"messages"}, TwoFilters, MaxRows, {"email"})!Faults
    BY DEF List!Faults, Page!Faults, List!ActFails, Page!ActFails, List!Fail, Page!Fail,
           List!Unmount, Page!Unmount, List!NoActions, Page!NoActions, List!Everything,
           Page!Everything, List!server, Page!server, List!page, Page!page, TwoFilters
  <1>6. List!OnItsOwn <=> Page({"messages"}, TwoFilters, MaxRows, {"email"})!OnItsOwn
    BY DEF List!OnItsOwn, Page!OnItsOwn, List!Tick, Page!Tick, List!Acting, Page!Acting,
           List!GetFailed, Page!GetFailed, List!DoOne, Page!DoOne, List!Acted, Page!Acted,
           List!Answer, Page!Answer, List!Answers, Page!Answers, List!Matching,
           Page!Matching, List!Matches, Page!Matches, List!Pages, Page!Pages, List!Newest,
           Page!Newest, List!Least, Page!Least, List!FirstOf, Page!FirstOf, List!ListFailed,
           Page!ListFailed, List!TakenBy, Page!TakenBy, List!Has, Page!Has, List!Without,
           Page!Without, List!Requeue, Page!Requeue, List!Discard, Page!Discard, List!Send,
           Page!Send, List!Free, Page!Free, List!Refresh, Page!Refresh, List!NoAnswers,
           Page!NoAnswers, List!Cardinality, Page!Cardinality, List!server, Page!server,
           List!page, Page!page, TwoFilters
  <1>7. List!Next <=> Page({"messages"}, TwoFilters, MaxRows, {"email"})!Next
    BY <1>2, <1>3, <1>4, <1>5, <1>6 DEF List!Next, Page!Next
  <1>8. List!TypeOK <=> Page({"messages"}, TwoFilters, MaxRows, {"email"})!TypeOK
    BY DEF List!TypeOK, Page!TypeOK, List!Row, Page!Row, List!Deed, Page!Deed,
           List!ParamsType, Page!ParamsType, List!AnswerType, Page!AnswerType, List!Ids,
           Page!Ids, List!Least, Page!Least, TwoFilters
  <1> QED
    BY <1>1, <1>7, <1>8

\* The panel with one queue.
LEMMA OneQueueIsAPage ==
  /\ OneQueue!Init <=> Page({"dlq"}, {AllOf}, MaxRows, {"email"})!Init
  /\ OneQueue!Next <=> Page({"dlq"}, {AllOf}, MaxRows, {"email"})!Next
  /\ OneQueue!TypeOK <=> Page({"dlq"}, {AllOf}, MaxRows, {"email"})!TypeOK
  <1>1. OneQueue!Init <=> Page({"dlq"}, {AllOf}, MaxRows, {"email"})!Init
    BY DEF OneQueue!Init, Page!Init, OneQueue!Everything, Page!Everything,
           OneQueue!NoActions, Page!NoActions
  <1>2. OneQueue!Tables <=> Page({"dlq"}, {AllOf}, MaxRows, {"email"})!Tables
    BY DEF OneQueue!Tables, Page!Tables, OneQueue!Arrive, Page!Arrive, OneQueue!LinkChanges,
           Page!LinkChanges, OneQueue!Settle, Page!Settle, OneQueue!DeliveryFails,
           Page!DeliveryFails, OneQueue!Elsewhere, Page!Elsewhere, OneQueue!Has, Page!Has,
           OneQueue!Without, Page!Without, OneQueue!Requeue, Page!Requeue, OneQueue!Discard,
           Page!Discard, OneQueue!page, Page!page
  <1>3. OneQueue!Controls <=> Page({"dlq"}, {AllOf}, MaxRows, {"email"})!Controls
    BY DEF OneQueue!Controls, Page!Controls, OneQueue!Visit, Page!Visit, OneQueue!Leave,
           Page!Leave, OneQueue!Previous, Page!Previous, OneQueue!NextPage, Page!NextPage,
           OneQueue!SetFilter, Page!SetFilter, OneQueue!Turn, Page!Turn, OneQueue!SetUp,
           Page!SetUp, OneQueue!Send, Page!Send, OneQueue!Free, Page!Free, OneQueue!Refresh,
           Page!Refresh, OneQueue!NoAnswers, Page!NoAnswers, OneQueue!Unmount, Page!Unmount,
           OneQueue!NoActions, Page!NoActions, OneQueue!Everything, Page!Everything,
           OneQueue!PagerShown, Page!PagerShown, OneQueue!Total, Page!Total,
           OneQueue!server, Page!server
  <1>4. OneQueue!Pressing <=> Page({"dlq"}, {AllOf}, MaxRows, {"email"})!Pressing
    BY DEF OneQueue!Pressing, Page!Pressing, OneQueue!Press, Page!Press, OneQueue!PressAll,
           Page!PressAll, OneQueue!Begin, Page!Begin, OneQueue!Listed, Page!Listed,
           OneQueue!Params, Page!Params, OneQueue!server, Page!server, OneQueue!page,
           Page!page
  <1>5. OneQueue!Faults <=> Page({"dlq"}, {AllOf}, MaxRows, {"email"})!Faults
    BY DEF OneQueue!Faults, Page!Faults, OneQueue!ActFails, Page!ActFails, OneQueue!Fail,
           Page!Fail, OneQueue!Unmount, Page!Unmount, OneQueue!NoActions, Page!NoActions,
           OneQueue!Everything, Page!Everything, OneQueue!server, Page!server,
           OneQueue!page, Page!page
  <1>6. OneQueue!OnItsOwn <=> Page({"dlq"}, {AllOf}, MaxRows, {"email"})!OnItsOwn
    BY DEF OneQueue!OnItsOwn, Page!OnItsOwn, OneQueue!Tick, Page!Tick, OneQueue!Acting,
           Page!Acting, OneQueue!GetFailed, Page!GetFailed, OneQueue!DoOne, Page!DoOne,
           OneQueue!Acted, Page!Acted, OneQueue!Answer, Page!Answer, OneQueue!Answers,
           Page!Answers, OneQueue!Matching, Page!Matching, OneQueue!Matches, Page!Matches,
           OneQueue!Pages, Page!Pages, OneQueue!Newest, Page!Newest, OneQueue!Least,
           Page!Least, OneQueue!FirstOf, Page!FirstOf, OneQueue!ListFailed, Page!ListFailed,
           OneQueue!TakenBy, Page!TakenBy, OneQueue!Has, Page!Has, OneQueue!Without,
           Page!Without, OneQueue!Requeue, Page!Requeue, OneQueue!Discard, Page!Discard,
           OneQueue!Send, Page!Send, OneQueue!Free, Page!Free, OneQueue!Refresh,
           Page!Refresh, OneQueue!NoAnswers, Page!NoAnswers, OneQueue!Cardinality,
           Page!Cardinality, OneQueue!server, Page!server, OneQueue!page, Page!page
  <1>7. OneQueue!Next <=> Page({"dlq"}, {AllOf}, MaxRows, {"email"})!Next
    BY <1>2, <1>3, <1>4, <1>5, <1>6 DEF OneQueue!Next, Page!Next
  <1>8. OneQueue!TypeOK <=> Page({"dlq"}, {AllOf}, MaxRows, {"email"})!TypeOK
    BY DEF OneQueue!TypeOK, Page!TypeOK, OneQueue!Row, Page!Row, OneQueue!Deed, Page!Deed,
           OneQueue!ParamsType, Page!ParamsType, OneQueue!AnswerType, Page!AnswerType,
           OneQueue!Ids, Page!Ids, OneQueue!Least, Page!Least
  <1> QED
    BY <1>1, <1>7, <1>8

\* The panel with two.
LEMMA TwoQueuesIsAPage ==
  /\ TwoQueues!Init <=> Page({"dlq"}, {AllOf}, 1, {"email", "webhooks"})!Init
  /\ TwoQueues!Next <=> Page({"dlq"}, {AllOf}, 1, {"email", "webhooks"})!Next
  /\ TwoQueues!TypeOK <=> Page({"dlq"}, {AllOf}, 1, {"email", "webhooks"})!TypeOK
  <1>1. TwoQueues!Init <=> Page({"dlq"}, {AllOf}, 1, {"email", "webhooks"})!Init
    BY DEF TwoQueues!Init, Page!Init, TwoQueues!Everything, Page!Everything,
           TwoQueues!NoActions, Page!NoActions
  <1>2. TwoQueues!Tables <=> Page({"dlq"}, {AllOf}, 1, {"email", "webhooks"})!Tables
    BY DEF TwoQueues!Tables, Page!Tables, TwoQueues!Arrive, Page!Arrive,
           TwoQueues!LinkChanges, Page!LinkChanges, TwoQueues!Settle, Page!Settle,
           TwoQueues!DeliveryFails, Page!DeliveryFails, TwoQueues!Elsewhere, Page!Elsewhere,
           TwoQueues!Has, Page!Has, TwoQueues!Without, Page!Without, TwoQueues!Requeue,
           Page!Requeue, TwoQueues!Discard, Page!Discard, TwoQueues!page, Page!page
  <1>3. TwoQueues!Controls <=> Page({"dlq"}, {AllOf}, 1, {"email", "webhooks"})!Controls
    BY DEF TwoQueues!Controls, Page!Controls, TwoQueues!Visit, Page!Visit, TwoQueues!Leave,
           Page!Leave, TwoQueues!Previous, Page!Previous, TwoQueues!NextPage, Page!NextPage,
           TwoQueues!SetFilter, Page!SetFilter, TwoQueues!Turn, Page!Turn, TwoQueues!SetUp,
           Page!SetUp, TwoQueues!Send, Page!Send, TwoQueues!Free, Page!Free,
           TwoQueues!Refresh, Page!Refresh, TwoQueues!NoAnswers, Page!NoAnswers,
           TwoQueues!Unmount, Page!Unmount, TwoQueues!NoActions, Page!NoActions,
           TwoQueues!Everything, Page!Everything, TwoQueues!PagerShown, Page!PagerShown,
           TwoQueues!Total, Page!Total, TwoQueues!server, Page!server
  <1>4. TwoQueues!Pressing <=> Page({"dlq"}, {AllOf}, 1, {"email", "webhooks"})!Pressing
    BY DEF TwoQueues!Pressing, Page!Pressing, TwoQueues!Press, Page!Press,
           TwoQueues!PressAll, Page!PressAll, TwoQueues!Begin, Page!Begin, TwoQueues!Listed,
           Page!Listed, TwoQueues!Params, Page!Params, TwoQueues!server, Page!server,
           TwoQueues!page, Page!page
  <1>5. TwoQueues!Faults <=> Page({"dlq"}, {AllOf}, 1, {"email", "webhooks"})!Faults
    BY DEF TwoQueues!Faults, Page!Faults, TwoQueues!ActFails, Page!ActFails, TwoQueues!Fail,
           Page!Fail, TwoQueues!Unmount, Page!Unmount, TwoQueues!NoActions, Page!NoActions,
           TwoQueues!Everything, Page!Everything, TwoQueues!server, Page!server,
           TwoQueues!page, Page!page
  <1>6. TwoQueues!OnItsOwn <=> Page({"dlq"}, {AllOf}, 1, {"email", "webhooks"})!OnItsOwn
    BY DEF TwoQueues!OnItsOwn, Page!OnItsOwn, TwoQueues!Tick, Page!Tick, TwoQueues!Acting,
           Page!Acting, TwoQueues!GetFailed, Page!GetFailed, TwoQueues!DoOne, Page!DoOne,
           TwoQueues!Acted, Page!Acted, TwoQueues!Answer, Page!Answer, TwoQueues!Answers,
           Page!Answers, TwoQueues!Matching, Page!Matching, TwoQueues!Matches, Page!Matches,
           TwoQueues!Pages, Page!Pages, TwoQueues!Newest, Page!Newest, TwoQueues!Least,
           Page!Least, TwoQueues!FirstOf, Page!FirstOf, TwoQueues!ListFailed,
           Page!ListFailed, TwoQueues!TakenBy, Page!TakenBy, TwoQueues!Has, Page!Has,
           TwoQueues!Without, Page!Without, TwoQueues!Requeue, Page!Requeue,
           TwoQueues!Discard, Page!Discard, TwoQueues!Send, Page!Send, TwoQueues!Free,
           Page!Free, TwoQueues!Refresh, Page!Refresh, TwoQueues!NoAnswers, Page!NoAnswers,
           TwoQueues!Cardinality, Page!Cardinality, TwoQueues!server, Page!server,
           TwoQueues!page, Page!page
  <1>7. TwoQueues!Next <=> Page({"dlq"}, {AllOf}, 1, {"email", "webhooks"})!Next
    BY <1>2, <1>3, <1>4, <1>5, <1>6 DEF TwoQueues!Next, Page!Next
  <1>8. TwoQueues!TypeOK <=> Page({"dlq"}, {AllOf}, 1, {"email", "webhooks"})!TypeOK
    BY DEF TwoQueues!TypeOK, Page!TypeOK, TwoQueues!Row, Page!Row, TwoQueues!Deed,
           Page!Deed, TwoQueues!ParamsType, Page!ParamsType, TwoQueues!AnswerType,
           Page!AnswerType, TwoQueues!Ids, Page!Ids, TwoQueues!Least, Page!Least
  <1> QED
    BY <1>1, <1>7, <1>8

-----------------------------------------------------------------------------
(* The pages of the list.  Where no two messages were created at the same  *)
(* moment the order has no ties, so that whoever asks for the n newest     *)
(* gets the n that fewer than n others are newer than: each message is on  *)
(* the page its rank falls into, whichever answer the database gives.      *)

HistoryFits == row \in Seq(Message) /\ Len(row) <= MaxRows

\* MessagesPage counts as FiniteSets does.
LEMMA SameCardinality == \A S : List!Cardinality(S) = Cardinality(S)
  BY DEF List!Cardinality, Cardinality

\* A message is among the n newest exactly if fewer than n others are newer.
LEMMA NewestByRank ==
  ASSUME HistoryFits, NEW ids \in SUBSET DOMAIN row, IsFiniteSet(ids),
         \A i, j \in ids : row[i].at = row[j].at => i = j,
         NEW n \in Nat, NEW s \in List!Newest(ids, n), NEW i \in ids
  PROVE  LET newer == {j \in ids : row[j].at > row[i].at}
         IN  i \in s <=> Cardinality(newer) < n
  <1> DEFINE newer == {j \in ids : row[j].at > row[i].at}
  <1>1. \A j \in ids : row[j].at \in Nat
    <2>1. \A j \in ids : j \in 1..Len(row)
      BY DEF HistoryFits
    <2>2. \A j \in ids : row[j] \in Message
      BY <2>1 DEF HistoryFits
    <2> QED
      BY <2>2 DEF Message
  <1>2. /\ s \in SUBSET ids /\ Cardinality(s) = List!Least(n, Cardinality(ids))
        /\ \A j \in s, k \in ids \ s : row[j].at >= row[k].at
    BY SameCardinality DEF List!Newest
  <1>3. i \notin newer /\ newer \in SUBSET ids /\ newer \cup {i} \in SUBSET ids
    BY <1>1
  <1> HIDE DEF newer
  <1>4. /\ IsFiniteSet(s) /\ IsFiniteSet(newer)
        /\ Cardinality(ids) \in Nat /\ Cardinality(s) \in Nat /\ Cardinality(newer) \in Nat
    BY <1>2, <1>3, FS_Subset, FS_CardinalityType
  <1>5. Cardinality(newer \cup {i}) = Cardinality(newer) + 1
    BY <1>3, <1>4, FS_AddElement
  <1>6. ASSUME i \in s
        PROVE  Cardinality(newer) < n
    <2>1. newer \cup {i} \in SUBSET s
      BY <1>1, <1>2, <1>6 DEF newer
    <2>2. Cardinality(newer) + 1 <= Cardinality(s)
      BY <1>4, <1>5, <2>1, FS_Subset
    <2> QED
      BY <1>2, <1>4, <2>2 DEF List!Least
  <1>7. ASSUME i \notin s
        PROVE  ~(Cardinality(newer) < n)
    <2>1. s \in SUBSET newer
      <3> SUFFICES ASSUME NEW j \in s PROVE j \in newer
        OBVIOUS
      <3>1. j \in ids /\ j # i /\ row[j].at >= row[i].at
        BY <1>2, <1>7
      <3> QED
        BY <1>1, <3>1 DEF newer
    <2>2. Cardinality(s) <= Cardinality(newer)
      BY <1>4, <2>1, FS_Subset
    <2>3. Cardinality(newer) + 1 <= Cardinality(ids)
      BY <1>3, <1>4, <1>5, FS_Subset
    <2> QED
      BY <1>2, <1>4, <2>2, <2>3 DEF List!Least
  <1> QED
    BY <1>6, <1>7 DEF newer

\* A rank falls into one page.
LEMMA PageOfRank ==
  ASSUME NEW rank \in Nat, NEW size \in Nat \ {0}
  PROVE  \E o \in Nat : o % size = 0 /\ o <= rank /\ rank < o + size
  <1> DEFINE o == size * (rank \div size)
  <1>1. rank \div size \in Nat
    OBVIOUS
  <1>2. o \in Nat
    BY <1>1
  <1>3. o % size = 0
    BY <1>1
  <1>4. o <= rank
    OBVIOUS
  <1>5. rank < o + size
    OBVIOUS
  <1> QED
    BY <1>2, <1>3, <1>4, <1>5

\* What MessagesPage asserts of its pages follows from what a row is.
LEMMA PagesAreComplete ==
  ASSUME HistoryFits
  PROVE  List!FullHistory
  <1> SUFFICES ASSUME NEW f \in {AllOf, [AllOf EXCEPT !.status = "queued"]},
                      \A i, j \in List!Matching(f) : row[i].at = row[j].at => i = j,
                      NEW served \in [{o \in 0..MaxRows : o % PageSize = 0
                                         /\ o < List!Cardinality(List!Matching(f))}
                                      -> SUBSET List!Matching(f)],
                      \A o \in {o \in 0..MaxRows : o % PageSize = 0
                                  /\ o < List!Cardinality(List!Matching(f))} :
                        served[o] \in List!Pages([filter |-> f, offset |-> o])
               PROVE  UNION {served[o] : o \in {o \in 0..MaxRows : o % PageSize = 0
                                   /\ o < List!Cardinality(List!Matching(f))}}
                        = List!Matching(f)
    BY DEF List!FullHistory
  <1> DEFINE ids == List!Matching(f)
             offsets == {o \in 0..MaxRows : o % PageSize = 0 /\ o < List!Cardinality(ids)}
  <1>1. MaxRows \in Nat /\ PageSize \in Nat \ {0}
    BY PartAssumptions DEF List!PageAssumption
  <1>2. ids \in SUBSET DOMAIN row /\ DOMAIN row = 1..Len(row) /\ Len(row) \in Nat
    BY DEF List!Matching, HistoryFits
  <1> HIDE DEF ids
  <1>3. IsFiniteSet(ids) /\ Cardinality(ids) \in Nat /\ Cardinality(ids) <= MaxRows
    <2>1. IsFiniteSet(1..Len(row)) /\ Cardinality(1..Len(row)) = Len(row)
      <3>1. PICK n \in Nat : n = Len(row)
        BY <1>2
      <3>2. 1 \in Int /\ n \in Int
        OBVIOUS
      <3>3. IsFiniteSet(1..n) /\ Cardinality(1..n) = IF 1 > n THEN 0 ELSE n - 1 + 1
        BY <3>2, FS_Interval
      <3>4. (IF 1 > n THEN 0 ELSE n - 1 + 1) = n
        OBVIOUS
      <3> QED
        BY <3>1, <3>3, <3>4
    <2>2. IsFiniteSet(ids) /\ Cardinality(ids) <= Len(row)
      BY <1>2, <2>1, FS_Subset
    <2> QED
      BY <1>1, <1>2, <2>2, FS_CardinalityType DEF HistoryFits
  <1>4. List!Cardinality(ids) = Cardinality(ids)
    BY SameCardinality
  <1>5. ASSUME NEW i \in ids
        PROVE  \E o \in offsets : i \in served[o]
    <2> DEFINE newer == {j \in ids : row[j].at > row[i].at}
    <2>1. IsFiniteSet(newer) /\ Cardinality(newer) \in Nat
      BY <1>3, FS_Subset, FS_CardinalityType
    <2>2. Cardinality(newer) < Cardinality(ids)
      <3>1. ~(row[i].at > row[i].at)
        <4>1. row[i] \in Message
          BY <1>2 DEF HistoryFits
        <4> QED
          BY <4>1 DEF Message
      <3>2. newer \in SUBSET ids /\ newer # ids
        BY <3>1
      <3> QED
        BY <1>3, <2>1, <3>2, FS_Subset
    <2> HIDE DEF newer
    <2>3. PICK o \in Nat : /\ o % PageSize = 0
                           /\ o <= Cardinality(newer) /\ Cardinality(newer) < o + PageSize
      BY <1>1, <2>1, PageOfRank
    <2>4. o \in offsets
      BY <1>1, <1>3, <1>4, <2>1, <2>2, <2>3
    <2>5. served[o] \in List!Pages([filter |-> f, offset |-> o])
      BY <2>4 DEF ids
    <2>6. PICK a \in List!Newest(ids, o), b \in List!Newest(ids, o + PageSize) :
            served[o] = b \ a
      BY <2>5 DEF List!Pages, ids
    <2>7. \A j, k \in ids : row[j].at = row[k].at => j = k
      BY DEF ids
    <2>8. i \in a <=> Cardinality(newer) < o
      BY <1>2, <1>3, <2>3, <2>7, NewestByRank DEF newer
    <2>9. i \in b <=> Cardinality(newer) < o + PageSize
      <3>1. o + PageSize \in Nat
        BY <1>1
      <3> QED
        BY <1>2, <1>3, <2>7, <3>1, NewestByRank DEF newer
    <2> QED
      BY <2>1, <2>3, <2>4, <2>6, <2>8, <2>9
  <1>6. \A o \in offsets : served[o] \in SUBSET ids
    BY DEF ids
  <1> QED
    BY <1>5, <1>6 DEF ids

-----------------------------------------------------------------------------
(* Templates.  The argument is one for any ids and any bound of the         *)
(* requests, of which the run's two forms are instances.  The id that is    *)
(* edited goes with the row the form was filled from, through every answer  *)
(* that empties the form, and a request closes over both at once.           *)

Forms(ids, max) == INSTANCE TemplateForm
  WITH Ids <- ids, MaxCalls <- max, table <- templates, open <- formOpen, list <- formList,
       saving <- formSaving, calls <- formCalls

FormRows(ids) == [ids -> Contents \cup {None}]
FormCall(ids) ==
  [op : {"save", "remove", "list"}, id : ids \cup {None}, form : Contents,
   edits : ids \cup {None}, from : ids \cup {None}, saves : BOOLEAN,
   answer : {"none", "ok", "error"}, got : FormRows(ids)]

FormPage(ids) ==
  /\ templates \in FormRows(ids)
  /\ formOpen \in BOOLEAN /\ formList \in FormRows(ids) \cup {None}
  /\ form \in Contents /\ editing \in ids \cup {None}
  /\ from = editing
FormRequests(ids) ==
  /\ formCalls \subseteq FormCall(ids)
  /\ \A c \in formCalls : c.op = "save" => c.id = c.from
  /\ formSaving \in BOOLEAN
  /\ formSaving = TRUE <=> \E c \in formCalls : c.saves = TRUE
  /\ \A c, d \in formCalls : c.saves = TRUE /\ d.saves = TRUE => c = d
FormInv(ids) == FormPage(ids) /\ FormRequests(ids)

\* What is written to the table is of the kinds the form offers.
LEMMA ContentsAreClosed ==
  ASSUME NEW ids, NEW max, NEW f \in Contents, NEW g \in Contents
  PROVE  /\ Forms(ids, max)!Typed(f) \in Contents
         /\ Forms(ids, max)!Updated(g, f) \in Contents
  BY DEF Contents, Forms!Empty, Forms!Typed, Forms!Updated, Forms!HasSubject

\* So is an empty form.
LEMMA EmptyIsAContent ==
  ASSUME NEW ids, NEW max PROVE Forms(ids, max)!Empty \in Contents
  BY DEF Contents, Forms!Empty

\* An answer, or the refresh that follows, takes the place of its request.
LEMMA FormAnswered ==
  ASSUME NEW ids, FormRequests(ids), NEW c \in formCalls, NEW d \in FormCall(ids),
         d.saves = c.saves, d.op = "save" => d.id = d.from,
         formCalls' = (formCalls \ {c}) \cup {d}, formSaving' = formSaving
  PROVE  FormRequests(ids)'
  <1>1. \A x \in formCalls' : x = d \/ (x \in formCalls /\ x # c)
    OBVIOUS
  <1>2. \A x \in formCalls : x = c \/ x \in formCalls'
    OBVIOUS
  <1>3. d \in formCalls'
    OBVIOUS
  <1>4. formSaving' = TRUE <=> \E x \in formCalls' : x.saves = TRUE
    BY <1>1, <1>2, <1>3 DEF FormRequests
  <1> QED
    BY <1>1, <1>4 DEF FormRequests

\* A request is sent that no submission waits for, or the only one that does.
LEMMA FormSends ==
  ASSUME NEW ids, FormRequests(ids), NEW d \in FormCall(ids),
         d.op = "save" => d.id = d.from,
         formCalls' = formCalls \cup {d},
         \/ d.saves = FALSE /\ formSaving' = formSaving
         \/ d.saves = TRUE /\ formSaving = FALSE /\ formSaving' = TRUE
  PROVE  FormRequests(ids)'
  <1>1. \A x \in formCalls' : x = d \/ x \in formCalls
    OBVIOUS
  <1>2. d \in formCalls' /\ formCalls \subseteq formCalls'
    OBVIOUS
  <1> QED
    BY <1>1, <1>2 DEF FormRequests

\* Every step of a form keeps its invariant.
LEMMA FormKeeps ==
  ASSUME NEW ids, NEW max, FormInv(ids), Forms(ids, max)!Next
  PROVE  FormInv(ids)'
  <1>0. Forms(ids, max)!Listing \in FormCall(ids) /\ Forms(ids, max)!Listing.saves = FALSE
        /\ Forms(ids, max)!Listing.op = "list"
    BY EmptyIsAContent DEF Forms!Listing, Forms!NoRows, FormCall, FormRows
  <1>1. CASE Forms(ids, max)!Mount
    BY <1>1, <1>0, FormSends DEF Forms!Mount, Forms!Send, FormInv, FormPage
  <1>2. CASE Forms(ids, max)!Leave
    BY <1>2, EmptyIsAContent DEF Forms!Leave, FormInv, FormPage, FormRequests
  <1>3. CASE Forms(ids, max)!Cancel
    BY <1>3, EmptyIsAContent DEF Forms!Cancel, Forms!CancelEdit, FormInv, FormPage, FormRequests
  <1>4. CASE Forms(ids, max)!Submit
    <2>1. Forms(ids, max)!Saving \in FormCall(ids) /\ Forms(ids, max)!Saving.saves = TRUE
          /\ Forms(ids, max)!Saving.id = Forms(ids, max)!Saving.from
      BY <1>0 DEF Forms!Saving, Forms!Listing, FormCall, FormInv, FormPage
    <2> QED
      BY <1>4, <2>1, FormSends DEF Forms!Submit, Forms!Send, FormInv, FormPage, FormRequests
  <1>5. ASSUME NEW i \in ids, Forms(ids, max)!StartEdit(i)
        PROVE  FormInv(ids)'
    BY <1>5 DEF Forms!StartEdit, FormInv, FormPage, FormRequests, FormRows
  <1>6. ASSUME NEW i \in ids, Forms(ids, max)!Remove(i)
        PROVE  FormInv(ids)'
    <2>1. Forms(ids, max)!Removal(i) \in FormCall(ids) /\ Forms(ids, max)!Removal(i).saves = FALSE
          /\ Forms(ids, max)!Removal(i).op = "remove"
      BY <1>0 DEF Forms!Removal, Forms!Listing, FormCall, FormInv, FormPage
    <2> QED
      BY <1>6, <2>1, FormSends DEF Forms!Remove, Forms!Send, Forms!page, FormInv, FormPage
  <1>7. ASSUME NEW i \in ids, Forms(ids, max)!Elsewhere(i)
        PROVE  FormInv(ids)'
    <2>1. \A f \in Contents : Forms(ids, max)!Typed(f) \in Contents
      BY ContentsAreClosed
    <2> QED
      BY <1>7, <2>1 DEF Forms!Elsewhere, Forms!page, FormInv, FormPage, FormRequests, FormRows
  <1>8. ASSUME NEW c \in Contents, Forms(ids, max)!Type(c)
        PROVE  FormInv(ids)'
    BY <1>8 DEF Forms!Type, FormInv, FormPage, FormRequests
  <1>9. ASSUME NEW c \in formCalls, Forms(ids, max)!Serve(c) \/ Forms(ids, max)!Fail(c)
        PROVE  FormInv(ids)'
    <2>1. c \in FormCall(ids) /\ (c.op = "save" => c.id = c.from)
      BY DEF FormInv, FormRequests
    <2>2. ASSUME NEW answer \in {"ok", "error"}, formSaving' = formSaving,
                 Forms(ids, max)!Answered(c, [c EXCEPT !.answer = answer])
          PROVE  FormRequests(ids)'
      <3>1. /\ [c EXCEPT !.answer = answer] \in FormCall(ids)
            /\ [c EXCEPT !.answer = answer].saves = c.saves
            /\ [c EXCEPT !.answer = answer].op = "save"
                 => [c EXCEPT !.answer = answer].id = [c EXCEPT !.answer = answer].from
        BY <2>1 DEF FormCall
      <3> QED
        BY <2>2, <3>1, FormAnswered DEF FormInv, Forms!Answered
    <2>3. ASSUME templates' \in FormRows(ids), UNCHANGED Forms(ids, max)!page
          PROVE  FormPage(ids)'
      BY <2>3 DEF FormInv, FormPage, Forms!page
    <2>4. CASE Forms(ids, max)!Fail(c)
      BY <2>2, <2>3, <2>4 DEF Forms!Fail, Forms!page, FormInv, FormPage
    <2>5. CASE Forms(ids, max)!Serve(c)
      <3>1. CASE c.op = "list"
        <4>1. templates' = templates /\ UNCHANGED Forms(ids, max)!page
              /\ Forms(ids, max)!Answered(c, [c EXCEPT !.answer = "ok", !.got = templates])
          BY <2>5, <3>1 DEF Forms!Serve
        <4>2. [c EXCEPT !.answer = "ok", !.got = templates] \in FormCall(ids)
          BY <2>1 DEF FormCall, FormInv, FormPage
        <4>3. /\ [c EXCEPT !.answer = "ok", !.got = templates].saves = c.saves
              /\ [c EXCEPT !.answer = "ok", !.got = templates].op # "save"
          BY <2>1, <3>1 DEF FormCall
        <4>4. FormRequests(ids)'
          BY <4>1, <4>2, <4>3, FormAnswered DEF Forms!Answered, Forms!page, FormInv
        <4> QED
          BY <2>3, <4>1, <4>4 DEF FormInv, FormPage
      <3>2. CASE c.op # "list"
        <4>1. /\ UNCHANGED Forms(ids, max)!page
              /\ Forms(ids, max)!Answered(c, [c EXCEPT !.answer = "ok"])
          BY <2>5, <3>2 DEF Forms!Serve
        <4>2. templates' \in FormRows(ids)
          <5>1. \A f, g \in Contents : /\ Forms(ids, max)!Typed(f) \in Contents
                                       /\ Forms(ids, max)!Updated(g, f) \in Contents
            BY ContentsAreClosed
          <5>2. c.form \in Contents /\ c.id \in ids \cup {None}
            BY <2>1 DEF FormCall
          <5>3. templates \in FormRows(ids)
            BY DEF FormInv, FormPage
          <5>4. CASE templates' = [templates EXCEPT ![c.id] = None]
            BY <5>3, <5>4 DEF FormRows
          <5>5. ASSUME NEW i \in ids, templates' = [templates EXCEPT ![i] = Forms(ids, max)!Typed(c.form)]
                PROVE  templates' \in FormRows(ids)
            BY <5>1, <5>2, <5>3, <5>5 DEF FormRows
          <5>6. CASE /\ c.id # None /\ templates[c.id] # None
                     /\ templates' = [templates EXCEPT ![c.id] = Forms(ids, max)!Updated(@, c.form)]
            BY <5>1, <5>2, <5>3, <5>6 DEF FormRows
          <5> QED
            BY <2>5, <3>2, <5>4, <5>5, <5>6 DEF Forms!Serve
        <4> QED
          BY <2>2, <2>3, <4>1, <4>2 DEF FormInv, Forms!page
      <3> QED
        BY <3>1, <3>2
    <2> QED
      BY <1>9, <2>4, <2>5
  <1>10. ASSUME NEW c \in formCalls, Forms(ids, max)!Saved(c) \/ Forms(ids, max)!Removed(c)
         PROVE  FormInv(ids)'
    <2>1. c \in FormCall(ids)
      BY DEF FormInv, FormRequests
    <2>2. /\ Forms(ids, max)!Relist(c)
          /\ UNCHANGED <<templates, formOpen, formList, formSaving>>
          /\ Forms(ids, max)!CancelEdit \/ UNCHANGED <<form, editing, from>>
      BY <1>10 DEF Forms!Saved, Forms!Removed
    <2>3. FormPage(ids)'
      BY <2>2, EmptyIsAContent DEF FormInv, FormPage, Forms!CancelEdit
    <2>4. /\ [Forms(ids, max)!Listing EXCEPT !.saves = c.saves] \in FormCall(ids)
          /\ [Forms(ids, max)!Listing EXCEPT !.saves = c.saves].saves = c.saves
          /\ [Forms(ids, max)!Listing EXCEPT !.saves = c.saves].op = "list"
      BY <1>0, <2>1 DEF FormCall
    <2>5. FormRequests(ids)'
      BY <2>2, <2>4, FormAnswered DEF Forms!Relist, Forms!Answered, FormInv
    <2> QED
      BY <2>3, <2>5 DEF FormInv
  <1>11. ASSUME NEW c \in formCalls, Forms(ids, max)!Over(c)
         PROVE  FormInv(ids)'
    <2>1. c \in FormCall(ids)
      BY DEF FormInv, FormRequests
    <2>2. formList' \in FormRows(ids) \cup {None}
      BY <1>11, <2>1 DEF Forms!Over, FormInv, FormPage, FormCall
    <2>3. FormPage(ids)'
      BY <1>11, <2>2 DEF Forms!Over, FormInv, FormPage
    <2>4. \A d \in formCalls : d \in formCalls' <=> d # c
      BY <1>11 DEF Forms!Over
    <2>5. formSaving' \in BOOLEAN /\ (formSaving' = TRUE <=> formSaving = TRUE /\ c.saves = FALSE)
      BY <1>11, <2>1 DEF Forms!Over, FormCall, FormInv, FormRequests
    <2>6. formCalls' \subseteq formCalls
      BY <1>11 DEF Forms!Over
    <2>7. \A d \in formCalls : d.saves \in BOOLEAN
      BY DEF FormInv, FormRequests, FormCall
    <2>8. FormRequests(ids)'
      BY <2>4, <2>5, <2>6, <2>7 DEF FormInv, FormRequests
    <2> QED
      BY <2>3, <2>8 DEF FormInv
  <1> QED
    BY <1>1, <1>2, <1>3, <1>4, <1>5, <1>6, <1>7, <1>8, <1>9, <1>10, <1>11 DEF Forms!Next

\* A form starts closed, with nothing asked for.
LEMMA FormStarts ==
  ASSUME NEW ids, NEW max, Forms(ids, max)!Init
  PROVE  FormInv(ids)
  <1>1. \A f \in Contents : Forms(ids, max)!Typed(f) \in Contents
    BY ContentsAreClosed
  <1>2. Forms(ids, max)!Empty \in Contents
    BY EmptyIsAContent
  <1>3. templates \in FormRows(ids)
    BY <1>1 DEF Forms!Init, FormRows
  <1> QED
    BY <1>2, <1>3 DEF Forms!Init, FormInv, FormPage, FormRequests

\* The invariant says what the form's variables are.
LEMMA FormIsTyped ==
  ASSUME NEW ids, NEW max, FormInv(ids)
  PROVE  Forms(ids, max)!TypeOK /\ Forms(ids, max)!RightTarget
  <1>1. \A f \in Contents : f \in Forms(ids, max)!Row
    BY DEF Contents, Forms!Row
  <1>2. \A t \in FormRows(ids) : t \in Forms(ids, max)!Rows
    BY <1>1 DEF FormRows, Forms!Rows
  <1>3. \A c \in formCalls : c \in Forms(ids, max)!Call
    <2> SUFFICES ASSUME NEW c \in formCalls PROVE c \in Forms(ids, max)!Call
      OBVIOUS
    <2>1. c \in FormCall(ids)
      BY DEF FormInv, FormRequests
    <2> QED
      BY <1>2, <2>1 DEF FormCall, Forms!Call
  <1>4. formSaving = \E c \in formCalls : c.saves
    <2>1. \A c \in formCalls : c.saves \in BOOLEAN
      BY DEF FormInv, FormRequests, FormCall
    <2> QED
      BY <2>1 DEF FormInv, FormRequests
  <1>5. Forms(ids, max)!RightTarget
    BY DEF FormInv, FormRequests, Forms!RightTarget
  <1> QED
    BY <1>2, <1>3, <1>4, <1>5 DEF FormInv, FormPage, Forms!TypeOK

\* The two forms the runs follow are of this kind.
LEMMA OneTemplateIsAForm ==
  /\ OneTemplate!Init <=> Forms({Template}, MaxCalls)!Init
  /\ OneTemplate!Next <=> Forms({Template}, MaxCalls)!Next
  /\ OneTemplate!TypeOK <=> Forms({Template}, MaxCalls)!TypeOK
  /\ OneTemplate!RightTarget <=> Forms({Template}, MaxCalls)!RightTarget
  <1>1. OneTemplate!Init <=> Forms({Template}, MaxCalls)!Init
    BY DEF OneTemplate!Init, Forms!Init, OneTemplate!Empty, Forms!Empty, OneTemplate!Typed,
           Forms!Typed, OneTemplate!HasSubject, Forms!HasSubject
  <1>2. OneTemplate!Next <=> Forms({Template}, MaxCalls)!Next
    BY DEF OneTemplate!Next, Forms!Next, OneTemplate!Mount, Forms!Mount, OneTemplate!Leave,
           Forms!Leave, OneTemplate!Cancel, Forms!Cancel, OneTemplate!CancelEdit, Forms!CancelEdit,
           OneTemplate!Submit, Forms!Submit, OneTemplate!StartEdit, Forms!StartEdit,
           OneTemplate!Remove, Forms!Remove, OneTemplate!Elsewhere, Forms!Elsewhere,
           OneTemplate!Type, Forms!Type, OneTemplate!Serve, Forms!Serve, OneTemplate!Fail,
           Forms!Fail, OneTemplate!Saved, Forms!Saved, OneTemplate!Removed, Forms!Removed,
           OneTemplate!Over, Forms!Over, OneTemplate!Relist, Forms!Relist, OneTemplate!Answered,
           Forms!Answered, OneTemplate!Updated, Forms!Updated, OneTemplate!HasSubject,
           Forms!HasSubject, OneTemplate!Typed, Forms!Typed, OneTemplate!Empty, Forms!Empty,
           OneTemplate!Listing, Forms!Listing, OneTemplate!Saving, Forms!Saving,
           OneTemplate!Removal, Forms!Removal, OneTemplate!NoRows, Forms!NoRows, OneTemplate!Send,
           Forms!Send, OneTemplate!page, Forms!page, OneTemplate!Cardinality, Forms!Cardinality
  <1>3. OneTemplate!TypeOK <=> Forms({Template}, MaxCalls)!TypeOK
    BY DEF OneTemplate!TypeOK, Forms!TypeOK, OneTemplate!Row, Forms!Row, OneTemplate!Rows,
           Forms!Rows, OneTemplate!Call, Forms!Call
  <1>4. OneTemplate!RightTarget <=> Forms({Template}, MaxCalls)!RightTarget
    BY DEF OneTemplate!RightTarget, Forms!RightTarget
  <1> QED
    BY <1>1, <1>2, <1>3, <1>4

\* The second.
LEMMA TwoTemplatesIsAForm ==
  /\ TwoTemplates!Init <=> Forms({Template, Other}, 1)!Init
  /\ TwoTemplates!Next <=> Forms({Template, Other}, 1)!Next
  /\ TwoTemplates!TypeOK <=> Forms({Template, Other}, 1)!TypeOK
  /\ TwoTemplates!RightTarget <=> Forms({Template, Other}, 1)!RightTarget
  <1>1. TwoTemplates!Init <=> Forms({Template, Other}, 1)!Init
    BY DEF TwoTemplates!Init, Forms!Init, TwoTemplates!Empty, Forms!Empty, TwoTemplates!Typed,
           Forms!Typed, TwoTemplates!HasSubject, Forms!HasSubject
  <1>2. TwoTemplates!Next <=> Forms({Template, Other}, 1)!Next
    BY DEF TwoTemplates!Next, Forms!Next, TwoTemplates!Mount, Forms!Mount, TwoTemplates!Leave,
           Forms!Leave, TwoTemplates!Cancel, Forms!Cancel, TwoTemplates!CancelEdit,
           Forms!CancelEdit, TwoTemplates!Submit, Forms!Submit, TwoTemplates!StartEdit,
           Forms!StartEdit, TwoTemplates!Remove, Forms!Remove, TwoTemplates!Elsewhere,
           Forms!Elsewhere, TwoTemplates!Type, Forms!Type, TwoTemplates!Serve, Forms!Serve,
           TwoTemplates!Fail, Forms!Fail, TwoTemplates!Saved, Forms!Saved, TwoTemplates!Removed,
           Forms!Removed, TwoTemplates!Over, Forms!Over, TwoTemplates!Relist, Forms!Relist,
           TwoTemplates!Answered, Forms!Answered, TwoTemplates!Updated, Forms!Updated,
           TwoTemplates!HasSubject, Forms!HasSubject, TwoTemplates!Typed, Forms!Typed,
           TwoTemplates!Empty, Forms!Empty, TwoTemplates!Listing, Forms!Listing,
           TwoTemplates!Saving, Forms!Saving, TwoTemplates!Removal, Forms!Removal,
           TwoTemplates!NoRows, Forms!NoRows, TwoTemplates!Send, Forms!Send, TwoTemplates!page,
           Forms!page, TwoTemplates!Cardinality, Forms!Cardinality
  <1>3. TwoTemplates!TypeOK <=> Forms({Template, Other}, 1)!TypeOK
    BY DEF TwoTemplates!TypeOK, Forms!TypeOK, TwoTemplates!Row, Forms!Row, TwoTemplates!Rows,
           Forms!Rows, TwoTemplates!Call, Forms!Call
  <1>4. TwoTemplates!RightTarget <=> Forms({Template, Other}, 1)!RightTarget
    BY DEF TwoTemplates!RightTarget, Forms!RightTarget
  <1> QED
    BY <1>1, <1>2, <1>3, <1>4

-----------------------------------------------------------------------------
(* Keys.  While a submission is under way the button is disabled, so that   *)
(* one key at most is asked for; the banner it was asked under is still on  *)
(* the screen when it is shown, or was dismissed.                           *)

KeyRequests ==
  /\ \A c \in keysCalls :
       /\ c.op = "create" => c.saves = TRUE /\ newKey \in {None, c.over}
       /\ c.op = "create" /\ c.answer = "ok" => c.key # None
       /\ c.key # None => c.op = "create" /\ key[c.key] # None
       /\ c.saves = TRUE => keysSaving = TRUE
  /\ \A c, d \in keysCalls : c.saves = TRUE /\ d.saves = TRUE => c = d
KeyInv == KeyForm!TypeOK /\ KeyRequests

\* A listing asks for no key.
LEMMA ListingIsACall ==
  ASSUME NEW saves \in BOOLEAN
  PROVE  /\ KeyForm!Listing(saves) \in KeyForm!Call
         /\ KeyForm!Listing(saves).op = "list" /\ KeyForm!Listing(saves).key = None
         /\ KeyForm!Listing(saves).saves = saves
  BY DEF KeyForm!Listing, KeyForm!Call, KeyForm!Form, KeyForm!EmptyForm

\* A request that waits for nothing is sent, while the rest stays.
LEMMA KeySends ==
  ASSUME KeyInv, KeyForm!Send(KeyForm!Listing(FALSE)),
         UNCHANGED <<tenant, key, keysForm, keysSaving, options, newKey>>, keysOpen' \in BOOLEAN
  PROVE  KeyInv'
  <1>1. \A c \in keysCalls' : c = KeyForm!Listing(FALSE) \/ c \in keysCalls
    BY DEF KeyForm!Send
  <1>2. KeyForm!TypeOK'
    BY <1>1, ListingIsACall DEF KeyInv, KeyForm!TypeOK
  <1>3. KeyRequests'
    BY <1>1, ListingIsACall DEF KeyInv, KeyRequests
  <1> QED
    BY <1>2, <1>3 DEF KeyInv

\* Every step of the form keeps its invariant.
LEMMA KeyFormKeeps ==
  ASSUME KeyInv, KeyForm!Next
  PROVE  KeyInv'
  <1>0. /\ Platform \notin {Tenant} /\ None \notin Keys /\ None \notin KeyForm!KeyRow
        /\ KeyForm!EmptyForm \in KeyForm!Form
    BY PartAssumptions DEF KeyForm!FormAssumption, KeyForm!EmptyForm, KeyForm!Form
  <1>1. ASSUME NEW t \in {Tenant}, KeyForm!TenantChanges(t)
        PROVE  KeyInv'
    BY <1>1 DEF KeyForm!TenantChanges, KeyForm!page, KeyInv, KeyForm!TypeOK, KeyRequests
  <1>2. CASE KeyForm!Mount
    BY <1>2, KeySends DEF KeyForm!Mount
  <1>3. CASE KeyForm!Leave
    BY <1>0, <1>3 DEF KeyForm!Leave, KeyInv, KeyForm!TypeOK, KeyRequests
  <1>4. CASE KeyForm!Refresh
    BY <1>4, KeySends DEF KeyForm!Refresh, KeyForm!page, KeyInv, KeyForm!TypeOK
  <1>5. CASE KeyForm!Submit
    <2>1. KeyForm!Creating \in KeyForm!Call
      BY ListingIsACall DEF KeyForm!Creating, KeyForm!Call, KeyInv, KeyForm!TypeOK
    <2>2. /\ KeyForm!Creating.op = "create" /\ KeyForm!Creating.saves = TRUE
          /\ KeyForm!Creating.over = newKey /\ KeyForm!Creating.key = None
          /\ KeyForm!Creating.answer = "none"
      BY DEF KeyForm!Creating, KeyForm!Listing
    <2>3. \A c \in keysCalls' : c = KeyForm!Creating \/ c \in keysCalls
      BY <1>5 DEF KeyForm!Submit, KeyForm!Send
    <2>4. \A c \in keysCalls : c.saves # TRUE
      BY <1>5 DEF KeyForm!Submit, KeyInv, KeyRequests
    <2>5. UNCHANGED <<tenant, key, keysOpen, keysForm, options, newKey>> /\ keysSaving' = TRUE
      BY <1>5 DEF KeyForm!Submit
    <2>6. KeyForm!TypeOK'
      BY <2>1, <2>3, <2>5 DEF KeyInv, KeyForm!TypeOK
    <2>7. KeyRequests'
      BY <2>2, <2>3, <2>4, <2>5 DEF KeyInv, KeyRequests
    <2> QED
      BY <2>6, <2>7 DEF KeyInv
  <1>6. CASE KeyForm!Dismiss
    BY <1>6 DEF KeyForm!Dismiss, KeyInv, KeyForm!TypeOK, KeyRequests
  <1>7. ASSUME NEW t \in {Tenant} \cup {Platform}, KeyForm!Choose(t)
        PROVE  KeyInv'
    <2>1. keysForm' \in KeyForm!Form
      BY <1>7 DEF KeyForm!Choose, KeyInv, KeyForm!TypeOK, KeyForm!Form
    <2> QED
      BY <1>7, <2>1 DEF KeyForm!Choose, KeyInv, KeyForm!TypeOK, KeyRequests
  <1>8. ASSUME NEW c \in {"email"}, KeyForm!ToggleChannel(c)
        PROVE  KeyInv'
    <2>1. keysForm' \in KeyForm!Form
      BY <1>8 DEF KeyForm!ToggleChannel, KeyInv, KeyForm!TypeOK, KeyForm!Form
    <2> QED
      BY <1>8, <2>1 DEF KeyForm!ToggleChannel, KeyInv, KeyForm!TypeOK, KeyRequests
  <1>9. ASSUME NEW c \in keysCalls, KeyForm!Mint(c)
        PROVE  KeyInv'
    <2>1. PICK k \in Keys : /\ key[k] = None
                            /\ key' = [key EXCEPT ![k] = [tenantId |-> c.form.tenantId,
                                                          allowed |-> c.form.channels]]
                            /\ KeyForm!Answered(c, [c EXCEPT !.answer = "ok", !.key = k])
      BY <1>9 DEF KeyForm!Mint
    <2> DEFINE d == [c EXCEPT !.answer = "ok", !.key = k]
               r == [tenantId |-> c.form.tenantId, allowed |-> c.form.channels]
    <2>2. c \in KeyForm!Call /\ c.op = "create" /\ c.answer = "none"
      BY <1>9 DEF KeyForm!Mint, KeyInv, KeyForm!TypeOK
    <2>3. r \in KeyForm!KeyRow
      BY <2>2 DEF KeyForm!Call, KeyForm!Form, KeyForm!KeyRow
    <2>4. /\ d \in KeyForm!Call /\ d.op = "create" /\ d.answer = "ok" /\ d.key = k
          /\ d.saves = c.saves /\ d.over = c.over
      BY <2>2 DEF KeyForm!Call
    <2>5. \A x \in keysCalls' : x = d \/ (x \in keysCalls /\ x # c)
      BY <2>1 DEF KeyForm!Answered
    <2>6. UNCHANGED <<tenant, keysOpen, keysForm, keysSaving, options, newKey>>
      BY <1>9 DEF KeyForm!Mint, KeyForm!page
    <2> HIDE DEF d, r
    <2>7. /\ key' \in [Keys -> KeyForm!KeyRow \cup {None}]
          /\ key'[k] # None
          /\ \A y \in Keys : key[y] # None => key'[y] # None
      BY <1>0, <2>1, <2>3 DEF KeyInv, KeyForm!TypeOK, r
    <2>8. KeyForm!TypeOK'
      BY <2>4, <2>5, <2>6, <2>7 DEF KeyInv, KeyForm!TypeOK
    <2>9. \A x \in keysCalls : x.key \in Keys \cup {None}
      BY DEF KeyInv, KeyForm!TypeOK, KeyForm!Call
    <2>10. KeyRequests'
      BY <1>0, <2>2, <2>4, <2>5, <2>6, <2>7, <2>9 DEF KeyInv, KeyRequests
    <2> QED
      BY <2>8, <2>10 DEF KeyInv
  <1>10. ASSUME NEW c \in keysCalls, KeyForm!List(c)
         PROVE  KeyInv'
    <2> DEFINE got == {t \in {Tenant} : tenant[t] = "active"}
               d == [c EXCEPT !.answer = "ok", !.got = got]
    <2>1. c \in KeyForm!Call /\ c.op = "list"
      BY <1>10 DEF KeyForm!List, KeyInv, KeyForm!TypeOK
    <2>2. d \in KeyForm!Call /\ d.op = "list" /\ d.key = c.key /\ d.saves = c.saves
      BY <2>1 DEF KeyForm!Call
    <2>3. \A x \in keysCalls' : x = d \/ (x \in keysCalls /\ x # c)
      BY <1>10 DEF KeyForm!List, KeyForm!Answered
    <2>4. UNCHANGED <<tenant, key, keysOpen, keysForm, keysSaving, options, newKey>>
      BY <1>10 DEF KeyForm!List, KeyForm!page
    <2> HIDE DEF d
    <2>5. KeyForm!TypeOK'
      BY <2>2, <2>3, <2>4 DEF KeyInv, KeyForm!TypeOK
    <2>6. KeyRequests'
      BY <2>1, <2>2, <2>3, <2>4 DEF KeyInv, KeyRequests
    <2> QED
      BY <2>5, <2>6 DEF KeyInv
  <1>11. ASSUME NEW c \in keysCalls, KeyForm!Fail(c)
         PROVE  KeyInv'
    <2> DEFINE d == [c EXCEPT !.answer = "error"]
    <2>1. c \in KeyForm!Call
      BY DEF KeyInv, KeyForm!TypeOK
    <2>2. /\ d \in KeyForm!Call /\ d.op = c.op /\ d.key = c.key /\ d.saves = c.saves
          /\ d.over = c.over /\ d.answer = "error"
      BY <2>1 DEF KeyForm!Call
    <2>3. \A x \in keysCalls' : x = d \/ (x \in keysCalls /\ x # c)
      BY <1>11 DEF KeyForm!Fail, KeyForm!Answered
    <2>4. UNCHANGED <<tenant, key, keysOpen, keysForm, keysSaving, options, newKey>>
      BY <1>11 DEF KeyForm!Fail, KeyForm!page
    <2> HIDE DEF d
    <2>5. KeyForm!TypeOK'
      BY <2>2, <2>3, <2>4 DEF KeyInv, KeyForm!TypeOK
    <2>6. KeyRequests'
      BY <2>2, <2>3, <2>4 DEF KeyInv, KeyRequests
    <2> QED
      BY <2>5, <2>6 DEF KeyInv
  <1>12. ASSUME NEW c \in keysCalls, KeyForm!Banner(c)
         PROVE  KeyInv'
    <2>1. c \in KeyForm!Call /\ c.op = "create" /\ c.answer = "ok"
      BY <1>12 DEF KeyForm!Banner, KeyInv, KeyForm!TypeOK
    <2>2. c.saves = TRUE /\ keysSaving = TRUE
      BY <2>1 DEF KeyInv, KeyRequests
    <2>3. \A x \in keysCalls' : x = KeyForm!Listing(TRUE) \/ (x \in keysCalls /\ x # c)
      BY <1>12 DEF KeyForm!Banner, KeyForm!Answered
    <2>4. /\ UNCHANGED <<tenant, key, keysOpen, keysSaving, options>>
          /\ newKey' = c.key /\ keysForm' = KeyForm!EmptyForm
      BY <1>12 DEF KeyForm!Banner
    <2>5. c.key \in Keys /\ key[c.key] # None
      BY <2>1 DEF KeyInv, KeyRequests, KeyForm!Call
    <2>6. KeyForm!TypeOK'
      BY <1>0, <2>3, <2>4, <2>5, ListingIsACall DEF KeyInv, KeyForm!TypeOK
    <2>7. \A x \in keysCalls : x # c => x.saves # TRUE /\ x.op # "create"
      BY <2>2 DEF KeyInv, KeyRequests
    <2>8. KeyRequests'
      BY <2>2, <2>3, <2>4, <2>7, ListingIsACall DEF KeyInv, KeyRequests
    <2> QED
      BY <2>6, <2>8 DEF KeyInv
  <1>13. ASSUME NEW c \in keysCalls, KeyForm!Over(c)
         PROVE  KeyInv'
    <2>1. c \in KeyForm!Call
      BY DEF KeyInv, KeyForm!TypeOK
    <2>2. \A x \in keysCalls' : x \in keysCalls /\ x # c
      BY <1>13 DEF KeyForm!Over
    <2>3. options' \subseteq {Tenant} /\ keysSaving' \in BOOLEAN
      BY <1>13, <2>1 DEF KeyForm!Over, KeyInv, KeyForm!TypeOK, KeyForm!Call
    <2>4. UNCHANGED <<tenant, key, keysOpen, keysForm, newKey>>
      BY <1>13 DEF KeyForm!Over
    <2>5. KeyForm!TypeOK'
      BY <2>2, <2>3, <2>4 DEF KeyInv, KeyForm!TypeOK
    <2>6. keysSaving = TRUE /\ c.saves # TRUE => keysSaving' = TRUE
      BY <1>13, <2>1 DEF KeyForm!Over, KeyForm!Call
    <2>7. KeyRequests'
      BY <2>2, <2>4, <2>6 DEF KeyInv, KeyRequests
    <2> QED
      BY <2>5, <2>7 DEF KeyInv
  <1> QED
    BY <1>1, <1>2, <1>3, <1>4, <1>5, <1>6, <1>7, <1>8, <1>9, <1>10, <1>11, <1>12, <1>13
    DEF KeyForm!Next

\* The banner's place is taken by the answer to the request that saw it.
LEMMA KeyIsSeenFirst ==
  ASSUME KeyInv, KeyForm!Next
  PROVE  KeyForm!SeenFirst
  <1> SUFFICES ASSUME newKey # None, newKey' \notin {None, newKey},
                      NEW d \in keysCalls, d.key = newKey'
               PROVE  d.over = newKey
    BY DEF KeyForm!SeenFirst
  <1>1. ASSUME NEW c \in keysCalls, KeyForm!Banner(c)
        PROVE  d.over = newKey
    <2>1. c.op = "create" /\ c.key = d.key /\ d.key # None
      BY <1>1 DEF KeyForm!Banner
    <2>2. d.op = "create"
      BY <2>1 DEF KeyInv, KeyRequests
    <2> QED
      BY <2>2 DEF KeyInv, KeyRequests
  <1>2. newKey' \in {None, newKey} \/ \E c \in keysCalls : KeyForm!Banner(c)
    BY DEF KeyForm!Next, KeyForm!TenantChanges, KeyForm!Mount, KeyForm!Leave, KeyForm!Refresh,
           KeyForm!Submit, KeyForm!Dismiss, KeyForm!Choose, KeyForm!ToggleChannel, KeyForm!Mint,
           KeyForm!List, KeyForm!Fail, KeyForm!Over, KeyForm!page
  <1> QED
    BY <1>1, <1>2

-----------------------------------------------------------------------------
(* Tables, for any kind of page.  What a request will do at the server is   *)
(* fixed when the button is pressed: the row's label as it was listed then, *)
(* and whether a dialog was confirmed.                                      *)

Tables(kind) == INSTANCE AdminTable
  WITH Kind <- kind, Rows <- {TableRow}, row <- tableRow, open <- tableOpen,
       list <- tableList, saving <- tableSaving, calls <- tableCalls

TableTypes(kind) ==
  /\ tableRow \in [{TableRow} -> Tables(kind)!State]
  /\ tableOpen \in [Tabs -> BOOLEAN]
  /\ tableList \in [Tabs -> Tables(kind)!Listing \cup {None}]
  /\ tableSaving \in [Tabs -> BOOLEAN]
  /\ tableCalls \subseteq Tables(kind)!Call
Intended(kind, c) ==
  /\ c.op \in {"update", "delete"} => c.id = TableRow /\ c.read \in {"active", "paused"}
  /\ c.op = "delete" => c.asked = TRUE
  /\ c.op = "update" /\ c.read = "active" /\ kind = "tenants" => c.asked = TRUE
  /\ c.op = "list" /\ c.answer = "ok" => c.got \in Tables(kind)!Listing
  /\ c.tab = None => c.saves = FALSE /\ c.answer = "none" /\ c.op # "list"
TableRequests(kind) ==
  /\ \A c \in tableCalls : Intended(kind, c) /\ (c.saves = TRUE => tableSaving[c.tab] = TRUE)
  /\ \A t \in Tabs : tableSaving[t] = TRUE => \E c \in tableCalls : c.tab = t /\ c.saves = TRUE
  /\ \A c, d \in tableCalls : c.saves = TRUE /\ d.saves = TRUE /\ c.tab = d.tab => c = d
TableInv(kind) == TableTypes(kind) /\ TableRequests(kind)

\* A request of a tab, as it is sent.
LEMMA RequestIsACall ==
  ASSUME NEW kind, NEW t \in Tabs, NEW op \in {"list", "create", "update", "delete"}
  PROVE  /\ Tables(kind)!Request(t, op) \in Tables(kind)!Call
         /\ Tables(kind)!Request(t, op).tab = t /\ Tables(kind)!Request(t, op).op = op
         /\ Tables(kind)!Request(t, op).saves = FALSE
         /\ Tables(kind)!Request(t, op).answer = "none" /\ t # None
  BY PartAssumptions DEF TenantsPage!TableAssumption, Tables!Request, Tables!Call

\* A request is sent: one no submission waits for, or the only one of its tab.
LEMMA TableSends ==
  ASSUME NEW kind, TableInv(kind), NEW d \in Tables(kind)!Call, d.tab \in Tabs,
         Intended(kind, d), tableCalls' = tableCalls \cup {d},
         tableOpen' \in [Tabs -> BOOLEAN], UNCHANGED <<tableRow, tableList>>,
         \/ d.saves = FALSE /\ tableSaving' = tableSaving
         \/ /\ d.saves = TRUE /\ tableSaving[d.tab] = FALSE
            /\ tableSaving' = [tableSaving EXCEPT ![d.tab] = TRUE]
  PROVE  TableInv(kind)'
  <1>1. \A c \in tableCalls' : c = d \/ c \in tableCalls
    OBVIOUS
  <1>2. d \in tableCalls' /\ tableCalls \subseteq tableCalls'
    OBVIOUS
  <1>3. TableTypes(kind)'
    BY DEF TableInv, TableTypes
  <1>4. CASE d.saves = FALSE /\ tableSaving' = tableSaving
    BY <1>1, <1>2, <1>3, <1>4 DEF TableInv, TableRequests, Intended
  <1>5. CASE /\ d.saves = TRUE /\ tableSaving[d.tab] = FALSE
             /\ tableSaving' = [tableSaving EXCEPT ![d.tab] = TRUE]
    <2>1. \A c \in tableCalls : c.saves = TRUE => c.tab # d.tab
      BY <1>5 DEF TableInv, TableRequests
    <2>2. /\ tableSaving'[d.tab] = TRUE
          /\ \A x \in Tabs : x # d.tab => tableSaving'[x] = tableSaving[x]
      BY <1>5 DEF TableInv, TableTypes
    <2>3. \A c \in tableCalls : c.saves = TRUE => c.tab \in Tabs
      BY DEF TableInv, TableTypes, TableRequests, Intended, Tables!Call
    <2>4. TableRequests(kind)'
      BY <1>1, <1>2, <1>5, <2>1, <2>2, <2>3 DEF TableInv, TableRequests, Intended
    <2> QED
      BY <1>3, <2>4 DEF TableInv
  <1> QED
    BY <1>4, <1>5

\* A request, or the refresh that follows it, takes its place, while the tab's
\* button stays as it was.
LEMMA TableAnswered ==
  ASSUME NEW kind, TableInv(kind), NEW c \in tableCalls, NEW d \in Tables(kind)!Call,
         Intended(kind, d), d.tab = c.tab, d.saves = c.saves,
         tableCalls' = (tableCalls \ {c}) \cup {d},
         tableRow' \in [{TableRow} -> Tables(kind)!State],
         UNCHANGED <<tableOpen, tableList, tableSaving>>
  PROVE  TableInv(kind)'
  <1>1. \A x \in tableCalls' : x = d \/ (x \in tableCalls /\ x # c)
    OBVIOUS
  <1>2. d \in tableCalls' /\ \A x \in tableCalls : x = c \/ x \in tableCalls'
    OBVIOUS
  <1>3. TableTypes(kind)'
    BY <1>1 DEF TableInv, TableTypes
  <1>4. TableRequests(kind)'
    BY <1>1, <1>2 DEF TableInv, TableRequests, Intended
  <1> QED
    BY <1>3, <1>4 DEF TableInv

\* A request is over; with it ends the submission it belongs to.
LEMMA TableOver ==
  ASSUME NEW kind, TableInv(kind), NEW c \in tableCalls,
         tableCalls' = tableCalls \ {c},
         tableRow' \in [{TableRow} -> Tables(kind)!State],
         tableList' \in [Tabs -> Tables(kind)!Listing \cup {None}],
         UNCHANGED tableOpen,
         tableSaving' = IF c.saves THEN [tableSaving EXCEPT ![c.tab] = FALSE] ELSE tableSaving
  PROVE  TableInv(kind)'
  <1>1. \A x \in tableCalls' : x \in tableCalls /\ x # c
    OBVIOUS
  <1>2. \A x \in tableCalls : x = c \/ x \in tableCalls'
    OBVIOUS
  <1>3. c.saves \in BOOLEAN /\ c.tab \in Tabs \cup {None}
    BY DEF TableInv, TableTypes, Tables!Call
  <1>4. tableSaving' \in [Tabs -> BOOLEAN]
    BY <1>3 DEF TableInv, TableTypes
  <1>5. TableTypes(kind)'
    BY <1>1, <1>4 DEF TableInv, TableTypes
  <1>6. CASE c.saves = FALSE
    BY <1>1, <1>2, <1>5, <1>6 DEF TableInv, TableRequests, Intended
  <1>7. CASE c.saves = TRUE
    <2>1. \A x \in tableCalls' : x.saves = TRUE => x.tab # c.tab
      BY <1>1, <1>7 DEF TableInv, TableRequests
    <2>2. c.tab \in Tabs
      BY <1>3, <1>7 DEF TableInv, TableRequests, Intended
    <2>3. /\ tableSaving'[c.tab] = FALSE
          /\ \A x \in Tabs : x # c.tab => tableSaving'[x] = tableSaving[x]
      BY <1>7, <2>2 DEF TableInv, TableTypes
    <2>4. \A x \in tableCalls : x.saves = TRUE => x.tab \in Tabs
      BY DEF TableInv, TableTypes, TableRequests, Intended, Tables!Call
    <2>5. TableRequests(kind)'
      BY <1>1, <1>2, <2>1, <2>3, <2>4 DEF TableInv, TableRequests, Intended
    <2> QED
      BY <1>5, <2>5 DEF TableInv
  <1> QED
    BY <1>3, <1>6, <1>7

\* What becomes of a request when its page is left, and what a row's button sends.
LeftCall(d) == [d EXCEPT !.tab = None, !.saves = FALSE]
Pressed(kind, t, op, asked) ==
  [Tables(kind)!Request(t, op) EXCEPT !.id = TableRow, !.read = tableList[t][TableRow], !.asked = asked]

\* Every step of a table's page keeps its invariant.
LEMMA TableKeeps ==
  ASSUME NEW kind, TableInv(kind), Tables(kind)!Next
  PROVE  TableInv(kind)'
  <1>1. ASSUME NEW t \in Tabs, Tables(kind)!Mount(t)
        PROVE  TableInv(kind)'
    <2>1. tableOpen' \in [Tabs -> BOOLEAN]
      BY <1>1 DEF Tables!Mount, TableInv, TableTypes
    <2>2. /\ Tables(kind)!Request(t, "list") \in Tables(kind)!Call
          /\ Tables(kind)!Request(t, "list").tab = t /\ Tables(kind)!Request(t, "list").op = "list"
          /\ Tables(kind)!Request(t, "list").saves = FALSE
          /\ Tables(kind)!Request(t, "list").answer = "none" /\ t # None
      BY RequestIsACall
    <2>3. Intended(kind, Tables(kind)!Request(t, "list"))
      BY <2>2 DEF Intended
    <2> QED
      BY <1>1, <2>1, <2>2, <2>3, TableSends DEF Tables!Mount, Tables!Send
  <1>2. ASSUME NEW t \in Tabs, Tables(kind)!Leave(t)
        PROVE  TableInv(kind)'
    <2>0. tableCalls' = (tableCalls \ {c \in tableCalls : c.tab = t})
                          \cup {LeftCall(c) : c \in {d \in {x \in tableCalls : x.tab = t} :
                                                  d.answer = "none" /\ d.op # "list"}}
      BY <1>2 DEF Tables!Leave, Tables!Of, LeftCall
    <2>1. \A c \in tableCalls' :
            \/ c \in tableCalls /\ c.tab # t
            \/ \E d \in tableCalls : d.tab = t /\ d.answer = "none" /\ d.op # "list" /\ c = LeftCall(d)
      BY <2>0
    <2>2. ASSUME NEW d \in tableCalls, d.tab = t, d.answer = "none", d.op # "list"
          PROVE  LeftCall(d) \in Tables(kind)!Call /\ Intended(kind, LeftCall(d)) /\ LeftCall(d).saves = FALSE
      <3>1. d \in Tables(kind)!Call /\ Intended(kind, d)
        BY DEF TableInv, TableTypes, TableRequests
      <3>2. LeftCall(d) \in Tables(kind)!Call
        BY <3>1 DEF Tables!Call, LeftCall
      <3>3. /\ LeftCall(d).op = d.op /\ LeftCall(d).id = d.id /\ LeftCall(d).read = d.read
            /\ LeftCall(d).asked = d.asked /\ LeftCall(d).answer = d.answer /\ LeftCall(d).got = d.got
            /\ LeftCall(d).saves = FALSE
        BY <3>1 DEF Tables!Call, LeftCall
      <3> QED
        BY <2>2, <3>1, <3>2, <3>3 DEF Intended
    <2>3. \A c \in tableCalls : c.tab # t => c \in tableCalls'
      BY <2>0
    <2>4. /\ UNCHANGED tableRow /\ tableOpen' \in [Tabs -> BOOLEAN]
          /\ tableList' \in [Tabs -> Tables(kind)!Listing \cup {None}]
          /\ tableSaving' \in [Tabs -> BOOLEAN]
          /\ tableSaving'[t] = FALSE
          /\ \A x \in Tabs : x # t => tableSaving'[x] = tableSaving[x]
      BY <1>2 DEF Tables!Leave, TableInv, TableTypes
    <2>5. TableTypes(kind)'
      <3>1. ASSUME NEW c \in tableCalls'
            PROVE  c \in Tables(kind)!Call
        <4>1. CASE c \in tableCalls
          BY <4>1 DEF TableInv, TableTypes
        <4>2. ASSUME NEW d \in tableCalls, d.tab = t, d.answer = "none", d.op # "list",
                     c = LeftCall(d)
              PROVE  c \in Tables(kind)!Call
          BY <2>2, <4>2
        <4> QED
          BY <2>1, <4>1, <4>2
      <3> QED
        BY <2>4, <3>1 DEF TableInv, TableTypes
    <2>6. ASSUME NEW c \in tableCalls'
          PROVE  Intended(kind, c)
      <3>1. CASE c \in tableCalls
        BY <3>1 DEF TableInv, TableRequests
      <3>2. ASSUME NEW d \in tableCalls, d.tab = t, d.answer = "none", d.op # "list",
                   c = LeftCall(d)
            PROVE  Intended(kind, c)
        BY <2>2, <3>2
      <3> QED
        BY <2>1, <3>1, <3>2
    <2>7. \A c \in tableCalls' : c.saves = TRUE => c \in tableCalls /\ c.tab # t
      BY <2>1, <2>2
    <2>8. \A c \in tableCalls : c.saves = TRUE => c.tab \in Tabs
      BY DEF TableInv, TableTypes, TableRequests, Intended, Tables!Call
    <2>9. TableRequests(kind)'
      BY <2>3, <2>4, <2>6, <2>7, <2>8 DEF TableInv, TableRequests
    <2> QED
      BY <2>5, <2>9 DEF TableInv
  <1>3. ASSUME NEW t \in Tabs, Tables(kind)!Submit(t)
        PROVE  TableInv(kind)'
    <2> DEFINE d == [Tables(kind)!Request(t, "create") EXCEPT !.saves = TRUE]
    <2>0. /\ Tables(kind)!Request(t, "create") \in Tables(kind)!Call
          /\ Tables(kind)!Request(t, "create").tab = t /\ Tables(kind)!Request(t, "create").op = "create"
          /\ Tables(kind)!Request(t, "create").saves = FALSE
          /\ Tables(kind)!Request(t, "create").answer = "none" /\ t # None
      BY RequestIsACall
    <2>1. d \in Tables(kind)!Call
      BY <2>0 DEF Tables!Call
    <2>2. d.tab = t /\ d.saves = TRUE /\ d.op = "create" /\ d.tab # None
      BY <2>0 DEF Tables!Call
    <2>3. Intended(kind, d)
      BY <2>2 DEF Intended
    <2>4. tableSaving[t] = FALSE
      BY <1>3 DEF Tables!Submit, TableInv, TableTypes
    <2>5. /\ tableCalls' = tableCalls \cup {d}
          /\ tableSaving' = [tableSaving EXCEPT ![t] = TRUE]
          /\ UNCHANGED <<tableRow, tableOpen, tableList>>
      BY <1>3 DEF Tables!Submit, Tables!Send
    <2> HIDE DEF d
    <2> QED
      BY <2>1, <2>2, <2>3, <2>4, <2>5, TableSends DEF TableInv, TableTypes
  <1>4. ASSUME NEW t \in Tabs, NEW i \in {TableRow},
               Tables(kind)!Toggle(t, i) \/ Tables(kind)!Remove(t, i)
        PROVE  TableInv(kind)'
    <2>u. /\ Tables(kind)!Request(t, "update") \in Tables(kind)!Call
          /\ Tables(kind)!Request(t, "update").tab = t /\ Tables(kind)!Request(t, "update").op = "update"
          /\ Tables(kind)!Request(t, "update").saves = FALSE
          /\ Tables(kind)!Request(t, "update").answer = "none" /\ t # None
      BY RequestIsACall
    <2>d. /\ Tables(kind)!Request(t, "delete") \in Tables(kind)!Call
          /\ Tables(kind)!Request(t, "delete").tab = t /\ Tables(kind)!Request(t, "delete").op = "delete"
          /\ Tables(kind)!Request(t, "delete").saves = FALSE
          /\ Tables(kind)!Request(t, "delete").answer = "none" /\ t # None
      BY RequestIsACall
    <2>1. /\ tableList[t][i] \in {"active", "paused"}
          /\ UNCHANGED <<tableRow, tableOpen, tableList, tableSaving>>
      BY <1>4 DEF Tables!Toggle, Tables!ToggleTenant, Tables!ToggleKey, Tables!ToggleWebhook,
                  Tables!Remove, Tables!Listed, Tables!Listing, Tables!State, Tables!tab,
                  TableInv, TableTypes
    <2>2. ASSUME NEW op \in {"update", "delete"}, NEW asked \in BOOLEAN,
                 tableCalls' = tableCalls \cup {Pressed(kind, t, op, asked)},
                 op = "delete" => asked = TRUE,
                 op = "update" /\ kind = "tenants" => asked = (tableList[t][i] = "active")
          PROVE  TableInv(kind)'
      <3>0. /\ Tables(kind)!Request(t, op) \in Tables(kind)!Call
            /\ Tables(kind)!Request(t, op).tab = t /\ Tables(kind)!Request(t, op).op = op
            /\ Tables(kind)!Request(t, op).saves = FALSE
            /\ Tables(kind)!Request(t, op).answer = "none" /\ t # None
        BY <2>u, <2>d
      <3>1. Pressed(kind, t, op, asked) \in Tables(kind)!Call
        BY <2>1, <3>0 DEF Tables!Call, Pressed
      <3>2. /\ Pressed(kind, t, op, asked).tab = t /\ Pressed(kind, t, op, asked).op = op
            /\ Pressed(kind, t, op, asked).id = TableRow /\ Pressed(kind, t, op, asked).read = tableList[t][i]
            /\ Pressed(kind, t, op, asked).asked = asked /\ Pressed(kind, t, op, asked).saves = FALSE /\ t # None
        BY <3>0 DEF Tables!Call, Pressed
      <3>3. Intended(kind, Pressed(kind, t, op, asked))
        BY <2>1, <2>2, <3>2 DEF Intended
      <3> QED
        BY <2>1, <2>2, <3>1, <3>2, <3>3, TableSends DEF TableInv, TableTypes
    <2>3. Pressed(kind, t, "update", FALSE) = [Tables(kind)!Request(t, "update") EXCEPT
                                        !.id = i, !.read = tableList[t][i]]
      <3>1. Tables(kind)!Request(t, "update").asked = FALSE
        BY DEF Tables!Request
      <3>2. Tables(kind)!Request(t, "update") \in Tables(kind)!Call
        BY RequestIsACall
      <3> QED
        BY <3>1, <3>2 DEF Pressed, Tables!Call
    <2>4. CASE Tables(kind)!ToggleTenant(t, i)
      BY <2>1, <2>2, <2>4 DEF Tables!ToggleTenant, Tables!Send, Pressed
    <2>5. CASE Tables(kind)!ToggleKey(t, i)
      BY <2>2, <2>3, <2>5 DEF Tables!ToggleKey, Tables!Send
    <2>6. CASE Tables(kind)!ToggleWebhook(t, i)
      BY <2>2, <2>3, <2>6 DEF Tables!ToggleWebhook, Tables!Send
    <2>7. CASE Tables(kind)!Remove(t, i)
      BY <2>2, <2>7 DEF Tables!Remove, Tables!Send, Pressed
    <2> QED
      BY <1>4, <2>4, <2>5, <2>6, <2>7 DEF Tables!Toggle
  <1>5. ASSUME NEW c \in tableCalls, Tables(kind)!Serve(c) \/ Tables(kind)!Refuse(c)
        PROVE  TableInv(kind)'
    <2>1. c \in Tables(kind)!Call /\ Intended(kind, c)
      BY DEF TableInv, TableTypes, TableRequests
    <2>2. tableRow' \in [{TableRow} -> Tables(kind)!State] /\ UNCHANGED <<tableOpen, tableList, tableSaving>>
      BY <1>5 DEF Tables!Serve, Tables!Refuse, Tables!Written, Tables!tab, Tables!State,
                  TableInv, TableTypes
    <2>3. PICK answer \in {"ok", "error"}, got \in Tables(kind)!Listing \cup {None} :
            /\ Tables(kind)!Answered(c, answer, got)
            /\ c.op = "list" /\ answer = "ok" => got \in Tables(kind)!Listing
      <3> DEFINE now == [i \in {TableRow} |-> IF Tables(kind)!Exists(i) THEN tableRow[i] ELSE "none"]
      <3>1. now \in Tables(kind)!Listing
        BY DEF Tables!Listing, Tables!State, Tables!Exists
      <3> HIDE DEF now
      <3>2. \/ Tables(kind)!Answered(c, "ok", now)
            \/ c.op # "list" /\ Tables(kind)!Answered(c, "ok", None)
            \/ Tables(kind)!Answered(c, "error", None)
        BY <1>5 DEF Tables!Serve, Tables!Refuse, now
      <3> QED
        BY <3>1, <3>2
    <2> DEFINE d == [c EXCEPT !.answer = answer, !.got = got]
    <2>4. d \in Tables(kind)!Call
      BY <2>1 DEF Tables!Call
    <2>5. /\ d.tab = c.tab /\ d.op = c.op /\ d.id = c.id /\ d.read = c.read /\ d.asked = c.asked
          /\ d.saves = c.saves /\ d.answer = answer /\ d.got = got
      BY <2>1 DEF Tables!Call
    <2>6. tableCalls' = (tableCalls \ {c}) \cup {x \in {d} : x.tab # None}
      BY <2>3 DEF Tables!Answered
    <2> HIDE DEF d
    <2>7. CASE c.tab = None
      <3>1. tableCalls' = tableCalls \ {c}
        BY <2>5, <2>6, <2>7
      <3>2. c.saves = FALSE
        BY <2>1, <2>7 DEF Intended
      <3>3. tableList' \in [Tabs -> Tables(kind)!Listing \cup {None}]
        BY <2>2 DEF TableInv, TableTypes
      <3> QED
        BY <2>2, <3>1, <3>2, <3>3, TableOver
    <2>8. CASE c.tab # None
      <3>1. tableCalls' = (tableCalls \ {c}) \cup {d}
        BY <2>5, <2>6, <2>8
      <3>2. Intended(kind, d)
        BY <2>1, <2>3, <2>5, <2>8 DEF Intended
      <3> QED
        BY <2>2, <2>4, <2>5, <3>1, <3>2, TableAnswered
    <2> QED
      BY <2>7, <2>8
  <1>6. ASSUME NEW c \in tableCalls, Tables(kind)!Answer(c)
        PROVE  TableInv(kind)'
    <2>1. c \in Tables(kind)!Call /\ Intended(kind, c) /\ c.answer # "none" /\ c.tab \in Tabs
      BY <1>6 DEF Tables!Answer, TableInv, TableTypes, TableRequests, Intended, Tables!Call
    <2>2. tableRow \in [{TableRow} -> Tables(kind)!State]
          /\ tableList \in [Tabs -> Tables(kind)!Listing \cup {None}]
      BY DEF TableInv, TableTypes
    <2>3. CASE Tables(kind)!Shown(c)
      <3>1. tableList' \in [Tabs -> Tables(kind)!Listing \cup {None}]
        BY <2>1, <2>2, <2>3 DEF Tables!Shown, Intended
      <3> QED
        BY <2>2, <2>3, <3>1, TableOver DEF Tables!Shown
    <2>4. CASE Tables(kind)!Failed(c)
      BY <2>2, <2>4, TableOver DEF Tables!Failed
    <2>5. CASE Tables(kind)!Done(c)
      <3> DEFINE d == [Tables(kind)!Request(c.tab, "list") EXCEPT !.saves = c.saves]
      <3>0. PICK x \in Tabs : x = c.tab
        BY <2>1
      <3>9. /\ Tables(kind)!Request(x, "list") \in Tables(kind)!Call
            /\ Tables(kind)!Request(x, "list").tab = x /\ Tables(kind)!Request(x, "list").op = "list"
            /\ Tables(kind)!Request(x, "list").saves = FALSE
            /\ Tables(kind)!Request(x, "list").answer = "none" /\ x # None
        BY RequestIsACall
      <3>1. d \in Tables(kind)!Call
        BY <2>1, <3>0, <3>9 DEF Tables!Call
      <3>2. d.tab = c.tab /\ d.saves = c.saves /\ d.op = "list" /\ d.answer = "none" /\ d.tab # None
        BY <2>1, <3>0, <3>9 DEF Tables!Call
      <3>3. /\ tableCalls' = (tableCalls \ {c}) \cup {d}
            /\ UNCHANGED <<tableRow, tableOpen, tableList, tableSaving>>
        BY <2>5 DEF Tables!Done, Tables!tab
      <3> HIDE DEF d
      <3>4. Intended(kind, d)
        BY <3>2 DEF Intended
      <3> QED
        BY <2>2, <3>1, <3>2, <3>3, <3>4, TableAnswered
    <2> QED
      BY <1>6, <2>3, <2>4, <2>5 DEF Tables!Answer
  <1> QED
    BY <1>1, <1>2, <1>3, <1>4, <1>5, <1>6 DEF Tables!Next

\* The table changes by what a request of its kind says, and only if one is.
LEMMA ChangesAreAsked ==
  ASSUME NEW kind, TableInv(kind), Tables(kind)!Next
  PROVE  Tables(kind)!AsPressed
  <1>1. ASSUME NEW c \in tableCalls, Tables(kind)!Serve(c)
        PROVE  Tables(kind)!AsPressed
    <2>1. Intended(kind, c) /\ tableRow \in [{TableRow} -> Tables(kind)!State]
      BY DEF TableInv, TableTypes, TableRequests
    <2>2. c.answer = "none"
      BY <1>1 DEF Tables!Serve
    <2>3. CASE c.op = "list"
      BY <1>1, <2>3 DEF Tables!Serve, Tables!AsPressed
    <2>4. CASE c.op = "create"
      BY <1>1, <2>1, <2>4 DEF Tables!Serve, Tables!AsPressed, Tables!State
    <2>5. CASE c.op = "update" /\ tableRow' = [tableRow EXCEPT ![c.id] = Tables(kind)!Written(c)]
      <3>1. /\ c.id = TableRow /\ c.read \in {"active", "paused"}
            /\ tableRow'[TableRow] = IF c.read = "active" THEN "paused" ELSE "active"
        BY <2>1, <2>5 DEF Intended, Tables!Written
      <3> QED
        BY <2>1, <2>2, <2>5, <3>1 DEF Tables!AsPressed, Intended
    <2>6. CASE c.op = "delete" /\ tableRow' = [tableRow EXCEPT ![c.id] = "deleted"]
      <3>1. c.id = TableRow /\ c.asked = TRUE /\ tableRow'[TableRow] = "deleted"
        BY <2>1, <2>6 DEF Intended
      <3> QED
        BY <2>2, <2>6, <3>1 DEF Tables!AsPressed
    <2> QED
      BY <1>1, <2>3, <2>4, <2>5, <2>6 DEF Tables!Serve
  <1>2. tableRow' = tableRow \/ \E c \in tableCalls : Tables(kind)!Serve(c)
    BY DEF Tables!Next, Tables!Mount, Tables!Leave, Tables!Submit, Tables!Toggle,
           Tables!ToggleTenant, Tables!ToggleKey, Tables!ToggleWebhook, Tables!Remove,
           Tables!Refuse, Tables!Answer, Tables!Shown, Tables!Done, Tables!Failed
  <1>3. CASE tableRow' = tableRow
    BY <1>3 DEF Tables!AsPressed
  <1> QED
    BY <1>1, <1>2, <1>3

\* A table's page starts closed, in every tab.
LEMMA TableStarts ==
  ASSUME NEW kind, Tables(kind)!Init
  PROVE  TableInv(kind)
  BY DEF Tables!Init, Tables!State, TableInv, TableTypes, TableRequests

\* The invariant says what the table's variables are.
LEMMA TableIsTyped ==
  ASSUME NEW kind, TableInv(kind)
  PROVE  Tables(kind)!TypeOK
  <1>1. \A c \in tableCalls : c.saves \in BOOLEAN
    BY DEF TableInv, TableTypes, Tables!Call
  <1>2. ASSUME NEW t \in Tabs
        PROVE  tableSaving[t] = \E c \in Tables(kind)!Of(t) : c.saves
    <2>1. tableSaving[t] \in BOOLEAN
      BY DEF TableInv, TableTypes
    <2>2. tableSaving[t] = TRUE <=> \E c \in tableCalls : c.tab = t /\ c.saves = TRUE
      BY DEF TableInv, TableRequests
    <2> QED
      BY <1>1, <2>1, <2>2 DEF Tables!Of
  <1> QED
    BY <1>2 DEF TableInv, TableTypes, Tables!TypeOK

\* The three tables are of this kind.
LEMMA TenantsPageIsATable ==
  /\ TenantsPage!Init <=> Tables("tenants")!Init
  /\ TenantsPage!Next <=> Tables("tenants")!Next
  /\ TenantsPage!TypeOK <=> Tables("tenants")!TypeOK
  /\ TenantsPage!AsPressed <=> Tables("tenants")!AsPressed
  <1>1. TenantsPage!Init <=> Tables("tenants")!Init
    BY DEF TenantsPage!Init, Tables!Init
  <1>2. TenantsPage!Next <=> Tables("tenants")!Next
    BY DEF TenantsPage!Next, Tables!Next, TenantsPage!Mount, Tables!Mount, TenantsPage!Leave,
           Tables!Leave, TenantsPage!Submit, Tables!Submit, TenantsPage!Toggle, Tables!Toggle,
           TenantsPage!ToggleTenant, Tables!ToggleTenant, TenantsPage!ToggleKey, Tables!ToggleKey,
           TenantsPage!ToggleWebhook, Tables!ToggleWebhook, TenantsPage!Remove, Tables!Remove,
           TenantsPage!Listed, Tables!Listed, TenantsPage!Serve, Tables!Serve, TenantsPage!Exists,
           Tables!Exists, TenantsPage!Written, Tables!Written, TenantsPage!Refuse, Tables!Refuse,
           TenantsPage!Answered, Tables!Answered, TenantsPage!Answer, Tables!Answer,
           TenantsPage!Shown, Tables!Shown, TenantsPage!Done, Tables!Done, TenantsPage!Failed,
           Tables!Failed, TenantsPage!Request, Tables!Request, TenantsPage!Send, Tables!Send,
           TenantsPage!Of, Tables!Of, TenantsPage!tab, Tables!tab, TenantsPage!Cardinality,
           Tables!Cardinality
  <1>3. TenantsPage!TypeOK <=> Tables("tenants")!TypeOK
    BY DEF TenantsPage!TypeOK, Tables!TypeOK, TenantsPage!State, Tables!State, TenantsPage!Listing,
           Tables!Listing, TenantsPage!Call, Tables!Call, TenantsPage!Of, Tables!Of
  <1>4. TenantsPage!AsPressed <=> Tables("tenants")!AsPressed
    BY DEF TenantsPage!AsPressed, Tables!AsPressed
  <1> QED
    BY <1>1, <1>2, <1>3, <1>4

\* The keys.
LEMMA KeysPageIsATable ==
  /\ KeysPage!Init <=> Tables("api-keys")!Init
  /\ KeysPage!Next <=> Tables("api-keys")!Next
  /\ KeysPage!TypeOK <=> Tables("api-keys")!TypeOK
  /\ KeysPage!AsPressed <=> Tables("api-keys")!AsPressed
  <1>1. KeysPage!Init <=> Tables("api-keys")!Init
    BY DEF KeysPage!Init, Tables!Init
  <1>2. KeysPage!Next <=> Tables("api-keys")!Next
    BY DEF KeysPage!Next, Tables!Next, KeysPage!Mount, Tables!Mount, KeysPage!Leave, Tables!Leave,
           KeysPage!Submit, Tables!Submit, KeysPage!Toggle, Tables!Toggle, KeysPage!ToggleTenant,
           Tables!ToggleTenant, KeysPage!ToggleKey, Tables!ToggleKey, KeysPage!ToggleWebhook,
           Tables!ToggleWebhook, KeysPage!Remove, Tables!Remove, KeysPage!Listed, Tables!Listed,
           KeysPage!Serve, Tables!Serve, KeysPage!Exists, Tables!Exists, KeysPage!Written,
           Tables!Written, KeysPage!Refuse, Tables!Refuse, KeysPage!Answered, Tables!Answered,
           KeysPage!Answer, Tables!Answer, KeysPage!Shown, Tables!Shown, KeysPage!Done, Tables!Done,
           KeysPage!Failed, Tables!Failed, KeysPage!Request, Tables!Request, KeysPage!Send,
           Tables!Send, KeysPage!Of, Tables!Of, KeysPage!tab, Tables!tab, KeysPage!Cardinality,
           Tables!Cardinality
  <1>3. KeysPage!TypeOK <=> Tables("api-keys")!TypeOK
    BY DEF KeysPage!TypeOK, Tables!TypeOK, KeysPage!State, Tables!State, KeysPage!Listing,
           Tables!Listing, KeysPage!Call, Tables!Call, KeysPage!Of, Tables!Of
  <1>4. KeysPage!AsPressed <=> Tables("api-keys")!AsPressed
    BY DEF KeysPage!AsPressed, Tables!AsPressed
  <1> QED
    BY <1>1, <1>2, <1>3, <1>4

\* The webhooks.
LEMMA WebhooksPageIsATable ==
  /\ WebhooksPage!Init <=> Tables("webhooks")!Init
  /\ WebhooksPage!Next <=> Tables("webhooks")!Next
  /\ WebhooksPage!TypeOK <=> Tables("webhooks")!TypeOK
  /\ WebhooksPage!AsPressed <=> Tables("webhooks")!AsPressed
  <1>1. WebhooksPage!Init <=> Tables("webhooks")!Init
    BY DEF WebhooksPage!Init, Tables!Init
  <1>2. WebhooksPage!Next <=> Tables("webhooks")!Next
    BY DEF WebhooksPage!Next, Tables!Next, WebhooksPage!Mount, Tables!Mount, WebhooksPage!Leave,
           Tables!Leave, WebhooksPage!Submit, Tables!Submit, WebhooksPage!Toggle, Tables!Toggle,
           WebhooksPage!ToggleTenant, Tables!ToggleTenant, WebhooksPage!ToggleKey, Tables!ToggleKey,
           WebhooksPage!ToggleWebhook, Tables!ToggleWebhook, WebhooksPage!Remove, Tables!Remove,
           WebhooksPage!Listed, Tables!Listed, WebhooksPage!Serve, Tables!Serve,
           WebhooksPage!Exists, Tables!Exists, WebhooksPage!Written, Tables!Written,
           WebhooksPage!Refuse, Tables!Refuse, WebhooksPage!Answered, Tables!Answered,
           WebhooksPage!Answer, Tables!Answer, WebhooksPage!Shown, Tables!Shown, WebhooksPage!Done,
           Tables!Done, WebhooksPage!Failed, Tables!Failed, WebhooksPage!Request, Tables!Request,
           WebhooksPage!Send, Tables!Send, WebhooksPage!Of, Tables!Of, WebhooksPage!tab, Tables!tab,
           WebhooksPage!Cardinality, Tables!Cardinality
  <1>3. WebhooksPage!TypeOK <=> Tables("webhooks")!TypeOK
    BY DEF WebhooksPage!TypeOK, Tables!TypeOK, WebhooksPage!State, Tables!State,
           WebhooksPage!Listing, Tables!Listing, WebhooksPage!Call, Tables!Call, WebhooksPage!Of,
           Tables!Of
  <1>4. WebhooksPage!AsPressed <=> Tables("webhooks")!AsPressed
    BY DEF WebhooksPage!AsPressed, Tables!AsPressed
  <1> QED
    BY <1>1, <1>2, <1>3, <1>4

-----------------------------------------------------------------------------
(* The session: a tab whose form waits has one login under way, and that is *)
(* what keeps its button disabled.                                          *)

SessionTypes ==
  /\ isActive \in BOOLEAN /\ valid \subseteq Tokens
  /\ stored \in Tokens \cup {None}
  /\ route \in [Tabs -> Session!Pages]
  /\ loading \in [Tabs -> BOOLEAN]
  /\ logins \subseteq Session!Call
SessionLogins ==
  /\ \A c \in logins : c.op = "login" => loading[c.tab] = TRUE
  /\ \A t \in Tabs : loading[t] = TRUE => \E c \in logins : c.tab = t /\ c.op = "login"
  /\ \A c, d \in logins : c.op = "login" /\ d.op = "login" /\ c.tab = d.tab => c = d
SessionInv == SessionTypes /\ SessionLogins

\* A request goes on, or fails, as the request it is.
LEMMA SessionBecomes ==
  ASSUME SessionInv, NEW c \in logins, NEW answer \in {"found", "ok", "401", "failed"},
         NEW token \in Tokens \cup {None}, Session!Becomes(c, answer, token),
         isActive' = isActive, valid' \subseteq Tokens, UNCHANGED <<stored, route, loading>>
  PROVE  SessionInv'
  <1> DEFINE d == [c EXCEPT !.answer = answer, !.token = token]
  <1>1. c \in Session!Call
    BY DEF SessionInv, SessionTypes
  <1>2. d \in Session!Call /\ d.op = c.op /\ d.tab = c.tab
    BY <1>1 DEF Session!Call
  <1>3. logins' = (logins \ {c}) \cup {d}
    BY DEF Session!Becomes
  <1> HIDE DEF d
  <1>4. SessionTypes'
    BY <1>2, <1>3 DEF SessionInv, SessionTypes
  <1>5. \A x \in logins' : x = d \/ (x \in logins /\ x # c)
    BY <1>3
  <1>6. d \in logins' /\ \A x \in logins : x = c \/ x \in logins'
    BY <1>3
  <1>7. SessionLogins'
    BY <1>2, <1>5, <1>6 DEF SessionInv, SessionLogins
  <1> QED
    BY <1>4, <1>7 DEF SessionInv

\* A refresh is sent: no form waits for it.
LEMMA SessionRefreshes ==
  ASSUME SessionInv, NEW t \in Tabs, Session!Send(t, "refresh"), UNCHANGED <<isActive, valid, stored, loading>>,
         route' \in [Tabs -> Session!Pages]
  PROVE  SessionInv'
  <1> DEFINE d == [tab |-> t, op |-> "refresh", token |-> stored, answer |-> "none"]
  <1>1. d \in Session!Call /\ d.op = "refresh"
    BY DEF Session!Call, SessionInv, SessionTypes
  <1>2. logins' = logins \cup {d}
    BY DEF Session!Send
  <1> HIDE DEF d
  <1>3. SessionTypes'
    BY <1>1, <1>2 DEF SessionInv, SessionTypes
  <1>4. SessionLogins'
    BY <1>1, <1>2 DEF SessionInv, SessionLogins
  <1> QED
    BY <1>3, <1>4 DEF SessionInv

\* Every step of the session keeps its invariant.
LEMMA SessionKeeps ==
  ASSUME SessionInv, Session!Next
  PROVE  SessionInv'
  <1>1. ASSUME UNCHANGED logins, UNCHANGED loading, isActive' \in BOOLEAN, valid' \subseteq Tokens,
               stored' \in Tokens \cup {None}, route' \in [Tabs -> Session!Pages]
        PROVE  SessionInv'
    BY <1>1 DEF SessionInv, SessionTypes, SessionLogins
  <1>2. CASE Session!SetActive
    BY <1>1, <1>2 DEF Session!SetActive, SessionInv, SessionTypes
  <1>3. ASSUME NEW k \in Tokens, Session!Expire(k)
        PROVE  SessionInv'
    BY <1>1, <1>3 DEF Session!Expire, SessionInv, SessionTypes
  <1>4. ASSUME NEW t \in Tabs, Session!Submit(t)
        PROVE  SessionInv'
    <2> DEFINE d == [tab |-> t, op |-> "login", token |-> stored, answer |-> "none"]
    <2>1. d \in Session!Call /\ d.op = "login" /\ d.tab = t
      BY DEF Session!Call, SessionInv, SessionTypes
    <2>2. logins' = logins \cup {d} /\ UNCHANGED <<isActive, valid, stored, route>>
      BY <1>4 DEF Session!Submit, Session!Send
    <2>3. loading' \in [Tabs -> BOOLEAN] /\ loading'[t] = TRUE
          /\ \A x \in Tabs : x # t => loading'[x] = loading[x]
      BY <1>4 DEF Session!Submit, SessionInv, SessionTypes
    <2>4. \A c \in logins : c.op = "login" => c.tab # t
      BY <1>4 DEF Session!Submit, SessionInv, SessionLogins
    <2> HIDE DEF d
    <2>5. SessionTypes'
      BY <2>1, <2>2, <2>3 DEF SessionInv, SessionTypes
    <2>6. \A c \in logins : c.tab \in Tabs
      BY DEF SessionInv, SessionTypes, Session!Call
    <2>7. SessionLogins'
      BY <2>1, <2>2, <2>3, <2>4, <2>6 DEF SessionInv, SessionLogins
    <2> QED
      BY <2>5, <2>7 DEF SessionInv
  <1>5. ASSUME NEW t \in Tabs, Session!Tick(t)
        PROVE  SessionInv'
    BY <1>5, SessionRefreshes DEF Session!Tick, SessionInv, SessionTypes
  <1>6. ASSUME NEW t \in Tabs, Session!Logout(t)
        PROVE  SessionInv'
    <2>1. route' \in [Tabs -> Session!Pages]
      BY <1>6 DEF Session!Logout, SessionInv, SessionTypes, Session!Pages
    <2> QED
      BY <1>1, <1>6, <2>1 DEF Session!Logout, SessionInv, SessionTypes
  <1>7. ASSUME NEW t \in Tabs, NEW page \in Session!Pages, Session!Open(t, page)
        PROVE  SessionInv'
    <2>1. route' \in [Tabs -> Session!Pages]
      BY <1>7 DEF Session!Open, SessionInv, SessionTypes, Session!Pages
    <2>2. CASE stored = None
      BY <1>1, <1>7, <2>1, <2>2 DEF Session!Open, SessionInv, SessionTypes
    <2>3. CASE stored # None
      BY <1>7, <2>1, <2>3, SessionRefreshes DEF Session!Open
    <2> QED
      BY <2>2, <2>3
  <1>8. ASSUME NEW c \in logins, Session!Serve(c) \/ Session!Lost(c)
        PROVE  SessionInv'
    <2>1. c.token \in Tokens \cup {None}
      BY DEF SessionInv, SessionTypes, Session!Call
    <2>2. CASE Session!LookUp(c)
      BY <2>2, SessionBecomes DEF Session!LookUp, SessionInv, SessionTypes
    <2>3. CASE Session!Sign(c)
      <3>1. ASSUME NEW k \in Session!Forgotten, Session!Becomes(c, "ok", k), valid' = valid \cup {k}
            PROVE  SessionInv'
        <4>1. k \in Tokens /\ valid' \subseteq Tokens
          BY <3>1 DEF Session!Forgotten, SessionInv, SessionTypes
        <4> QED
          BY <2>3, <3>1, <4>1, SessionBecomes DEF Session!Sign
      <3>2. CASE Session!Becomes(c, "401", None) /\ UNCHANGED valid
        BY <2>3, <3>2, SessionBecomes DEF Session!Sign, SessionInv, SessionTypes
      <3> QED
        BY <2>3, <3>1, <3>2 DEF Session!Sign
    <2>4. CASE Session!Guard(c)
      BY <2>1, <2>4, SessionBecomes DEF Session!Guard, SessionInv, SessionTypes
    <2>5. CASE Session!Lost(c)
      BY <2>1, <2>5, SessionBecomes DEF Session!Lost, SessionInv, SessionTypes
    <2> QED
      BY <1>8, <2>2, <2>3, <2>4, <2>5 DEF Session!Serve
  <1>9. ASSUME NEW c \in logins, Session!LoginAnswer(c)
        PROVE  SessionInv'
    <2>1. c \in Session!Call /\ c.op = "login"
      BY <1>9 DEF Session!LoginAnswer, SessionInv, SessionTypes
    <2>2. c.tab \in Tabs /\ c.token \in Tokens \cup {None}
      BY <2>1 DEF Session!Call
    <2>3. logins' = logins \ {c} /\ UNCHANGED <<isActive, valid>>
      BY <1>9 DEF Session!LoginAnswer
    <2>4. loading' \in [Tabs -> BOOLEAN] /\ loading'[c.tab] = FALSE
          /\ \A x \in Tabs : x # c.tab => loading'[x] = loading[x]
      BY <1>9, <2>2 DEF Session!LoginAnswer, SessionInv, SessionTypes
    <2>5. stored' \in Tokens \cup {None} /\ route' \in [Tabs -> Session!Pages]
      BY <1>9, <2>2 DEF Session!LoginAnswer, SessionInv, SessionTypes, Session!Pages
    <2>6. SessionTypes'
      BY <2>3, <2>4, <2>5 DEF SessionInv, SessionTypes
    <2>7. \A x \in logins : x.tab \in Tabs
      BY DEF SessionInv, SessionTypes, Session!Call
    <2>8. SessionLogins'
      BY <2>1, <2>2, <2>3, <2>4, <2>7 DEF SessionInv, SessionLogins
    <2> QED
      BY <2>6, <2>8 DEF SessionInv
  <1>10. ASSUME NEW c \in logins, Session!RefreshAnswer(c)
         PROVE  SessionInv'
    <2>1. c.op = "refresh" /\ logins' = logins \ {c} /\ UNCHANGED <<isActive, valid, loading>>
      BY <1>10 DEF Session!RefreshAnswer
    <2>2. stored' \in Tokens \cup {None} /\ route' \in [Tabs -> Session!Pages]
      BY <1>10 DEF Session!RefreshAnswer, SessionInv, SessionTypes, Session!Pages
    <2>3. SessionTypes'
      BY <2>1, <2>2 DEF SessionInv, SessionTypes
    <2>4. SessionLogins'
      BY <2>1 DEF SessionInv, SessionLogins
    <2> QED
      BY <2>3, <2>4 DEF SessionInv
  <1> QED
    BY <1>2, <1>3, <1>4, <1>5, <1>6, <1>7, <1>8, <1>9, <1>10 DEF Session!Next, Session!Answer

\* The session counts as FiniteSets does.
LEMMA SessionCounts == \A S : Session!Cardinality(S) = Cardinality(S)
  BY DEF Session!Cardinality, Cardinality

\* What the invariant says of a tab is how many logins it has under way.
LEMMA SessionIsTyped == SessionInv => Session!TypeOK
  <1> SUFFICES ASSUME SessionInv, NEW t \in Tabs
               PROVE  Session!Cardinality(Session!Of(t, "login")) = IF loading[t] THEN 1 ELSE 0
    BY DEF SessionInv, SessionTypes, Session!TypeOK
  <1>1. CASE loading[t] = TRUE
    <2>1. PICK c \in logins : c.tab = t /\ c.op = "login"
      BY <1>1 DEF SessionInv, SessionLogins
    <2>2. Session!Of(t, "login") = {c}
      BY <2>1 DEF SessionInv, SessionLogins, Session!Of
    <2> QED
      BY <1>1, <2>2, SessionCounts, FS_Singleton
  <1>2. CASE loading[t] = FALSE
    <2>1. Session!Of(t, "login") = {}
      BY <1>2 DEF SessionInv, SessionLogins, Session!Of
    <2> QED
      BY <1>2, <2>1, SessionCounts, FS_EmptySet
  <1> QED
    BY <1>1, <1>2 DEF SessionInv, SessionTypes

-----------------------------------------------------------------------------
(* The run.  It follows one part; the invariant of that part is kept by the *)
(* part's steps, and by those that leave it be.                             *)

DashboardInv ==
  /\ part = "badge" => OverviewInv({"status", "qr"}, {AllOf}, 0, {"email"})
  /\ part = "list" => OverviewInv({"messages"}, TwoFilters, MaxRows, {"email"})
  /\ part = "one queue" => OverviewInv({"dlq"}, {AllOf}, MaxRows, {"email"})
  /\ part = "two queues" => OverviewInv({"dlq"}, {AllOf}, 1, {"email", "webhooks"})
  /\ part = "session" => SessionInv
  /\ part = "tenants" => TableInv("tenants")
  /\ part = "api-keys" => TableInv("api-keys")
  /\ part = "webhooks" => TableInv("webhooks")
  /\ part = "key form" => KeyInv
  /\ part = "one template" => FormInv({Template})
  /\ part = "two templates" => FormInv({Template, Other})
  /\ part \notin {"one template", "two templates"} => formCalls = {}

\* What the overview's parts are run with.
LEMMA Settings ==
  /\ Setting({"status", "qr"}, {AllOf}, 0, {"email"})
  /\ Setting({"messages"}, TwoFilters, MaxRows, {"email"})
  /\ Setting({"dlq"}, {AllOf}, MaxRows, {"email"})
  /\ Setting({"dlq"}, {AllOf}, 1, {"email", "webhooks"})
  BY PartAssumptions DEF List!PageAssumption, Setting, TwoFilters

\* Every part is at first as its invariant says.
LEMMA DashboardStarts == Init => DashboardInv
  <1> SUFFICES ASSUME Init PROVE DashboardInv
    OBVIOUS
  <1>1. List!Init => Badge!Init /\ OneQueue!Init
    BY DEF List!Init, Badge!Init, OneQueue!Init, List!Everything, Badge!Everything,
           OneQueue!Everything, List!NoActions, Badge!NoActions, OneQueue!NoActions
  <1>2. /\ part = "badge" => OverviewInv({"status", "qr"}, {AllOf}, 0, {"email"})
        /\ part = "list" => OverviewInv({"messages"}, TwoFilters, MaxRows, {"email"})
        /\ part = "one queue" => OverviewInv({"dlq"}, {AllOf}, MaxRows, {"email"})
        /\ part = "two queues" => OverviewInv({"dlq"}, {AllOf}, 1, {"email", "webhooks"})
    BY <1>1, Settings, BadgeIsAPage, ListIsAPage, OneQueueIsAPage, TwoQueuesIsAPage, OverviewStarts
    DEF Init
  <1>3. SessionInv
    BY DEF Init, Session!Init, SessionInv, SessionTypes, SessionLogins, Session!Pages
  <1>4. TenantsPage!Init => KeysPage!Init /\ WebhooksPage!Init
    BY DEF TenantsPage!Init, KeysPage!Init, WebhooksPage!Init
  <1>5. TableInv("tenants") /\ TableInv("api-keys") /\ TableInv("webhooks")
    BY <1>4, TenantsPageIsATable, KeysPageIsATable, WebhooksPageIsATable, TableStarts DEF Init
  <1>6. KeyInv
    BY DEF Init, KeyForm!Init, KeyInv, KeyForm!TypeOK, KeyRequests, KeyForm!Form, KeyForm!EmptyForm
  <1>7. /\ part = "two templates" => FormInv({Template, Other})
        /\ part # "two templates" => FormInv({Template})
    BY OneTemplateIsAForm, TwoTemplatesIsAForm, FormStarts DEF Init
  <1>8. formCalls = {}
    BY DEF Init, OneTemplate!Init, TwoTemplates!Init
  <1> QED
    BY <1>2, <1>3, <1>5, <1>6, <1>7, <1>8 DEF DashboardInv

\* A step is one of the part that is followed, or leaves it be.
LEMMA PartSteps ==
  ASSUME [Next]_vars
  PROVE  /\ part' = part
         /\ part = "badge" => Badge!Next \/ UNCHANGED overview
         /\ part = "list" => List!Next \/ UNCHANGED overview
         /\ part = "one queue" => OneQueue!Next \/ UNCHANGED overview
         /\ part = "two queues" => TwoQueues!Next \/ UNCHANGED overview
         /\ part = "session" => Session!Next \/ UNCHANGED session
         /\ part = "tenants" => TenantsPage!Next \/ UNCHANGED tables
         /\ part = "api-keys" => KeysPage!Next \/ UNCHANGED tables
         /\ part = "webhooks" => WebhooksPage!Next \/ UNCHANGED tables
         /\ part = "key form" => KeyForm!Next \/ UNCHANGED keys
         /\ part = "one template" => OneTemplate!Next \/ UNCHANGED forms
         /\ part = "two templates" => TwoTemplates!Next \/ UNCHANGED forms
         /\ part \notin {"tenants", "api-keys", "webhooks"} => UNCHANGED tables
         /\ part # "key form" => UNCHANGED keys
         /\ part \notin {"one template", "two templates"} => UNCHANGED forms
  BY DEF Next, vars, InBadge, InList, InPanel, InSession, InTables, InKeyForm, InTemplateForm,
         Panel, Table, Templates

\* What leaves a part's variables be leaves its invariant be.
LEMMA OverviewStays ==
  ASSUME NEW cs, NEW fs, NEW n, NEW qs, OverviewInv(cs, fs, n, qs), UNCHANGED overview
  PROVE  OverviewInv(cs, fs, n, qs)'
  BY DEF overview, OverviewInv, OverviewTables, OverviewControls, OverviewAnswers, OverviewActions

\* The tables'.
LEMMA TableStays ==
  ASSUME NEW kind, TableInv(kind), UNCHANGED tables
  PROVE  TableInv(kind)'
  BY DEF tables, TableInv, TableTypes, TableRequests

\* The forms'.
LEMMA FormStays ==
  ASSUME NEW ids, FormInv(ids), UNCHANGED forms
  PROVE  FormInv(ids)'
  BY DEF forms, FormInv, FormPage, FormRequests

\* Every step of the run keeps the invariant.
LEMMA DashboardKeeps == DashboardInv /\ [Next]_vars => DashboardInv'
  <1> SUFFICES ASSUME DashboardInv, [Next]_vars PROVE DashboardInv'
    OBVIOUS
  <1>1. ASSUME part = "badge"
        PROVE  OverviewInv({"status", "qr"}, {AllOf}, 0, {"email"})'
    BY <1>1, PartSteps, Settings, BadgeIsAPage, OverviewKeeps, OverviewStays DEF DashboardInv
  <1>2. ASSUME part = "list"
        PROVE  OverviewInv({"messages"}, TwoFilters, MaxRows, {"email"})'
    BY <1>2, PartSteps, Settings, ListIsAPage, OverviewKeeps, OverviewStays DEF DashboardInv
  <1>3. /\ part = "one queue" => OverviewInv({"dlq"}, {AllOf}, MaxRows, {"email"})'
        /\ part = "two queues" => OverviewInv({"dlq"}, {AllOf}, 1, {"email", "webhooks"})'
    <2>1. ASSUME part = "one queue"
          PROVE  OverviewInv({"dlq"}, {AllOf}, MaxRows, {"email"})'
      BY <2>1, PartSteps, Settings, OneQueueIsAPage, OverviewKeeps, OverviewStays DEF DashboardInv
    <2>2. ASSUME part = "two queues"
          PROVE  OverviewInv({"dlq"}, {AllOf}, 1, {"email", "webhooks"})'
      BY <2>2, PartSteps, Settings, TwoQueuesIsAPage, OverviewKeeps, OverviewStays DEF DashboardInv
    <2> QED
      BY <2>1, <2>2
  <1>4. ASSUME part = "session"
        PROVE  SessionInv'
    <2>1. CASE UNCHANGED session
      BY <1>4, <2>1 DEF DashboardInv, session, SessionInv, SessionTypes, SessionLogins
    <2> QED
      BY <1>4, <2>1, PartSteps, SessionKeeps DEF DashboardInv
  <1>5. ASSUME part = "tenants"
        PROVE  TableInv("tenants")'
    BY <1>5, PartSteps, TenantsPageIsATable, TableKeeps, TableStays DEF DashboardInv
  <1>6. ASSUME part = "api-keys"
        PROVE  TableInv("api-keys")'
    BY <1>6, PartSteps, KeysPageIsATable, TableKeeps, TableStays DEF DashboardInv
  <1>7. ASSUME part = "webhooks"
        PROVE  TableInv("webhooks")'
    BY <1>7, PartSteps, WebhooksPageIsATable, TableKeeps, TableStays DEF DashboardInv
  <1>8. ASSUME part = "key form"
        PROVE  KeyInv'
    <2>1. CASE UNCHANGED keys
      BY <1>8, <2>1 DEF DashboardInv, keys, KeyInv, KeyForm!TypeOK, KeyRequests
    <2> QED
      BY <1>8, <2>1, PartSteps, KeyFormKeeps DEF DashboardInv
  <1>9. ASSUME part = "one template"
        PROVE  FormInv({Template})'
    BY <1>9, PartSteps, OneTemplateIsAForm, FormKeeps, FormStays DEF DashboardInv
  <1>10. ASSUME part = "two templates"
         PROVE  FormInv({Template, Other})'
    BY <1>10, PartSteps, TwoTemplatesIsAForm, FormKeeps, FormStays DEF DashboardInv
  <1>11. ASSUME part \notin {"one template", "two templates"}
         PROVE  formCalls' = {}
    BY <1>11, PartSteps DEF DashboardInv, forms
  <1> QED
    <2>1. part' = part
      BY PartSteps
    <2> QED
      BY <2>1, <1>1, <1>2, <1>3, <1>4, <1>5, <1>6, <1>7, <1>8, <1>9, <1>10, <1>11 DEF DashboardInv

\* It holds in every state.
LEMMA DashboardAlways == Spec => []DashboardInv
  BY DashboardStarts, DashboardKeeps, PTL DEF Spec

\* Every variable of every page and of the session has its type, and a form's
\* button is disabled exactly while a request of its submission is under way.
THEOREM DashboardTypeCorrect == Spec => []TypeOK
  <1>1. DashboardInv => TypeOK
    <2> SUFFICES ASSUME DashboardInv PROVE TypeOK
      OBVIOUS
    <2>1. /\ part = "badge" => Badge!TypeOK
          /\ part = "list" => List!TypeOK
          /\ part = "one queue" => OneQueue!TypeOK
          /\ part = "two queues" => TwoQueues!TypeOK
      BY Settings, BadgeIsAPage, ListIsAPage, OneQueueIsAPage, TwoQueuesIsAPage, OverviewIsTyped
      DEF DashboardInv
    <2>2. part = "session" => Session!TypeOK
      BY SessionIsTyped DEF DashboardInv
    <2>3. KeysPage!TypeOK \/ WebhooksPage!TypeOK => TenantsPage!TypeOK
      BY DEF TenantsPage!TypeOK, KeysPage!TypeOK, WebhooksPage!TypeOK,
             TenantsPage!State, KeysPage!State, WebhooksPage!State,
             TenantsPage!Listing, KeysPage!Listing, WebhooksPage!Listing,
             TenantsPage!Call, KeysPage!Call, WebhooksPage!Call,
             TenantsPage!Of, KeysPage!Of, WebhooksPage!Of
    <2>4. part \in {"tenants", "api-keys", "webhooks"} => TenantsPage!TypeOK
      BY <2>3, TenantsPageIsATable, KeysPageIsATable, WebhooksPageIsATable, TableIsTyped
      DEF DashboardInv
    <2>5. part = "key form" => KeyForm!TypeOK
      BY DEF DashboardInv, KeyInv
    <2>6. /\ part = "one template" => OneTemplate!TypeOK
          /\ part = "two templates" => TwoTemplates!TypeOK
      BY OneTemplateIsAForm, TwoTemplatesIsAForm, FormIsTyped DEF DashboardInv
    <2> QED
      BY <2>1, <2>2, <2>4, <2>5, <2>6 DEF TypeOK
  <1> QED
    BY <1>1, DashboardAlways, PTL

\* The pages of the message list leave no message out, whatever size a page has,
\* if no two were created at the same moment (messages.service.ts:213).
THEOREM PagesLeaveNothingOut == Spec => []FullHistory
  <1>1. DashboardInv => FullHistory
    <2>1. DashboardInv /\ part = "list" => HistoryFits
      BY DEF DashboardInv, OverviewInv, OverviewTables, HistoryFits
    <2> QED
      BY <2>1, PagesAreComplete DEF FullHistory
  <1> QED
    BY <1>1, DashboardAlways, PTL

\* Text goes only to the template the form was filled from, for any number of
\* requests under way (templates/page.tsx:49).
THEOREM TextGoesWhereItCameFrom == Spec => []RightTarget
  <1>1. DashboardInv => RightTarget
    <2>1. TwoTemplates!RightTarget => OneTemplate!RightTarget
      BY DEF TwoTemplates!RightTarget, OneTemplate!RightTarget
    <2>2. formCalls = {} => OneTemplate!RightTarget
      BY DEF OneTemplate!RightTarget
    <2> QED
      BY <2>1, <2>2, OneTemplateIsAForm, TwoTemplatesIsAForm, FormIsTyped
      DEF DashboardInv, RightTarget
  <1> QED
    BY <1>1, DashboardAlways, PTL

\* Nothing is paused, resumed or deleted but by somebody whose button said so,
\* and asked first where it must, for any number of tabs and requests
\* (tenants/page.tsx:68, api-keys/page.tsx:113).
THEOREM NothingHappensUnasked == Spec => ButtonsMeanWhatTheySay
  <1> DEFINE AskedFor ==
        /\ part = "tenants" => TenantsPage!AsPressed
        /\ part = "api-keys" => KeysPage!AsPressed
        /\ part = "webhooks" => WebhooksPage!AsPressed
  <1>1. DashboardInv /\ [Next]_vars => AskedFor
    <2> SUFFICES ASSUME DashboardInv, [Next]_vars PROVE AskedFor
      OBVIOUS
    <2>1. CASE UNCHANGED tables
      BY <2>1 DEF tables, TenantsPage!AsPressed, KeysPage!AsPressed, WebhooksPage!AsPressed
    <2>2. CASE ~UNCHANGED tables
      BY <2>2, PartSteps, TenantsPageIsATable, KeysPageIsATable, WebhooksPageIsATable, ChangesAreAsked
      DEF DashboardInv
    <2> QED
      BY <2>1, <2>2
  <1> HIDE DEF AskedFor
  <1>2. Spec => [][AskedFor]_vars
    BY <1>1, DashboardAlways, PTL DEF Spec
  <1> QED
    BY <1>2 DEF AskedFor, ButtonsMeanWhatTheySay

\* No key's banner is overwritten by a key asked for before it appeared, for any
\* number of keys and requests (api-keys/page.tsx:94).
THEOREM NoPlaintextIsOverwritten == Spec => EachKeyIsSeen
  <1>1. DashboardInv /\ [Next]_vars => KeyForm!SeenFirst
    <2> SUFFICES ASSUME DashboardInv, [Next]_vars PROVE KeyForm!SeenFirst
      OBVIOUS
    <2>1. CASE UNCHANGED keys
      BY <2>1 DEF keys, KeyForm!SeenFirst
    <2>2. CASE ~UNCHANGED keys
      BY <2>2, PartSteps, KeyIsSeenFirst DEF DashboardInv
    <2> QED
      BY <2>1, <2>2
  <1> QED
    BY <1>1, DashboardAlways, PTL DEF Spec, EachKeyIsSeen
=============================================================================
