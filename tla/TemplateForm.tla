----------------------------- MODULE TemplateForm -----------------------------
(***************************************************************************)
(* Writing templates on the dashboard: one form makes a template or edits   *)
(* the one whose Edit button was pressed, and stays open to typing, another *)
(* Edit, Cancel and Delete while its request is under way.  The handlers go *)
(* on after each await with the form and the id they closed over.           *)
(***************************************************************************)
EXTENDS Naturals, FiniteSets

CONSTANTS
  Ids, None,
  Blank,               \* no subject: '' in the form, NULL in the table
  Contents,            \* what is typed: a channel and a subject, which stand for the rest
  MaxCalls             \* bounds the requests under way

Empty == [channel |-> "email", subject |-> Blank]

\* What the constants are.
TemplateAssumption ==
  /\ None \notin Ids /\ MaxCalls \in Nat /\ Empty \in Contents
  /\ \A c \in Contents : c.channel \in {"email", "whatsapp"}

VARIABLES
  table,      \* the templates at the server
  open, list, form, editing, saving,
  calls,      \* requests under way; two of the same content count as one
  from        \* history, never read by the code: the row the form was filled from

page == <<open, list, form, editing, saving, from>>
vars == <<table, page, calls>>

Row == [channel : {"email", "whatsapp"}, subject : {c.subject : c \in Contents}]
Rows == [Ids -> Row \cup {None}]
Call == [op : {"save", "remove", "list"}, id : Ids \cup {None}, form : Contents,
         edits : Ids \cup {None},   \* editingId as the handler closed over it
         from : Ids \cup {None}, saves : BOOLEAN,
         answer : {"none", "ok", "error"}, got : Rows]

TypeOK ==
  /\ table \in Rows
  /\ open \in BOOLEAN /\ list \in Rows \cup {None}
  /\ form \in Contents /\ editing \in Ids \cup {None}
  /\ calls \subseteq Call
  /\ saving = \E c \in calls : c.saves

\* The payload leaves the subject out when there is none, or none for the channel.
HasSubject(f) == f.channel = "email" /\ f.subject # Blank
Typed(f) == [f EXCEPT !.subject = IF HasSubject(f) THEN @ ELSE Blank]

NoRows == [i \in Ids |-> None]

Init ==
  /\ table \in [Ids -> {Typed(c) : c \in Contents} \cup {None}]
  /\ open = FALSE /\ list = None
  /\ form = Empty /\ editing = None /\ saving = FALSE /\ from = None
  /\ calls = {}

\* Listing, and what the handlers of the other requests go on with.
Listing == [op |-> "list", id |-> None, form |-> Empty, edits |-> None, from |-> None,
            saves |-> FALSE, answer |-> "none", got |-> NoRows]
Saving == [Listing EXCEPT !.op = "save", !.id = editing, !.form = form, !.from = from,
                          !.saves = TRUE]
Removal(i) == [Listing EXCEPT !.op = "remove", !.id = i, !.edits = editing]

Send(c) == Cardinality(calls) < MaxCalls /\ calls' = calls \cup {c}

-----------------------------------------------------------------------------
\* The administrator.

Mount ==
  /\ ~open /\ open' = TRUE
  /\ Send(Listing)
  /\ UNCHANGED <<table, list, form, editing, saving, from>>

\* Answers to a page that was left change nothing; what a request does at the
\* server then is done elsewhere.
Leave ==
  /\ open /\ open' = FALSE
  /\ list' = None /\ form' = Empty /\ editing' = None /\ saving' = FALSE /\ from' = None
  /\ calls' = {}
  /\ UNCHANGED table

StartEdit(i) ==
  /\ open /\ list # None /\ list[i] # None
  /\ editing' = i /\ form' = list[i] /\ from' = i
  /\ UNCHANGED <<table, open, list, saving, calls>>

Type(c) ==
  /\ open /\ c # form /\ form' = c
  /\ c.subject = form.subject \/ form.channel = "email"   \* the only channel with a subject field
  /\ UNCHANGED <<table, open, list, editing, saving, calls, from>>

\* cancelEdit(); as a bug, the form is emptied and goes on editing.
CancelHalf == form' = Empty /\ from' = None /\ UNCHANGED editing
CancelEdit == form' = Empty /\ from' = None /\ editing' = None

Cancel ==
  /\ open /\ editing # None
  /\ CancelEdit
  /\ UNCHANGED <<table, open, list, saving, calls>>

\* save(); the button is disabled meanwhile.
Submit ==
  /\ open /\ ~saving
  /\ Send(Saving) /\ saving' = TRUE
  /\ UNCHANGED <<table, open, list, form, editing, from>>

Remove(i) ==
  /\ open /\ list # None /\ list[i] # None
  /\ Send(Removal(i))
  /\ UNCHANGED <<table, page>>

-----------------------------------------------------------------------------
\* The server.

Answered(c, d) == calls' = (calls \ {c}) \cup {d}

\* A PATCH without the subject leaves it as it was.
Updated(t, f) == [channel |-> f.channel, subject |-> IF HasSubject(f) THEN f.subject ELSE t.subject]

Serve(c) ==
  /\ c.answer = "none"
  /\ \/ /\ c.op = "list"
        /\ Answered(c, [c EXCEPT !.answer = "ok", !.got = table])
        /\ UNCHANGED table
     \/ /\ c.op = "remove" /\ table[c.id] # None
        /\ table' = [table EXCEPT ![c.id] = None]
        /\ Answered(c, [c EXCEPT !.answer = "ok"])
     \/ /\ c.op = "save" /\ c.id = None
        /\ \E i \in Ids : table[i] = None /\ table' = [table EXCEPT ![i] = Typed(c.form)]
        /\ Answered(c, [c EXCEPT !.answer = "ok"])
     \/ /\ c.op = "save" /\ c.id # None /\ table[c.id] # None
        /\ table' = [table EXCEPT ![c.id] = Updated(@, c.form)]
        /\ Answered(c, [c EXCEPT !.answer = "ok"])
  /\ UNCHANGED page

\* Not found, a name that is taken, or an answer lost on its way.
Fail(c) ==
  /\ c.answer # "error"
  /\ Answered(c, [c EXCEPT !.answer = "error"])
  /\ UNCHANGED <<table, page>>

Elsewhere(i) ==
  /\ \E r \in {Typed(c) : c \in Contents} \cup {None} : table' = [table EXCEPT ![i] = r]
  /\ UNCHANGED <<page, calls>>

-----------------------------------------------------------------------------
\* The answers.  refresh() follows in the same handler.

Relist(c) == Answered(c, [Listing EXCEPT !.saves = c.saves])

Saved(c) ==
  /\ c.op = "save" /\ c.answer = "ok"
  /\ CancelEdit
  /\ Relist(c)
  /\ UNCHANGED <<table, open, list, saving>>

Removed(c) ==
  /\ c.op = "remove" /\ c.answer = "ok"
  /\ IF c.edits = c.id THEN CancelEdit ELSE UNCHANGED <<form, editing, from>>
  /\ Relist(c)
  /\ UNCHANGED <<table, open, list, saving>>

Over(c) ==
  /\ c.answer = "error" \/ (c.op = "list" /\ c.answer = "ok")
  /\ list' = IF c.answer = "ok" THEN c.got ELSE list
  /\ saving' = (saving /\ ~c.saves)
  /\ calls' = calls \ {c}
  /\ UNCHANGED <<table, open, form, editing, from>>

Next ==
  \/ Mount \/ Leave \/ Cancel \/ Submit
  \/ \E i \in Ids : StartEdit(i) \/ Remove(i) \/ Elsewhere(i)
  \/ \E c \in Contents : Type(c)
  \/ \E c \in calls : Serve(c) \/ Fail(c) \/ Saved(c) \/ Removed(c) \/ Over(c)

Spec == Init /\ [][Next]_vars

-----------------------------------------------------------------------------
\* What is saved to a template was typed into the form that was filled from it,
\* and a template is made of a form that was empty: whatever was cancelled,
\* edited, removed or answered in between (templates/page.tsx:49).
RightTarget == \A c \in calls : c.op = "save" => c.id = c.from
=============================================================================
