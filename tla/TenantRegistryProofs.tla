------------------------ MODULE TenantRegistryProofs ------------------------
(***************************************************************************)
(* For every number of tenants, keys, admins and calls: what an admin was  *)
(* told of an edit that nothing overlapped stays true, and the guards act  *)
(* on it; names stay unique and no row outlives its tenant; nobody changes *)
(* another tenant's template or webhook.                                   *)
(***************************************************************************)
EXTENDS TenantRegistry, TLAPS

\* A minted id has a row or had one; any other has nothing.
Fresh == \A id \in Ids \ minted: row[id] = None /\ word[id] = "none"

\* Why an edit in flight cannot break a promise made before it started.
OpFits(o) ==
    /\ o.id \in minted
    /\ o.want.active = FALSE => o.seen.active = FALSE
    /\ word[o.id] = "off" => o.seen.active = FALSE
    /\ word[o.id] # "gone"
    /\ o.at = "insert" => row[o.id] = None /\ word[o.id] = "none"
    /\ o.alone /\ o.at = "loaded" => o.base = row[o.id]
OpsFit == \A a \in Admins: op[a] # None => OpFits(op[a])

\* An edit marked alone, or an insertion, has its row to itself.
OneEditor ==
    \A a, b \in Admins:
        /\ op[a] # None /\ op[b] # None /\ op[a].id = op[b].id
        /\ op[a].alone \/ op[a].at = "insert"
        => a = b

CallsFit ==
    \A c \in Calls: /\ ~call[c].overruled
                    /\ call[c].at = "tenant" => call[c].owner \in Tenants

IInv == TypeOK /\ WordIsKept /\ Fresh /\ OpsFit /\ OneEditor /\ CallsFit

-----------------------------------------------------------------------------
\* Object.assign gives a row, inactive if the DTO says so or leaves an inactive
\* row's flag alone.
LEMMA AssignedIsRow ==
    ASSUME NEW r \in Row, NEW d \in Dto
    PROVE  /\ Assigned(r, d) \in Row
           /\ d.active = FALSE => Assigned(r, d).active = FALSE
           /\ d.active # TRUE /\ r.active = FALSE => Assigned(r, d).active = FALSE
<1>1. d.name \in Names \cup {None} /\ d.active \in BOOLEAN \cup {None}
  BY DEF Dto
<1>2. /\ r.owner \in Owners /\ r.name \in Names /\ r.active \in BOOLEAN
  BY DEF Row
<1>3. Over(d.name, r.name) \in Names /\ Over(d.active, r.active) \in BOOLEAN
  BY <1>1, <1>2 DEF Over
<1>4. d.active = FALSE => Over(d.active, r.active) = FALSE
  BY RegistryAssumption DEF Over
<1>5. d.active # TRUE /\ r.active = FALSE => Over(d.active, r.active) = FALSE
  BY <1>1 DEF Over
<1>6. Assigned(r, d) \in Row /\ Assigned(r, d).active = Over(d.active, r.active)
  BY <1>3 DEF Assigned, Row
<1> QED
  BY <1>4, <1>5, <1>6

\* What save() writes is a row or nothing.
LEMMA SavedIsRow ==
    ASSUME NEW id \in Ids, row \in [Ids -> Row \cup {None}],
           NEW base \in Row \cup {None}, NEW entity \in Row
    PROVE  Saved(id, base, entity) \in Row \cup {None}
<1>1. CASE base = None
  BY <1>1 DEF Saved
<1>2. CASE base # None /\ ~Exists(id)
  BY <1>2 DEF Saved
<1>3. CASE base # None /\ Exists(id)
  <2>1. row[id] \in Row
    BY <1>3 DEF Exists
  <2>2. Merged(row[id], base, entity) \in Row
    BY <2>1 DEF Merged, Row
  <2> QED
    BY <1>3, <2>2 DEF Saved
<1> QED
  BY <1>1, <1>2, <1>3

\* An inactive entity is saved over an inactive row, or over the row as it was
\* read, as an inactive row.
LEMMA SavedInactive ==
    ASSUME NEW id \in Ids, row \in [Ids -> Row \cup {None}],
           NEW base \in Row \cup {None}, NEW entity \in Row,
           entity.active = FALSE,
           Exists(id) /\ base # None => row[id].active = FALSE \/ row[id] = base,
           Saved(id, base, entity) # None
    PROVE  Saved(id, base, entity).active = FALSE
<1>1. CASE base = None
  BY <1>1 DEF Saved
<1>2. CASE base # None
  <2>1. Exists(id) /\ Saved(id, base, entity) = Merged(row[id], base, entity)
    BY <1>2 DEF Saved
  <2>2. row[id] \in Row /\ base \in Row
    BY <1>2, <2>1 DEF Exists
  <2>3. Merged(row[id], base, entity).active =
          IF entity.active # base.active THEN entity.active ELSE row[id].active
    BY <2>2 DEF Merged, Row
  <2>4. base.active \in BOOLEAN
    BY <2>2 DEF Row
  <2> QED
    BY <1>2, <2>1, <2>3, <2>4
<1> QED
  BY <1>1, <1>2

-----------------------------------------------------------------------------
\* A request that starts on a row keeps the invariant.
LEMMA BeginKeeps ==
    ASSUME IInv, NEW a \in Admins, NEW by \in Scope, NEW id \in Ids, NEW d \in Dto,
           NEW entity \in Row, NEW at \in {"insert", "naming", "assigned", "delete"},
           Begin(a, at, by, id, d, entity),
           \/ at = "insert" /\ id \notin minted /\ minted' = minted \cup {id}
           \/ at # "insert" /\ Exists(id) /\ minted' = minted,
           d.active = FALSE => entity.active = FALSE,
           Exists(id) /\ ~row[id].active /\ d.active # TRUE => entity.active = FALSE
    PROVE  IInv'
<1> DEFINE new == [at |-> at, by |-> by, id |-> id, want |-> d, seen |-> entity,
                   base |-> None, alone |-> InFlight(id) = {},
                   opposed |-> \E c \in InFlight(id): op[c].want.active = TRUE]
<1> DEFINE told(o) == [o EXCEPT !.alone = FALSE, !.opposed = @ \/ d.active = TRUE]
<1>0. TypeOK /\ WordIsKept /\ Fresh /\ OpsFit /\ OneEditor /\ CallsFit
  BY DEF IInv
<1>1. /\ op[a] = None /\ edits < MaxEdits /\ edits' = edits + 1
      /\ row' = row /\ call' = call
      /\ op' = [b \in Admins |-> IF b = a THEN new
                                 ELSE IF b \in InFlight(id) THEN told(op[b]) ELSE op[b]]
      /\ word' = [word EXCEPT ![id] = IF d.active = TRUE /\ @ \in {"off", "off with rivals"}
                                      THEN "none" ELSE @]
  BY DEF Begin
<1>2. \A b \in Admins: op[b] \in Op \cup {None}
  BY <1>0 DEF TypeOK
<1>3. new \in Op
  BY <1>0 DEF Op
<1>4. \A b \in InFlight(id): /\ op[b] \in Op
                             /\ told(op[b]) \in Op
                             /\ told(op[b]).at = op[b].at /\ told(op[b]).id = id
                             /\ told(op[b]).want = op[b].want /\ told(op[b]).seen = op[b].seen
                             /\ told(op[b]).base = op[b].base /\ told(op[b]).alone = FALSE
  <2> TAKE b \in InFlight(id)
  <2>1. b \in Admins /\ op[b] # None /\ op[b].id = id
    BY DEF InFlight
  <2>2. op[b] \in Op
    BY <1>2, <2>1
  <2>3. (op[b].opposed \/ d.active = TRUE) \in BOOLEAN
    OBVIOUS
  <2> QED
    BY <2>1, <2>2, <2>3 DEF Op
<1>5. TypeOK'
  <2>1. minted' \subseteq Ids
    BY <1>0 DEF TypeOK
  <2>2. op' \in [Admins -> Op \cup {None}]
    BY <1>1, <1>2, <1>3, <1>4
  <2>3. word' \in [Ids -> Words]
    BY <1>0, <1>1 DEF TypeOK, Words
  <2>4. edits' \in 0..MaxEdits
    <3>1. MaxEdits \in Nat
      BY RegistryAssumption
    <3>2. edits \in 0..MaxEdits
      BY <1>0 DEF TypeOK
    <3>3. edits < MaxEdits /\ edits' = edits + 1
      BY <1>1
    <3> QED
      BY <3>1, <3>2, <3>3
  <2> QED
    BY <1>0, <1>1, <2>1, <2>2, <2>3, <2>4 DEF TypeOK
<1>6. \A i \in Ids: /\ word'[i] \in {"off", "gone"} => word'[i] = word[i]
                    /\ word[i] = "none" => word'[i] = "none"
  BY <1>0, <1>1 DEF TypeOK
<1>7. WordIsKept'
  BY <1>0, <1>1, <1>6 DEF WordIsKept, Active, Exists
<1>8. Fresh'
  BY <1>0, <1>1, <1>6 DEF Fresh, Exists
<1>9. OpsFit'
  <2> SUFFICES ASSUME NEW b \in Admins, op'[b] # None
               PROVE  OpFits(op[b])'
    BY DEF OpsFit
  <2>1. CASE b = a
    <3>1. op'[b] = new
      BY <1>1, <2>1
    <3>2. id \in minted'
      BY <1>0 DEF Fresh, Exists
    <3>3. word'[id] = "off" => entity.active = FALSE
      <4> SUFFICES ASSUME word'[id] = "off" PROVE entity.active = FALSE
        OBVIOUS
      <4>1. word[id] = "off" /\ d.active # TRUE
        BY <1>0, <1>1 DEF TypeOK
      <4>2. id \in minted /\ ~Active(id)
        BY <1>0, <4>1 DEF Fresh, WordIsKept
      <4>3. Exists(id) /\ ~row[id].active
        BY <4>2 DEF Active
      <4> QED
        BY <4>1, <4>3
    <3>4. word'[id] # "gone"
      BY <1>0, <1>6 DEF Fresh, WordIsKept
    <3>5. at = "insert" => row'[id] = None /\ word'[id] = "none"
      BY <1>0, <1>1, <1>6 DEF Fresh
    <3> QED
      BY <3>1, <3>2, <3>3, <3>4, <3>5 DEF OpFits
  <2>2. CASE b # a
    <3>1. op[b] # None /\ OpFits(op[b])
      BY <1>0, <1>1, <1>2, <2>2 DEF OpsFit, InFlight
    <3>2. /\ op'[b].at = op[b].at /\ op'[b].id = op[b].id /\ op'[b].want = op[b].want
          /\ op'[b].seen = op[b].seen /\ op'[b].base = op[b].base
          /\ op'[b].alone => op[b].alone
      <4>1. CASE b \in InFlight(id)
        BY <1>1, <1>4, <2>2, <4>1 DEF InFlight
      <4>2. CASE b \notin InFlight(id)
        BY <1>1, <2>2, <4>2
      <4> QED
        BY <4>1, <4>2
    <3>3. op[b].id \in Ids /\ minted \subseteq minted'
      BY <1>2, <3>1 DEF Op
    <3>4. row' = row
      BY <1>1
    <3>5. /\ word'[op[b].id] \in {"off", "gone"} => word'[op[b].id] = word[op[b].id]
          /\ word[op[b].id] = "none" => word'[op[b].id] = "none"
      BY <1>6, <3>3
    <3>6. /\ op[b].id \in minted'
          /\ op[b].want.active = FALSE => op[b].seen.active = FALSE
          /\ word'[op[b].id] = "off" => op[b].seen.active = FALSE
          /\ word'[op[b].id] # "gone"
          /\ op[b].at = "insert" => row'[op[b].id] = None /\ word'[op[b].id] = "none"
          /\ op[b].alone /\ op[b].at = "loaded" => op[b].base = row'[op[b].id]
      BY <3>1, <3>3, <3>4, <3>5 DEF OpFits
    <3> QED
      BY <3>2, <3>6 DEF OpFits
  <2> QED
    BY <2>1, <2>2
<1>10. OneEditor'
  <2> SUFFICES ASSUME NEW b \in Admins, NEW c \in Admins, op'[b] # None, op'[c] # None,
                      op'[b].id = op'[c].id, op'[b].alone \/ op'[b].at = "insert", b # c
               PROVE  FALSE
    BY DEF OneEditor
  <2>1. \A e \in Admins: op'[e] # None /\ e # a =>
            /\ op[e] # None /\ op'[e].id = op[e].id /\ op'[e].at = op[e].at
            /\ op'[e].alone => op[e].alone /\ e \notin InFlight(id)
    BY <1>1, <1>4 DEF InFlight
  <2>2. CASE b # a /\ c # a
    BY <1>0, <2>1, <2>2 DEF OneEditor
  <2>3. CASE b = a
    <3>1. c \in InFlight(id) /\ op[c] # None
      BY <1>1, <2>1, <2>3 DEF InFlight
    <3>2. id \in minted
      BY <1>0, <3>1 DEF OpsFit, OpFits, InFlight
    <3> QED
      BY <1>1, <2>3, <3>1, <3>2
  <2>4. CASE c = a
    <3>1. b \in InFlight(id) /\ op[b] # None
      BY <1>1, <2>1, <2>4 DEF InFlight
    <3>2. op[b].at = "insert" /\ op[b].id = id
      BY <2>1, <2>4, <3>1 DEF InFlight
    <3>3. id \in minted /\ row[id] = None
      BY <1>0, <3>1, <3>2 DEF OpsFit, OpFits
    <3> QED
      BY <3>3 DEF Exists
  <2> QED
    BY <2>2, <2>3, <2>4
<1> QED
  BY <1>0, <1>1, <1>5, <1>7, <1>8, <1>9, <1>10 DEF IInv, CallsFit

\* A request that is answered keeps the invariant, given what it did to its row:
\* nothing, or what its promise says.
LEMMA FinishKeeps ==
    ASSUME IInv, NEW a \in Admins, op[a] # None, NEW said \in {"", "off", "gone"},
           Finish(a, said), NEW new \in Row \cup {None},
           row' = [row EXCEPT ![op[a].id] = new],
           \/ new = row[op[a].id]
           \/ /\ word[op[a].id] = "off" /\ new # None => ~new.active
              /\ word[op[a].id] # "gone"
              /\ op[a].id \in minted,
           said = "off" /\ op[a].alone /\ new # None => ~new.active,
           said = "gone" => new = None
    PROVE  IInv'
<1> DEFINE id == op[a].id
<1>0. TypeOK /\ WordIsKept /\ Fresh /\ OpsFit /\ OneEditor /\ CallsFit
  BY DEF IInv
<1>1. /\ op' = [op EXCEPT ![a] = None]
      /\ minted' = minted /\ call' = call /\ edits' = edits
      /\ word' = [word EXCEPT ![id] =
                    IF said = "" \/ (said = "off" /\ op[a].opposed) THEN @
                    ELSE IF op[a].alone THEN said
                    ELSE IF said = "off" THEN "off with rivals" ELSE "gone with rivals"]
  BY DEF Finish
<1>2. op[a] \in Op /\ id \in Ids
  BY <1>0 DEF TypeOK, Op
<1>3. \A i \in Ids: /\ i # id => word'[i] = word[i] /\ row'[i] = row[i]
                    /\ row'[id] = new
  BY <1>0, <1>1, <1>2 DEF TypeOK
<1>4. \/ word'[id] = word[id]
      \/ op[a].alone /\ said \in {"off", "gone"} /\ word'[id] = said
      \/ word'[id] \in {"off with rivals", "gone with rivals"}
  BY <1>0, <1>1, <1>2 DEF TypeOK
<1>5. TypeOK'
  <2>1. row' \in [Ids -> Row \cup {None}]
    BY <1>0 DEF TypeOK
  <2>2. op' \in [Admins -> Op \cup {None}]
    BY <1>0, <1>1 DEF TypeOK
  <2>3. word' \in [Ids -> Words]
    <3>1. word'[id] \in Words
      BY <1>0, <1>2, <1>4 DEF TypeOK, Words
    <3> QED
      BY <1>0, <1>1, <1>2, <3>1 DEF TypeOK
  <2> QED
    BY <1>0, <1>1, <2>1, <2>2, <2>3 DEF TypeOK
<1>6. OpFits(op[a])
  BY <1>0 DEF OpsFit
<1>7. id \in minted
  BY <1>6 DEF OpFits
<1>8. WordIsKept'
  <2> SUFFICES ASSUME NEW i \in Ids
               PROVE  /\ word'[i] = "off" => row'[i] = None \/ ~row'[i].active
                      /\ word'[i] = "gone" => row'[i] = None
    BY DEF WordIsKept, Active, Exists
  <2>1. /\ word[i] = "off" => row[i] = None \/ ~row[i].active
        /\ word[i] = "gone" => row[i] = None
    BY <1>0 DEF WordIsKept, Active, Exists
  <2>2. CASE i # id
    BY <1>3, <2>1, <2>2
  <2>3. CASE i = id /\ word'[id] = word[id]
    BY <1>3, <2>1, <2>3
  <2>4. CASE i = id /\ word'[id] # word[id]
    BY <1>3, <1>4, <2>4
  <2> QED
    BY <2>2, <2>3, <2>4
<1>9. Fresh'
  BY <1>0, <1>1, <1>3, <1>7 DEF Fresh
<1>10. OpsFit'
  <2> SUFFICES ASSUME NEW b \in Admins, op'[b] # None
               PROVE  OpFits(op[b])'
    BY DEF OpsFit
  <2>1. b # a /\ op'[b] = op[b] /\ op[b] # None
    BY <1>0, <1>1 DEF TypeOK
  <2>2. OpFits(op[b]) /\ op[b].id \in Ids
    BY <1>0, <2>1 DEF OpsFit, TypeOK, Op
  <2>3. CASE op[b].id # id
    <3>1. word'[op[b].id] = word[op[b].id] /\ row'[op[b].id] = row[op[b].id]
      BY <1>3, <2>2, <2>3
    <3>2. /\ op[b].id \in minted'
          /\ op[b].want.active = FALSE => op[b].seen.active = FALSE
          /\ word'[op[b].id] = "off" => op[b].seen.active = FALSE
          /\ word'[op[b].id] # "gone"
          /\ op[b].at = "insert" => row'[op[b].id] = None /\ word'[op[b].id] = "none"
          /\ op[b].alone /\ op[b].at = "loaded" => op[b].base = row'[op[b].id]
      BY <1>1, <2>2, <3>1 DEF OpFits
    <3> QED
      BY <2>1, <3>2 DEF OpFits
  <2>4. CASE op[b].id = id
    <3>1. ~op[a].alone /\ ~op[b].alone /\ op[b].at # "insert"
      BY <1>0, <2>1, <2>4 DEF OneEditor
    <3>2. word'[id] \in {word[id], "off with rivals", "gone with rivals"}
      BY <1>4, <3>1
    <3>3. /\ op[b].id \in minted'
          /\ op[b].want.active = FALSE => op[b].seen.active = FALSE
          /\ word'[op[b].id] = "off" => op[b].seen.active = FALSE
          /\ word'[op[b].id] # "gone"
          /\ op[b].at = "insert" => row'[op[b].id] = None /\ word'[op[b].id] = "none"
          /\ op[b].alone /\ op[b].at = "loaded" => op[b].base = row'[op[b].id]
      BY <1>1, <2>2, <2>4, <3>1, <3>2 DEF OpFits
    <3> QED
      BY <2>1, <3>3 DEF OpFits
  <2> QED
    BY <2>3, <2>4
<1>11. OneEditor'
  BY <1>0, <1>1 DEF OneEditor, TypeOK
<1> QED
  BY <1>0, <1>1, <1>5, <1>8, <1>9, <1>10, <1>11 DEF IInv, CallsFit

\* Each step of an admin request keeps the invariant.
LEMMA AdminKeeps ==
    ASSUME IInv, NEW a \in Admins, AdminStep(a)
    PROVE  IInv'
<1>0. TypeOK /\ WordIsKept /\ Fresh /\ OpsFit /\ OneEditor /\ CallsFit
  BY DEF IInv
<1>1. \A i \in Ids: row[i] \in Row \cup {None} /\ (Exists(i) => row[i] \in Row)
  BY <1>0 DEF TypeOK, Exists
<1>2. Blank \in Dto /\ Blank.active \notin BOOLEAN
  BY RegistryAssumption DEF Dto, Blank
<1>3. op[a] # None => /\ op[a] \in Op /\ op[a].id \in Ids /\ op[a].seen \in Row
                      /\ op[a].base \in Row \cup {None} /\ OpFits(op[a])
  BY <1>0 DEF TypeOK, Op, OpsFit
<1>4. Admin \in Scope /\ \A o \in Owners: o \in Scope
  BY DEF Scope
<1>5. ASSUME NEW id \in Ids \ minted, NEW scope \in Scope, NEW entity \in Row,
             Begin(a, "insert", scope, id, Blank, entity), minted' = minted \cup {id}
      PROVE  IInv'
  <2>1. ~Exists(id)
    BY <1>0, <1>5 DEF Fresh, Exists
  <2> QED
    BY <1>2, <1>5, <2>1, BeginKeeps
<1>6. ASSUME NEW id \in Ids, NEW scope \in Scope, NEW d \in Dto, Exists(id), minted' = minted,
             \/ Begin(a, "assigned", scope, id, d, Assigned(row[id], d))
             \/ Begin(a, "naming", scope, id, d, Assigned(row[id], d))
      PROVE  IInv'
  <2>1. row[id] \in Row /\ row[id].active \in BOOLEAN
    BY <1>1, <1>6 DEF Row
  <2>2. /\ Assigned(row[id], d) \in Row
        /\ d.active = FALSE => Assigned(row[id], d).active = FALSE
        /\ ~row[id].active /\ d.active # TRUE => Assigned(row[id], d).active = FALSE
    BY <2>1, AssignedIsRow
  <2> QED
    BY <1>6, <2>2, BeginKeeps
<1>7. CASE CreateTenant(a) \/ CreateKey(a) \/ CreateTemplate(a) \/ CreateHook(a)
  <2>1. CASE CreateTenant(a)
    <3>1. PICK t \in Tenants \ minted, n \in Names:
             /\ Begin(a, "insert", Admin, t, Blank, [owner |-> Platform, name |-> n, active |-> TRUE])
             /\ minted' = minted \cup {t}
      BY <2>1 DEF CreateTenant
    <3>2. t \in Ids \ minted /\ [owner |-> Platform, name |-> n, active |-> TRUE] \in Row
      BY DEF Ids, Owners, Row
    <3> QED
      BY <1>4, <1>5, <3>1, <3>2
  <2>2. CASE CreateKey(a)
    <3>1. PICK k \in Keys \ minted, owner \in Owners, n \in Names:
             /\ Begin(a, "insert", Admin, k, Blank, [owner |-> owner, name |-> n, active |-> TRUE])
             /\ minted' = minted \cup {k}
      BY <2>2 DEF CreateKey
    <3>2. k \in Ids \ minted /\ [owner |-> owner, name |-> n, active |-> TRUE] \in Row
      BY DEF Ids, Row
    <3> QED
      BY <1>4, <1>5, <3>1, <3>2
  <2>3. CASE CreateTemplate(a)
    <3>1. PICK t \in Templates \ minted, scope \in Scope, asked \in Owners, n \in Names:
             /\ Begin(a, "insert", scope, t, Blank,
                      [owner |-> OwnerFor(scope, asked), name |-> n, active |-> TRUE])
             /\ minted' = minted \cup {t}
      BY <2>3 DEF CreateTemplate
    <3>2. t \in Ids \ minted /\ OwnerFor(scope, asked) \in Owners
      BY DEF Ids, OwnerFor, Scope
    <3>3. [owner |-> OwnerFor(scope, asked), name |-> n, active |-> TRUE] \in Row
      BY <3>2 DEF Row
    <3> QED
      BY <1>5, <3>1, <3>2, <3>3
  <2>4. CASE CreateHook(a)
    <3>1. PICK h \in Hooks \ minted, scope \in Scope, asked \in Owners, n \in Names, on \in BOOLEAN:
             /\ Begin(a, "insert", scope, h, Blank,
                      [owner |-> OwnerFor(scope, asked), name |-> n, active |-> on])
             /\ minted' = minted \cup {h}
      BY <2>4 DEF CreateHook
    <3>2. h \in Ids \ minted /\ OwnerFor(scope, asked) \in Owners
      BY DEF Ids, OwnerFor, Scope
    <3>3. [owner |-> OwnerFor(scope, asked), name |-> n, active |-> on] \in Row
      BY <3>2 DEF Row
    <3> QED
      BY <1>5, <3>1, <3>2, <3>3
  <2> QED
    BY <1>7, <2>1, <2>2, <2>3, <2>4
<1>8. CASE \/ UpdateTenant(a) \/ UpdateKey(a) \/ UpdateTemplate(a) \/ UpdateHook(a)
  <2>1. PICK id \in Ids, scope \in Scope, d \in Dto:
           /\ Exists(id) /\ minted' = minted
           /\ \/ Begin(a, "assigned", scope, id, d, Assigned(row[id], d))
              \/ Begin(a, "naming", scope, id, d, Assigned(row[id], d))
    <3>1. CASE UpdateTenant(a)
      <4>1. PICK t \in Tenants, d \in Dto:
              /\ Exists(t) /\ minted' = minted
              /\ Begin(a, IF d.name \in {None, row[t].name} THEN "assigned" ELSE "naming",
                       Admin, t, d, Assigned(row[t], d))
        BY <3>1 DEF UpdateTenant
      <4>2. \/ Begin(a, "assigned", Admin, t, d, Assigned(row[t], d))
            \/ Begin(a, "naming", Admin, t, d, Assigned(row[t], d))
        BY <4>1
      <4> QED
        BY <1>4, <4>1, <4>2 DEF Ids
    <3>2. CASE UpdateTemplate(a)
      <4>1. PICK t \in Templates, scope \in Scope, d \in Dto:
              /\ Exists(t) /\ minted' = minted
              /\ Begin(a, IF d.name \in {None, row[t].name} THEN "assigned" ELSE "naming",
                       scope, t, d, Assigned(row[t], d))
        BY <3>2 DEF UpdateTemplate
      <4>2. \/ Begin(a, "assigned", scope, t, d, Assigned(row[t], d))
            \/ Begin(a, "naming", scope, t, d, Assigned(row[t], d))
        BY <4>1
      <4> QED
        BY <4>1, <4>2 DEF Ids
    <3>3. CASE UpdateKey(a)
      BY <1>4, <3>3 DEF UpdateKey, Ids
    <3>4. CASE UpdateHook(a)
      BY <3>4 DEF UpdateHook, Ids
    <3> QED
      BY <1>8, <3>1, <3>2, <3>3, <3>4
  <2> QED
    BY <1>6, <2>1
<1>14. CASE RemoveTenant(a) \/ RemoveKey(a) \/ RemoveTemplate(a) \/ RemoveHook(a)
  <2>1. PICK i \in Ids, scope \in Scope:
          Exists(i) /\ Begin(a, "delete", scope, i, Blank, row[i]) /\ minted' = minted
    BY <1>4, <1>14 DEF RemoveTenant, RemoveKey, RemoveTemplate, RemoveHook, Ids
  <2>2. row[i] \in Row /\ row[i].active \in BOOLEAN
    BY <1>1, <2>1 DEF Row
  <2> QED
    BY <1>2, <2>1, <2>2, BeginKeeps
<1>9. CASE Insert(a)
  <2> DEFINE new == IF Violates(op[a].id, op[a].seen) THEN row[op[a].id] ELSE op[a].seen
  <2>1. /\ op[a] # None /\ op[a].at = "insert" /\ Finish(a, "")
        /\ row' = [row EXCEPT ![op[a].id] = new]
    BY <1>0, <1>3, <1>9 DEF Insert, TypeOK
  <2>2. word[op[a].id] = "none" /\ op[a].id \in minted
    BY <1>3, <2>1 DEF OpFits
  <2>3. new \in Row \cup {None}
    BY <1>1, <1>3, <2>1
  <2> HIDE DEF new
  <2> QED
    BY <2>1, <2>2, <2>3, FinishKeeps
<1>10. CASE CheckName(a)
  <2>1. CASE NameTaken(op[a].want.name, op[a].seen.owner, op[a].id)
    <3>1. op[a] # None /\ Finish(a, "") /\ row' = [row EXCEPT ![op[a].id] = row[op[a].id]]
      BY <1>0, <1>3, <1>10, <2>1 DEF CheckName, TypeOK
    <3> QED
      BY <1>1, <1>3, <3>1, FinishKeeps
  <2>2. CASE ~NameTaken(op[a].want.name, op[a].seen.owner, op[a].id)
    <3>1. /\ op[a] # None /\ op' = [op EXCEPT ![a].at = "assigned"]
          /\ UNCHANGED <<row, minted, call, word, edits>>
      BY <1>10, <2>2 DEF CheckName, Goto
    <3> DEFINE moved == [op[a] EXCEPT !.at = "assigned"]
    <3>2. /\ moved \in Op /\ moved.at = "assigned" /\ moved.id = op[a].id
          /\ moved.want = op[a].want /\ moved.seen = op[a].seen /\ moved.alone = op[a].alone
          /\ op' = [op EXCEPT ![a] = moved]
      BY <1>3, <3>1 DEF Op
    <3> HIDE DEF moved
    <3>3. TypeOK'
      BY <1>0, <3>1, <3>2 DEF TypeOK
    <3>4. \A b \in Admins: op'[b] = IF b = a THEN moved ELSE op[b]
      BY <1>0, <3>2 DEF TypeOK
    <3>5. OpFits(moved)
      BY <1>3, <3>1, <3>2 DEF OpFits
    <3>6. OpsFit'
      BY <1>0, <3>1, <3>4, <3>5 DEF OpsFit, OpFits
    <3>7. OneEditor'
      BY <1>0, <3>1, <3>2, <3>4 DEF OneEditor
    <3> QED
      BY <1>0, <3>1, <3>3, <3>6, <3>7
         DEF IInv, WordIsKept, Fresh, CallsFit, Active, Exists
  <2> QED
    BY <2>1, <2>2
<1>11. CASE Reload(a)
  <2>1. /\ op[a] # None /\ op[a].at = "assigned"
        /\ op' = [op EXCEPT ![a].at = "loaded", ![a].base = row[op[a].id]]
        /\ UNCHANGED <<row, minted, call, word, edits>>
    BY <1>11 DEF Reload
  <2> DEFINE moved == [op[a] EXCEPT !.at = "loaded", !.base = row[op[a].id]]
  <2>2. /\ moved \in Op /\ moved.at = "loaded" /\ moved.id = op[a].id
        /\ moved.want = op[a].want /\ moved.seen = op[a].seen /\ moved.alone = op[a].alone
        /\ moved.base = row[op[a].id]
        /\ op' = [op EXCEPT ![a] = moved]
    BY <1>1, <1>3, <2>1 DEF Op
  <2> HIDE DEF moved
  <2>3. TypeOK'
    BY <1>0, <2>1, <2>2 DEF TypeOK
  <2>4. \A b \in Admins: op'[b] = IF b = a THEN moved ELSE op[b]
    BY <1>0, <2>2 DEF TypeOK
  <2>5. OpFits(moved)
    BY <1>3, <2>1, <2>2 DEF OpFits
  <2>6. OpsFit'
    <3> SUFFICES ASSUME NEW b \in Admins, op'[b] # None
                 PROVE  OpFits(op[b])'
      BY DEF OpsFit
    <3>1. OpFits(op'[b])
      BY <1>0, <2>4, <2>5 DEF OpsFit
    <3> QED
      BY <2>1, <3>1 DEF OpFits
  <2>7. OneEditor'
    BY <1>0, <2>1, <2>2, <2>4 DEF OneEditor
  <2> QED
    BY <1>0, <2>1, <2>3, <2>6, <2>7
       DEF IInv, WordIsKept, Fresh, CallsFit, Active, Exists
<1>12. CASE WriteBack(a)
  <2> DEFINE id == op[a].id
             saved == Saved(id, op[a].base, op[a].seen)
             refused == saved # None /\ (Violates(id, saved) \/ (op[a].base = None /\ Exists(id)))
             new == IF refused THEN row[id] ELSE saved
             said == IF ~refused /\ op[a].want.active = FALSE THEN "off" ELSE ""
  <2>1. op[a] # None /\ op[a].at = "loaded" /\ Finish(a, said)
    BY <1>12 DEF WriteBack
  <2>2. row' = [row EXCEPT ![id] = new]
    BY <1>0, <1>3, <1>12 DEF WriteBack, TypeOK
  <2>3. OpFits(op[a]) /\ id \in Ids /\ id \in minted /\ word[id] # "gone"
    BY <1>3, <2>1 DEF OpFits
  <2>4. saved \in Row \cup {None}
    BY <1>0, <1>3, <2>1, SavedIsRow DEF TypeOK
  <2>5. new \in Row \cup {None}
    BY <1>1, <2>3, <2>4
  <2>6. \A i \in Ids: Exists(i) => row[i].active \in BOOLEAN
    BY <1>1 DEF Row
  <2>7. word[id] = "off" /\ new # None => ~new.active
    <3>1. CASE refused
      BY <1>0, <2>3, <3>1 DEF WordIsKept, Active, Exists
    <3>2. CASE ~refused
      <4> SUFFICES ASSUME word[id] = "off", saved # None PROVE saved.active = FALSE
        BY <3>2
      <4>1. op[a].seen.active = FALSE
        BY <2>3 DEF OpFits
      <4>2. Exists(id) => row[id].active = FALSE
        BY <1>0, <2>3, <2>6 DEF WordIsKept, Active
      <4> QED
        BY <1>0, <1>3, <2>1, <4>1, <4>2, SavedInactive DEF TypeOK
    <3> QED
      BY <3>1, <3>2
  <2>8. said = "off" /\ op[a].alone /\ new # None => ~new.active
    <3> SUFFICES ASSUME ~refused, op[a].want.active = FALSE, op[a].alone, saved # None
                 PROVE  saved.active = FALSE
      OBVIOUS
    <3>1. op[a].seen.active = FALSE /\ op[a].base = row[id]
      BY <2>1, <2>3 DEF OpFits
    <3> QED
      BY <1>0, <1>3, <2>1, <3>1, SavedInactive DEF TypeOK
  <2>9. said \in {"", "off", "gone"} /\ said # "gone"
    OBVIOUS
  <2> HIDE DEF new, said
  <2> QED
    BY <2>1, <2>2, <2>3, <2>5, <2>7, <2>8, <2>9, FinishKeeps
<1>13. CASE Delete(a)
  <2>1. CASE op[a].id \in Tenants /\ Referenced(op[a].id)
    <3>1. op[a] # None /\ Finish(a, "") /\ row' = [row EXCEPT ![op[a].id] = row[op[a].id]]
      BY <1>0, <1>3, <1>13, <2>1 DEF Delete, TypeOK
    <3> QED
      BY <1>1, <1>3, <3>1, FinishKeeps
  <2>2. CASE ~(op[a].id \in Tenants /\ Referenced(op[a].id))
    <3>1. op[a] # None /\ Finish(a, "gone") /\ row' = [row EXCEPT ![op[a].id] = None]
      BY <1>13, <2>2 DEF Delete
    <3>2. word[op[a].id] # "gone" /\ op[a].id \in minted
      BY <1>3, <3>1 DEF OpFits
    <3> QED
      BY <3>1, <3>2, FinishKeeps
  <2> QED
    BY <2>1, <2>2
<1> QED
  BY <1>7, <1>8, <1>9, <1>10, <1>11, <1>12, <1>13, <1>14
     DEF AdminStep, TenantRequest, KeyRequest, TemplateRequest, HookRequest

\* The guards' reads keep it: what stands is not active.
LEMMA GuardKeeps ==
    ASSUME IInv, NEW c \in Calls, Guard(c)
    PROVE  IInv'
<1>0. TypeOK /\ WordIsKept /\ Fresh /\ OpsFit /\ OneEditor /\ CallsFit
  BY DEF IInv
<1>1. \A i \in Ids: Active(i) => ~Stands(i)
  BY <1>0 DEF WordIsKept, Active, Stands
<1>2. call' \in [Calls -> Call] /\ CallsFit' /\ UNCHANGED <<row, minted, op, word, edits>>
  <2>1. CASE ReadKey(c)
    <3>1. PICK k \in Keys:
            /\ call' = [call EXCEPT ![c] =
                 IF ~Active(k) THEN [at |-> "idle", owner |-> Platform, overruled |-> FALSE]
                 ELSE [at |-> IF row[k].owner = Platform THEN "admitted" ELSE "tenant",
                       owner |-> row[k].owner, overruled |-> Stands(k)]]
            /\ UNCHANGED <<row, minted, op, word, edits>>
      BY <2>1 DEF ReadKey
    <3>2. k \in Ids /\ (Active(k) => ~Stands(k))
      BY <1>1 DEF Ids
    <3>3. Active(k) => row[k].owner \in Owners
      BY <1>0, <3>2 DEF TypeOK, Active, Exists, Row
    <3>4. Stands(k) \in BOOLEAN
      BY DEF Stands
    <3>5. /\ call'[c] \in Call /\ ~call'[c].overruled
          /\ call'[c].at = "tenant" => call'[c].owner \in Tenants
      <4>1. CASE Active(k)
        BY <1>0, <3>1, <3>2, <3>3, <3>4, <4>1 DEF TypeOK, Call, Owners
      <4>2. CASE ~Active(k)
        BY <1>0, <3>1, <4>2 DEF TypeOK, Call, Owners
      <4> QED
        BY <4>1, <4>2
    <3>6. call' = [call EXCEPT ![c] = call'[c]]
      BY <1>0, <3>1 DEF TypeOK
    <3> QED
      BY <1>0, <3>1, <3>5, <3>6 DEF TypeOK, CallsFit, Owners
  <2>2. CASE ReadTenant(c)
    <3>1. call[c] \in Call /\ ~call[c].overruled
      BY <1>0 DEF TypeOK, CallsFit, Owners
    <3>2. /\ call[c].at = "tenant"
          /\ call' = [call EXCEPT
               ![c].at = IF TenantOk(call[c].owner) THEN "admitted" ELSE "idle",
               ![c].owner = Platform,
               ![c].overruled = @ \/ (TenantOk(call[c].owner) /\ Stands(call[c].owner))]
          /\ UNCHANGED <<row, minted, op, word, edits>>
      BY <2>2 DEF ReadTenant
    <3>3. ~(TenantOk(call[c].owner) /\ Stands(call[c].owner))
      <4>1. call[c].owner \in Ids
        BY <1>0, <3>2 DEF CallsFit, Ids
      <4> QED
        BY <1>1, <4>1 DEF TenantOk
    <3>4. call'[c] \in Call /\ ~call'[c].overruled /\ call'[c].at # "tenant"
      BY <1>0, <3>1, <3>2, <3>3 DEF TypeOK, Call, Owners
    <3>5. call' = [call EXCEPT ![c] = call'[c]]
      BY <1>0, <3>2 DEF TypeOK
    <3> QED
      BY <1>0, <3>2, <3>4, <3>5 DEF TypeOK, CallsFit, Owners
  <2>3. CASE PresentToken(c)
    BY <1>0, <2>3 DEF PresentToken, TypeOK, Call, CallsFit, Owners
  <2> QED
    BY <2>1, <2>2, <2>3 DEF Guard
<1> QED
  BY <1>0, <1>2
     DEF IInv, TypeOK, WordIsKept, Fresh, OpsFit, OpFits, OneEditor, Active, Exists

\* The invariant holds in every reachable state.
LEMMA Inductive == Spec => []IInv
<1>1. Init => IInv
  <2> SUFFICES ASSUME Init PROVE IInv
    OBVIOUS
  <2>1. TypeOK
    BY RegistryAssumption DEF Init, TypeOK, Call, Words, Owners
  <2> QED
    BY <2>1 DEF Init, IInv, WordIsKept, Fresh, OpsFit, OneEditor, CallsFit, Exists
<1>2. IInv /\ [Next]_vars => IInv'
  <2> SUFFICES ASSUME IInv, [Next]_vars PROVE IInv'
    OBVIOUS
  <2>1. CASE UNCHANGED vars
    BY <2>1 DEF vars, IInv, TypeOK, WordIsKept, Fresh, OpsFit, OpFits, OneEditor,
                CallsFit, Active, Exists
  <2>2. CASE Next
    BY <2>2, AdminKeeps, GuardKeeps DEF Next
  <2> QED
    BY <2>1, <2>2
<1> QED
  BY <1>1, <1>2, PTL DEF Spec

\* Every reachable state of the tables, requests and guards is well typed.
THEOREM RegistryTypeCorrect == Spec => []TypeOK
<1>1. IInv => TypeOK
  BY DEF IInv
<1> QED
  BY <1>1, Inductive, PTL

\* What an admin was told of an undisturbed edit stays true, for any number of
\* admins and rows.
THEOREM AnswersAreKept == Spec => []WordIsKept
<1>1. IInv => WordIsKept
  BY DEF IInv
<1> QED
  BY <1>1, Inductive, PTL

\* The guard lets nobody in against an undisturbed deactivation or deletion.
THEOREM GuardCutsOff == Spec => []CutOff
<1>1. IInv => CutOff
  BY DEF IInv, CallsFit, CutOff
<1> QED
  BY <1>1, Inductive, PTL
-----------------------------------------------------------------------------
\* The one way a row changes: the request a writes new over its row and ends.  It
\* deletes a row nothing refers to, or writes one that no constraint refuses and
\* that has the owner of the row as it is, or as the request read it.
Writes(a, new) ==
    /\ op[a] # None /\ op[a].at \in {"insert", "loaded", "delete"}
    /\ row' = [row EXCEPT ![op[a].id] = new]
    /\ \/ new = None /\ ~(op[a].id \in Tenants /\ Referenced(op[a].id))
       \/ /\ new \in Row /\ ~Violates(op[a].id, new)
          /\ new.owner = IF Exists(op[a].id) THEN row[op[a].id].owner ELSE op[a].seen.owner

\* What a save writes over a row has the owner the row has.
LEMMA SavedOwner ==
    ASSUME TypeOK, NEW id \in Ids, NEW base \in Row, NEW entity \in Row, Exists(id)
    PROVE  /\ Saved(id, base, entity) \in Row
           /\ Saved(id, base, entity).owner = row[id].owner
<1>1. row[id] \in Row /\ base # None
  BY RegistryAssumption DEF TypeOK, Exists
<1>2. Saved(id, base, entity) = Merged(row[id], base, entity)
  BY <1>1 DEF Saved
<1>3. /\ Merged(row[id], base, entity) \in Row
      /\ Merged(row[id], base, entity).owner = row[id].owner
  BY <1>1 DEF Merged, Row
<1> QED
  BY <1>2, <1>3

\* An insertion that changes anything writes its entity.
LEMMA InsertWrites ==
    ASSUME IInv, NEW a \in Admins, Insert(a), row' # row
    PROVE  \E new \in Row \cup {None}: Writes(a, new)
<1>1. /\ op[a] # None /\ op[a].at = "insert" /\ ~Violates(op[a].id, op[a].seen)
      /\ row' = [row EXCEPT ![op[a].id] = op[a].seen]
  BY DEF Insert
<1>2. op[a] \in Op /\ op[a].seen \in Row /\ ~Exists(op[a].id)
  BY <1>1 DEF IInv, TypeOK, Op, OpsFit, OpFits, Exists
<1>3. Writes(a, op[a].seen)
  BY <1>1, <1>2 DEF Writes
<1> QED
  BY <1>2, <1>3

\* A save that changes anything inserts its entity where there is no row, or
\* updates the row there is.
LEMMA WriteBackWrites ==
    ASSUME IInv, NEW a \in Admins, WriteBack(a), row' # row
    PROVE  \E new \in Row \cup {None}: Writes(a, new)
<1> DEFINE id == op[a].id
           new == Saved(id, op[a].base, op[a].seen)
<1>1. op[a] # None /\ op[a].at = "loaded"
  BY DEF WriteBack
<1>2. /\ ~(new # None /\ (Violates(id, new) \/ (op[a].base = None /\ Exists(id))))
      /\ row' = [row EXCEPT ![id] = new]
  BY DEF WriteBack
<1>3. TypeOK /\ id \in Ids /\ op[a].seen \in Row /\ op[a].base \in Row \cup {None}
  BY <1>1 DEF IInv, TypeOK, Op
<1>4. None \notin Row
  BY RegistryAssumption
<1>5. CASE op[a].base = None
  <2>1. new = op[a].seen
    BY <1>5 DEF Saved
  <2>2. new # None
    BY <1>3, <1>4, <2>1
  <2>3. ~Exists(id) /\ ~Violates(id, new)
    BY <1>2, <1>5, <2>2
  <2>4. Writes(a, new)
    <3> HIDE DEF new
    <3> QED
      BY <1>1, <1>2, <1>3, <2>1, <2>3 DEF Writes
  <2> QED
    BY <1>3, <2>1, <2>4
<1>6. CASE op[a].base # None /\ ~Exists(id)
  <2>1. new = None /\ row[id] = None
    BY <1>6 DEF Saved, Exists
  <2>2. row' = row
    BY <1>2, <1>3, <2>1 DEF TypeOK
  <2> QED
    BY <2>2
<1>7. CASE op[a].base # None /\ Exists(id)
  <2>1. new \in Row /\ new.owner = row[id].owner
    BY <1>3, <1>7, SavedOwner
  <2>2. ~Violates(id, new)
    BY <1>2, <1>4, <2>1
  <2>3. Writes(a, new)
    <3> HIDE DEF new
    <3> QED
      BY <1>1, <1>2, <1>7, <2>1, <2>2 DEF Writes
  <2> QED
    BY <2>1, <2>3
<1> QED
  BY <1>3, <1>5, <1>6, <1>7

\* No step of an admin's request changes the tables in any other way.
LEMMA OnlyWrites ==
    ASSUME IInv, NEW a \in Admins, AdminStep(a), row' # row
    PROVE  \E new \in Row \cup {None}: Writes(a, new)
<1>1. ~(\/ TenantRequest(a) \/ KeyRequest(a) \/ TemplateRequest(a) \/ HookRequest(a))
  BY DEF TenantRequest, KeyRequest, TemplateRequest, HookRequest, CreateTenant, UpdateTenant,
         RemoveTenant, CreateKey, UpdateKey, RemoveKey, CreateTemplate, UpdateTemplate,
         RemoveTemplate, CreateHook, UpdateHook, RemoveHook, Begin
<1>2. ~CheckName(a) /\ ~Reload(a)
  BY DEF CheckName, Reload
<1>3. CASE Insert(a)
  BY <1>3, InsertWrites
<1>4. CASE WriteBack(a)
  BY <1>4, WriteBackWrites
<1>5. CASE Delete(a)
  <2>1. Writes(a, None)
    BY <1>5 DEF Delete, Writes
  <2> QED
    BY <2>1
<1> QED
  BY <1>1, <1>2, <1>3, <1>4, <1>5 DEF AdminStep

\* Such a write makes no two names equal and leaves no row without its tenant.
LEMMA WritesKeepNames ==
    ASSUME TypeOK, NamesAndOwners, NEW a \in Admins, NEW new \in Row \cup {None}, Writes(a, new)
    PROVE  NamesAndOwners'
<1> DEFINE id == op[a].id
<1>1. id \in Ids /\ row \in [Ids -> Row \cup {None}]
  BY DEF TypeOK, Op, Writes
<1>2. \A i \in Ids: row'[i] = IF i = id THEN new ELSE row[i]
  BY <1>1 DEF Writes
<1>3. \/ new = None /\ ~(id \in Tenants /\ Referenced(id))
      \/ new \in Row /\ new # None /\ ~Violates(id, new)
  BY RegistryAssumption DEF Writes
<1>4. Tenants \subseteq Ids /\ Templates \subseteq Ids /\ Tenants \cap Templates = {}
  BY RegistryAssumption DEF Ids
<1> HIDE DEF id
<1>5. ASSUME NEW i \in Tenants \cup Templates, row'[i] # None,
             NEW j \in (IF i \in Tenants THEN Tenants ELSE Templates) \ {i}, row'[j] # None,
             row'[j].name = row'[i].name, row'[j].owner = row'[i].owner
      PROVE  FALSE
  <2>1. i \in Ids /\ j \in Ids /\ i # j
    BY <1>4
  <2>2. CASE i # id /\ j # id
    BY <1>2, <1>5, <2>1, <2>2 DEF NamesAndOwners, NameTaken, Exists
  <2>3. CASE i = id
    <3>1. row'[i] = new /\ row'[j] = row[j]
      BY <1>2, <2>1, <2>3
    <3>2. NameTaken(new.name, new.owner, id) /\ Named(id)
      BY <1>5, <2>1, <2>3, <3>1 DEF NameTaken, Named, Exists
    <3> QED
      BY <1>3, <1>5, <3>1, <3>2 DEF Violates
  <2>4. CASE j = id
    <3>1. row'[j] = new /\ row'[i] = row[i]
      BY <1>2, <2>1, <2>4
    <3>2. i \in (IF id \in Tenants THEN Tenants ELSE Templates) \ {id} /\ id \in Tenants \cup Templates
      BY <1>4, <1>5, <2>1, <2>4
    <3>3. NameTaken(new.name, new.owner, id) /\ Named(id)
      BY <1>5, <3>1, <3>2 DEF NameTaken, Named, Exists
    <3> QED
      BY <1>3, <1>5, <3>1, <3>3 DEF Violates
  <2> QED
    BY <2>2, <2>3, <2>4
<1>6. ASSUME NEW i \in Ids \ Tenants, row'[i] # None, row'[i].owner # Platform
      PROVE  row'[row'[i].owner] # None
  <2> DEFINE t == row'[i].owner
  <2>1. row'[i] \in Row
    BY <1>1, <1>2, <1>6
  <2>2. t \in Tenants /\ t \in Ids /\ t # i
    BY <1>4, <1>6, <2>1 DEF Row, Owners
  <2>3. row[t] # None
    <3>1. CASE i = id
      BY <1>2, <1>3, <1>6, <3>1 DEF Violates, Exists
    <3>2. CASE i # id
      BY <1>2, <1>6, <3>2 DEF NamesAndOwners, Exists
    <3> QED
      BY <3>1, <3>2
  <2>4. CASE t # id
    BY <1>2, <2>2, <2>3, <2>4
  <2>5. CASE t = id
    <3>1. i # id /\ row'[i] = row[i] /\ id \in Tenants
      BY <1>2, <2>2, <2>5
    <3>2. Referenced(id)
      BY <1>6, <2>5, <3>1 DEF Referenced, Exists
    <3> QED
      BY <1>2, <1>3, <2>2, <2>5, <3>1, <3>2
  <2> QED
    BY <2>4, <2>5
<1>7. \A i \in Tenants \cup Templates:
        row'[i] # None => ~(\E j \in (IF i \in Tenants THEN Tenants ELSE Templates) \ {i}:
                              /\ row'[j] # None /\ row'[j].name = row'[i].name
                              /\ row'[j].owner = row'[i].owner)
  BY <1>5
<1>8. \A i \in Ids \ Tenants:
        row'[i] # None /\ row'[i].owner # Platform => row'[row'[i].owner] # None
  BY <1>6
<1> QED
  BY <1>7, <1>8 DEF NamesAndOwners, NameTaken, Exists

\* Names stay unique among the tenants and among the templates of an owner, and
\* every row's tenant exists, whatever the requests of any number of admins and
\* keys interleave.
THEOREM NamesStayUnique == Spec => []NamesAndOwners
<1>1. Init => NamesAndOwners
  BY DEF Init
<1>2. IInv /\ NamesAndOwners /\ [Next]_vars => NamesAndOwners'
  <2> SUFFICES ASSUME IInv, NamesAndOwners, [Next]_vars PROVE NamesAndOwners'
    OBVIOUS
  <2>1. CASE row' = row
    BY <2>1 DEF NamesAndOwners, NameTaken, Exists
  <2>2. CASE row' # row
    <3>1. PICK a \in Admins: AdminStep(a)
      BY <2>2 DEF Next, vars, Guard, ReadKey, ReadTenant, PresentToken
    <3>2. PICK new \in Row \cup {None}: Writes(a, new)
      BY <2>2, <3>1, OnlyWrites
    <3> QED
      BY <3>2, WritesKeepNames DEF IInv
  <2> QED
    BY <2>1, <2>2
<1> QED
  BY <1>1, <1>2, Inductive, PTL DEF Spec
-----------------------------------------------------------------------------
\* A request was let at a row of its sender's owner, or is an admin's; the row
\* still has the owner it had when the request read it, and so it has if it is
\* deleted and saved again.
OpOwned(o) ==
    /\ o.by \in {Admin, o.seen.owner}
    /\ Exists(o.id) => row[o.id].owner = o.seen.owner
OwnersHeld ==
    /\ \A a \in Admins: op[a] # None => OpOwned(op[a])
    /\ \A a, b \in Admins:
          op[a] # None /\ op[b] # None /\ op[a].id = op[b].id => op[a].seen.owner = op[b].seen.owner

\* The requests in flight are the same as before, or fewer.
SameRequests ==
    \A b \in Admins: op'[b] # None =>
        op[b] # None /\ op'[b].id = op[b].id /\ op'[b].by = op[b].by /\ op'[b].seen = op[b].seen

\* A request that starts on a row, with the row's owner, or on a new id.
LEMMA BeginHoldsOwners ==
    ASSUME IInv, OwnersHeld, NEW a \in Admins, NEW at, NEW by, NEW id \in Ids, NEW d \in Dto,
           NEW entity \in Row, Begin(a, at, by, id, d, entity), by \in {Admin, entity.owner},
           id \notin minted \/ (Exists(id) /\ entity.owner = row[id].owner)
    PROVE  OwnersHeld'
<1> DEFINE new == [at |-> at, by |-> by, id |-> id, want |-> d, seen |-> entity,
                   base |-> None, alone |-> InFlight(id) = {},
                   opposed |-> \E c \in InFlight(id): op[c].want.active = TRUE]
           told(o) == [o EXCEPT !.alone = FALSE, !.opposed = @ \/ d.active = TRUE]
<1>1. /\ row' = row
      /\ op' = [b \in Admins |-> IF b = a THEN new
                                 ELSE IF b \in InFlight(id) THEN told(op[b]) ELSE op[b]]
  BY DEF Begin
<1>2. op'[a].by = by /\ op'[a].id = id /\ op'[a].seen = entity
  BY <1>1
<1>3. ASSUME NEW b \in Admins, b # a, op'[b] # None
      PROVE  op[b] # None /\ op'[b].id = op[b].id /\ op'[b].by = op[b].by /\ op'[b].seen = op[b].seen
  <2>1. CASE b \in InFlight(id)
    <3>1. op[b] \in Op /\ op[b] # None
      BY <2>1 DEF IInv, TypeOK, InFlight
    <3>2. told(op[b]).id = op[b].id /\ told(op[b]).by = op[b].by /\ told(op[b]).seen = op[b].seen
      BY <3>1 DEF Op
    <3> QED
      BY <1>1, <1>3, <2>1, <3>1, <3>2
  <2>2. CASE b \notin InFlight(id)
    BY <1>1, <1>3, <2>2
  <2> QED
    BY <2>1, <2>2
<1> HIDE DEF new, told
<1>4. ~Exists(id) \/ row[id].owner = entity.owner
  BY DEF IInv, Fresh, Exists
<1>5. ASSUME NEW b \in Admins, b # a, op'[b] # None, op[b].id = id
      PROVE  op[b].seen.owner = entity.owner
  <2>1. id \in minted
    BY <1>3, <1>5 DEF IInv, OpsFit, OpFits
  <2>2. op[b] # None /\ OpOwned(op[b])
    BY <1>3, <1>5 DEF OwnersHeld
  <2> QED
    BY <1>5, <2>1, <2>2 DEF OpOwned
<1>6. \A b \in Admins: op'[b] # None =>
          /\ op'[b].by \in {Admin, op'[b].seen.owner}
          /\ row[op'[b].id] # None => row[op'[b].id].owner = op'[b].seen.owner
  <2> TAKE b \in Admins
  <2>1. CASE b = a
    BY <1>2, <1>4, <2>1 DEF Exists
  <2>2. CASE b # a
    BY <1>3, <2>2 DEF OwnersHeld, OpOwned, Exists
  <2> QED
    BY <2>1, <2>2
<1>7. ASSUME NEW b \in Admins, NEW c \in Admins, op'[b] # None, op'[c] # None, op'[b].id = op'[c].id
      PROVE  op'[b].seen.owner = op'[c].seen.owner
  <2>1. CASE b # a /\ c # a
    BY <1>3, <1>7, <2>1 DEF OwnersHeld
  <2>2. CASE b = a /\ c # a
    BY <1>2, <1>3, <1>5, <1>7, <2>2
  <2>3. CASE b # a /\ c = a
    BY <1>2, <1>3, <1>5, <1>7, <2>3
  <2>4. CASE b = a /\ c = a
    BY <2>4
  <2> QED
    BY <2>1, <2>2, <2>3, <2>4
<1> QED
  BY <1>1, <1>6, <1>7 DEF OwnersHeld, OpOwned, Exists

\* A request that goes on or ends, and writes its row or does not.
LEMMA WritesHoldOwners ==
    ASSUME TypeOK, OwnersHeld, SameRequests,
           \/ row' = row
           \/ \E a \in Admins, new \in Row \cup {None}: Writes(a, new)
    PROVE  OwnersHeld'
<1>1. ASSUME NEW b \in Admins, op[b] # None, row'[op[b].id] # None
      PROVE  row'[op[b].id].owner = op[b].seen.owner
  <2>1. CASE row' = row
    BY <1>1, <2>1 DEF OwnersHeld, OpOwned, Exists
  <2>2. CASE row' # row
    <3>1. PICK a \in Admins, new \in Row \cup {None}: Writes(a, new)
      BY <2>2
    <3>2. op[b].id \in Ids /\ op[a].id \in Ids /\ op[a] # None
      BY <1>1, <3>1 DEF TypeOK, Op, Writes
    <3>3. row'[op[b].id] = IF op[b].id = op[a].id THEN new ELSE row[op[b].id]
      BY <3>1, <3>2 DEF TypeOK, Writes
    <3>4. CASE op[b].id # op[a].id
      BY <1>1, <3>3, <3>4 DEF OwnersHeld, OpOwned, Exists
    <3>5. CASE op[b].id = op[a].id
      <4>1. new # None /\ row'[op[b].id] = new
        BY <1>1, <3>3, <3>5
      <4>2. new.owner = IF Exists(op[a].id) THEN row[op[a].id].owner ELSE op[a].seen.owner
        BY <3>1, <4>1 DEF Writes
      <4>3. /\ op[a].seen.owner = op[b].seen.owner
            /\ Exists(op[b].id) => row[op[b].id].owner = op[b].seen.owner
        BY <1>1, <3>2, <3>5 DEF OwnersHeld, OpOwned
      <4> QED
        BY <3>5, <4>1, <4>2, <4>3
    <3> QED
      BY <3>4, <3>5
  <2> QED
    BY <2>1, <2>2
<1>2. \A b \in Admins: op'[b] # None =>
          /\ op'[b].by \in {Admin, op'[b].seen.owner}
          /\ row'[op'[b].id] # None => row'[op'[b].id].owner = op'[b].seen.owner
  BY <1>1 DEF SameRequests, OwnersHeld, OpOwned
<1>3. \A b, c \in Admins:
          op'[b] # None /\ op'[c] # None /\ op'[b].id = op'[c].id => op'[b].seen.owner = op'[c].seen.owner
  BY DEF SameRequests, OwnersHeld
<1> QED
  BY <1>2, <1>3 DEF OwnersHeld, OpOwned, Exists

\* Every request is let at rows of its sender only, at its start.
LEMMA RequestsHoldOwners ==
    ASSUME IInv, OwnersHeld, NEW a \in Admins,
           TenantRequest(a) \/ KeyRequest(a) \/ TemplateRequest(a) \/ HookRequest(a)
    PROVE  OwnersHeld'
<1>1. \A i \in Ids: Exists(i) => row[i] \in Row
  BY DEF IInv, TypeOK, Exists
<1>2. Blank \in Dto
  BY DEF Dto, Blank
<1>3. \A s \in Scope, o \in Owners: OwnerFor(s, o) \in Owners /\ s \in {Admin, OwnerFor(s, o)}
  BY DEF Scope, OwnerFor
<1>4. \A r \in Row, d \in Dto: Assigned(r, d) \in Row /\ Assigned(r, d).owner = r.owner
  <2> TAKE r \in Row, d \in Dto
  <2>1. Assigned(r, d) \in Row
    BY AssignedIsRow
  <2>2. Assigned(r, d).owner = r.owner
    BY DEF Assigned, Row
  <2> QED
    BY <2>1, <2>2
<1>5. ASSUME NEW id \in Ids \ minted, NEW by, NEW owner \in Owners, NEW n \in Names, NEW on \in BOOLEAN,
             by \in {Admin, owner},
             Begin(a, "insert", by, id, Blank, [owner |-> owner, name |-> n, active |-> on])
      PROVE  OwnersHeld'
  <2> DEFINE entity == [owner |-> owner, name |-> n, active |-> on]
  <2>1. entity \in Row /\ entity.owner = owner
    BY DEF Row
  <2>2. Begin(a, "insert", by, id, Blank, entity)
    BY <1>5
  <2> HIDE DEF entity
  <2> QED
    BY <1>2, <1>5, <2>1, <2>2, BeginHoldsOwners
<1>6. ASSUME NEW id \in Ids, NEW at, NEW by \in Scope, NEW d \in Dto, Exists(id),
             by = Admin \/ Sees(by, id), Begin(a, at, by, id, d, Assigned(row[id], d))
      PROVE  OwnersHeld'
  <2>1. Assigned(row[id], d) \in Row /\ Assigned(row[id], d).owner = row[id].owner
    BY <1>1, <1>4, <1>6
  <2>2. by \in {Admin, Assigned(row[id], d).owner}
    BY <1>6, <2>1 DEF Sees
  <2> QED
    BY <1>6, <2>1, <2>2, BeginHoldsOwners
<1>7. ASSUME NEW id \in Ids, NEW by \in Scope, Exists(id),
             by = Admin \/ Sees(by, id), Begin(a, "delete", by, id, Blank, row[id])
      PROVE  OwnersHeld'
  <2>1. row[id] \in Row /\ by \in {Admin, row[id].owner}
    BY <1>1, <1>7 DEF Sees
  <2> QED
    BY <1>2, <1>7, <2>1, BeginHoldsOwners
<1>8. Admin \in Scope /\ Platform \in Owners
  BY DEF Scope, Owners
<1>9. CASE CreateTenant(a)
  BY <1>5, <1>8, <1>9 DEF CreateTenant, Ids
<1>10. CASE CreateKey(a)
  BY <1>5, <1>10 DEF CreateKey, Ids
<1>11. CASE CreateTemplate(a)
  BY <1>3, <1>5, <1>11 DEF CreateTemplate, Ids
<1>12. CASE CreateHook(a)
  BY <1>3, <1>5, <1>12 DEF CreateHook, Ids
<1>13. CASE UpdateTenant(a)
  BY <1>6, <1>8, <1>13 DEF UpdateTenant, Ids
<1>14. CASE UpdateKey(a)
  BY <1>6, <1>8, <1>14 DEF UpdateKey, Ids
<1>15. CASE UpdateTemplate(a)
  BY <1>6, <1>15 DEF UpdateTemplate, Ids
<1>16. CASE UpdateHook(a)
  BY <1>6, <1>16 DEF UpdateHook, Ids
<1>17. CASE RemoveTenant(a) \/ RemoveKey(a)
  BY <1>7, <1>8, <1>17 DEF RemoveTenant, RemoveKey, Ids
<1>18. CASE RemoveTemplate(a) \/ RemoveHook(a)
  BY <1>7, <1>18 DEF RemoveTemplate, RemoveHook, Ids
<1> QED
  BY <1>9, <1>10, <1>11, <1>12, <1>13, <1>14, <1>15, <1>16, <1>17, <1>18
     DEF TenantRequest, KeyRequest, TemplateRequest, HookRequest

\* Who may touch a row is settled for good by its owner.
LEMMA OwnersStayHeld == Spec => []OwnersHeld
<1>1. Init => OwnersHeld
  BY DEF Init, OwnersHeld
<1>2. IInv /\ OwnersHeld /\ [Next]_vars => OwnersHeld'
  <2> SUFFICES ASSUME IInv, OwnersHeld, [Next]_vars PROVE OwnersHeld'
    OBVIOUS
  <2>0. TypeOK
    BY DEF IInv
  <2>1. CASE row' = row /\ op' = op
    BY <2>1 DEF OwnersHeld, OpOwned, Exists
  <2>2. ASSUME NEW a \in Admins, AdminStep(a)
        PROVE  OwnersHeld'
    <3>1. CASE TenantRequest(a) \/ KeyRequest(a) \/ TemplateRequest(a) \/ HookRequest(a)
      BY <3>1, RequestsHoldOwners
    <3>2. CASE Insert(a) \/ CheckName(a) \/ Reload(a) \/ WriteBack(a) \/ Delete(a)
      <4>1. op[a] # None /\ op \in [Admins -> Op \cup {None}] /\ op[a] \in Op
        BY <2>0, <3>2 DEF TypeOK, Insert, CheckName, Reload, WriteBack, Delete
      <4>2. op' = [op EXCEPT ![a] = None] => SameRequests
        BY <4>1 DEF SameRequests
      <4>3. op' = [op EXCEPT ![a].at = "assigned"] => SameRequests
        BY <4>1 DEF SameRequests, Op
      <4>4. op' = [op EXCEPT ![a].at = "loaded", ![a].base = row[op[a].id]] => SameRequests
        BY <4>1 DEF SameRequests, Op
      <4>5. SameRequests
        BY <3>2, <4>2, <4>3, <4>4 DEF Insert, CheckName, Reload, WriteBack, Delete, Finish, Goto
      <4> QED
        BY <2>0, <2>2, <4>5, OnlyWrites, WritesHoldOwners
    <3> QED
      BY <2>2, <3>1, <3>2 DEF AdminStep
  <2>3. ASSUME NEW c \in Calls, Guard(c)
        PROVE  row' = row /\ op' = op
    BY <2>3 DEF Guard, ReadKey, ReadTenant, PresentToken
  <2> QED
    BY <2>1, <2>2, <2>3 DEF Next, vars
<1> QED
  BY <1>1, <1>2, Inductive, PTL DEF Spec

\* Between whatever reads and writes of others, a template or webhook changes
\* only at the request of its own tenant's keys or of an admin.
THEOREM TenantsKeepToTheirOwn == Spec => ScopeIsRespected
<1> DEFINE Respected == \A i \in Templates \cup Hooks:
             row'[i] # row[i] =>
                 \E a \in Admins:
                     /\ op[a] # None /\ op[a].id = i
                     /\ op[a].by \in {Admin, (IF Exists(i) THEN row[i] ELSE row'[i]).owner}
<1>1. IInv /\ OwnersHeld /\ [Next]_vars => [Respected]_vars
  <2> SUFFICES ASSUME IInv, OwnersHeld, Next, NEW i \in Templates \cup Hooks, row'[i] # row[i]
               PROVE  \E a \in Admins:
                        /\ op[a] # None /\ op[a].id = i
                        /\ op[a].by \in {Admin, (IF Exists(i) THEN row[i] ELSE row'[i]).owner}
    OBVIOUS
  <2>1. PICK a \in Admins: AdminStep(a)
    BY DEF Next, Guard, ReadKey, ReadTenant, PresentToken
  <2>2. PICK new \in Row \cup {None}: Writes(a, new)
    BY <2>1, OnlyWrites
  <2>3. op[a] # None /\ op[a].id \in Ids /\ i \in Ids
    BY <2>2 DEF Writes, IInv, TypeOK, Op, Ids
  <2>4. op[a].id = i /\ row'[i] = new
    BY <2>2, <2>3 DEF Writes, IInv, TypeOK
  <2>5. /\ op[a].by \in {Admin, op[a].seen.owner}
        /\ Exists(i) => row[i].owner = op[a].seen.owner
    BY <2>3, <2>4 DEF OwnersHeld, OpOwned
  <2>6. ~Exists(i) => new.owner = op[a].seen.owner
    BY <2>2, <2>4 DEF Writes, Exists
  <2> QED
    BY <2>3, <2>4, <2>5, <2>6
<1>2. [][Respected]_vars => ScopeIsRespected
  BY DEF ScopeIsRespected
<1> QED
  BY <1>1, <1>2, Inductive, OwnersStayHeld, PTL DEF Spec
=============================================================================
