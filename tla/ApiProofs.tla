------------------------------ MODULE ApiProofs ------------------------------
(***************************************************************************)
(* What is proved of the parts of the API holds of the API that MCApi puts *)
(* together: each of its steps is a step of one part, and the others stand *)
(* still meanwhile.  Batch is MessageIntake with the constants MCApi gives *)
(* it, and with its theorems.                                              *)
(***************************************************************************)
EXTENDS MCApi, TenantRegistryProofs

Batch == INSTANCE MessageIntakeProofs
  WITH Owners <- {t1, Platform}, Templates <- {m1}, TemplateOwner <- [m \in {m1} |-> t1],
       Grants <- {None, {"whatsapp"}}, Asked <- Texted \cup Timed,
       MaxEdits <- MaxTemplateEdits, edits <- templateEdits

-----------------------------------------------------------------------------
(* Batch and MCApi's Intake are the same.                                  *)

\* The constants MCApi gives are what MessageIntake assumes of them.
LEMMA SameAssumption == Batch!IntakeAssumption
  BY IntakeConstants
  DEF Batch!IntakeAssumption, Intake!IntakeAssumption, Batch!Dto, Intake!Dto,
      Batch!Content, Intake!Content, Batch!Channels, Intake!Channels

\* Their initial states are the same.
LEMMA SameInit == Batch!Init <=> Intake!Init
  BY DEF Batch!Init, Intake!Init, Batch!Content, Intake!Content, Batch!Channels, Intake!Channels

\* Their steps are the same.
LEMMA SameNext == Batch!Next <=> Intake!Next
  BY DEF Batch!Next, Intake!Next, Batch!Send, Intake!Send, Batch!SendBulk, Intake!SendBulk,
         Batch!Prepare, Intake!Prepare, Batch!Save, Intake!Save, Batch!Enqueue, Intake!Enqueue,
         Batch!EditTemplate, Intake!EditTemplate, Batch!Tick, Intake!Tick,
         Batch!Received, Intake!Received, Batch!Goto, Intake!Goto, Batch!Key, Intake!Key,
         Batch!Valid, Intake!Valid, Batch!ChannelAllowed, Intake!ChannelAllowed,
         Batch!ScheduleOk, Intake!ScheduleOk, Batch!ScheduledAt, Intake!ScheduledAt,
         Batch!Storable, Intake!Storable, Batch!Due, Intake!Due, Batch!NoBody, Intake!NoBody,
         Batch!Resolves, Intake!Resolves, Batch!Missing, Intake!Missing,
         Batch!HasValue, Intake!HasValue, Batch!Rendered, Intake!Rendered, Batch!Value, Intake!Value,
         Batch!Content, Intake!Content, Batch!Channels, Intake!Channels

-----------------------------------------------------------------------------
(* Each part's own behaviour.                                              *)

\* A behaviour of the API is one of the registry, which the other parts let be.
LEMMA ApiRegistry == ApiSpec => Spec
  <1>1. ApiInit => Init
    BY DEF ApiInit
  <1>2. [ApiNext]_apiVars => [Next]_vars
    <2> SUFFICES ASSUME [ApiNext]_apiVars PROVE [Next]_vars
      OBVIOUS
    <2>1. CASE Registry
      BY <2>1 DEF Registry
    <2>2. CASE Scoped
      BY <2>2 DEF Scoped, Next
    <2>3. CASE UNCHANGED vars
      BY <2>3
    <2>4. CASE UNCHANGED apiVars
      BY <2>4 DEF apiVars
    <2> QED
      BY <2>1, <2>2, <2>3, <2>4 DEF ApiNext
  <1> QED
    BY <1>1, <1>2, PTL DEF ApiSpec, Spec

\* It is one of the requests to send, too.
LEMMA ApiBatch == ApiSpec => Batch!Spec
  <1>1. ApiInit => Batch!Init
    BY SameInit DEF ApiInit
  <1>2. [ApiNext]_apiVars => [Batch!Next]_(Batch!vars)
    <2> SUFFICES ASSUME [ApiNext]_apiVars PROVE [Batch!Next]_(Batch!vars)
      OBVIOUS
    <2>1. CASE Sending
      BY <2>1, SameNext DEF Sending
    <2>2. CASE UNCHANGED intakeVars
      BY <2>2 DEF intakeVars, Batch!vars
    <2>3. CASE UNCHANGED apiVars
      BY <2>3 DEF apiVars, intakeVars, Batch!vars
    <2> QED
      BY <2>1, <2>2, <2>3 DEF ApiNext
  <1> QED
    BY <1>1, <1>2, PTL DEF ApiSpec, Batch!Spec

-----------------------------------------------------------------------------
(* The theorems.                                                           *)

\* Every variable of the tables, the requests and the guards has its type.
THEOREM ApiTypeCorrect == ApiSpec => []ApiTypeOK
  <1>1. Batch!Spec => []Batch!TypeOK
    BY SameAssumption, Batch!IntakeTypeCorrect
  <1>2. Batch!TypeOK <=> Intake!TypeOK
    BY DEF Batch!TypeOK, Intake!TypeOK, Batch!Content, Intake!Content, Batch!Channels, Intake!Channels
  <1>3. TypeOK /\ Batch!TypeOK => ApiTypeOK
    BY <1>2 DEF ApiTypeOK
  <1> QED
    BY <1>1, <1>3, ApiRegistry, ApiBatch, RegistryTypeCorrect, PTL

\* A request is sent to all its recipients or to none, whatever administrators
\* do meanwhile (messages.service.ts:139).
THEOREM ApiBatchesAreWhole == ApiSpec => []WholeBatch
  <1>1. Batch!Spec => []Batch!WholeBatch
    BY SameAssumption, Batch!BatchesAreWhole
  <1>2. Batch!WholeBatch <=> WholeBatch
    BY DEF WholeBatch, Batch!WholeBatch, Intake!WholeBatch
  <1> QED
    BY <1>1, <1>2, ApiBatch, PTL

\* All texts of a batch come from one version of a template of the sender's
\* (messages.service.ts:57).
THEOREM ApiTextsAreOfOneVersion == ApiSpec => []OneVersion
  <1>1. Batch!Spec => []Batch!OneVersion
    BY SameAssumption, Batch!TextsAreOfOneVersion
  <1>2. Batch!OneVersion <=> OneVersion
    BY DEF OneVersion, Batch!OneVersion, Intake!OneVersion, Batch!Templated, Intake!Templated
  <1> QED
    BY <1>1, <1>2, ApiBatch, PTL

\* No job is due before the time its message was promised for
\* (messages.service.ts:40).
THEOREM ApiNothingIsDueEarly == ApiSpec => []NeverEarly
  <1>1. Batch!Spec => []Batch!NeverEarly
    BY SameAssumption, Batch!NothingIsDueEarly
  <1>2. Batch!NeverEarly <=> NeverEarly
    BY DEF NeverEarly, Batch!NeverEarly, Intake!NeverEarly
  <1> QED
    BY <1>1, <1>2, ApiBatch, PTL
=============================================================================
