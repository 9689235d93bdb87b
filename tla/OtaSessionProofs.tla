-------------------------- MODULE OtaSessionProofs --------------------------
(***************************************************************************)
(* Theorems about OtaSession, for every value of its constants: its types, *)
(* the session the sketch sees, who owns the HTTP clients, the copies of   *)
(* the bodies and the FOTA writer, what a staged image is made of, and     *)
(* that the session follows OtaLifecycle.                                  *)
(***************************************************************************)
EXTENDS OtaSession, SequenceTheorems, TLAPS

\* Within MaxSessions the generation counter does not wrap, so the next
\* generation is a new one.
LEMMA NextGenerationIsNew ==
  ASSUME generation \in Nat, generation < MaxSessions
  PROVE  NextGeneration = generation + 1
<1>1. generation + 1 \in Nat /\ GenModulus \in Nat /\ generation + 1 < GenModulus
      /\ generation + 1 # 0
  BY OtaAssumption DEF OtaAssumption
<1>2. (generation + 1) % GenModulus = generation + 1
  BY <1>1, SMT
<1>3. QED
  BY <1>1, <1>2 DEF NextGeneration

-----------------------------------------------------------------------------
(* Type correctness *)

\* The constants of the state are well typed.
LEMMA RestValues ==
  /\ MaxSessions \in Nat \ {0}
  /\ Waiting \in Locals
  /\ NoCallback \in Callbacks
  /\ NoFota \in Writers
  /\ [h \in Gens |-> NoClient] \in [Gens -> Clients]
  /\ 0 \in 0 .. MaxSessions
<1> USE OtaAssumption DEF OtaAssumption
<1>1. 0 \in 0 .. MaxSessions /\ 0 \in 0 .. Chunks /\ 0 \in 0 .. MaxRetries
  OBVIOUS
<1>2. Waiting \in Locals
  BY <1>1 DEF Waiting, Locals, TaskSteps, Errors
<1>3. NoCallback \in Callbacks
  BY <1>1 DEF NoCallback, Callbacks, EventIds, Errors
<1>4. NoFota \in Writers
  <2>1. <<>> \in Seq(Bodies \cup {NoBody})
    OBVIOUS
  <2>2. QED
    BY <1>1, <2>1 DEF NoFota, Writers
<1>5. NoClient \in Clients
  BY <1>1 DEF NoClient, Clients, ClientPhases
<1>6. [h \in Gens |-> NoClient] \in [Gens -> Clients]
  BY <1>5, Zenon
<1>7. QED
  BY <1>1, <1>2, <1>3, <1>4, <1>6

LEMMA TypeInit == Init => TypeOK
<1>1. <<>> \in Seq(Events)
  OBVIOUS
<1> SUFFICES ASSUME Init PROVE TypeOK
  OBVIOUS
<1> USE RestValues DEF Init
<1>2. state \in States /\ lastError \in Errors /\ taskReady \in BOOLEAN
  BY DEF States, Errors
<1>3. queue \in Seq(Events) 
  BY <1>1
<1>4. ota \in Locals /\ cb \in Callbacks /\ fota \in Writers
  OBVIOUS
<1>5. client \in [Gens -> Clients]
  OBVIOUS
<1>6. QED
  BY <1>2, <1>3, <1>4, <1>5 DEF TypeOK

LEMMA TypeSketch == TypeOK /\ Sketch => TypeOK'
<1> SUFFICES ASSUME TypeOK, Sketch PROVE TypeOK'
  OBVIOUS
<1> USE RestValues DEF TypeOK, session
<1>1. ASSUME NEW err \in EarlyErrors, BeginRefusedEarly(err) PROVE TypeOK'
  <2>1. err \in Errors
    BY OtaAssumption DEF OtaAssumption, Errors
  <2>2. taskReady' \in BOOLEAN
    BY <1>1, Zenon DEF BeginRefusedEarly
  <2>3. QED
    BY <1>1, <2>1, <2>2 DEF BeginRefusedEarly
<1>2. CASE BeginRefusedByState
  BY <1>2 DEF BeginRefusedByState, Errors
<1>3. CASE BeginAccepted
  <2>1. NextGeneration \in 0 .. MaxSessions
    BY <1>3, NextGenerationIsNew DEF BeginAccepted
  <2>2. QED
    BY <1>3, <2>1 DEF BeginAccepted, ResetSession, States, Errors
<1>4. CASE BeginSendsStart
  <2> DEFINE e == [id |-> "START", gen |-> generation, src |-> 0,
                   body |-> NoBody, err |-> "NONE"]
  <2>1. e \in Events
    BY DEF Events, EventIds, Errors
  <2> HIDE DEF e
  <2>2. Append(queue, e) \in Seq(Events)
    BY <2>1
  <2>3. queue' \in Seq(Events) /\ api' \in {"idle", "refused"}
    BY <1>4, <2>2 DEF BeginSendsStart, e
  <2>4. QED
    BY <1>4, <2>3 DEF BeginSendsStart
<1>5. CASE BeginGivesUp
  BY <1>5 DEF BeginGivesUp, ResetSession, States, Errors
<1>6. CASE Clear
  BY <1>6 DEF Clear, ResetSession, States, Errors
<1>7. CASE Apply
  BY <1>7 DEF Apply, States, Errors
<1>8. CASE Reboot
  <2>1. <<>> \in Seq(Events)
    OBVIOUS
  <2>2. QED
    BY <1>8, <2>1 DEF Reboot, States, Errors
<1>9. QED
  BY <1>1, <1>2, <1>3, <1>4, <1>5, <1>6, <1>7, <1>8 DEF Sketch, SketchFinishesBegin

\* The event at the head of the queue and the locals a handler starts with.
LEMMA TakeTypes ==
  ASSUME TypeOK, queue # <<>>,
         NEW pc \in TaskSteps, NEW err \in Errors
  PROVE  /\ Tail(queue) \in Seq(Events)
         /\ Head(queue) \in Events
         /\ Head(queue).err \in Errors
         /\ Task(pc, Head(queue)) \in Locals
         /\ [Task(pc, Head(queue)) EXCEPT !.outcome = err] \in Locals
         /\ [Task(pc, Head(queue)) EXCEPT !.http = http] \in Locals
<1>1. Tail(queue) \in Seq(Events) /\ Head(queue) \in Events
  BY DEF TypeOK
<1>2. Head(queue).err \in Errors
  BY <1>1 DEF Events
<1>3. Task(pc, Head(queue)) \in Locals
  BY <1>1, RestValues DEF Events, Task, Locals, Errors
<1>4. http \in 0 .. MaxSessions
  BY DEF TypeOK
<1>5. QED
  BY <1>1, <1>2, <1>3, <1>4 DEF Locals

\* The task's own bookkeeping keeps its locals, the FOTA writer and the
\* clients typed.
LEMMA GotoType ==
  ASSUME TypeOK, NEW pc \in TaskSteps, Goto(pc)
  PROVE  ota' \in Locals
BY DEF TypeOK, Locals, Goto

LEMMA FotaEnd0Type ==
  ASSUME TypeOK, FotaEnd0
  PROVE  fota' \in Writers
BY DEF TypeOK, Writers, FotaEnd0

LEMMA FailureType ==
  ASSUME TypeOK, NEW err \in Errors, NEW endFota \in BOOLEAN, FinalizeFailure(err, endFota)
  PROVE  ota' \in Locals /\ fota' \in Writers
<1>1. "detach" \in TaskSteps
  BY DEF TaskSteps
<1>2. ota' \in Locals
  BY <1>1 DEF FinalizeFailure, TypeOK, Locals
<1>3. fota' \in Writers
  BY FotaEnd0Type DEF FinalizeFailure, TypeOK
<1>4. QED
  BY <1>2, <1>3

LEMMA ClientPhaseType ==
  ASSUME TypeOK, NEW h \in Nat, NEW p \in ClientPhases
  PROVE  [client EXCEPT ![h].phase = p] \in [Gens -> Clients]
<1>1. client \in [Gens -> Clients]
  BY DEF TypeOK
<1>2. CASE h \in Gens
  <2>1. [client[h] EXCEPT !.phase = p] \in Clients
    BY <1>1, <1>2 DEF Clients
  <2>2. QED
    BY <1>1, <2>1
<1>3. CASE h \notin Gens
  BY <1>1, <1>3
<1>4. QED
  BY <1>2, <1>3

LEMMA DestroyType ==
  ASSUME TypeOK, DestroyLocalClient
  PROVE  client' \in [Gens -> Clients]
<1>1. ota.http \in Nat /\ "destroyed" \in ClientPhases
  BY RestValues DEF TypeOK, Locals, ClientPhases
<1>2. QED
  BY <1>1, ClientPhaseType DEF DestroyLocalClient

LEMMA TypeTake == TypeOK /\ OtaTake => TypeOK'
<1> SUFFICES ASSUME TypeOK, OtaTake PROVE TypeOK'
  OBVIOUS
<1>1. queue # <<>> /\ queue' = Tail(queue)
  BY DEF OtaTake, TakeStart, TakeHeadDone, TakeBodyData, TakeBodyDone, TakeHttpError, Receive
<1>2. \A pc \in TaskSteps, err \in Errors :
        /\ Tail(queue) \in Seq(Events)
        /\ Head(queue).err \in Errors
        /\ Task(pc, Head(queue)) \in Locals
        /\ [Task(pc, Head(queue)) EXCEPT !.outcome = err] \in Locals
        /\ [Task(pc, Head(queue)) EXCEPT !.http = http] \in Locals
  BY <1>1, TakeTypes
<1>3. /\ {"recv", "fota_init", "detach", "head", "write", "verify"} \subseteq TaskSteps
      /\ "INTERNAL" \in Errors
  BY DEF TaskSteps, StartSteps, Errors
<1>4. ota' \in Locals
  <2>1. CASE TakeStart
    BY <1>2, <1>3, <2>1, RestValues DEF TakeStart
  <2>2. CASE TakeHeadDone
    <3>1. [Task("detach", Head(queue)) EXCEPT !.outcome = "INTERNAL"] \in Locals
      BY <1>2, <1>3
    <3>2. [Task("head", Head(queue)) EXCEPT !.http = http] \in Locals
      BY <1>2, <1>3
    <3>3. QED
      BY <2>2, <3>1, <3>2, RestValues DEF TakeHeadDone
  <2>3. CASE TakeBodyData
    BY <1>2, <1>3, <2>3, RestValues DEF TakeBodyData
  <2>4. CASE TakeBodyDone
    BY <1>2, <1>3, <2>4, RestValues DEF TakeBodyDone
  <2>5. CASE TakeHttpError
    BY <1>2, <1>3, <2>5, RestValues DEF TakeHttpError
  <2>6. QED
    BY <2>1, <2>2, <2>3, <2>4, <2>5 DEF OtaTake
<1>5. fota' \in Writers
  BY FotaEnd0Type
  DEF OtaTake, TakeStart, TakeHeadDone, TakeBodyData, TakeBodyDone, TakeHttpError, TypeOK
<1>6. state' \in States /\ heap' \subseteq Bodies
  BY DEF OtaTake, TakeStart, TakeHeadDone, TakeBodyData, TakeBodyDone, TakeHttpError, TypeOK, States
<1>7. UNCHANGED <<generation, lastError, totalBytes, downloadedBytes, strings,
                  httpStatusCode, http, taskReady, api, client, cb, lost>>
  BY DEF OtaTake, TakeStart, TakeHeadDone, TakeBodyData, TakeBodyDone, TakeHttpError, Receive
<1>8. queue' \in Seq(Events)
  BY <1>1, <1>2, <1>3
<1>9. QED
  BY <1>4, <1>5, <1>6, <1>7, <1>8 DEF TypeOK

LEMMA TypeStart == TypeOK /\ OtaStart => TypeOK'
<1> SUFFICES ASSUME TypeOK, OtaStart PROVE TypeOK'
  OBVIOUS
<1>1. /\ ota \in Locals /\ ota.gen \in 0 .. MaxSessions /\ ota.http \in 0 .. MaxSessions
      /\ ota.http \in Nat
  BY RestValues DEF TypeOK, Locals
<1>2. StartSteps \cup {"recv", "detach"} \subseteq TaskSteps
      /\ {"INTERNAL", "DOWNLOAD_FAILED"} \subseteq Errors
      /\ "head" \in ClientPhases
  BY DEF TaskSteps, StartSteps, Errors, ClientPhases
<1>3. CASE StartFotaInit
  <2>1. [NoFota EXCEPT !.open = TRUE, !.owner = ota.gen] \in Writers
    BY <1>1, RestValues DEF Writers
  <2>2. ota' \in Locals /\ fota' \in Writers
    BY <1>2, <1>3, <2>1, GotoType, FailureType DEF StartFotaInit, StartSteps
  <2>3. QED
    BY <1>3, <2>2 DEF StartFotaInit, TypeOK, session
<1>4. CASE StartCreateClient
  <2>1. [NoClient EXCEPT !.phase = "created"] \in Clients
    BY OtaAssumption DEF OtaAssumption, NoClient, Clients, ClientPhases
  <2>2. [client EXCEPT ![ota.gen] = [NoClient EXCEPT !.phase = "created"]] \in [Gens -> Clients]
    BY <2>1 DEF TypeOK
  <2>3. [ota EXCEPT !.pc = "configure", !.http = ota.gen] \in Locals
    BY <1>1, <1>2 DEF Locals, StartSteps
  <2>4. ota' \in Locals /\ fota' \in Writers /\ client' \in [Gens -> Clients]
    BY <1>2, <1>4, <2>2, <2>3, FailureType DEF StartCreateClient, TypeOK
  <2>5. QED
    BY <1>4, <2>4 DEF StartCreateClient, TypeOK, session
<1>5. CASE StartConfigure
  <2>1. [ota EXCEPT !.pc = "detach", !.http = 0, !.outcome = "INTERNAL"] \in Locals
    BY <1>1, <1>2, RestValues DEF Locals
  <2>2. ota' \in Locals
    BY <1>2, <1>5, <2>1, GotoType DEF StartConfigure, StartSteps
  <2>3. fota' \in Writers /\ client' \in [Gens -> Clients]
    BY <1>5, DestroyType, FotaEnd0Type DEF StartConfigure, TypeOK
  <2>4. QED
    BY <1>5, <2>2, <2>3 DEF StartConfigure, TypeOK, session
<1>6. CASE StartPublish
  <2>1. ota' \in Locals
    BY <1>2, <1>6, GotoType, RestValues DEF StartPublish, StartSteps
  <2>2. fota' \in Writers /\ client' \in [Gens -> Clients] /\ http' \in 0 .. MaxSessions
    BY <1>1, <1>6, DestroyType, FotaEnd0Type DEF StartPublish, TypeOK
  <2>3. QED
    BY <1>6, <2>1, <2>2 DEF StartPublish, TypeOK, session
<1>7. CASE StartLaunch
  <2>1. [client EXCEPT ![ota.http].phase = "head"] \in [Gens -> Clients]
    BY <1>1, <1>2, ClientPhaseType
  <2>2. ota' \in Locals /\ fota' \in Writers /\ client' \in [Gens -> Clients]
    BY <1>2, <1>7, <2>1, FailureType, RestValues DEF StartLaunch, TypeOK
  <2>3. QED
    BY <1>7, <2>2 DEF StartLaunch, TypeOK, session
<1>8. QED
  BY <1>3, <1>4, <1>5, <1>6, <1>7 DEF OtaStart

LEMMA TypeBody ==
  TypeOK /\ (ReadHead \/ WriteBody \/ AccountBody \/ VerifyImage \/ CommitImage) => TypeOK'
<1> SUFFICES ASSUME TypeOK,
                    ReadHead \/ WriteBody \/ AccountBody \/ VerifyImage \/ CommitImage
             PROVE  TypeOK'
  OBVIOUS
<1>1. /\ {"recv", "detach", "account", "finish"} \subseteq TaskSteps
      /\ {"NONE", "HTTP_STATUS_ERROR", "VERIFY_FAILED"} \subseteq Errors
      /\ "DOWNLOADING" \in States
  BY DEF TaskSteps, Errors, States
<1>2. CASE ReadHead
  <2>1. ota' \in Locals /\ fota' \in Writers
    BY <1>1, <1>2, RestValues, FailureType DEF ReadHead, TypeOK
  <2>2. /\ httpStatusCode' \in {"none", "ok", "bad"} /\ totalBytes' \in {0, Chunks}
        /\ state' \in States /\ lastError' \in Errors
    BY <1>1, <1>2 DEF ReadHead, TypeOK
  <2>3. QED
    BY <1>2, <2>1, <2>2 DEF ReadHead, TypeOK
<1>3. CASE WriteBody
  <2>1. ota' \in Locals
    BY <1>1, <1>3, GotoType, FailureType DEF WriteBody
  <2>2. [fota EXCEPT !.written = Append(@, ota.body)] \in Writers
    <3>1. fota.written \in Seq(Bodies \cup {NoBody}) /\ ota.body \in Bodies \cup {NoBody}
      BY DEF TypeOK, Writers, Locals
    <3>2. Append(fota.written, ota.body) \in Seq(Bodies \cup {NoBody})
      BY <3>1
    <3>3. QED
      BY <3>2 DEF TypeOK, Writers
  <2>3. fota' \in Writers
    BY <1>1, <1>3, <2>2, FailureType DEF WriteBody
  <2>4. QED
    BY <1>3, <2>1, <2>3 DEF WriteBody, TypeOK, session
<1>4. CASE AccountBody
  BY <1>4, RestValues DEF AccountBody, TypeOK
<1>5. CASE VerifyImage
  <2>1. ota' \in Locals
    BY <1>1, <1>5, GotoType, FailureType DEF VerifyImage
  <2>2. QED
    BY <1>5, <2>1 DEF VerifyImage, TypeOK, session
<1>6. CASE CommitImage
  <2>1. fota' \in Writers
    BY <1>6 DEF CommitImage, TypeOK, Writers
  <2>2. ota' \in Locals
    BY <1>1, <1>6 DEF CommitImage, TypeOK, Locals
  <2>3. QED
    BY <1>6, <2>1, <2>2 DEF CommitImage, TypeOK, session
<1>7. QED
  BY <1>2, <1>3, <1>4, <1>5, <1>6

LEMMA TypeClose == TypeOK /\ (DetachHttp \/ DestroyHttp \/ Settle) => TypeOK'
<1> SUFFICES ASSUME TypeOK, DetachHttp \/ DestroyHttp \/ Settle PROVE TypeOK'
  OBVIOUS
<1>1. /\ ota \in Locals /\ ota.outcome \in Errors /\ ota.http \in Nat /\ http \in 0 .. MaxSessions
  BY RestValues DEF TypeOK, Locals
<1>2. ASSUME NEW pc \in TaskSteps, NEW h \in 0 .. MaxSessions
      PROVE  [ota EXCEPT !.pc = pc, !.http = h] \in Locals
  BY <1>1 DEF Locals
<1>3. {"settle", "destroy"} \subseteq TaskSteps /\ "destroyed" \in ClientPhases
  BY DEF TaskSteps, ClientPhases
<1>4. CASE DetachHttp
  <2>1. [ota EXCEPT !.http = http, !.pc = IF http = 0 THEN "settle" ELSE "destroy"] \in Locals
    BY <1>1, <1>3 DEF Locals
  <2>2. QED
    BY <1>4, <2>1, RestValues DEF DetachHttp, TypeOK, session
<1>5. CASE DestroyHttp
  <2>1. [ota EXCEPT !.pc = "settle", !.http = 0] \in Locals
    BY <1>2, <1>3, RestValues
  <2>2. QED
    BY <1>1, <1>3, <1>5, <2>1, DestroyType DEF DestroyHttp, TypeOK, session
<1>6. CASE Settle
  BY <1>1, <1>6, RestValues DEF Settle, SetFailure, TypeOK, States, Errors
<1>7. QED
  BY <1>4, <1>5, <1>6

LEMMA CallbackType ==
  ASSUME NEW h \in Gens, NEW id \in EventIds, NEW body \in Bodies \cup {NoBody},
         NEW err \in Errors, EnterCallback(h, id, body, err)
  PROVE  cb' \in Callbacks
<1>1. h \in 0 .. MaxSessions
  BY RestValues DEF Gens
<1>2. QED
  BY <1>1, RestValues DEF EnterCallback, Callbacks

LEMMA TypeDeliver == TypeOK /\ (Deliver \/ \E h \in Gens : Resume(h)) => TypeOK'
<1> SUFFICES ASSUME TypeOK, NEW h \in Gens,
                    DeliverHead(h) \/ DeliverBody(h) \/ DeliverDone(h) \/ DeliverError(h) \/ Resume(h)
             PROVE  TypeOK'
  BY DEF Deliver
<1>1. /\ EventIds = {"START", "HEAD_DONE", "BODY_DATA", "BODY_DONE", "HTTP_ERROR"}
      /\ {"NONE", "INTERNAL", "DOWNLOAD_FAILED"} \subseteq Errors
      /\ {"head", "body", "ended"} \subseteq ClientPhases
      /\ client[h] \in Clients /\ client[h].sent \in Nat /\ h \in Nat
  BY OtaAssumption DEF OtaAssumption, TypeOK, Clients, EventIds, Errors, ClientPhases, Gens
<1>2. CASE DeliverBody(h)
  <2>1. client[h].sent + 1 \in 1 .. Chunks
    BY <1>1, <1>2, OtaAssumption DEF DeliverBody, OtaAssumption
  <2>2. [client[h] EXCEPT !.sent = client[h].sent + 1] \in Clients
    BY <1>1, <2>1 DEF Clients
  <2>3. client' \in [Gens -> Clients]
    BY <1>2, <2>2 DEF DeliverBody, TypeOK
  <2>4. <<h, client[h].sent + 1>> \in Bodies
    BY <2>1 DEF Bodies
  <2>5. cb' \in Callbacks
    BY <1>1, <1>2, <2>4, CallbackType DEF DeliverBody
  <2>6. heap' \subseteq Bodies
    BY <1>2, <2>4 DEF DeliverBody, TypeOK
  <2>7. QED
    BY <1>2, <2>3, <2>5, <2>6 DEF DeliverBody, Engine, TypeOK, session
<1>3. CASE DeliverHead(h)
  <2>1. client' \in [Gens -> Clients]
    BY <1>1, <1>3, ClientPhaseType DEF DeliverHead
  <2>2. cb' \in Callbacks
    BY <1>1, <1>3, CallbackType DEF DeliverHead
  <2>3. QED
    BY <1>3, <2>1, <2>2 DEF DeliverHead, Engine, TypeOK, session
<1>4. CASE DeliverDone(h)
  <2>1. client' \in [Gens -> Clients]
    BY <1>1, <1>4, ClientPhaseType DEF DeliverDone
  <2>2. cb' \in Callbacks
    BY <1>1, <1>4, CallbackType DEF DeliverDone
  <2>3. QED
    BY <1>4, <2>1, <2>2 DEF DeliverDone, Engine, TypeOK, session
<1>5. CASE DeliverError(h)
  <2>1. client' \in [Gens -> Clients]
    BY <1>1, <1>5, ClientPhaseType DEF DeliverError
  <2>2. cb' \in Callbacks
    BY <1>1, <1>5, CallbackType DEF DeliverError
  <2>3. QED
    BY <1>5, <2>1, <2>2 DEF DeliverError, Engine, TypeOK, session
<1>6. CASE Resume(h)
  <2>1. client[h].retries + 1 \in 0 .. MaxRetries
    BY <1>1, <1>6, OtaAssumption DEF Resume, Clients, OtaAssumption
  <2>2. [client[h] EXCEPT !.phase = "head", !.retries = @ + 1] \in Clients
    BY <1>1, <2>1 DEF Clients
  <2>3. client' = [client EXCEPT ![h] = [client[h] EXCEPT !.phase = "head", !.retries = @ + 1]]
    BY <1>6 DEF Resume
  <2>4. client' \in [Gens -> Clients]
    BY <2>2, <2>3 DEF TypeOK
  <2>5. QED
    BY <1>6, <2>4 DEF Resume, Engine, TypeOK, session
<1>7. QED
  BY <1>2, <1>3, <1>4, <1>5, <1>6

LEMMA TypeCallback == TypeOK /\ Callback => TypeOK'
<1> SUFFICES ASSUME TypeOK, Callback PROVE TypeOK'
  OBVIOUS
<1>1. cb \in Callbacks /\ generation \in 0 .. MaxSessions
  BY DEF TypeOK
<1>2. CASE CallbackReadsGeneration
  <2>1. cb' \in Callbacks
    BY <1>1, <1>2 DEF CallbackReadsGeneration, Callbacks
  <2>2. QED
    BY <1>2, <2>1 DEF CallbackReadsGeneration, TypeOK, session
<1>3. CASE CallbackSends
  <2> DEFINE e == [id |-> cb.id, gen |-> cb.gen, src |-> cb.src, body |-> cb.body, err |-> cb.err]
  <2>1. e \in Events
    BY <1>1 DEF Events, Callbacks
  <2> HIDE DEF e
  <2>2. Append(queue, e) \in Seq(Events)
    BY <2>1 DEF TypeOK
  <2>3. queue' \in Seq(Events)
    BY <1>3, <2>2 DEF CallbackSends, e, TypeOK
  <2>4. lost' \subseteq 0 .. MaxSessions
    BY <1>1, <1>3 DEF CallbackSends, Callbacks, TypeOK
  <2>5. QED
    BY <1>3, <2>3, <2>4, RestValues DEF CallbackSends, TypeOK, session
<1>4. QED
  BY <1>2, <1>3 DEF Callback

LEMMA TypeNext == TypeOK /\ [Next]_vars => TypeOK'
<1> SUFFICES ASSUME TypeOK, [Next]_vars PROVE TypeOK'
  OBVIOUS
<1>1. CASE Sketch
  BY <1>1, TypeSketch
<1>2. CASE OtaTask
  BY <1>2, TypeTake, TypeStart, TypeBody, TypeClose DEF OtaTask
<1>3. CASE HttpEngine
  BY <1>3, TypeDeliver, TypeCallback DEF HttpEngine
<1>4. CASE UNCHANGED vars
  BY <1>4 DEF vars, session, TypeOK
<1>5. QED
  BY <1>1, <1>2, <1>3, <1>4 DEF Next

\* Every variable of the OTA session keeps the values its declaration promises,
\* for any number of sessions, chunks and retries and any queue length.
THEOREM TypeCorrect == Spec => []TypeOK
<1>1. QED
  BY TypeInit, TypeNext, PTL DEF Spec

-----------------------------------------------------------------------------
(* The session invariant: strings, HTTP handle and the sketch's view *)

LEMMA QueuedAfterTake ==
  ASSUME TypeOK, queue # <<>>, queue' = Tail(queue)
  PROVE  Queued' \subseteq Queued /\ Head(queue) \in Queued
<1>1. queue \in Seq(Events) /\ Len(queue) \in Nat \ {0} /\ Len(queue') = Len(queue) - 1
  BY DEF TypeOK
<1>2. Head(queue) = queue[1] /\ 1 \in 1 .. Len(queue)
  BY <1>1
<1>3. \A i \in 1 .. Len(queue') : queue'[i] = queue[i + 1] /\ i + 1 \in 1 .. Len(queue)
  BY <1>1
<1>4. QED
  BY <1>2, <1>3 DEF Queued

LEMMA QueuedAfterSend ==
  ASSUME TypeOK, NEW e, queue' = Append(queue, e)
  PROVE  Queued' \subseteq Queued \cup {e}
<1>1. queue \in Seq(Events) /\ Len(queue) \in Nat /\ Len(queue') = Len(queue) + 1
  BY DEF TypeOK
<1>2. \A i \in 1 .. Len(queue') : (i \in 1 .. Len(queue) /\ queue'[i] = queue[i]) \/ queue'[i] = e
  BY <1>1
<1>3. QED
  BY <1>2 DEF Queued

LEMMA QueuedTypes ==
  ASSUME TypeOK
  PROVE  Queued \subseteq Events /\ generation \in Nat /\ \A e \in Queued : e.gen \in Nat
<1>1. queue \in Seq(Events) /\ generation \in Nat /\ MaxSessions \in Nat
  BY RestValues DEF TypeOK
<1>2. Queued \subseteq Events
  BY <1>1 DEF Queued
<1>3. QED
  BY <1>1, <1>2 DEF Events

LEMMA SessionInit == Init => SessionInv
<1> SUFFICES ASSUME Init PROVE SessionInv
  OBVIOUS
<1>1. Queued = {}
  BY DEF Init, Queued
<1>2. QED
  BY <1>1 DEF Init, SessionInv, GenerationsBounded, FailuresNamed, StartNotAhead, SessionOwns,
              HandlerHoldsSession, BeginInProgress, Closing, Waiting, NoCallback, StartSteps

LEMMA SessionSketch == TypeOK /\ SessionInv /\ Sketch => SessionInv'
<1> SUFFICES ASSUME TypeOK, SessionInv, Sketch PROVE SessionInv'
  OBVIOUS
<1> USE DEF SessionInv, GenerationsBounded, FailuresNamed, StartNotAhead, SessionOwns,
            HandlerHoldsSession, BeginInProgress, Closing, Receiving
<1>1. /\ generation \in Nat /\ \A e \in Queued : e.gen \in Nat
      /\ ota.gen \in Nat /\ cb.gen \in Nat
  BY QueuedTypes, RestValues DEF TypeOK, Locals, Callbacks
<1>2. ASSUME UNCHANGED queue PROVE Queued' = Queued
  BY <1>2 DEF Queued
<1>3. ASSUME NEW err \in EarlyErrors, BeginRefusedEarly(err) PROVE SessionInv'
  BY <1>2, <1>3 DEF BeginRefusedEarly
<1>4. CASE BeginRefusedByState
  BY <1>2, <1>4 DEF BeginRefusedByState
<1>5. CASE BeginAccepted
  <2>1. /\ generation' = generation + 1 /\ strings' = generation' /\ state' = "STARTING"
        /\ httpStatusCode' = "none" /\ http' = 0
    BY <1>1, <1>5, NextGenerationIsNew DEF BeginAccepted, ResetSession
  <2>2. ota.pc \notin StartSteps
    BY <1>5 DEF BeginAccepted
  <2>3. QED
    BY <1>1, <1>2, <1>5, <2>1, <2>2 DEF BeginAccepted
<1>6. CASE BeginSendsStart
  <2> DEFINE e == [id |-> "START", gen |-> generation, src |-> 0,
                   body |-> NoBody, err |-> "NONE"]
  <2>1. CASE queue' = Append(queue, e) /\ api' = "idle"
    <3>1. e.gen = generation /\ e.id = "START"
      OBVIOUS
    <3> HIDE DEF e
    <3>2. Queued' \subseteq Queued \cup {e}
      BY <2>1, QueuedAfterSend
    <3>3. QED
      BY <1>1, <1>6, <2>1, <3>1, <3>2 DEF BeginSendsStart, session
  <2>2. CASE api' = "refused" /\ UNCHANGED queue
    BY <1>2, <1>6, <2>2 DEF BeginSendsStart, session
  <2>3. QED
    BY <1>6, <2>1, <2>2 DEF BeginSendsStart
<1>7. CASE BeginGivesUp
  BY <1>2, <1>7 DEF BeginGivesUp, ResetSession
<1>8. CASE Clear
  <2>1. CASE StateIsRunning \/ state = "STAGED"
    BY <1>2, <1>8, <2>1 DEF Clear
  <2>2. CASE state \in {"IDLE", "ERROR"}
    BY <1>2, <1>8, <2>2 DEF Clear, ResetSession, StateIsRunning
  <2>3. QED
    BY <2>1, <2>2 DEF StateIsRunning, TypeOK, States
<1>9. CASE Apply
  BY <1>2, <1>9 DEF Apply
<1>10. CASE Reboot
  <2>1. Queued' = {}
    BY <1>10 DEF Reboot, Queued
  <2>2. QED
    BY <1>10, <2>1 DEF Reboot, Waiting, NoCallback, StartSteps
<1>11. QED
  BY <1>3, <1>4, <1>5, <1>6, <1>7, <1>8, <1>9, <1>10 DEF Sketch, SketchFinishesBegin

\* What an event received brings into its handler.
LEMMA TakenEvent ==
  ASSUME TypeOK, SessionInv, queue # <<>>
  PROVE  /\ Head(queue).gen \in Nat /\ Head(queue).gen <= generation
         /\ Head(queue).id = "HTTP_ERROR" => Head(queue).err # "NONE"
         /\ Head(queue).id = "START" /\ Head(queue).gen = generation => ~BeginInProgress
<1>1. Head(queue) \in Queued
  <2>1. queue \in Seq(Events) /\ Head(queue) = queue[1] /\ 1 \in 1 .. Len(queue)
    BY DEF TypeOK
  <2>2. QED
    BY <2>1 DEF Queued
<1>2. QED
  BY <1>1, QueuedTypes DEF SessionInv, GenerationsBounded, FailuresNamed, StartNotAhead

LEMMA SessionTake == TypeOK /\ SessionInv /\ OtaTake => SessionInv'
<1> SUFFICES ASSUME TypeOK, SessionInv, OtaTake PROVE SessionInv'
  OBVIOUS
<1> DEFINE e == Head(queue)
<1>1. /\ queue # <<>> /\ queue' = Tail(queue) /\ ota.pc = "recv"
      /\ UNCHANGED <<generation, strings, http, httpStatusCode, api, cb>>
  BY DEF OtaTake, TakeStart, TakeHeadDone, TakeBodyData, TakeBodyDone, TakeHttpError, Receive
<1>2. /\ e.gen \in Nat /\ e.gen <= generation
      /\ e.id = "HTTP_ERROR" => e.err # "NONE"
      /\ e.id = "START" /\ e.gen = generation => ~BeginInProgress
  BY <1>1, TakenEvent
<1>3. Queued' \subseteq Queued
  BY <1>1, QueuedAfterTake
<1>4. generation \in Nat
  BY QueuedTypes
<1>5. (GenerationsBounded /\ FailuresNamed /\ StartNotAhead /\ SessionOwns)'
  <2>1. ota'.gen <= generation /\ ota'.pc \notin {"destroy", "settle"}
    BY <1>2, <1>4
    DEF OtaTake, TakeStart, TakeHeadDone, TakeBodyData, TakeBodyDone, TakeHttpError, Task, Waiting
  <2>2. state' = state \/ (Receiving /\ state' \in {"DOWNLOADING", "VERIFYING"})
    BY DEF OtaTake, TakeStart, TakeHeadDone, TakeBodyData, TakeBodyDone, TakeHttpError
  <2>3. QED
    BY <1>1, <1>3, <2>1, <2>2
    DEF SessionInv, GenerationsBounded, FailuresNamed, StartNotAhead, SessionOwns, Receiving,
        BeginInProgress
<1>6. HandlerHoldsSession'
  <2> USE DEF HandlerHoldsSession, Closing, BeginInProgress, Receiving, StartSteps
  <2>1. CASE TakeStart
    BY <1>1, <1>2, <2>1 DEF TakeStart, Receive, Task, Waiting
  <2>2. CASE TakeHeadDone
    BY <1>1, <2>2 DEF TakeHeadDone, Task, Waiting, SessionInv, StartNotAhead
  <2>3. CASE TakeBodyData
    BY <1>1, <2>3 DEF TakeBodyData, Task, Waiting
  <2>4. CASE TakeBodyDone
    BY <1>1, <2>4 DEF TakeBodyDone, Task, Waiting, SessionInv, StartNotAhead, HttpStatusOk
  <2>5. CASE TakeHttpError
    BY <1>1, <1>2, <2>5 DEF TakeHttpError, Receive, Task, Waiting
  <2>6. QED
    BY <2>1, <2>2, <2>3, <2>4, <2>5 DEF OtaTake
<1>7. QED
  BY <1>5, <1>6 DEF SessionInv

LEMMA FailureFields ==
  ASSUME ota \in Locals, NEW err, NEW endFota, FinalizeFailure(err, endFota)
  PROVE  ota'.gen = ota.gen /\ ota'.pc = "detach" /\ ota'.outcome = err
BY DEF FinalizeFailure, Locals

LEMMA GotoFields ==
  ASSUME ota \in Locals, NEW pc, Goto(pc)
  PROVE  ota'.gen = ota.gen /\ ota'.pc = pc
BY DEF Goto, Locals

LEMMA SessionHandler ==
  TypeOK /\ SessionInv /\ OtaTask /\ ~OtaTake => SessionInv'
<1> SUFFICES ASSUME TypeOK, SessionInv, OtaTask, ~OtaTake PROVE SessionInv'
  OBVIOUS
<1> USE DEF SessionInv, GenerationsBounded, FailuresNamed, StartNotAhead, SessionOwns,
            HandlerHoldsSession, BeginInProgress, Closing, Receiving, StartSteps
<1>1. generation \in Nat /\ ota.gen \in Nat /\ ota \in Locals
  BY QueuedTypes, RestValues DEF TypeOK, Locals
<1>2. /\ UNCHANGED <<queue, generation, strings, api, cb>>
      /\ Queued' = Queued
  <2>1. UNCHANGED <<queue, generation, strings, api, cb>>
    BY DEF OtaTask, OtaStart, StartFotaInit, StartCreateClient, StartConfigure, StartPublish,
           StartLaunch, ReadHead, WriteBody, AccountBody, VerifyImage, CommitImage, DetachHttp,
           DestroyHttp, Settle, session
  <2>2. QED
    BY <2>1 DEF Queued
<1>3. CASE OtaStart
  <2>1. UNCHANGED session
    BY <1>3 DEF OtaStart, StartFotaInit, StartCreateClient, StartConfigure, StartPublish, StartLaunch
  <2>2. ota.pc \in StartSteps
    BY <1>3 DEF OtaStart, StartFotaInit, StartCreateClient, StartConfigure, StartPublish, StartLaunch
  <2>3. \/ ota' = Waiting
        \/ ota'.gen = ota.gen /\ ota'.pc \in StartSteps
        \/ ota'.gen = ota.gen /\ ota'.pc = "detach" /\ ota'.outcome # "NONE"
    <3>1. ASSUME NEW pc \in StartSteps, Goto(pc)
          PROVE  ota'.gen = ota.gen /\ ota'.pc \in StartSteps
      BY <1>1, <3>1, GotoFields
    <3>2. ASSUME NEW err \in Errors \ {"NONE"}, NEW endFota \in BOOLEAN,
                 FinalizeFailure(err, endFota)
          PROVE  ota'.gen = ota.gen /\ ota'.pc = "detach" /\ ota'.outcome # "NONE"
      BY <1>1, <3>2, FailureFields
    <3>3. {"INTERNAL", "DOWNLOAD_FAILED"} \subseteq Errors \ {"NONE"}
      BY DEF Errors
    <3>4. CASE StartFotaInit
      <4>1. Goto("create") \/ FinalizeFailure("INTERNAL", FALSE)
        BY <3>4 DEF StartFotaInit
      <4>2. QED
        BY <3>1, <3>2, <3>3, <4>1
    <3>5. CASE StartCreateClient
      <4>1. \/ ota' = [ota EXCEPT !.pc = "configure", !.http = ota.gen]
            \/ FinalizeFailure("INTERNAL", TRUE)
        BY <3>5 DEF StartCreateClient
      <4>2. CASE ota' = [ota EXCEPT !.pc = "configure", !.http = ota.gen]
        BY <1>1, <4>2 DEF Locals
      <4>3. QED
        BY <3>2, <3>3, <4>1, <4>2
    <3>6. CASE StartConfigure
      <4>1. \/ Goto("publish")
            \/ ota' = [ota EXCEPT !.pc = "detach", !.http = 0, !.outcome = "INTERNAL"]
        BY <3>6 DEF StartConfigure
      <4>2. CASE ota' = [ota EXCEPT !.pc = "detach", !.http = 0, !.outcome = "INTERNAL"]
        BY <1>1, <4>2 DEF Locals
      <4>3. QED
        BY <3>1, <4>1, <4>2
    <3>7. CASE StartPublish
      <4>1. Goto("launch") \/ ota' = Waiting
        BY <3>7 DEF StartPublish
      <4>2. QED
        BY <3>1, <4>1
    <3>8. CASE StartLaunch
      <4>1. ota' = Waiting \/ FinalizeFailure("DOWNLOAD_FAILED", TRUE)
        BY <3>8 DEF StartLaunch
      <4>2. QED
        BY <3>2, <3>3, <4>1
    <3>9. QED
      BY <1>3, <3>4, <3>5, <3>6, <3>7, <3>8 DEF OtaStart
  <2>4. Waiting.gen = 0 /\ Waiting.pc = "recv"
    BY DEF Waiting
  <2>5. QED
    BY <1>1, <1>2, <2>1, <2>2, <2>3, <2>4 DEF session
<1>4. CASE ReadHead
  <2>1. \/ ota' = Waiting
        \/ ota'.gen = ota.gen /\ ota'.pc = "detach" /\ ota'.outcome # "NONE"
    <3>1. ota' = Waiting \/ FinalizeFailure("HTTP_STATUS_ERROR", TRUE)
      BY <1>4 DEF ReadHead
    <3>2. QED
      BY <1>1, <3>1 DEF FinalizeFailure, Locals
  <2>2. /\ ota'.gen \in Nat /\ ota'.gen <= generation
        /\ ota'.pc = "recv" \/ (ota'.pc = "detach" /\ ota'.outcome # "NONE")
    BY <1>1, <2>1 DEF Waiting
  <2>3. UNCHANGED http
    BY <1>4 DEF ReadHead
  <2>4. CASE ota.gen = generation
    <3>1. Receiving /\ ~BeginInProgress /\ (state' = state \/ state' = "DOWNLOADING")
      BY <1>4, <2>4 DEF ReadHead
    <3>2. QED
      BY <1>1, <1>2, <2>1, <2>2, <2>3, <3>1
  <2>5. CASE ota.gen # generation
    <3>1. UNCHANGED <<state, httpStatusCode>>
      BY <1>4, <2>5 DEF ReadHead
    <3>2. QED
      BY <1>1, <1>2, <2>1, <2>2, <2>3, <3>1
  <2>6. QED
    BY <2>4, <2>5
<1>5. CASE WriteBody
  <2>1. ota'.gen = ota.gen /\ (ota'.pc = "account" \/ (ota'.pc = "detach" /\ ota'.outcome # "NONE"))
    BY <1>1, <1>5 DEF WriteBody, FinalizeFailure, Goto, Locals
  <2>2. QED
    BY <1>1, <1>2, <1>5, <2>1 DEF WriteBody, session
<1>6. CASE AccountBody
  BY <1>1, <1>2, <1>6 DEF AccountBody, Waiting
<1>7. CASE VerifyImage
  <2>1. ota'.gen = ota.gen /\ (ota'.pc = "finish" \/ (ota'.pc = "detach" /\ ota'.outcome # "NONE"))
    BY <1>1, <1>7 DEF VerifyImage, FinalizeFailure, Goto, Locals
  <2>2. QED
    BY <1>1, <1>2, <1>7, <2>1 DEF VerifyImage, session
<1>8. CASE CommitImage
  <2>1. ota'.gen = ota.gen /\ ota'.pc = "detach"
    BY <1>1, <1>8 DEF CommitImage, Locals
  <2>2. QED
    BY <1>1, <1>2, <1>8, <2>1 DEF CommitImage, session
<1>9. CASE DetachHttp
  <2>1. ota'.gen = ota.gen /\ ota'.outcome = ota.outcome /\ ota'.pc \in {"settle", "destroy"}
    BY <1>1, <1>9 DEF DetachHttp, Locals
  <2>2. QED
    BY <1>1, <1>2, <1>9, <2>1 DEF DetachHttp, session
<1>10. CASE DestroyHttp
  <2>1. ota'.gen = ota.gen /\ ota'.outcome = ota.outcome /\ ota'.pc = "settle"
    BY <1>1, <1>10 DEF DestroyHttp, Locals
  <2>2. QED
    BY <1>1, <1>2, <1>10, <2>1 DEF DestroyHttp, session
<1>11. CASE Settle
  <2>1. /\ ota.gen = generation /\ ota.outcome = "NONE" => state = "VERIFYING"
        /\ http = 0
    BY <1>11 DEF Settle
  <2>2. /\ ota'.pc = "recv" /\ ota'.gen = 0
        /\ UNCHANGED <<http, httpStatusCode>>
        /\ \/ UNCHANGED state
           \/ state' = "STAGED" /\ state = "VERIFYING"
           \/ state' = "ERROR"
    BY <1>11, <2>1 DEF Settle, SetFailure, Waiting
  <2>3. QED
    BY <1>1, <1>2, <2>1, <2>2
<1>12. QED
  BY <1>3, <1>4, <1>5, <1>6, <1>7, <1>8, <1>9, <1>10, <1>11 DEF OtaTask

\* What the running callback and an appended callback event say of the session.
LEMMA SessionEngine == TypeOK /\ SessionInv /\ HttpEngine => SessionInv'
<1> SUFFICES ASSUME TypeOK, SessionInv, HttpEngine PROVE SessionInv'
  OBVIOUS
<1> USE DEF SessionInv, GenerationsBounded, FailuresNamed, StartNotAhead, SessionOwns,
            HandlerHoldsSession, BeginInProgress, Closing, Receiving, StartSteps
<1>1. generation \in Nat /\ cb \in Callbacks
  BY QueuedTypes DEF TypeOK
<1>2. ASSUME NEW h \in Gens,
             DeliverHead(h) \/ DeliverBody(h) \/ DeliverDone(h) \/ DeliverError(h)
      PROVE  SessionInv'
  <2>1. UNCHANGED <<session, http, queue, api, ota>>
    BY <1>2 DEF DeliverHead, DeliverBody, DeliverDone, DeliverError, Engine
  <2>2. Queued' = Queued
    BY <2>1 DEF Queued
  <2>3. cb'.gen = 0 /\ cb'.id # "START" /\ (cb'.id = "HTTP_ERROR" => cb'.err # "NONE")
    BY <1>2 DEF DeliverHead, DeliverBody, DeliverDone, DeliverError, EnterCallback
  <2>4. QED
    BY <1>1, <2>1, <2>2, <2>3 DEF session
<1>3. ASSUME NEW h \in Gens, Resume(h) PROVE SessionInv'
  <2>1. UNCHANGED <<session, http, queue, api, ota, cb>>
    BY <1>3 DEF Resume, Engine
  <2>2. Queued' = Queued
    BY <2>1 DEF Queued
  <2>3. QED
    BY <2>1, <2>2 DEF session
<1>4. CASE CallbackReadsGeneration
  <2>1. UNCHANGED <<session, http, queue, api, ota>>
    BY <1>4 DEF CallbackReadsGeneration
  <2>2. Queued' = Queued
    BY <2>1 DEF Queued
  <2>3. cb'.gen = generation /\ cb'.id = cb.id /\ cb'.err = cb.err /\ cb.pc # "none"
    BY <1>1, <1>4 DEF CallbackReadsGeneration, Callbacks
  <2>4. QED
    BY <1>1, <2>1, <2>2, <2>3 DEF session
<1>5. CASE CallbackSends
  <2> DEFINE e == [id |-> cb.id, gen |-> cb.gen, src |-> cb.src,
                   body |-> cb.body, err |-> cb.err]
  <2>1. UNCHANGED <<session, http, api, ota>> /\ cb' = NoCallback /\ cb.pc # "none"
    BY <1>5 DEF CallbackSends
  <2>2. e.gen = cb.gen /\ e.id = cb.id /\ e.err = cb.err
    OBVIOUS
  <2>3. queue' = Append(queue, e) \/ UNCHANGED queue
    BY <1>5 DEF CallbackSends
  <2> HIDE DEF e
  <2>4. Queued' \subseteq Queued \cup {e}
    <3>1. CASE queue' = Append(queue, e)
      BY <3>1, QueuedAfterSend
    <3>2. CASE UNCHANGED queue
      BY <3>2 DEF Queued
    <3>3. QED
      BY <2>3, <3>1, <3>2
  <2>5. NoCallback.gen = 0 /\ NoCallback.id = "START" /\ NoCallback.pc = "none"
    BY DEF NoCallback
  <2>6. QED
    BY <1>1, <2>1, <2>2, <2>4, <2>5 DEF session
<1>6. QED
  BY <1>2, <1>3, <1>4, <1>5 DEF HttpEngine, Deliver, Callback

LEMMA SessionNext == TypeOK /\ SessionInv /\ [Next]_vars => SessionInv'
<1> SUFFICES ASSUME TypeOK, SessionInv, [Next]_vars PROVE SessionInv'
  OBVIOUS
<1>1. CASE UNCHANGED vars
  BY <1>1 DEF vars, session, SessionInv, GenerationsBounded, FailuresNamed, StartNotAhead,
              SessionOwns, HandlerHoldsSession, BeginInProgress, Closing, Receiving, Queued
<1>2. QED
  BY <1>1, SessionSketch, SessionTake, SessionHandler, SessionEngine DEF Next

\* The strengthening holds in every reachable state, for any queue limit, any
\* number of sessions and whether or not destroy waits for the callback.
THEOREM SessionInvariant == Spec => []SessionInv
<1>1. Init => SessionInv
  BY SessionInit
<1>2. TypeOK /\ SessionInv /\ [Next]_vars => SessionInv'
  BY SessionNext
<1>3. QED
  BY <1>1, <1>2, TypeCorrect, PTL DEF Spec

\* The url, user, password and caCert that arduinoOtaHandleStart captured are
\* neither freed nor replaced while it works on them without the mutex.
THEOREM StringsSafe == Spec => []StringsInUse
<1>1. SessionInv => StringsInUse
  BY DEF SessionInv, SessionOwns, HandlerHoldsSession, StringsInUse
<1>2. QED
  BY <1>1, SessionInvariant, PTL

\* An arduino_ota step for an event or a handler of an older generation leaves
\* state, errors, byte counts, status and strings of the session as they are.
THEOREM StaleWork == Spec => StaleWorkIsInert
<1>1. TypeOK /\ OtaTask /\ WorkGeneration # generation => UNCHANGED session
  <2> SUFFICES ASSUME TypeOK, OtaTask, WorkGeneration # generation
               PROVE  UNCHANGED session
    OBVIOUS
  <2>1. CASE OtaTake
    <3>1. /\ queue # <<>> /\ ota.pc = "recv"
          /\ UNCHANGED <<generation, lastError, totalBytes, downloadedBytes, strings,
                         httpStatusCode>>
      BY <2>1 DEF OtaTake, TakeStart, TakeHeadDone, TakeBodyData, TakeBodyDone,
                  TakeHttpError, Receive
    <3>2. Head(queue).gen # generation
      BY <3>1 DEF WorkGeneration
    <3>3. UNCHANGED state
      BY <2>1, <3>2 DEF OtaTake, TakeStart, TakeHeadDone, TakeBodyData, TakeBodyDone,
                        TakeHttpError
    <3>4. QED
      BY <3>1, <3>3 DEF session
  <2>2. CASE ~OtaTake
    <3>1. ota.pc # "recv"
      BY <2>2 DEF OtaTask, OtaStart, StartFotaInit, StartCreateClient, StartConfigure,
           StartPublish, StartLaunch, ReadHead, WriteBody, AccountBody, VerifyImage,
           CommitImage, DetachHttp, DestroyHttp, Settle
    <3>2. ota.gen # generation
      BY <3>1 DEF WorkGeneration
    <3>3. QED
      BY <2>2, <3>2 DEF OtaTask, OtaStart, StartFotaInit, StartCreateClient, StartConfigure,
           StartPublish, StartLaunch, ReadHead, WriteBody, AccountBody, VerifyImage,
           CommitImage, DetachHttp, DestroyHttp, Settle, session
  <2>3. QED
    BY <2>1, <2>2
<1>2. QED
  BY <1>1, TypeCorrect, PTL DEF Spec, StaleWorkIsInert


-----------------------------------------------------------------------------
(* Ownership of the HTTP clients: the inductive invariant, beside SessionInv *)

\* The START of the current session waits at place i of the queue.
StartsAt(i) == queue[i].id = "START" /\ queue[i].gen = generation

\* A session is started once, and has no client before.
StartsOnce ==
  /\ \A i, j \in 1 .. Len(queue) : StartsAt(i) /\ StartsAt(j) => i = j
  /\ \A i \in 1 .. Len(queue) : StartsAt(i) => http = 0 /\ ota.pc \notin StartSteps

\* A session that is started has a generation.
Numbered ==
  /\ api = "sending" => generation # 0
  /\ \A i \in 1 .. Len(queue) : queue[i].id = "START" => queue[i].gen # 0
  /\ ota.pc \in StartSteps => ota.gen # 0

\* The client the task has at hand: none, the one that is not published yet, that
\* of the session, or the one it has taken from the session to destroy it.
HandleFollows ==
  /\ ota.pc \in {"recv", "fota_init", "create", "write", "account", "verify", "finish", "settle"} => ota.http = 0
  /\ ota.pc \in {"head", "detach", "launch"} => ota.http \in {0, http}
  /\ ota.pc \in {"configure", "publish", "launch", "destroy"} => ota.http # 0
  /\ ota.pc \in {"fota_init", "create", "configure", "publish", "destroy"} => http = 0
  /\ state \in {"IDLE", "ERROR"} \/ BeginInProgress => ota.http = 0

\* A client that lives is the session's or the task's, and theirs live.
Alive ==
  /\ \A h \in Gens : Live(h) => h \in {http, ota.http}
  /\ http # 0 => Live(http)
  /\ ota.http # 0 => Live(ota.http)

OwnInv == StartsOnce /\ Numbered /\ HandleFollows /\ Alive

-----------------------------------------------------------------------------
(* Ownership: the parts that most steps leave alone *)

\* A step that touches neither the queue nor the generation.
LEMMA StartsKept ==
  ASSUME StartsOnce, Numbered, UNCHANGED <<queue, generation>>,
         (\E i \in 1 .. Len(queue) : StartsAt(i)) => http' = 0 /\ ota'.pc \notin StartSteps
  PROVE  StartsOnce' /\ \A i \in 1 .. Len(queue') : queue'[i].id = "START" => queue'[i].gen # 0
BY DEF StartsOnce, Numbered, StartsAt

\* A step that neither makes nor destroys a client, nor moves a handle.
LEMMA AliveKept ==
  ASSUME Alive, UNCHANGED <<http, client>>, ota'.http = ota.http
  PROVE  Alive'
BY DEF Alive, Live

LEMMA OwnInit == Init => OwnInv
<1> SUFFICES ASSUME Init PROVE OwnInv
  OBVIOUS
<1>1. Len(queue) = 0 /\ ota.pc = "recv" /\ ota.http = 0 /\ http = 0 /\ api = "idle"
  BY DEF Init, Waiting
<1>2. StartsOnce /\ Numbered
  BY <1>1 DEF StartsOnce, Numbered, StartSteps
<1>3. HandleFollows
  BY <1>1 DEF HandleFollows
<1>4. \A h \in Gens : ~Live(h)
  BY DEF Init, Live, NoClient
<1>5. Alive
  BY <1>1, <1>4 DEF Alive
<1>6. QED
  BY <1>2, <1>3, <1>5 DEF OwnInv

-----------------------------------------------------------------------------
(* Ownership: the sketch *)

\* The sketch touches no client; begin() starts a session when there is none.
LEMMA OwnSketch == TypeOK /\ SessionInv /\ OwnInv /\ Sketch => OwnInv'
<1> SUFFICES ASSUME TypeOK, SessionInv, OwnInv, Sketch PROVE OwnInv'
  OBVIOUS
<1>1. CASE Reboot
  <2>1. Len(queue') = 0 /\ ota'.pc = "recv" /\ ota'.http = 0 /\ http' = 0 /\ api' = "idle"
    BY <1>1 DEF Reboot, Waiting
  <2>2. StartsOnce' /\ Numbered'
    BY <2>1 DEF StartsOnce, Numbered, StartSteps
  <2>3. HandleFollows'
    BY <2>1 DEF HandleFollows
  <2>4. \A h \in Gens : ~Live(h)'
    BY <1>1 DEF Reboot, Live, NoClient
  <2>5. Alive'
    BY <2>1, <2>4 DEF Alive
  <2>6. QED
    BY <2>2, <2>3, <2>5 DEF OwnInv
<1>2. CASE ~Reboot
  <2>1. UNCHANGED <<http, client, ota>>
    BY <1>2 DEF Sketch, SketchFinishesBegin, BeginRefusedEarly, BeginRefusedByState, BeginAccepted,
       BeginSendsStart, BeginGivesUp, Clear, Apply
  <2>2. Alive'
    BY <2>1, AliveKept DEF OwnInv
  <2>3. HandleFollows'
    <3>1. state' \in {"IDLE", "ERROR"} \/ BeginInProgress' => state \in {"IDLE", "ERROR"} \/ BeginInProgress
      BY <1>2 DEF Sketch, SketchFinishesBegin, BeginRefusedEarly, BeginRefusedByState, BeginAccepted,
         BeginSendsStart, BeginGivesUp, Clear, Apply, BeginInProgress, ResetSession, session,
         StateIsRunning, TypeOK, States
    <3>2. QED
      BY <2>1, <3>1 DEF OwnInv, HandleFollows
  <2>4. ASSUME UNCHANGED <<queue, generation>> PROVE StartsOnce' /\ \A i \in 1 .. Len(queue') : queue'[i].id = "START" => queue'[i].gen # 0
    <3>1. (\E i \in 1 .. Len(queue) : StartsAt(i)) => http' = 0 /\ ota'.pc \notin StartSteps
      BY <2>1 DEF OwnInv, StartsOnce
    <3>2. QED
      BY <2>4, <3>1, StartsKept DEF OwnInv
  <2>5. ota'.pc \in StartSteps => ota'.gen # 0
    BY <2>1 DEF OwnInv, Numbered
  <2>6. CASE BeginAccepted
    <3>1. generation \in Nat /\ generation' = generation + 1 /\ UNCHANGED queue
      BY <2>6, QueuedTypes, NextGenerationIsNew DEF BeginAccepted
    <3>2. \A i \in 1 .. Len(queue) : queue[i] \in Queued
      BY DEF Queued
    <3>3. \A i \in 1 .. Len(queue) : queue[i].gen \in Nat /\ queue[i].gen <= generation
      BY <3>2, QueuedTypes DEF SessionInv, GenerationsBounded
    <3>4. \A i \in 1 .. Len(queue') : ~StartsAt(i)'
      BY <3>1, <3>3 DEF StartsAt
    <3>5. StartsOnce'
      BY <3>4 DEF StartsOnce
    <3>6. Numbered'
      BY <2>5, <3>1 DEF OwnInv, Numbered
    <3>7. QED
      BY <2>2, <2>3, <3>5, <3>6 DEF OwnInv
  <2>7. CASE BeginSendsStart
    <3> DEFINE e == [id |-> "START", gen |-> generation, src |-> 0, body |-> NoBody, err |-> "NONE"]
    <3>1. CASE queue' = Append(queue, e) /\ api' = "idle" /\ api = "sending" /\ UNCHANGED generation
      <4>1. e.gen = generation /\ e.id = "START"
        OBVIOUS
      <4> HIDE DEF e
      <4>2. queue \in Seq(Events) /\ Len(queue) \in Nat
        BY DEF TypeOK
      <4>3. /\ Len(queue') = Len(queue) + 1 /\ queue'[Len(queue) + 1] = e
            /\ \A i \in 1 .. Len(queue) : queue'[i] = queue[i]
        BY <3>1, <4>2
      <4>4. \A i \in 1 .. Len(queue) : queue[i] \in Queued
        BY DEF Queued
      <4>5. BeginInProgress /\ http = 0 /\ \A i \in 1 .. Len(queue) : queue[i].id = "START" => queue[i].gen < generation
        BY <3>1, <4>4 DEF BeginInProgress, SessionInv, StartNotAhead
      <4>6. generation \in Nat /\ \A i \in 1 .. Len(queue) : queue[i].gen \in Nat
        BY <4>4, QueuedTypes
      <4>7. \A i \in 1 .. Len(queue) : ~StartsAt(i)'
        BY <3>1, <4>3, <4>5, <4>6 DEF StartsAt
      <4>8. \A i \in 1 .. Len(queue') : StartsAt(i)' => i = Len(queue) + 1
        BY <4>2, <4>3, <4>7
      <4>9. ota.pc \notin StartSteps
        BY <4>5 DEF SessionInv, HandlerHoldsSession
      <4>10. StartsOnce'
        <5>1. \A i, j \in 1 .. Len(queue') : StartsAt(i)' /\ StartsAt(j)' => i = j
          BY <4>8
        <5>2. http' = 0 /\ ota'.pc \notin StartSteps
          BY <2>1, <4>5, <4>9
        <5>3. QED
          BY <5>1, <5>2 DEF StartsOnce
      <4>11. \A i \in 1 .. Len(queue') : queue'[i].id = "START" => queue'[i].gen # 0
        <5>1. generation # 0
          BY <3>1 DEF OwnInv, Numbered
        <5>2. \A i \in 1 .. Len(queue) : queue'[i].id = "START" => queue'[i].gen # 0
          BY <4>3 DEF OwnInv, Numbered
        <5>3. QED
          BY <4>1, <4>2, <4>3, <5>1, <5>2
      <4>12. Numbered'
        BY <2>5, <3>1, <4>11 DEF Numbered
      <4>13. QED
        BY <2>2, <2>3, <4>10, <4>12 DEF OwnInv
    <3>2. CASE api' = "refused" /\ UNCHANGED <<queue, generation>>
      BY <2>2, <2>3, <2>4, <2>5, <3>2 DEF OwnInv, Numbered
    <3>3. QED
      BY <2>7, <3>1, <3>2 DEF BeginSendsStart, session
  <2>8. CASE UNCHANGED <<queue, generation>> /\ api' \in {api, "idle", "rebooting"}
    BY <2>2, <2>3, <2>4, <2>5, <2>8 DEF OwnInv, Numbered
  <2>9. QED
    BY <1>2, <2>6, <2>7, <2>8 DEF Sketch, SketchFinishesBegin, BeginRefusedEarly, BeginRefusedByState,
       BeginGivesUp, Clear, Apply
<1>3. QED
  BY <1>1, <1>2

-----------------------------------------------------------------------------
(* Ownership: the arduino_ota task *)

\* The head of the queue is taken once.
LEMMA StartsAfterTake ==
  ASSUME TypeOK, StartsOnce, Numbered, queue # <<>>, queue' = Tail(queue), UNCHANGED <<generation, http>>,
         ota'.pc \in StartSteps => StartsAt(1)
  PROVE  /\ StartsOnce'
         /\ \A i \in 1 .. Len(queue') : queue'[i].id = "START" => queue'[i].gen # 0
<1>1. queue \in Seq(Events) /\ Len(queue) \in Nat \ {0} /\ Len(queue') = Len(queue) - 1
  BY DEF TypeOK
<1>2. \A i \in 1 .. Len(queue') : queue'[i] = queue[i + 1] /\ i + 1 \in 1 .. Len(queue)
  BY <1>1
<1>3. \A i \in 1 .. Len(queue') : StartsAt(i)' => StartsAt(i + 1)
  BY <1>2 DEF StartsAt
<1>4. \A i, j \in 1 .. Len(queue') : StartsAt(i)' /\ StartsAt(j)' => i = j
  <2> SUFFICES ASSUME NEW i \in 1 .. Len(queue'), NEW j \in 1 .. Len(queue'), StartsAt(i)', StartsAt(j)' PROVE i = j
    OBVIOUS
  <2>1. StartsAt(i + 1) /\ StartsAt(j + 1) /\ i + 1 \in 1 .. Len(queue) /\ j + 1 \in 1 .. Len(queue)
    BY <1>2, <1>3
  <2>2. i + 1 = j + 1
    BY <2>1 DEF StartsOnce
  <2>3. QED
    BY <1>1, <2>2
<1>5. \A i \in 1 .. Len(queue') : StartsAt(i)' => http' = 0 /\ ota'.pc \notin StartSteps
  <2> SUFFICES ASSUME NEW i \in 1 .. Len(queue'), StartsAt(i)' PROVE http' = 0 /\ ota'.pc \notin StartSteps
    OBVIOUS
  <2>1. StartsAt(i + 1) /\ i + 1 \in 1 .. Len(queue) /\ 1 \in 1 .. Len(queue) /\ i + 1 # 1
    BY <1>1, <1>2, <1>3
  <2>2. http = 0 /\ ~StartsAt(1)
    BY <2>1 DEF StartsOnce
  <2>3. QED
    BY <2>2
<1>6. QED
  BY <1>2, <1>4, <1>5 DEF StartsOnce, Numbered

\* A handler begins with no client at hand, or with that of the session.
LEMMA OwnTake == TypeOK /\ SessionInv /\ OwnInv /\ OtaTake => OwnInv'
<1> SUFFICES ASSUME TypeOK, SessionInv, OwnInv, OtaTake PROVE OwnInv'
  OBVIOUS
<1>1. /\ queue # <<>> /\ queue' = Tail(queue) /\ ota.pc = "recv"
      /\ UNCHANGED <<generation, http, api, client>>
  BY DEF OtaTake, TakeStart, TakeHeadDone, TakeBodyData, TakeBodyDone, TakeHttpError, Receive
<1>2. Head(queue) = queue[1] /\ 1 \in 1 .. Len(queue)
  BY <1>1 DEF TypeOK
<1>3. /\ ota'.pc \in StartSteps => ota'.pc = "fota_init" /\ StartsAt(1) /\ ota'.gen = queue[1].gen
      /\ ota'.pc \in {"recv", "fota_init", "write", "verify", "detach", "head"}
      /\ ota'.http = 0 \/ (ota'.pc = "head" /\ ota'.http = http /\ state' \notin {"IDLE", "ERROR"})
  <2> USE DEF StartSteps, Task, Waiting
  <2>1. CASE TakeStart
    BY <1>2, <2>1 DEF TakeStart, Receive, StartsAt
  <2>2. CASE TakeHeadDone
    BY <2>2 DEF TakeHeadDone, Receiving
  <2>3. CASE TakeBodyData
    BY <2>3 DEF TakeBodyData
  <2>4. CASE TakeBodyDone
    BY <2>4 DEF TakeBodyDone
  <2>5. CASE TakeHttpError
    BY <2>5 DEF TakeHttpError
  <2>6. QED
    BY <2>1, <2>2, <2>3, <2>4, <2>5 DEF OtaTake
<1>4. StartsOnce' /\ \A i \in 1 .. Len(queue') : queue'[i].id = "START" => queue'[i].gen # 0
  BY <1>1, <1>3, StartsAfterTake DEF OwnInv
<1>5. Numbered'
  <2>1. ota'.pc \in StartSteps => ota'.gen # 0
    BY <1>2, <1>3 DEF OwnInv, Numbered, StartsAt
  <2>2. QED
    BY <1>1, <1>4, <2>1 DEF OwnInv, Numbered
<1>6. HandleFollows'
  <2>1. ota'.pc = "fota_init" => http' = 0
    <3>1. StartsAt(1) => http = 0
      BY <1>2 DEF OwnInv, StartsOnce
    <3>2. QED
      BY <1>1, <1>3, <3>1 DEF StartSteps
  <2>2. BeginInProgress' => http = 0
    BY <1>1 DEF SessionInv, StartNotAhead, BeginInProgress
  <2>3. QED
    <3>1. CASE ota'.http = 0
      BY <1>3, <2>1, <3>1 DEF HandleFollows
    <3>2. CASE ota'.pc = "head" /\ ota'.http = http /\ state' \notin {"IDLE", "ERROR"}
      BY <1>1, <2>2, <3>2 DEF HandleFollows
    <3>3. QED
      BY <1>3, <3>1, <3>2
<1>7. Alive'
  <2>1. ota.http = 0 /\ ota'.http \in {0, http} /\ http' = http /\ client' = client
    BY <1>1, <1>3 DEF OwnInv, HandleFollows
  <2>2. /\ \A h \in Gens : Live(h) => h = http
        /\ http # 0 => Live(http)
    BY <2>1 DEF OwnInv, Alive, Gens
  <2>3. \A h \in Gens : Live(h)' => h \in {http', ota'.http}
    BY <2>1, <2>2 DEF Live
  <2>4. http' # 0 => client'[http'].phase \notin {"none", "destroyed"}
    BY <2>1, <2>2 DEF Live
  <2>5. ota'.http # 0 => client'[ota'.http].phase \notin {"none", "destroyed"}
    BY <2>1, <2>2 DEF Live
  <2>6. QED
    BY <2>3, <2>4, <2>5 DEF Alive, Live
<1>8. QED
  BY <1>4, <1>5, <1>6, <1>7 DEF OwnInv

\* The steps of a handler leave queue and generation alone.
LEMMA HandlerQuiet ==
  ASSUME OtaTask, ~OtaTake
  PROVE  UNCHANGED <<queue, generation, api>>
BY DEF OtaTask, OtaStart, StartFotaInit, StartCreateClient, StartConfigure, StartPublish, StartLaunch,
   ReadHead, WriteBody, AccountBody, VerifyImage, CommitImage, DetachHttp, DestroyHttp, Settle, session

\* Destroying the client at hand leaves the others.
LEMMA DestroyedIs ==
  ASSUME TypeOK, DestroyLocalClient
  PROVE  \A h \in Gens : Live(h)' <=> Live(h) /\ h # ota.http
<1>1. client \in [Gens -> Clients] /\ client' = [client EXCEPT ![ota.http].phase = "destroyed"]
  BY DEF TypeOK, DestroyLocalClient
<1>2. \A h \in Gens : client[h] \in Clients
  BY <1>1
<1>3. \A h \in Gens : client'[h] = IF h = ota.http THEN [client[h] EXCEPT !.phase = "destroyed"] ELSE client[h]
  BY <1>1
<1>4. QED
  BY <1>2, <1>3 DEF Live, Clients

\* A handle that is set names a client of a session.
LEMMA HandleIsClient == TypeOK => (http # 0 => http \in Gens) /\ (ota.http # 0 => ota.http \in Gens)
  BY RestValues DEF TypeOK, Locals, Gens

\* START creates a client when there is none, and publishes or destroys it.
LEMMA OwnStart == TypeOK /\ SessionInv /\ OwnInv /\ OtaStart => OwnInv'
<1> SUFFICES ASSUME TypeOK, SessionInv, OwnInv, OtaStart PROVE OwnInv'
  OBVIOUS
<1>1. UNCHANGED <<queue, generation, api, session>> /\ ota.pc \in StartSteps /\ ota \in Locals
  BY DEF OtaStart, StartFotaInit, StartCreateClient, StartConfigure, StartPublish, StartLaunch, session,
     StartSteps, TypeOK
<1>2. ota.gen # 0 /\ ota.gen = generation /\ state = "STARTING" /\ ~BeginInProgress
  BY <1>1 DEF OwnInv, Numbered, SessionInv, HandlerHoldsSession
<1>3. ota.gen \in Gens
  BY <1>1, <1>2, RestValues DEF Locals, Gens
<1>4. \A i \in 1 .. Len(queue) : ~StartsAt(i)
  BY <1>1 DEF OwnInv, StartsOnce
<1>5. StartsOnce' /\ \A i \in 1 .. Len(queue') : queue'[i].id = "START" => queue'[i].gen # 0
  BY <1>1, <1>4, StartsKept DEF OwnInv
<1>6. ota'.pc \in StartSteps => ota'.gen = ota.gen
  <2>1. CASE StartFotaInit
    BY <1>1, <2>1 DEF StartFotaInit, FinalizeFailure, Goto, Locals
  <2>2. CASE StartCreateClient
    BY <1>1, <2>2 DEF StartCreateClient, FinalizeFailure, Locals
  <2>3. CASE StartConfigure
    BY <1>1, <2>3 DEF StartConfigure, Goto, Locals
  <2>4. CASE StartPublish
    BY <1>1, <2>4 DEF StartPublish, Goto, Waiting, StartSteps, Locals
  <2>5. CASE StartLaunch
    <3>1. ota' = Waiting \/ \E fail \in BOOLEAN : FinalizeFailure("DOWNLOAD_FAILED", fail)
      BY <2>5 DEF StartLaunch
    <3>2. ota' = Waiting \/ ota' = [ota EXCEPT !.pc = "detach", !.outcome = "DOWNLOAD_FAILED"]
      BY <3>1 DEF FinalizeFailure
    <3>3. ota'.pc \in {"recv", "detach"}
      <4>1. CASE ota' = Waiting
        BY <4>1 DEF Waiting
      <4>2. CASE ota' = [ota EXCEPT !.pc = "detach", !.outcome = "DOWNLOAD_FAILED"]
        BY <1>1, <4>2 DEF Locals
      <4>3. QED
        BY <3>2, <4>1, <4>2
    <3>4. QED
      BY <3>3 DEF StartSteps
  <2>6. QED
    BY <2>1, <2>2, <2>3, <2>4, <2>5 DEF OtaStart
<1>7. Numbered'
  BY <1>1, <1>2, <1>5, <1>6 DEF OwnInv, Numbered
<1>8. state' = "STARTING" /\ ~BeginInProgress'
  BY <1>1, <1>2 DEF BeginInProgress, session
<1>9. ASSUME NEW pc, ota' = [ota EXCEPT !.pc = pc]
      PROVE  ota'.pc = pc /\ ota'.http = ota.http
  BY <1>1, <1>9 DEF Locals
<1>10. ASSUME NEW err, NEW endFota, FinalizeFailure(err, endFota)
       PROVE  ota'.pc = "detach" /\ ota'.http = ota.http
  BY <1>1, <1>10 DEF FinalizeFailure, Locals
<1>11. HandleFollows' /\ Alive'
  <2>1. CASE StartFotaInit
    <3>1. ota'.pc \in {"create", "detach"} /\ ota'.http = ota.http /\ UNCHANGED <<http, client>>
      BY <2>1, <1>9, <1>10 DEF StartFotaInit, Goto
    <3>2. ota.http = 0 /\ http = 0
      BY <2>1 DEF StartFotaInit, OwnInv, HandleFollows
    <3>3. QED
      BY <1>8, <3>1, <3>2, AliveKept DEF OwnInv, HandleFollows
  <2>2. CASE StartCreateClient
    <3>1. ota.http = 0 /\ http = 0 /\ http' = 0
      BY <2>2 DEF StartCreateClient, OwnInv, HandleFollows
    <3>2. CASE /\ client' = [client EXCEPT ![ota.gen] = [NoClient EXCEPT !.phase = "created"]]
               /\ ota' = [ota EXCEPT !.pc = "configure", !.http = ota.gen]
      <4>1. ota'.pc = "configure" /\ ota'.http = ota.gen
        BY <1>1, <3>2 DEF Locals
      <4>2. \A h \in Gens : h # ota.gen => client'[h] = client[h]
        BY <3>2 DEF TypeOK
      <4>3. client'[ota.gen] = [NoClient EXCEPT !.phase = "created"]
        BY <1>3, <3>2 DEF TypeOK
      <4>4. client'[ota'.http].phase \notin {"none", "destroyed"}
        BY <4>1, <4>3 DEF NoClient
      <4>5. \A h \in Gens : h # ota.gen => ~Live(h)'
        <5>1. \A h \in Gens : ~Live(h)
          BY <1>2, <3>1, RestValues DEF OwnInv, Alive, Gens
        <5>2. QED
          BY <4>2, <5>1 DEF Live
      <4>6. HandleFollows'
        BY <1>2, <1>8, <3>1, <4>1 DEF HandleFollows
      <4>7. Alive'
        <5>1. \A h \in Gens : Live(h)' => h \in {http', ota'.http}
          BY <4>1, <4>5
        <5>2. QED
          BY <3>1, <4>4, <5>1 DEF Alive, Live
      <4>8. QED
        BY <4>6, <4>7
    <3>3. CASE FinalizeFailure("INTERNAL", TRUE) /\ UNCHANGED client
      BY <1>8, <1>10, <3>1, <3>3, AliveKept DEF OwnInv, HandleFollows
    <3>4. QED
      BY <2>2, <3>2, <3>3 DEF StartCreateClient
  <2>3. CASE StartConfigure
    <3>1. ota.http # 0 /\ http = 0 /\ http' = 0
      BY <2>3 DEF StartConfigure, OwnInv, HandleFollows
    <3>2. CASE Goto("publish") /\ UNCHANGED client
      <4>1. ota'.pc = "publish" /\ ota'.http = ota.http
        BY <1>9, <3>2 DEF Goto
      <4>2. QED
        BY <1>8, <3>1, <3>2, <4>1, AliveKept DEF OwnInv, HandleFollows
    <3>3. CASE DestroyLocalClient /\ ota' = [ota EXCEPT !.pc = "detach", !.http = 0, !.outcome = "INTERNAL"]
      <4>1. ota'.pc = "detach" /\ ota'.http = 0
        BY <1>1, <3>3 DEF Locals
      <4>2. \A h \in Gens : ~Live(h)'
        BY <3>1, <3>3, DestroyedIs, RestValues DEF OwnInv, Alive, Gens
      <4>3. QED
        BY <1>8, <3>1, <4>1, <4>2 DEF HandleFollows, Alive
    <3>4. QED
      BY <2>3, <3>2, <3>3 DEF StartConfigure
  <2>4. CASE StartPublish
    <3>1. ota.http # 0 /\ http = 0
      BY <2>4 DEF StartPublish, OwnInv, HandleFollows
    <3>2. http' = ota.http /\ Goto("launch") /\ UNCHANGED client
      BY <1>2, <2>4 DEF StartPublish
    <3>3. ota'.pc = "launch" /\ ota'.http = ota.http
      BY <1>9, <3>2 DEF Goto
    <3>4. HandleFollows'
      BY <1>8, <3>1, <3>2, <3>3 DEF HandleFollows
    <3>5. Alive'
      <4>1. http' = ota.http /\ ota'.http = ota.http /\ client' = client
        BY <3>2, <3>3
      <4>2. Live(ota.http) /\ \A h \in Gens : Live(h) => h = ota.http
        BY <3>1 DEF OwnInv, Alive, Gens
      <4>3. \A h \in Gens : Live(h)' => h \in {http', ota'.http}
        BY <4>1, <4>2 DEF Live
      <4>4. client'[http'].phase \notin {"none", "destroyed"} /\ client'[ota'.http].phase \notin {"none", "destroyed"}
        BY <4>1, <4>2 DEF Live
      <4>5. QED
        BY <4>3, <4>4 DEF Alive, Live
    <3>6. QED
      BY <3>4, <3>5
  <2>5. CASE StartLaunch
    <3>1. ota.http # 0 /\ ota.http = http /\ UNCHANGED http
      BY <2>5 DEF StartLaunch, OwnInv, HandleFollows
    <3>2. CASE client' = [client EXCEPT ![ota.http].phase = "head"] /\ ota' = Waiting
      <4>1. ota.http \in Gens
        BY <3>1, HandleIsClient
      <4>2. \A h \in Gens : h # ota.http => client'[h] = client[h]
        BY <3>2 DEF TypeOK
      <4>3. client'[ota.http].phase = "head"
        BY <3>2, <4>1 DEF TypeOK, Clients
      <4>4. ota'.http = 0 /\ ota'.pc = "recv"
        BY <3>2 DEF Waiting
      <4>5. HandleFollows'
        BY <4>4 DEF HandleFollows
      <4>6. Alive'
        BY <3>1, <4>2, <4>3, <4>4 DEF OwnInv, Alive, Live
      <4>7. QED
        BY <4>5, <4>6
    <3>3. CASE FinalizeFailure("DOWNLOAD_FAILED", TRUE) /\ UNCHANGED client
      BY <1>8, <1>10, <3>1, <3>3, AliveKept DEF OwnInv, HandleFollows
    <3>4. QED
      BY <2>5, <3>2, <3>3 DEF StartLaunch
  <2>6. QED
    BY <2>1, <2>2, <2>3, <2>4, <2>5 DEF OtaStart
<1>12. QED
  BY <1>5, <1>7, <1>11 DEF OwnInv

\* The other handlers only let go of clients.
LEMMA OwnHandler == TypeOK /\ SessionInv /\ OwnInv /\ OtaTask /\ ~OtaTake /\ ~OtaStart => OwnInv'
<1> SUFFICES ASSUME TypeOK, SessionInv, OwnInv, OtaTask, ~OtaTake, ~OtaStart PROVE OwnInv'
  OBVIOUS
<1>1. UNCHANGED <<queue, generation, api>> /\ ota \in Locals
  BY HandlerQuiet DEF TypeOK
<1>2. ota'.pc \notin StartSteps /\ (http = 0 => http' = 0)
  <2> USE <1>1 DEF StartSteps, Locals, Waiting, Goto, FinalizeFailure
  <2>1. CASE ReadHead
    <3>1. http' = http /\ (ota' = Waiting \/ ota' = [ota EXCEPT !.pc = "detach", !.outcome = "HTTP_STATUS_ERROR"])
      BY <2>1 DEF ReadHead
    <3>2. CASE ota' = Waiting
      BY <3>1, <3>2
    <3>3. CASE ota' = [ota EXCEPT !.pc = "detach", !.outcome = "HTTP_STATUS_ERROR"]
      BY <3>1, <3>3
    <3>4. QED
      BY <3>1, <3>2, <3>3
  <2>2. CASE WriteBody
    BY <2>2 DEF WriteBody
  <2>3. CASE AccountBody
    BY <2>3 DEF AccountBody
  <2>4. CASE VerifyImage
    BY <2>4 DEF VerifyImage
  <2>5. CASE CommitImage
    BY <2>5 DEF CommitImage
  <2>6. CASE DetachHttp
    BY <2>6 DEF DetachHttp
  <2>7. CASE DestroyHttp
    BY <2>7 DEF DestroyHttp
  <2>8. CASE Settle
    BY <2>8 DEF Settle
  <2>9. QED
    BY <2>1, <2>2, <2>3, <2>4, <2>5, <2>6, <2>7, <2>8 DEF OtaTask
<1>3. StartsOnce' /\ Numbered'
  <2>1. (\E i \in 1 .. Len(queue) : StartsAt(i)) => http' = 0 /\ ota'.pc \notin StartSteps
    BY <1>2 DEF OwnInv, StartsOnce
  <2>2. QED
    BY <1>1, <1>2, <2>1, StartsKept DEF OwnInv, Numbered
<1>4. ASSUME NEW pc, ota' = [ota EXCEPT !.pc = pc]
      PROVE  ota'.pc = pc /\ ota'.http = ota.http
  BY <1>1, <1>4 DEF Locals
<1>5. ASSUME NEW err, NEW endFota, FinalizeFailure(err, endFota)
      PROVE  ota'.pc = "detach" /\ ota'.http = ota.http
  BY <1>1, <1>5 DEF FinalizeFailure, Locals
<1>6. CASE ReadHead
  <2>1. UNCHANGED <<http, client>> /\ ota.pc = "head" /\ ota.http \in {0, http}
    BY <1>6 DEF ReadHead, OwnInv, HandleFollows
  <2>2. state' \in {"IDLE", "ERROR"} \/ BeginInProgress' => state \in {"IDLE", "ERROR"} \/ BeginInProgress
    BY <1>1, <1>6 DEF ReadHead, BeginInProgress
  <2>3. CASE ota' = Waiting
    <3>1. ota'.pc = "recv" /\ ota'.http = 0
      BY <2>3 DEF Waiting
    <3>2. QED
      BY <1>3, <2>1, <3>1 DEF OwnInv, HandleFollows, Alive, Live
  <2>4. CASE FinalizeFailure("HTTP_STATUS_ERROR", TRUE)
    BY <1>3, <1>5, <2>1, <2>2, <2>4, AliveKept DEF OwnInv, HandleFollows
  <2>5. QED
    BY <1>6, <2>3, <2>4 DEF ReadHead
<1>7. CASE WriteBody \/ AccountBody \/ VerifyImage \/ CommitImage \/ Settle
  <2>1. UNCHANGED <<http, client>> /\ ota.http = 0
    BY <1>7 DEF WriteBody, AccountBody, VerifyImage, CommitImage, Settle, OwnInv, HandleFollows
  <2>2. ota'.pc \in {"recv", "account", "detach", "finish"} /\ ota'.http = 0
    <3>1. CASE ota' = Waiting
      BY <3>1 DEF Waiting
    <3>2. CASE WriteBody
      BY <1>4, <1>5, <2>1, <3>2 DEF WriteBody, Goto
    <3>3. CASE VerifyImage
      BY <1>4, <1>5, <2>1, <3>3 DEF VerifyImage, Goto
    <3>4. CASE CommitImage
      BY <1>1, <2>1, <3>4 DEF CommitImage, Locals
    <3>5. QED
      BY <1>7, <3>1, <3>2, <3>3, <3>4 DEF AccountBody, Settle
  <2>3. HandleFollows'
    BY <2>2 DEF HandleFollows
  <2>4. Alive'
    BY <2>1, <2>2, AliveKept DEF OwnInv
  <2>5. QED
    BY <1>3, <2>3, <2>4 DEF OwnInv
<1>8. CASE DetachHttp
  <2>1. /\ ota' = [ota EXCEPT !.http = http, !.pc = IF http = 0 THEN "settle" ELSE "destroy"]
        /\ http' = 0 /\ UNCHANGED <<client, state>> /\ ota.http \in {0, http}
    BY <1>8 DEF DetachHttp, session, OwnInv, HandleFollows
  <2>2. ota'.http = http /\ ota'.pc = IF http = 0 THEN "settle" ELSE "destroy"
    BY <1>1, <2>1 DEF Locals
  <2>3. state \in {"IDLE", "ERROR"} \/ BeginInProgress => http = 0
    BY DEF SessionInv, SessionOwns, StartNotAhead
  <2>4. HandleFollows'
    BY <1>1, <2>1, <2>2, <2>3 DEF HandleFollows, BeginInProgress
  <2>5. Alive'
    BY <2>1, <2>2 DEF OwnInv, Alive, Live
  <2>6. QED
    BY <1>3, <2>4, <2>5 DEF OwnInv
<1>9. CASE DestroyHttp
  <2>1. http = 0 /\ http' = 0 /\ DestroyLocalClient /\ ota' = [ota EXCEPT !.pc = "settle", !.http = 0]
    BY <1>9 DEF DestroyHttp, OwnInv, HandleFollows
  <2>2. ota'.pc = "settle" /\ ota'.http = 0
    BY <1>1, <2>1 DEF Locals
  <2>3. \A h \in Gens : ~Live(h)'
    BY <2>1, DestroyedIs, RestValues DEF OwnInv, Alive, Gens
  <2>4. HandleFollows' /\ Alive'
    BY <2>1, <2>2, <2>3 DEF HandleFollows, Alive
  <2>5. QED
    BY <1>3, <2>4 DEF OwnInv
<1>10. QED
  BY <1>6, <1>7, <1>8, <1>9 DEF OtaTask

-----------------------------------------------------------------------------
(* Ownership: the HTTP engine *)

\* The engine and its callback neither make nor destroy a client.
LEMMA OwnEngine == TypeOK /\ SessionInv /\ OwnInv /\ HttpEngine => OwnInv'
<1> SUFFICES ASSUME TypeOK, SessionInv, OwnInv, HttpEngine PROVE OwnInv'
  OBVIOUS
<1>1. UNCHANGED <<session, http, ota, api>>
  BY DEF HttpEngine, Deliver, DeliverHead, DeliverBody, DeliverDone, DeliverError, Engine, Resume, Callback,
     CallbackReadsGeneration, CallbackSends
<1>2. UNCHANGED <<generation, state>>
  BY <1>1 DEF session
<1>3. \A h \in Gens : Live(h)' <=> Live(h)
  <2>1. CASE UNCHANGED client
    BY <2>1 DEF Live
  <2>2. ASSUME NEW g \in Gens, DeliverHead(g) \/ DeliverBody(g) \/ DeliverDone(g) \/ DeliverError(g) \/ Resume(g)
        PROVE  \A h \in Gens : Live(h)' <=> Live(h)
    <3>1. client \in [Gens -> Clients] /\ client[g].phase \in {"head", "body"}
      BY <2>2 DEF TypeOK, DeliverHead, DeliverBody, DeliverDone, DeliverError, Resume
    <3>2. \A h \in Gens : h # g => client'[h] = client[h]
      BY <2>2, <3>1 DEF DeliverHead, DeliverBody, DeliverDone, DeliverError, Resume
    <3>3. client'[g].phase \in {"head", "body", "ended"}
      <4>1. client[g] \in Clients
        BY <3>1
      <4>2. CASE DeliverHead(g)
        BY <3>1, <4>1, <4>2 DEF DeliverHead, Clients
      <4>3. CASE DeliverBody(g)
        BY <3>1, <4>1, <4>3 DEF DeliverBody, Clients
      <4>4. CASE DeliverDone(g)
        BY <3>1, <4>1, <4>4 DEF DeliverDone, Clients
      <4>5. CASE DeliverError(g)
        BY <3>1, <4>1, <4>5 DEF DeliverError, Clients
      <4>6. CASE Resume(g)
        <5>1. client'[g] = [client[g] EXCEPT !.phase = "head", !.retries = client[g].retries + 1]
          BY <3>1, <4>6 DEF Resume
        <5>2. QED
          BY <4>1, <5>1 DEF Clients
      <4>7. QED
        BY <2>2, <4>2, <4>3, <4>4, <4>5, <4>6
    <3>4. QED
      BY <3>1, <3>2, <3>3 DEF Live
  <2>3. QED
    BY <2>1, <2>2 DEF HttpEngine, Deliver, Callback, CallbackReadsGeneration, CallbackSends
<1>4. HandleFollows'
  BY <1>1, <1>2 DEF OwnInv, HandleFollows, BeginInProgress
<1>5. Alive'
  <2>1. http # 0 => client'[http].phase \notin {"none", "destroyed"}
    BY <1>3, HandleIsClient DEF OwnInv, Alive, Live
  <2>2. ota.http # 0 => client'[ota.http].phase \notin {"none", "destroyed"}
    BY <1>3, HandleIsClient DEF OwnInv, Alive, Live
  <2>3. \A h \in Gens : Live(h)' => h \in {http, ota.http}
    BY <1>3 DEF OwnInv, Alive
  <2>4. QED
    BY <1>1, <2>1, <2>2, <2>3 DEF Alive, Live
<1>6. StartsOnce' /\ \A i \in 1 .. Len(queue') : queue'[i].id = "START" => queue'[i].gen # 0
  <2>1. (\E i \in 1 .. Len(queue) : StartsAt(i)) => http' = 0 /\ ota'.pc \notin StartSteps
    BY <1>1 DEF OwnInv, StartsOnce
  <2>2. CASE UNCHANGED queue
    BY <1>2, <2>1, <2>2, StartsKept DEF OwnInv
  <2>3. CASE CallbackSends /\ ~UNCHANGED queue
    <3> DEFINE e == [id |-> cb.id, gen |-> cb.gen, src |-> cb.src, body |-> cb.body, err |-> cb.err]
    <3>1. queue' = Append(queue, e) /\ e.id # "START"
      BY <2>3 DEF CallbackSends, SessionInv, StartNotAhead
    <3> HIDE DEF e
    <3>2. queue \in Seq(Events) /\ Len(queue) \in Nat
      BY DEF TypeOK
    <3>3. /\ Len(queue') = Len(queue) + 1 /\ queue'[Len(queue) + 1] = e
          /\ \A i \in 1 .. Len(queue) : queue'[i] = queue[i]
      BY <3>1, <3>2
    <3>4. \A i \in 1 .. Len(queue') : queue'[i].id = "START" => i \in 1 .. Len(queue) /\ queue'[i] = queue[i]
      BY <3>1, <3>2, <3>3
    <3>5. \A i \in 1 .. Len(queue') : StartsAt(i)' => i \in 1 .. Len(queue) /\ StartsAt(i)
      BY <1>2, <3>4 DEF StartsAt
    <3>6. StartsOnce'
      BY <1>1, <3>5 DEF OwnInv, StartsOnce
    <3>7. QED
      BY <3>4, <3>6 DEF OwnInv, Numbered
  <2>4. QED
    BY <2>2, <2>3 DEF HttpEngine, Deliver, DeliverHead, DeliverBody, DeliverDone, DeliverError, Engine, Resume,
       Callback, CallbackReadsGeneration
<1>7. Numbered'
  <2>1. UNCHANGED <<api, generation, ota>>
    BY <1>1, <1>2
  <2>2. QED
    BY <1>6, <2>1 DEF OwnInv, Numbered
<1>8. QED
  BY <1>4, <1>5, <1>6, <1>7 DEF OwnInv

-----------------------------------------------------------------------------
(* Ownership: the theorem *)

\* Every step preserves the invariant.
LEMMA OwnNext == TypeOK /\ SessionInv /\ OwnInv /\ [Next]_vars => OwnInv'
<1> SUFFICES ASSUME TypeOK, SessionInv, OwnInv, [Next]_vars PROVE OwnInv'
  OBVIOUS
<1>1. CASE Sketch
  BY <1>1, OwnSketch
<1>2. CASE OtaTask
  BY <1>2, OwnTake, OwnStart, OwnHandler
<1>3. CASE HttpEngine
  BY <1>3, OwnEngine
<1>4. CASE UNCHANGED vars
  <2>1. UNCHANGED <<queue, generation, api, http, ota, client, state>>
    BY <1>4 DEF vars, session
  <2>2. StartsOnce' /\ Numbered'
    BY <2>1 DEF OwnInv, StartsOnce, StartsAt, Numbered
  <2>3. HandleFollows'
    BY <2>1 DEF OwnInv, HandleFollows, BeginInProgress
  <2>4. Alive'
    BY <2>1, AliveKept DEF OwnInv
  <2>5. QED
    BY <2>2, <2>3, <2>4 DEF OwnInv
<1>5. QED
  BY <1>1, <1>2, <1>3, <1>4 DEF Next

\* The owners are as HttpOwnership says.
LEMMA OwnImplies == TypeOK /\ SessionInv /\ OwnInv => HttpOwnership
<1> SUFFICES ASSUME TypeOK, SessionInv, OwnInv PROVE HttpOwnership
  OBVIOUS
<1>1. ota.pc \in TaskSteps
  BY DEF TypeOK, Locals
<1>2. http # 0 /\ ota.http # 0 => http = ota.http
  BY <1>1 DEF OwnInv, HandleFollows, TaskSteps, StartSteps
<1>3. state \in {"IDLE", "ERROR"} => http = 0 /\ ota.http = 0
  BY DEF OwnInv, HandleFollows, SessionInv, SessionOwns
<1>4. 0 \notin Gens
  BY DEF Gens
<1>5. state \in {"IDLE", "ERROR"} => http = 0 /\ \A h \in Gens : ~Live(h)
  BY <1>3, <1>4 DEF OwnInv, Alive
<1>6. QED
  BY <1>2, <1>5 DEF OwnInv, Alive, HttpOwnership

\* Whatever the threads do, no HTTP client is leaked, used after it was destroyed or
\* destroyed twice, and a session that begin() may replace has none: its callbacks
\* are those of destroyed clients at most (arduino_ota_io.c, arduinoOtaCloseHttp and
\* the failure paths of arduinoOtaHandleStart).
THEOREM ClientsOwned == Spec => []HttpOwnership
<1>1. Init => TypeOK /\ SessionInv /\ OwnInv
  BY TypeInit, SessionInit, OwnInit
<1>2. TypeOK /\ SessionInv /\ OwnInv /\ [Next]_vars => (TypeOK /\ SessionInv /\ OwnInv)'
  BY TypeNext, SessionNext, OwnNext
<1>3. TypeOK /\ SessionInv /\ OwnInv => HttpOwnership
  BY OwnImplies
<1>4. QED
  BY <1>1, <1>2, <1>3, PTL DEF Spec

-----------------------------------------------------------------------------
(* The line of events *)

\* The running callback as the event it will post, if the generation stays.
Running == [id |-> cb.id, gen |-> IF cb.pc = "entered" THEN generation ELSE cb.gen,
            src |-> cb.src, body |-> cb.body, err |-> cb.err]

\* The events of the queue and, behind them, the one of the running callback.
Line   == IF cb.pc = "none" THEN queue ELSE Append(queue, Running)
Places == 1 .. Len(Line)

\* An event of the client of the current session, or of an older client.
Own(i) == Line[i].id # "START" /\ Line[i].src = generation
Old(i) == Line[i].id # "START" /\ Line[i].src # generation

\* An event names the client that raised it, whose session is not newer than its
\* generation; a body comes with BODY_DATA, and the client counted it.
EventShaped(e) ==
  /\ IF e.id = "START" THEN e.src = 0
     ELSE e.src # 0 /\ e.src <= e.gen /\ e.gen <= generation /\ client[e.src].phase # "none"
  /\ e.body # NoBody <=> e.id = "BODY_DATA"
  /\ e.id = "BODY_DATA" => e.body[1] = e.src
  /\ e.id = "BODY_DONE" => client[e.src].sent = Chunks /\ client[e.src].phase \in {"ended", "destroyed"}
  /\ e.id = "HTTP_ERROR" => e.err \in {"INTERNAL", "DOWNLOAD_FAILED"}
LineShaped ==
  /\ \A i \in Places : EventShaped(Line[i])
  /\ cb.pc # "none" => cb.id # "START" /\ cb.src # 0
  /\ cb.pc = "none" => cb.body = NoBody

\* Events of older clients come first, before the session has seen a header, and
\* only the last of them may carry the generation of the session.  BODY_DONE is the
\* last event of its client.
LineOrdered ==
  /\ \A i \in Places : Old(i) =>
       /\ httpStatusCode = "none" /\ ota.pc # "head"
       /\ \A j \in Places : Own(j) => i < j
       /\ Line[i].gen = generation => \A j \in Places : Old(j) => j <= i
  /\ \A i \in Places : Own(i) /\ Line[i].id = "BODY_DONE" => i = Len(Line)
  /\ state \in {"VERIFYING", "STAGED", "APPLYING"} =>
       Line = <<>> /\ client[generation].phase \in {"ended", "destroyed"}

\* A client exists once START has made it, and counts from zero.
ClientsCounted ==
  /\ \A h \in Gens : client[h].phase = "none" => client[h].sent = 0
  /\ \A h \in Gens : h > generation => client[h].phase = "none"
  /\ http \in {0, generation} /\ ota.http \in {0, generation}
  /\ BeginInProgress \/ (\E i \in 1 .. Len(queue) : StartsAt(i)) \/ ota.pc \in {"fota_init", "create"} =>
       client[generation].phase = "none" /\ (ota.pc # "create" => fota.owner # generation)
  /\ ota.pc \in {"configure", "publish", "launch"} => client[generation].phase = "created"

\* What a handler has found stays so until it is done.
HandlerKeeps ==
  /\ ota.pc # "recv" => ota.gen # 0
  /\ ota.pc \in {"head", "write", "account", "verify", "finish"} => ota.gen = generation
  /\ ota.pc = "head" => Receiving /\ ota.http # 0
  /\ ota.pc \in {"write", "account"} => state = "DOWNLOADING" /\ HttpStatusOk
  /\ ota.pc \in {"verify", "finish"} => state = "VERIFYING" /\ http # 0
  /\ Closing => ota.outcome \in {"NONE"} \cup Lifecycle!SessionErrors
  /\ Closing /\ ota.gen = generation =>
       /\ state \notin {"STAGED", "APPLYING"}
       /\ state = "VERIFYING" => ota.outcome \in {"NONE", "VERIFY_FAILED"}
  /\ Closing /\ ota.gen # generation => httpStatusCode = "none"
  /\ Closing /\ ota.outcome = "NONE" => ota.gen = generation /\ fota.committed /\ fota.owner = generation

\* The sketch's side of the session.
SketchKeeps ==
  /\ state = "VERIFYING" => ota.pc \in {"verify", "finish"} \/ (Closing /\ ota.gen = generation)
  /\ BeginInProgress => state \in {"STARTING", "ERROR"}
  /\ api = "rebooting" => state = "APPLYING"
  /\ state # "IDLE" \/ BeginInProgress => generation # 0
  /\ state = "STARTING" => ~HttpStatusOk
  /\ state \in {"STAGED", "APPLYING"} => fota.committed /\ fota.owner = generation

\* The writer is open for the session that has a client, and a session that has
\* seen a header has one.
WriterFollows ==
  /\ fota.owner <= generation
  /\ http # 0 /\ ota.pc # "detach" => fota.open /\ fota.owner = generation
  /\ ota.pc \in {"create", "configure", "publish"} => fota.open /\ fota.owner = generation
  /\ httpStatusCode # "none" /\ Receiving /\ ~Closing => http # 0

\* A body has one holder, and its client has counted it.
BodiesApart ==
  /\ \A i, j \in Places : Line[i].body # NoBody /\ Line[i].body = Line[j].body => i = j
  /\ ota.pc = "write" => ota.body # NoBody /\ ota.body[1] = generation
                         /\ \A i \in Places : Line[i].body # ota.body
  /\ \A b \in heap : b[2] <= client[b[1]].sent

\* BodyOwnership, by places of the line.
CopiesHeld ==
  /\ \A i \in Places : Line[i].body # NoBody => Line[i].body \in heap
  /\ ota.pc = "write" => ota.body \in heap
  /\ \A b \in heap : \/ \E i \in Places : Line[i].body = b
                     \/ ota.pc = "write" /\ ota.body = b
                     \/ b[1] \in lost

\* The bodies of a session that lost no event are written in order; what the client
\* has sent and the writer has not got is in the line, in order, unless an error
\* stands in its place.
Intact  == fota.owner = generation /\ generation # 0 /\ generation \notin lost
Failing == Closing /\ ota.gen = generation /\ ota.outcome # "NONE"
Written == Len(fota.written) + (IF ota.pc = "write" THEN 1 ELSE 0)
After(q, n) == Own(q) /\ (Line[q].id = "BODY_DONE" \/ (Line[q].id = "BODY_DATA" /\ Line[q].body[2] > n))
Covered(n) ==
  \E p \in Places :
    /\ Own(p) /\ (Line[p].body = <<generation, n>> \/ Line[p].id = "HTTP_ERROR")
    /\ \A q \in Places : After(q, n) => p <= q
Heads(p) == Own(p) /\ Line[p].id \in {"HEAD_DONE", "HTTP_ERROR"}
InOrder ==
  Intact =>
    /\ \A n \in 1 .. Len(fota.written) : fota.written[n] = <<generation, n>>
    /\ ota.pc = "write" => ota.body = <<generation, Written>>
    /\ Written <= client[generation].sent
    /\ \A i \in Places : Own(i) /\ Line[i].id = "BODY_DATA" => Line[i].body[2] > Written
NoneMissing ==
  Intact /\ Receiving /\ ~Failing =>
    \A n \in Written + 1 .. client[generation].sent : Covered(n)
HeaderFirst ==
  Intact /\ Receiving /\ ~Failing /\ ~HttpStatusOk /\ ota.pc # "head" =>
    /\ \A q \in Places : Own(q) /\ Line[q].id \in {"BODY_DATA", "BODY_DONE"} =>
         \E p \in Places : Heads(p) /\ p < q
    /\ client[generation].phase = "body" => \E p \in Places : Heads(p)
AllWritten == Intact /\ state \in {"VERIFYING", "STAGED", "APPLYING"} => Written = Chunks

\* What is reported as downloaded is what was written.
Downloaded ==
  state \in {"STARTING", "DOWNLOADING", "VERIFYING", "STAGED"} =>
    downloadedBytes + (IF ota.pc = "account" THEN 1 ELSE 0)
      = IF fota.owner = generation THEN Len(fota.written) ELSE 0

ImageInv ==
  /\ LineShaped /\ LineOrdered /\ ClientsCounted /\ HandlerKeeps /\ SketchKeeps
  /\ WriterFollows /\ BodiesApart /\ CopiesHeld /\ NoForeignBytes
  /\ InOrder /\ NoneMissing /\ HeaderFirst /\ AllWritten /\ Downloaded

-----------------------------------------------------------------------------
(* The line and the steps that move it *)

\* The line is the queue with the running callback's event behind it.
LineForm ==
  /\ Line \in Seq(Events) /\ Len(queue) \in Nat /\ Len(Line) \in Nat
  /\ Len(Line) = Len(queue) + (IF cb.pc = "none" THEN 0 ELSE 1)
  /\ Places = 1 .. Len(Line)
  /\ \A i \in 1 .. Len(queue) : Line[i] = queue[i] /\ i \in Places
  /\ cb.pc # "none" => Line[Len(queue) + 1] = Running /\ Len(queue) + 1 \in Places
  /\ \A i \in Places : Line[i] \in Events

\* The line has that form.
LEMMA LineIs == TypeOK => LineForm
<1> SUFFICES ASSUME TypeOK PROVE LineForm
  OBVIOUS
<1>1. queue \in Seq(Events) /\ Len(queue) \in Nat
  BY DEF TypeOK
<1>2. cb \in Callbacks /\ generation \in 0 .. MaxSessions
  BY DEF TypeOK
<1>3. Running \in Events
  BY <1>2 DEF Callbacks, Running, Events
<1>4. CASE cb.pc = "none"
  <2>1. Line = queue
    BY <1>4 DEF Line
  <2>2. QED
    BY <1>1, <1>4, <2>1 DEF LineForm, Places
<1>5. CASE cb.pc # "none"
  <2>1. Line = Append(queue, Running)
    BY <1>5 DEF Line
  <2> HIDE DEF Line, Running
  <2>2. /\ Line \in Seq(Events) /\ Len(Line) = Len(queue) + 1 /\ Line[Len(queue) + 1] = Running
        /\ \A i \in 1 .. Len(queue) : Line[i] = queue[i]
    BY <1>1, <1>3, <2>1
  <2>3. QED
    BY <1>1, <1>5, <2>2 DEF LineForm, Places
<1>6. QED
  BY <1>4, <1>5

\* After a step it does, too.
LEMMA LineIsNext == TypeOK' => LineForm'
  BY LineIs, PTL

\* The line keeps its events when neither the queue nor the callback moves.
LEMMA LineSame ==
  ASSUME UNCHANGED <<queue, cb, generation>>
  PROVE  Line' = Line
BY DEF Line, Running

\* An event is taken from the front.
LEMMA LineTaken ==
  ASSUME TypeOK, TypeOK', queue # <<>>, queue' = Tail(queue), UNCHANGED <<cb, generation>>
  PROVE  /\ 1 \in Places /\ Line[1] = Head(queue) /\ Head(queue) \in Events
         /\ Len(Line) \in Nat /\ Len(Line') = Len(Line) - 1
         /\ \A i \in Places' : i \in Nat /\ i >= 1 /\ i + 1 \in Places /\ Line'[i] = Line[i + 1]
         /\ \A i \in Places : i \in Nat /\ (i = 1 \/ i - 1 \in Places')
<1>1. LineForm /\ LineForm'
  BY LineIs, LineIsNext
<1>2. queue \in Seq(Events) /\ Len(queue) # 0
  BY DEF TypeOK
<1>3. Head(queue) = queue[1] /\ Len(queue') = Len(queue) - 1 /\ \A i \in 1 .. Len(queue') : queue'[i] = queue[i + 1]
  BY <1>2
<1>4. Running' = Running
  BY DEF Running
<1>5. Len(queue) \in Nat /\ Len(Line) = Len(queue) + (IF cb.pc = "none" THEN 0 ELSE 1)
      /\ Len(Line') = Len(queue') + (IF cb.pc = "none" THEN 0 ELSE 1) /\ Places = 1 .. Len(Line) /\ Places' = 1 .. Len(Line')
  BY <1>1 DEF LineForm
<1>6. 1 \in Places /\ Line[1] = Head(queue) /\ Head(queue) \in Events
  BY <1>1, <1>2, <1>3, <1>5 DEF LineForm
<1>7. ASSUME NEW i \in Places' PROVE i \in Nat /\ i >= 1 /\ i + 1 \in Places /\ Line'[i] = Line[i + 1]
  <2>1. i \in Nat /\ i >= 1 /\ i <= Len(Line')
    BY <1>5
  <2>2. CASE i <= Len(queue')
    BY <1>1, <1>3, <1>5, <2>1, <2>2 DEF LineForm
  <2>3. CASE i > Len(queue')
    <3>1. cb.pc # "none"
      BY <1>5, <2>1, <2>3
    <3>2. Len(queue') \in Nat /\ i <= Len(queue') + 1
      BY <1>1, <1>5, <2>1, <3>1 DEF LineForm
    <3>3. i = Len(queue') + 1
      BY <2>1, <2>3, <3>2
    <3>4. i + 1 = Len(queue) + 1
      BY <1>3, <1>5, <3>3
    <3>5. QED
      BY <1>1, <1>4, <1>5, <2>1, <3>1, <3>3, <3>4 DEF LineForm
  <2>4. QED
    BY <1>3, <1>5, <2>1, <2>2, <2>3
<1>8. Len(Line) \in Nat /\ Len(Line') = Len(Line) - 1
  BY <1>3, <1>5
<1>9. ASSUME NEW i \in Places PROVE i \in Nat /\ (i = 1 \/ i - 1 \in Places')
  BY <1>5, <1>8
<1>10. QED
  BY <1>6, <1>7, <1>8, <1>9

\* The callback of a client enters with an event.
LEMMA LineEntered ==
  ASSUME TypeOK, TypeOK', cb.pc = "none", cb'.pc = "entered", UNCHANGED <<queue, generation>>
  PROVE  /\ Len(Line) \in Nat /\ Places' = Places \cup {Len(Line) + 1}
         /\ \A i \in Places : i \in Nat /\ i >= 1 /\ i <= Len(Line) /\ Line'[i] = Line[i]
         /\ Line'[Len(Line) + 1] = [id |-> cb'.id, gen |-> generation, src |-> cb'.src, body |-> cb'.body, err |-> cb'.err]
<1>1. LineForm /\ LineForm'
  BY LineIs, LineIsNext
<1>2. Len(queue) \in Nat /\ Len(Line) = Len(queue) /\ Len(Line') = Len(queue) + 1
      /\ Places = 1 .. Len(queue) /\ Places' = 1 .. (Len(queue) + 1)
  BY <1>1 DEF LineForm
<1>3. Running' = [id |-> cb'.id, gen |-> generation, src |-> cb'.src, body |-> cb'.body, err |-> cb'.err]
  BY DEF Running
<1>4. QED
  BY <1>1, <1>2, <1>3 DEF LineForm

\* The full queue refuses the event of the callback.
LEMMA LineRefused ==
  ASSUME TypeOK, TypeOK', cb.pc # "none", cb'.pc = "none", UNCHANGED <<queue, generation>>
  PROVE  /\ Len(Line) \in Nat /\ Len(Line) \in Places /\ Line[Len(Line)] = Running
         /\ Places = Places' \cup {Len(Line)}
         /\ \A i \in Places' : i \in Nat /\ i < Len(Line) /\ Line'[i] = Line[i]
<1>1. LineForm /\ LineForm'
  BY LineIs, LineIsNext
<1>2. Len(queue) \in Nat /\ Len(Line) = Len(queue) + 1 /\ Len(Line') = Len(queue)
      /\ Places' = 1 .. Len(queue) /\ Places = 1 .. (Len(queue) + 1)
  BY <1>1 DEF LineForm
<1>3. QED
  BY <1>1, <1>2 DEF LineForm

\* The callback of cb moves on: its event is the same, in the queue or not.
LEMMA LineTagged ==
  ASSUME TypeOK, CallbackReadsGeneration
  PROVE  Line' = Line
<1>1. cb \in Callbacks /\ cb.pc = "entered" /\ cb' = [cb EXCEPT !.pc = "tagged", !.gen = generation]
      /\ queue' = queue
  BY DEF TypeOK, CallbackReadsGeneration
<1>2. cb'.pc = "tagged" /\ cb'.gen = generation /\ cb'.id = cb.id /\ cb'.src = cb.src /\ cb'.body = cb.body /\ cb'.err = cb.err
  BY <1>1 DEF Callbacks
<1>3. Running' = Running
  BY <1>1, <1>2 DEF Running
<1>4. QED
  BY <1>1, <1>2, <1>3 DEF Line

\* The event of the running callback takes its place in the queue.
LEMMA LineSent ==
  ASSUME TypeOK, CallbackSends, QueueHasRoom
  PROVE  Line' = Line
<1>1. cb.pc = "tagged" /\ cb'.pc = "none"
  BY DEF CallbackSends, NoCallback
<1>2. queue' = Append(queue, Running)
  BY <1>1 DEF CallbackSends, Running
<1>3. QED
  BY <1>1, <1>2 DEF Line

\* A new generation is that of the callback that has not read it yet.
LEMMA LineOfNewSession ==
  ASSUME TypeOK, TypeOK', UNCHANGED <<queue, cb>>
  PROVE  /\ Places' = Places /\ Len(Line) \in Nat
         /\ \A i \in Places : /\ i \in Nat /\ i <= Len(Line)
                              /\ Line'[i].id = Line[i].id /\ Line'[i].src = Line[i].src
                              /\ Line'[i].body = Line[i].body /\ Line'[i].err = Line[i].err
                              /\ Line'[i].gen = Line[i].gen \/ (i = Len(Line) /\ Line'[i].gen = generation')
<1>1. LineForm /\ LineForm'
  BY LineIs, LineIsNext
<1>2. Len(queue) \in Nat /\ Len(Line') = Len(Line) /\ Places' = Places /\ Places = 1 .. Len(Line)
  BY <1>1 DEF LineForm
<1>3. ASSUME NEW i \in Places
      PROVE  /\ i \in Nat /\ i <= Len(Line)
             /\ Line'[i].id = Line[i].id /\ Line'[i].src = Line[i].src
             /\ Line'[i].body = Line[i].body /\ Line'[i].err = Line[i].err
             /\ Line'[i].gen = Line[i].gen \/ (i = Len(Line) /\ Line'[i].gen = generation')
  <2>1. CASE i <= Len(queue)
    BY <1>1, <1>2, <2>1 DEF LineForm
  <2>2. CASE i > Len(queue)
    <3>1. cb.pc # "none" /\ i = Len(queue) + 1 /\ i = Len(Line)
      BY <1>1, <1>2, <2>2 DEF LineForm
    <3>2. Line[i] = Running /\ Line'[i] = Running'
      BY <1>1, <3>1 DEF LineForm
    <3>3. i \in Nat /\ i <= Len(Line)
      BY <1>2, <3>1
    <3>4. QED
      BY <3>1, <3>2, <3>3 DEF Running
  <2>3. QED
    BY <1>2, <2>1, <2>2
<1>4. QED
  BY <1>1, <1>2, <1>3 DEF LineForm

\* START goes between the queue and the callback's event.
LEMMA LineStarted ==
  ASSUME TypeOK, TypeOK', NEW e, e.id = "START", queue' = Append(queue, e), UNCHANGED <<cb, generation>>
  PROVE  /\ \E m \in Nat : \A i \in Places' :
              /\ i \in Nat
              /\ i < m => i \in Places /\ Line'[i] = Line[i]
              /\ i = m => Line'[i] = e
              /\ i > m => i - 1 \in Places /\ Line'[i] = Line[i - 1] /\ i = Len(Line') /\ i - 1 = Len(Line)
         /\ Len(Line') = Len(Line) + 1 /\ Len(Line) \in Nat
<1>1. LineForm /\ LineForm'
  BY LineIs, LineIsNext
<1>2. queue \in Seq(Events) /\ Len(queue) \in Nat
  BY DEF TypeOK
<1>3. Len(queue') = Len(queue) + 1 /\ queue'[Len(queue) + 1] = e /\ \A i \in 1 .. Len(queue) : queue'[i] = queue[i]
  BY <1>2
<1>4. Running' = Running
  BY DEF Running
<1>5. /\ Len(Line) \in Nat /\ Len(Line) = Len(queue) + (IF cb.pc = "none" THEN 0 ELSE 1)
      /\ Len(Line') = Len(queue) + 1 + (IF cb.pc = "none" THEN 0 ELSE 1)
      /\ Places = 1 .. Len(Line) /\ Places' = 1 .. Len(Line')
  BY <1>1, <1>3 DEF LineForm
<1> DEFINE m == Len(queue) + 1
<1>6. ASSUME NEW i \in Places'
      PROVE  /\ i \in Nat
             /\ i < m => i \in Places /\ Line'[i] = Line[i]
             /\ i = m => Line'[i] = e
             /\ i > m => i - 1 \in Places /\ Line'[i] = Line[i - 1] /\ i = Len(Line') /\ i - 1 = Len(Line)
  <2>1. i \in Nat /\ i >= 1 /\ i <= Len(Line')
    BY <1>5
  <2>2. CASE i < m
    BY <1>1, <1>2, <1>3, <1>5, <2>1, <2>2 DEF LineForm
  <2>3. CASE i = m
    BY <1>1, <1>2, <1>3, <1>5, <2>1, <2>3 DEF LineForm
  <2>4. CASE i > m
    <3>1. cb.pc # "none" /\ i = m + 1 /\ i = Len(queue') + 1 /\ i - 1 = Len(queue) + 1 /\ i = Len(Line') /\ i - 1 = Len(Line)
      BY <1>2, <1>3, <1>5, <2>1, <2>4
    <3>2. Line'[Len(queue') + 1] = Running' /\ Line[Len(queue) + 1] = Running /\ Len(queue) + 1 \in Places
      BY <1>1, <3>1 DEF LineForm
    <3>3. QED
      BY <1>4, <2>1, <2>4, <3>1, <3>2
  <2>5. QED
    BY <1>2, <2>1, <2>2, <2>3, <2>4
<1>7. m \in Nat
  BY <1>2
<1>8. Len(Line') = Len(Line) + 1
  BY <1>2, <1>5
<1>9. QED
  BY <1>5, <1>6, <1>7, <1>8

-----------------------------------------------------------------------------
(* Steps that leave the line alone *)

\* A client that exists, or has ended, stays so; only START begins one anew.
Onward ==
  \A h \in Gens :
    /\ client[h].phase # "none" => client'[h].phase # "none"
    /\ client[h].phase \in {"ended", "destroyed"} =>
         client'[h].phase \in {"ended", "destroyed"} /\ client'[h].sent = client[h].sent

\* The session that an event names is one of those begun.
LEMMA EventClient ==
  ASSUME TypeOK, NEW e, EventShaped(e), e.id # "START", e \in Events
  PROVE  e.src \in Gens /\ e.src \in Nat /\ e.gen \in Nat
BY RestValues DEF TypeOK, EventShaped, Events, Gens

\* Events keep their shape while the line stays.
LEMMA ShapedKept ==
  ASSUME TypeOK, LineShaped, Line' = Line, generation' = generation, Onward,
         cb'.pc = "none" \/ (cb.pc # "none" /\ cb'.id = cb.id /\ cb'.src = cb.src),
         cb'.pc = "none" => cb'.body = NoBody
  PROVE  LineShaped'
<1>1. Places' = Places
  BY DEF Places
<1>2. ASSUME NEW i \in Places PROVE EventShaped(Line[i])'
  <2>1. EventShaped(Line[i]) /\ Line[i] \in Events
    BY LineIs DEF LineShaped, LineForm
  <2>2. Line[i].id # "START" => Line[i].src \in Gens
    BY <2>1, RestValues DEF TypeOK, EventShaped, Events, Gens
  <2>3. Line[i].id # "START" => client'[Line[i].src].phase # "none"
    BY <2>1, <2>2 DEF EventShaped, Onward
  <2>4. Line[i].id = "BODY_DONE" => client'[Line[i].src].sent = Chunks /\ client'[Line[i].src].phase \in {"ended", "destroyed"}
    BY <2>1, <2>2 DEF EventShaped, Onward
  <2>5. QED
    BY <2>1, <2>3, <2>4 DEF EventShaped
<1>3. QED
  BY <1>1, <1>2 DEF LineShaped

\* So does their order, when no late header is read.
LEMMA OrderedKept ==
  ASSUME LineOrdered, Line' = Line, generation' = generation,
         (\E i \in Places : Old(i)) => httpStatusCode' = "none" /\ ota'.pc # "head",
         state' \in {"VERIFYING", "STAGED", "APPLYING"} =>
           Line = <<>> /\ client'[generation].phase \in {"ended", "destroyed"}
  PROVE  LineOrdered'
<1>1. Places' = Places
  BY DEF Places
<1>2. \A i \in Places : Old(i)' = Old(i) /\ Own(i)' = Own(i)
  BY DEF Old, Own
<1>3. \A i \in Places' : Old(i)' =>
       /\ httpStatusCode' = "none" /\ ota'.pc # "head"
       /\ \A j \in Places' : Own(j)' => i < j
       /\ Line'[i].gen = generation' => \A j \in Places' : Old(j)' => j <= i
  BY <1>1, <1>2 DEF LineOrdered
<1>4. \A i \in Places' : Own(i)' /\ Line'[i].id = "BODY_DONE" => i = Len(Line')
  BY <1>1, <1>2 DEF LineOrdered
<1>5. QED
  BY <1>3, <1>4 DEF LineOrdered

\* No two holders get the same body.
LEMMA ApartKept ==
  ASSUME TypeOK, BodiesApart, Line' = Line, generation' = generation, heap' \subseteq heap,
         ota'.pc = "write" => ota.pc = "write" /\ ota'.body = ota.body,
         \A h \in Gens : client'[h].sent = client[h].sent
  PROVE  BodiesApart'
<1>1. Places' = Places
  BY DEF Places
<1>2. \A b \in heap' : b[2] <= client'[b[1]].sent
  <2> SUFFICES ASSUME NEW b \in heap' PROVE b[2] <= client'[b[1]].sent
    OBVIOUS
  <2>1. b \in heap /\ b[1] \in Gens
    BY DEF TypeOK, Bodies
  <2>2. QED
    BY <2>1 DEF BodiesApart
<1>3. QED
  BY <1>1, <1>2 DEF BodiesApart

\* The holders keep their copies.
LEMMA CopiesKept ==
  ASSUME CopiesHeld, Line' = Line, UNCHANGED heap, lost \subseteq lost',
         ota'.pc = "write" <=> ota.pc = "write",
         ota'.pc = "write" => ota'.body = ota.body
  PROVE  CopiesHeld'
<1>1. Places' = Places
  BY DEF Places
<1>2. QED
  BY <1>1 DEF CopiesHeld

\* What the writer has got and what is on its way.
ImageParts == InOrder /\ NoneMissing /\ HeaderFirst /\ AllWritten

\* The image stays as it is when the writer, the line and the clients do and the
\* session is no further than before.
LEMMA ImageStays ==
  ASSUME TypeOK, ImageParts, Line' = Line, generation' = generation, generation \in Gens \/ generation = 0,
         Intact' => Intact, fota'.written = fota.written, Written' = Written,
         ota'.pc = "write" => ota.pc = "write" /\ ota'.body = ota.body,
         \A h \in Gens : client'[h].sent = client[h].sent /\ (client'[h].phase = "body" => client[h].phase = "body"),
         Receiving' /\ ~Failing' => Receiving /\ ~Failing,
         Receiving' /\ ~Failing' /\ ~HttpStatusOk' /\ ota'.pc # "head" => ~HttpStatusOk /\ ota.pc # "head",
         state' \in {"VERIFYING", "STAGED", "APPLYING"} => state \in {"VERIFYING", "STAGED", "APPLYING"} \/ Written = Chunks
  PROVE  ImageParts'
<1>1. Places' = Places
  BY DEF Places
<1>2. /\ \A i \in Places : Own(i)' = Own(i)
      /\ \A i \in Places : Heads(i)' = Heads(i)
  BY DEF Own, Heads
<1>3. \A n : Covered(n) => Covered(n)'
  BY <1>1 DEF Covered, After, Own
<1>4. Intact' => client'[generation].sent = client[generation].sent
                 /\ (client'[generation].phase = "body" => client[generation].phase = "body")
  BY DEF Intact
<1>5. InOrder'
  BY <1>1, <1>2, <1>4 DEF ImageParts, InOrder
<1>6. NoneMissing'
  BY <1>3, <1>4 DEF ImageParts, NoneMissing
<1>7. HeaderFirst'
  BY <1>1, <1>2, <1>4 DEF ImageParts, HeaderFirst
<1>8. AllWritten'
  BY DEF ImageParts, AllWritten
<1>9. QED
  BY <1>5, <1>6, <1>7, <1>8 DEF ImageParts

-----------------------------------------------------------------------------
(* The sketch *)

\* At the start there is no event, no client and no image.
LEMMA ImageInit == Init => ImageInv
<1> SUFFICES ASSUME Init PROVE ImageInv
  OBVIOUS
<1>1. /\ state = "IDLE" /\ generation = 0 /\ httpStatusCode = "none" /\ downloadedBytes = 0
      /\ http = 0 /\ api = "idle" /\ queue = <<>> /\ heap = {}
      /\ ota.pc = "recv" /\ ota.http = 0
      /\ cb.pc = "none" /\ cb.body = NoBody
      /\ fota.written = <<>> /\ fota.owner = 0
  BY DEF Init, Waiting, NoCallback, NoFota
<1>2. \A h \in Gens : client[h].phase = "none" /\ client[h].sent = 0
  BY DEF Init, NoClient
<1>3. Places = {}
  BY <1>1 DEF Places, Line
<1>4. LineShaped /\ LineOrdered
  BY <1>1, <1>3 DEF LineShaped, LineOrdered
<1>5. ClientsCounted
  BY <1>1, <1>2 DEF ClientsCounted, BeginInProgress
<1>6. HandlerKeeps /\ SketchKeeps
  BY <1>1 DEF HandlerKeeps, SketchKeeps, Closing, BeginInProgress
<1>7. WriterFollows
  BY <1>1 DEF WriterFollows
<1>8. BodiesApart /\ CopiesHeld
  BY <1>1, <1>3 DEF BodiesApart, CopiesHeld
<1>9. NoForeignBytes
  BY <1>1 DEF NoForeignBytes
<1>10. InOrder /\ NoneMissing /\ HeaderFirst /\ AllWritten
  BY <1>1 DEF InOrder, NoneMissing, HeaderFirst, AllWritten, Intact
<1>11. Downloaded
  BY <1>1 DEF Downloaded
<1>12. QED
  BY <1>4, <1>5, <1>6, <1>7, <1>8, <1>9, <1>10, <1>11 DEF ImageInv

\* The same after a reboot.
LEMMA ImageInitNext == Init' => ImageInv'
  BY ImageInit, PTL

\* What the sketch reads and begin() takes from the session, not the image.
LEMMA ImageUntouched ==
  ASSUME ImageInv, UNCHANGED <<state, generation, httpStatusCode, downloadedBytes, http, queue, api, ota, client, cb,
                               heap, fota, lost>>
  PROVE  ImageInv'
<1>1. Line' = Line
  BY LineSame
<1>2. Places' = Places
  BY <1>1 DEF Places
<1>3. \A i \in Places : Own(i)' = Own(i) /\ Old(i)' = Old(i) /\ Heads(i)' = Heads(i)
  BY <1>1 DEF Own, Old, Heads
<1>4. LineShaped'
  BY <1>1, <1>2 DEF ImageInv, LineShaped, EventShaped
<1>5. LineOrdered'
  BY <1>1, <1>2, <1>3 DEF ImageInv, LineOrdered
<1>6. ClientsCounted'
  BY DEF ImageInv, ClientsCounted, BeginInProgress, StartsAt
<1>7. HandlerKeeps'
  BY DEF ImageInv, HandlerKeeps, Receiving, HttpStatusOk, Closing
<1>8. SketchKeeps'
  BY DEF ImageInv, SketchKeeps, Closing, BeginInProgress, HttpStatusOk
<1>9. WriterFollows'
  BY DEF ImageInv, WriterFollows, Receiving, Closing
<1>10. BodiesApart'
  BY <1>1, <1>2 DEF ImageInv, BodiesApart
<1>11. CopiesHeld'
  BY <1>1, <1>2 DEF ImageInv, CopiesHeld
<1>12. NoForeignBytes'
  BY DEF ImageInv, NoForeignBytes
<1>13. Intact' = Intact /\ Written' = Written /\ Receiving' = Receiving /\ Failing' = Failing /\ HttpStatusOk' = HttpStatusOk
  BY DEF Intact, Written, Receiving, Failing, Closing, HttpStatusOk
<1>14. InOrder'
  BY <1>1, <1>2, <1>3, <1>13 DEF ImageInv, InOrder
<1>15. \A n : Covered(n)' <=> Covered(n)
  BY <1>1, <1>2 DEF Covered, After, Own
<1>16. NoneMissing'
  BY <1>13, <1>15 DEF ImageInv, NoneMissing
<1>17. HeaderFirst'
  BY <1>1, <1>2, <1>3, <1>13 DEF ImageInv, HeaderFirst
<1>18. AllWritten'
  BY <1>13 DEF ImageInv, AllWritten
<1>19. Downloaded'
  BY DEF ImageInv, Downloaded
<1>20. QED
  BY <1>4, <1>5, <1>6, <1>7, <1>8, <1>9, <1>10, <1>11, <1>12, <1>14, <1>16, <1>17, <1>18, <1>19 DEF ImageInv

\* A step that leaves clients, line, writer and task alone keeps these parts.
LEMMA LinePartsKept ==
  ASSUME TypeOK, ImageInv, UNCHANGED <<queue, cb, client, ota, fota, heap, lost, generation>>,
         httpStatusCode' \in {httpStatusCode, "none"},
         state' \in {"VERIFYING", "STAGED", "APPLYING"} => state \in {"VERIFYING", "STAGED", "APPLYING"}
  PROVE  LineShaped' /\ LineOrdered' /\ BodiesApart' /\ CopiesHeld' /\ NoForeignBytes'
<1>1. Line' = Line
  BY LineSame
<1>2. Places' = Places
  BY <1>1 DEF Places
<1>3. LineShaped'
  BY <1>1, <1>2 DEF ImageInv, LineShaped, EventShaped
<1>4. LineOrdered'
  <2>1. \A i \in Places : Old(i) => httpStatusCode = "none" /\ ota.pc # "head"
    BY DEF ImageInv, LineOrdered
  <2>2. QED
    BY <1>1, <2>1, OrderedKept DEF ImageInv, LineOrdered
<1>5. BodiesApart' /\ CopiesHeld'
  BY <1>1, <1>2 DEF ImageInv, BodiesApart, CopiesHeld
<1>6. NoForeignBytes'
  BY DEF ImageInv, NoForeignBytes
<1>7. QED
  BY <1>3, <1>4, <1>5, <1>6

\* A session that is idle, failed or about to be given up is discarded, or a staged
\* one is applied.
LEMMA ImageLeft ==
  ASSUME TypeOK, SessionInv, ImageInv,
         UNCHANGED <<queue, cb, client, ota, fota, heap, lost, generation, http>>,
         api' # "sending" /\ (api' = "refused" => api = "refused"),
         \/ /\ state \in {"IDLE", "ERROR"} \/ BeginInProgress
            /\ state' \in {"IDLE", "ERROR"} /\ httpStatusCode' = "none" /\ downloadedBytes' = 0
            /\ state' = "ERROR" => BeginInProgress
            /\ api' \notin {"refused", "rebooting"}
         \/ state = "STAGED" /\ state' = "APPLYING" /\ UNCHANGED httpStatusCode /\ ~BeginInProgress /\ api' # "refused"
  PROVE  ImageInv'
<1>1. Line' = Line
  BY LineSame
<1>2. LineShaped' /\ LineOrdered' /\ BodiesApart' /\ CopiesHeld' /\ NoForeignBytes'
  BY LinePartsKept
<1>3. ota.pc \notin {"head", "write", "account", "verify", "finish"} /\ state # "VERIFYING"
  BY DEF ImageInv, HandlerKeeps, SessionInv, HandlerHoldsSession, SketchKeeps, Receiving
<1>4. state' # "STARTING" /\ state' # "VERIFYING" /\ ~Receiving'
  BY DEF Receiving
<1>5. ClientsCounted'
  BY DEF ImageInv, ClientsCounted, BeginInProgress, StartsAt
<1>6. HandlerKeeps'
  BY <1>3, <1>4 DEF ImageInv, HandlerKeeps, Closing, SketchKeeps
<1>7. SketchKeeps'
  BY <1>3, <1>4 DEF ImageInv, SketchKeeps, Closing, BeginInProgress
<1>8. WriterFollows'
  BY <1>4 DEF ImageInv, WriterFollows
<1>9. Intact' = Intact /\ Written' = Written
  BY DEF Intact, Written
<1>10. ImageParts'
  <2>1. generation \in Gens \/ generation = 0
    BY RestValues DEF TypeOK, Gens
  <2>2. QED
    BY <1>1, <1>4, <1>9, <2>1, ImageStays DEF ImageInv, ImageParts
<1>11. Downloaded'
  BY <1>3, <1>4 DEF Downloaded
<1>12. QED
  BY <1>2, <1>5, <1>6, <1>7, <1>8, <1>10, <1>11 DEF ImageInv, ImageParts

\* begin() makes the events that are on their way those of an older client.
LEMMA ImageBegun == TypeOK /\ TypeOK' /\ SessionInv /\ OwnInv /\ ImageInv /\ BeginAccepted => ImageInv'
<1> SUFFICES ASSUME TypeOK, TypeOK', SessionInv, OwnInv, ImageInv, BeginAccepted PROVE ImageInv'
  OBVIOUS
<1>1. /\ generation \in Nat /\ generation' = generation + 1
      /\ state' = "STARTING" /\ httpStatusCode' = "none" /\ downloadedBytes' = 0 /\ api' = "sending"
      /\ state \in {"IDLE", "ERROR"} /\ api = "idle"
      /\ UNCHANGED <<http, queue, ota, client, cb, heap, fota, lost>>
  BY QueuedTypes, NextGenerationIsNew DEF BeginAccepted, ResetSession
<1>2. http = 0 /\ ota.http = 0
  BY <1>1 DEF SessionInv, SessionOwns, OwnInv, HandleFollows
<1>3. ota.pc \notin {"head", "write", "account", "verify", "finish"} \cup StartSteps
  BY <1>1 DEF ImageInv, HandlerKeeps, SessionInv, HandlerHoldsSession, Receiving
<1>4. ota.gen \in Nat /\ ota.gen <= generation /\ fota.owner \in Nat /\ fota.owner <= generation
  BY RestValues DEF TypeOK, Locals, Writers, SessionInv, GenerationsBounded, ImageInv, WriterFollows
<1>5. Places' = Places /\ Len(Line) \in Nat
  BY <1>1, LineOfNewSession
<1>6. \A i \in Places : /\ i \in Nat /\ i <= Len(Line)
                        /\ Line'[i].id = Line[i].id /\ Line'[i].src = Line[i].src
                        /\ Line'[i].body = Line[i].body /\ Line'[i].err = Line[i].err
                        /\ Line'[i].gen = Line[i].gen \/ (i = Len(Line) /\ Line'[i].gen = generation')
  BY <1>1, LineOfNewSession
<1>7. \A i \in Places : EventShaped(Line[i]) /\ Line[i].gen \in Nat /\ Line[i].src \in Nat
  BY LineIs, RestValues DEF ImageInv, LineShaped, LineForm, Events
<1>8. LineShaped'
  <2>1. ASSUME NEW i \in Places PROVE EventShaped(Line[i])'
    <3>1. CASE Line[i].id = "START"
      BY <1>1, <1>6, <1>7, <3>1 DEF EventShaped
    <3>2. CASE Line[i].id # "START"
      <4>1. Line'[i].src # 0 /\ Line'[i].src <= Line'[i].gen /\ Line'[i].gen <= generation' /\ client'[Line'[i].src].phase # "none"
        BY <1>1, <1>6, <1>7, <3>2 DEF EventShaped
      <4>2. QED
        BY <1>1, <1>6, <1>7, <3>2, <4>1 DEF EventShaped
    <3>3. QED
      BY <3>1, <3>2
  <2>2. QED
    BY <1>1, <1>5, <2>1 DEF ImageInv, LineShaped
<1>9. \A i \in Places : ~Own(i)'
  BY <1>1, <1>6, <1>7 DEF Own, EventShaped
<1>10. LineOrdered'
  <2>1. \A i \in Places : Line'[i].gen = generation' /\ Line[i].id # "START" => i = Len(Line)
    BY <1>1, <1>6, <1>7 DEF EventShaped
  <2>2. \A i \in Places : Old(i)' => Line[i].id # "START"
    BY <1>6 DEF Old
  <2>3. \A i \in Places' : Old(i)' =>
          /\ httpStatusCode' = "none" /\ ota'.pc # "head"
          /\ \A j \in Places' : Own(j)' => i < j
          /\ Line'[i].gen = generation' => \A j \in Places' : Old(j)' => j <= i
    BY <1>1, <1>3, <1>5, <1>6, <1>9, <2>1, <2>2
  <2>4. QED
    BY <1>1, <1>5, <1>9, <2>3 DEF LineOrdered
<1>11. ClientsCounted'
  <2>1. generation' \in Gens
    BY <1>1, RestValues DEF TypeOK, Gens
  <2>2. client[generation'].phase = "none" /\ fota.owner # generation'
    BY <1>1, <1>4, <2>1 DEF ImageInv, ClientsCounted
  <2>3. \A h \in Gens : h > generation' => client[h].phase = "none"
    BY <1>1, RestValues DEF ImageInv, ClientsCounted, Gens
  <2>4. QED
    BY <1>1, <1>2, <1>3, <2>2, <2>3 DEF ImageInv, ClientsCounted, StartSteps
<1>12. HandlerKeeps'
  <2>1. ota.gen # generation'
    BY <1>1, <1>4
  <2>2. Closing => ota.outcome # "NONE"
    BY <1>1 DEF ImageInv, HandlerKeeps, SessionInv, HandlerHoldsSession, Closing
  <2>3. QED
    BY <1>1, <1>3, <2>1, <2>2 DEF ImageInv, HandlerKeeps, Closing
<1>13. SketchKeeps'
  BY <1>1 DEF ImageInv, SketchKeeps, BeginInProgress, HttpStatusOk
<1>14. WriterFollows'
  BY <1>1, <1>2, <1>3, <1>4 DEF ImageInv, WriterFollows, StartSteps
<1>15. BodiesApart' /\ CopiesHeld'
  BY <1>1, <1>3, <1>5, <1>6 DEF ImageInv, BodiesApart, CopiesHeld
<1>16. NoForeignBytes'
  BY <1>1 DEF ImageInv, NoForeignBytes
<1>17. ~Intact'
  BY <1>1, <1>4 DEF Intact
<1>18. InOrder' /\ NoneMissing' /\ HeaderFirst' /\ AllWritten'
  BY <1>17 DEF InOrder, NoneMissing, HeaderFirst, AllWritten
<1>19. Downloaded'
  BY <1>1, <1>3, <1>4 DEF Downloaded
<1>20. QED
  BY <1>8, <1>10, <1>11, <1>12, <1>13, <1>14, <1>15, <1>16, <1>18, <1>19 DEF ImageInv

\* START goes before the event of a callback that is running: it is the only one of
\* the session.
LEMMA ImageStarted == TypeOK /\ TypeOK' /\ SessionInv /\ OwnInv /\ ImageInv /\ BeginSendsStart => ImageInv'
<1> SUFFICES ASSUME TypeOK, TypeOK', SessionInv, OwnInv, ImageInv, BeginSendsStart PROVE ImageInv'
  OBVIOUS
<1>1. /\ UNCHANGED <<state, generation, httpStatusCode, downloadedBytes, http, ota, client, cb, heap, fota, lost>>
      /\ api = "sending" /\ api' \in {"idle", "refused"} /\ BeginInProgress
  BY DEF BeginSendsStart, session, BeginInProgress
<1>2. CASE UNCHANGED queue
  <2>1. LineShaped' /\ LineOrdered' /\ BodiesApart' /\ CopiesHeld' /\ NoForeignBytes'
    BY <1>1, <1>2, LinePartsKept
  <2>2. ClientsCounted' /\ SketchKeeps'
    BY <1>1, <1>2 DEF ImageInv, ClientsCounted, SketchKeeps, BeginInProgress, StartsAt, Closing, HttpStatusOk
  <2>3. HandlerKeeps' /\ WriterFollows' /\ Downloaded'
    BY <1>1 DEF ImageInv, HandlerKeeps, WriterFollows, Downloaded, Closing, Receiving, HttpStatusOk
  <2>4. ~Intact'
    BY <1>1 DEF ImageInv, ClientsCounted, HandlerKeeps, SketchKeeps, SessionInv, HandlerHoldsSession, StartSteps, Intact
  <2>5. InOrder' /\ NoneMissing' /\ HeaderFirst' /\ AllWritten'
    BY <2>4 DEF InOrder, NoneMissing, HeaderFirst, AllWritten
  <2>6. QED
    BY <2>1, <2>2, <2>3, <2>5 DEF ImageInv
<1>3. CASE ~UNCHANGED queue
  <2> DEFINE e == [id |-> "START", gen |-> generation, src |-> 0, body |-> NoBody, err |-> "NONE"]
  <2>1. queue' = Append(queue, e) /\ api' = "idle"
    BY <1>3 DEF BeginSendsStart
  <2>2. e.id = "START" /\ e.src = 0 /\ e.body = NoBody
    OBVIOUS
  <2> HIDE DEF e
  <2>3. PICK m \in Nat : \A i \in Places' :
              /\ i \in Nat
              /\ i < m => i \in Places /\ Line'[i] = Line[i]
              /\ i = m => Line'[i] = e
              /\ i > m => i - 1 \in Places /\ Line'[i] = Line[i - 1] /\ i = Len(Line') /\ i - 1 = Len(Line)
    BY <1>1, <2>1, <2>2, LineStarted
  <2>4. Len(Line') = Len(Line) + 1 /\ Len(Line) \in Nat
    BY <1>1, <2>1, <2>2, LineStarted
  <2>5. client[generation].phase = "none" /\ fota.owner # generation /\ generation # 0
    BY <1>1 DEF ImageInv, ClientsCounted, SketchKeeps, SessionInv, HandlerHoldsSession, StartSteps
  <2>6. \A i \in Places : EventShaped(Line[i]) /\ ~Own(i) /\ i \in Nat
    BY <2>5, LineIs DEF ImageInv, LineShaped, EventShaped, Own, LineForm
  <2>7. ASSUME NEW i \in Places' PROVE EventShaped(Line[i])' /\ ~Own(i)'
    <3>1. CASE i < m
      BY <1>1, <2>3, <2>6, <3>1 DEF EventShaped, Own
    <3>2. CASE i = m
      BY <2>2, <2>3, <3>2 DEF EventShaped, Own
    <3>3. CASE i > m
      BY <1>1, <2>3, <2>6, <3>3 DEF EventShaped, Own
    <3>4. QED
      BY <2>3, <3>1, <3>2, <3>3
  <2>8. LineShaped'
    BY <1>1, <2>7 DEF ImageInv, LineShaped
  <2>9. LineOrdered'
    <3>1. ASSUME NEW i \in Places', Old(i)'
          PROVE  (i < m /\ Old(i)) \/ (i > m /\ Old(i - 1))
      <4>1. CASE i < m
        BY <1>1, <2>3, <3>1, <4>1 DEF Old
      <4>2. CASE i = m
        BY <2>2, <2>3, <3>1, <4>2 DEF Old
      <4>3. CASE i > m
        BY <1>1, <2>3, <3>1, <4>3 DEF Old
      <4>4. QED
        BY <2>3, <4>1, <4>2, <4>3
    <3>2. ASSUME NEW i \in Places', NEW j \in Places', Old(i)', Old(j)', Line'[i].gen = generation'
          PROVE  j <= i
      <4>1. CASE i > m
        <5>1. i = Len(Line') /\ j \in Nat /\ i \in Nat
          BY <2>3, <4>1
        <5>2. j <= Len(Line')
          BY LineIsNext DEF LineForm
        <5>3. QED
          BY <5>1, <5>2
      <4>2. CASE i < m
        <5>1. i \in Places /\ Old(i) /\ Line[i].gen = generation /\ \A k \in Places : Old(k) => k <= i
          BY <1>1, <2>3, <3>1, <3>2, <4>2 DEF ImageInv, LineOrdered
        <5>2. CASE j < m
          BY <2>3, <3>1, <3>2, <5>1, <5>2
        <5>3. CASE j > m
          BY <2>3, <3>1, <3>2, <4>2, <5>1, <5>3
        <5>4. QED
          BY <3>1, <3>2, <5>2, <5>3
      <4>3. QED
        BY <3>1, <3>2, <4>1, <4>2
    <3>3. ASSUME NEW i \in Places', Old(i)' PROVE httpStatusCode' = "none" /\ ota'.pc # "head"
      BY <1>1, <2>3, <3>1, <3>3 DEF ImageInv, LineOrdered
    <3>4. state' \notin {"VERIFYING", "STAGED", "APPLYING"}
      BY <1>1 DEF ImageInv, SketchKeeps
    <3>5. QED
      BY <2>7, <3>2, <3>3, <3>4 DEF LineOrdered
  <2>10. ClientsCounted' /\ SketchKeeps'
    <3>1. ota.pc \notin StartSteps
      BY <1>1 DEF SessionInv, HandlerHoldsSession
    <3>2. ClientsCounted'
      BY <1>1, <2>5, <3>1 DEF ImageInv, ClientsCounted, StartSteps
    <3>3. SketchKeeps'
      BY <1>1, <2>1, <2>5 DEF ImageInv, SketchKeeps, BeginInProgress, Closing, HttpStatusOk
    <3>4. QED
      BY <3>2, <3>3
  <2>11. HandlerKeeps' /\ WriterFollows' /\ Downloaded' /\ NoForeignBytes'
    BY <1>1 DEF ImageInv, HandlerKeeps, WriterFollows, Downloaded, Closing, Receiving, HttpStatusOk, NoForeignBytes
  <2>12. ASSUME NEW i \in Places', Line'[i].body # NoBody
         PROVE  \/ i < m /\ Line'[i].body = Line[i].body /\ i \in Places
                \/ i > m /\ Line'[i].body = Line[i - 1].body /\ i - 1 \in Places
    <3>1. CASE i < m
      BY <2>3, <3>1
    <3>2. CASE i = m
      BY <2>2, <2>3, <2>12, <3>2
    <3>3. CASE i > m
      BY <2>3, <3>3
    <3>4. QED
      BY <2>3, <3>1, <3>2, <3>3
  <2>13. BodiesApart'
    <3>1. ASSUME NEW i \in Places', NEW j \in Places', Line'[i].body # NoBody, Line'[i].body = Line'[j].body PROVE i = j
      <4>1. i \in Nat /\ j \in Nat
        BY <2>3
      <4>2. ASSUME NEW p \in Places, NEW q \in Places, Line[p].body # NoBody, Line[p].body = Line[q].body PROVE p = q
        BY <4>2 DEF ImageInv, BodiesApart
      <4>3. CASE i < m /\ j < m
        BY <2>3, <3>1, <4>2, <4>3
      <4>4. CASE i > m /\ j > m
        <5>1. i - 1 = j - 1
          BY <2>3, <3>1, <4>2, <4>4
        <5>2. QED
          BY <4>1, <5>1
      <4>5. CASE i < m /\ j > m
        <5>1. i = j - 1
          BY <2>3, <3>1, <4>2, <4>5
        <5>2. QED
          BY <4>1, <4>5, <5>1
      <4>6. CASE i > m /\ j < m
        <5>1. i - 1 = j
          BY <2>3, <3>1, <4>2, <4>6
        <5>2. QED
          BY <4>1, <4>6, <5>1
      <4>7. QED
        BY <2>12, <3>1, <4>3, <4>4, <4>5, <4>6
    <3>2. ota'.pc = "write" => ota'.body # NoBody /\ ota'.body[1] = generation'
                               /\ \A i \in Places' : Line'[i].body # ota'.body
      BY <1>1, <2>12 DEF ImageInv, BodiesApart
    <3>3. QED
      BY <1>1, <3>1, <3>2 DEF ImageInv, BodiesApart
  <2>14. CopiesHeld'
    <3>1. \A i \in Places' : Line'[i].body # NoBody => Line'[i].body \in heap'
      BY <1>1, <2>12 DEF ImageInv, CopiesHeld
    <3>2. ASSUME NEW i \in Places, NEW b \in heap, Line[i].body = b
          PROVE  \E j \in Places' : Line'[j].body = b
      <4>1. i \in 1 .. Len(Line) /\ Places' = 1 .. Len(Line')
        BY LineIs, LineIsNext DEF LineForm
      <4>2. i \in Places' /\ i + 1 \in Places'
        BY <2>4, <4>1
      <4>3. CASE i < m
        BY <2>3, <3>2, <4>2, <4>3
      <4>4. CASE i >= m
        BY <2>3, <3>2, <4>1, <4>2, <4>4
      <4>5. QED
        BY <2>6, <4>3, <4>4
    <3>3. QED
      BY <1>1, <3>1, <3>2 DEF ImageInv, CopiesHeld
  <2>15. ~Intact'
    BY <1>1, <2>5 DEF Intact
  <2>16. InOrder' /\ NoneMissing' /\ HeaderFirst' /\ AllWritten'
    BY <2>15 DEF InOrder, NoneMissing, HeaderFirst, AllWritten
  <2>17. QED
    BY <2>8, <2>9, <2>10, <2>11, <2>13, <2>14, <2>16 DEF ImageInv
<1>4. QED
  BY <1>2, <1>3

\* Every call of the sketch preserves the invariant.
LEMMA ImageSketch == TypeOK /\ TypeOK' /\ SessionInv /\ OwnInv /\ ImageInv /\ Sketch => ImageInv'
<1> SUFFICES ASSUME TypeOK, TypeOK', SessionInv, OwnInv, ImageInv, Sketch PROVE ImageInv'
  OBVIOUS
<1>1. ASSUME NEW err \in EarlyErrors, BeginRefusedEarly(err) PROVE ImageInv'
  BY <1>1, ImageUntouched DEF BeginRefusedEarly
<1>2. CASE BeginRefusedByState
  BY <1>2, ImageUntouched DEF BeginRefusedByState
<1>3. CASE BeginGivesUp
  <2>1. /\ UNCHANGED <<queue, cb, client, ota, fota, heap, lost, generation, http>> /\ api' = "idle" /\ BeginInProgress
        /\ state' = "ERROR" /\ httpStatusCode' = "none" /\ downloadedBytes' = 0
    BY <1>3 DEF BeginGivesUp, ResetSession, BeginInProgress
  <2>2. QED
    BY <2>1, ImageLeft
<1>4. CASE Clear
  <2>1. CASE StateIsRunning \/ state = "STAGED"
    BY <1>4, <2>1, ImageUntouched DEF Clear
  <2>2. CASE ~(StateIsRunning \/ state = "STAGED")
    <3>1. /\ UNCHANGED <<queue, cb, client, ota, fota, heap, lost, generation, http>> /\ api' = "idle" /\ api = "idle"
          /\ state \in {"IDLE", "ERROR"} /\ state' = "IDLE" /\ httpStatusCode' = "none" /\ downloadedBytes' = 0
      BY <1>4, <2>2 DEF Clear, ResetSession, StateIsRunning, TypeOK, States
    <3>2. QED
      BY <3>1, ImageLeft
  <2>3. QED
    BY <2>1, <2>2
<1>5. CASE Apply
  <2>1. CASE state = "STAGED"
    <3>1. /\ UNCHANGED <<queue, cb, client, ota, fota, heap, lost, generation, http, httpStatusCode>>
          /\ api' = "rebooting" /\ api = "idle" /\ state' = "APPLYING"
      BY <1>5, <2>1 DEF Apply
    <3>2. QED
      BY <2>1, <3>1, ImageLeft DEF BeginInProgress
  <2>2. CASE state # "STAGED"
    BY <1>5, <2>2, ImageUntouched DEF Apply
  <2>3. QED
    BY <2>1, <2>2
<1>6. CASE Reboot
  <2>1. Init'
    BY <1>6 DEF Reboot, Init
  <2>2. QED
    BY <2>1, ImageInitNext
<1>7. QED
  BY <1>1, <1>2, <1>3, <1>4, <1>5, <1>6, ImageBegun, ImageStarted DEF Sketch, SketchFinishesBegin

-----------------------------------------------------------------------------
(* The arduino_ota task takes an event *)

\* Taking an event moves the line by one place; events of an older client and of
\* the session's own are never both left to take.
LEMMA TakenLine ==
  ASSUME TypeOK, TypeOK', SessionInv, OwnInv, ImageInv, OtaTake
  PROVE  /\ ota.pc = "recv" /\ Line[1] = Head(queue) /\ 1 \in Places /\ EventShaped(Line[1])
         /\ UNCHANGED <<generation, httpStatusCode, downloadedBytes, http, api, client, cb, lost>>
         /\ state \notin {"VERIFYING", "STAGED", "APPLYING"}
         /\ LineShaped'
         /\ \A i \in Places' : /\ i \in Nat /\ i + 1 \in Places /\ i + 1 # 1 /\ Line'[i] = Line[i + 1]
                               /\ Own(i)' = Own(i + 1) /\ Old(i)' = Old(i + 1) /\ Heads(i)' = Heads(i + 1)
         /\ \A i \in Places : i \in Nat /\ (i = 1 \/ i - 1 \in Places')
         /\ \A i \in Places' : Old(i)' =>
              /\ httpStatusCode' = "none"
              /\ \A j \in Places' : Own(j)' => i < j
              /\ Line'[i].gen = generation' => \A j \in Places' : Old(j)' => j <= i
         /\ \A i \in Places' : Own(i)' /\ Line'[i].id = "BODY_DONE" => i = Len(Line')
         /\ Own(1) => Line[1].gen = generation
         /\ Line[1].id # "START" /\ Line[1].gen = generation => \A i \in Places' : ~Old(i)'
         /\ Line[1].id # "START" /\ Line[1].gen # generation => httpStatusCode = "none"
<1>1. /\ queue # <<>> /\ queue' = Tail(queue) /\ ota.pc = "recv"
      /\ UNCHANGED <<generation, httpStatusCode, downloadedBytes, http, api, client, cb, lost>>
  BY DEF OtaTake, TakeStart, TakeHeadDone, TakeBodyData, TakeBodyDone, TakeHttpError, Receive
<1>2. 1 \in Places /\ Line[1] = Head(queue)
  BY <1>1, LineTaken
<1>3. \A i \in Places' : i \in Nat /\ i >= 1 /\ i + 1 \in Places /\ i + 1 # 1 /\ Line'[i] = Line[i + 1]
  BY <1>1, LineTaken
<1>4. \A i \in Places : i \in Nat /\ (i = 1 \/ i - 1 \in Places')
  BY <1>1, LineTaken
<1>5. Len(Line) \in Nat /\ Len(Line') = Len(Line) - 1
  BY <1>1, LineTaken
<1>6. EventShaped(Line[1])
  BY <1>2 DEF ImageInv, LineShaped
<1>7. state \notin {"VERIFYING", "STAGED", "APPLYING"}
  <2>1. Line # <<>>
    BY <1>2 DEF Places
  <2>2. QED
    BY <2>1 DEF ImageInv, LineOrdered
<1>8. LineShaped'
  BY <1>1, <1>3 DEF ImageInv, LineShaped, EventShaped
<1>9. \A i \in Places' : Own(i)' = Own(i + 1) /\ Old(i)' = Old(i + 1) /\ Heads(i)' = Heads(i + 1)
  BY <1>1, <1>3 DEF Own, Old, Heads
<1>10. \A i \in Places' : Old(i)' =>
         /\ httpStatusCode' = "none"
         /\ \A j \in Places' : Own(j)' => i < j
         /\ Line'[i].gen = generation' => \A j \in Places' : Old(j)' => j <= i
  <2> SUFFICES ASSUME NEW i \in Places', Old(i)'
               PROVE  /\ httpStatusCode' = "none"
                      /\ \A j \in Places' : Own(j)' => i < j
                      /\ Line'[i].gen = generation' => \A j \in Places' : Old(j)' => j <= i
    OBVIOUS
  <2>1. Old(i + 1) /\ i + 1 \in Places
    BY <1>3, <1>9
  <2>2. \A j \in Places' : Own(j)' => i < j
    BY <1>3, <1>9, <2>1 DEF ImageInv, LineOrdered
  <2>3. Line'[i].gen = generation' => \A j \in Places' : Old(j)' => j <= i
    <3> SUFFICES ASSUME Line'[i].gen = generation', NEW j \in Places', Old(j)' PROVE j <= i
      OBVIOUS
    <3>1. Line[i + 1].gen = generation /\ Old(j + 1) /\ j + 1 \in Places
      BY <1>1, <1>3, <1>9
    <3>2. j + 1 <= i + 1
      BY <2>1, <3>1 DEF ImageInv, LineOrdered
    <3>3. QED
      BY <1>3, <3>2
  <2>4. QED
    BY <1>1, <2>1, <2>2, <2>3 DEF ImageInv, LineOrdered
<1>11. \A i \in Places' : Own(i)' /\ Line'[i].id = "BODY_DONE" => i = Len(Line')
  <2> SUFFICES ASSUME NEW i \in Places', Own(i)', Line'[i].id = "BODY_DONE" PROVE i = Len(Line')
    OBVIOUS
  <2>1. i + 1 = Len(Line)
    BY <1>3, <1>9 DEF ImageInv, LineOrdered
  <2>2. QED
    BY <1>3, <1>5, <2>1
<1>12. Line[1].gen \in Nat /\ generation \in Nat /\ Line[1].src \in Nat
  BY <1>2, QueuedTypes, LineIs, RestValues DEF LineForm, Events
<1>13. Own(1) => Line[1].gen = generation
  BY <1>6, <1>12 DEF Own, EventShaped
<1>14. Line[1].id # "START" /\ Line[1].gen = generation => \A i \in Places' : ~Old(i)'
  <2> SUFFICES ASSUME Line[1].id # "START", Line[1].gen = generation, NEW i \in Places', Old(i + 1) PROVE FALSE
    BY <1>9
  <2>1. i + 1 \in Places /\ i \in Nat /\ i >= 1
    BY <1>3
  <2>2. CASE Own(1)
    <3>1. i + 1 < 1
      BY <1>2, <2>1, <2>2 DEF ImageInv, LineOrdered
    <3>2. QED
      BY <2>1, <3>1
  <2>3. CASE Old(1)
    <3>1. i + 1 <= 1
      BY <1>2, <2>1, <2>3 DEF ImageInv, LineOrdered
    <3>2. QED
      BY <2>1, <3>1
  <2>4. QED
    BY <2>2, <2>3 DEF Own, Old
<1>15. Line[1].id # "START" /\ Line[1].gen # generation => httpStatusCode = "none"
  BY <1>2, <1>13 DEF Own, Old, ImageInv, LineOrdered
<1>16. QED
  BY <1>1, <1>2, <1>3, <1>4, <1>6, <1>7, <1>8, <1>9, <1>10, <1>11, <1>13, <1>14, <1>15

\* The copies, when the event that was taken has none.
LEMMA CopiesTaken ==
  ASSUME TypeOK, TypeOK', SessionInv, OwnInv, ImageInv, OtaTake,
         Head(queue).id # "BODY_DATA", heap' = heap, ota'.pc # "write"
  PROVE  BodiesApart' /\ CopiesHeld'
<1>1. Line[1] = Head(queue) /\ EventShaped(Line[1]) /\ ota.pc = "recv" /\ UNCHANGED <<client, lost>>
  BY TakenLine
<1>2. Line[1].body = NoBody
  BY <1>1 DEF EventShaped
<1>3. \A i \in Places' : i \in Nat /\ i + 1 \in Places /\ Line'[i] = Line[i + 1]
  BY TakenLine
<1>4. \A i \in Places : i \in Nat /\ (i = 1 \/ i - 1 \in Places')
  BY TakenLine
<1>5. BodiesApart'
  <2>1. ASSUME NEW i \in Places', NEW j \in Places', Line'[i].body # NoBody, Line'[i].body = Line'[j].body PROVE i = j
    <3>1. i + 1 = j + 1
      BY <1>3, <2>1 DEF ImageInv, BodiesApart
    <3>2. QED
      BY <1>3, <3>1
  <2>2. QED
    BY <1>1, <2>1 DEF ImageInv, BodiesApart
<1>6. CopiesHeld'
  <2>1. NoBody \notin heap
    BY DEF TypeOK, Bodies, NoBody, Gens
  <2>2. ASSUME NEW b \in heap, NEW i \in Places, Line[i].body = b PROVE \E j \in Places' : Line'[j].body = b
    <3>1. i # 1 /\ i - 1 \in Places' /\ (i - 1) + 1 = i
      BY <1>2, <1>4, <2>1, <2>2
    <3>2. Line'[i - 1] = Line[i]
      BY <1>3, <3>1
    <3>3. QED
      BY <2>2, <3>1, <3>2
  <2>3. \A i \in Places' : Line'[i].body # NoBody => Line'[i].body \in heap
    BY <1>3 DEF ImageInv, CopiesHeld
  <2>4. QED
    BY <1>1, <2>2, <2>3 DEF ImageInv, CopiesHeld
<1>7. QED
  BY <1>5, <1>6

\* The image, when the event that was taken adds nothing to it.
LEMMA ImageTaken ==
  ASSUME TypeOK, TypeOK', SessionInv, OwnInv, ImageInv, OtaTake,
         fota'.written = fota.written, fota'.owner = fota.owner, ota'.pc # "write",
         \/ state' = state
         \/ state' = "VERIFYING" /\ Receiving /\ (Intact => Written = Chunks),
         Intact /\ Own(1) /\ Receiving' /\ ~Failing' => Line[1].id = "HEAD_DONE" /\ ota'.pc = "head"
  PROVE  ImageParts'
<1>1. /\ ota.pc = "recv" /\ EventShaped(Line[1])
      /\ UNCHANGED <<generation, httpStatusCode, client, lost>>
      /\ state \notin {"VERIFYING", "STAGED", "APPLYING"}
  BY TakenLine
<1>2. \A i \in Places' : /\ i \in Nat /\ i + 1 \in Places /\ Line'[i] = Line[i + 1]
                         /\ Own(i)' = Own(i + 1) /\ Heads(i)' = Heads(i + 1)
  BY TakenLine
<1>3. \A i \in Places : i \in Nat /\ (i = 1 \/ i - 1 \in Places')
  BY TakenLine
<1>4. Intact' = Intact /\ Written' = Written /\ HttpStatusOk' = HttpStatusOk
  BY <1>1 DEF Intact, Written, HttpStatusOk
<1>5. InOrder'
  BY <1>1, <1>2, <1>4 DEF ImageInv, InOrder
<1>6. Receiving' => Receiving /\ ~Failing /\ state' = state
  BY <1>1 DEF Receiving, Failing, Closing
<1>7. ASSUME NEW p \in Places, p # 1
      PROVE  p - 1 \in Places' /\ p - 1 \in Nat /\ (p - 1) + 1 = p /\ Line'[p - 1] = Line[p]
             /\ Own(p - 1)' = Own(p) /\ Heads(p - 1)' = Heads(p)
  <2>1. p - 1 \in Places' /\ p \in Nat
    BY <1>3, <1>7
  <2>2. (p - 1) + 1 = p
    BY <2>1
  <2>3. QED
    BY <1>2, <2>1, <2>2
<1>8. NoneMissing'
  <2> SUFFICES ASSUME Intact, Receiving', ~Failing', NEW n \in (Written + 1 .. client[generation].sent)' PROVE Covered(n)'
    BY <1>4 DEF NoneMissing
  <2>1. Covered(n)
    BY <1>1, <1>4, <1>6 DEF ImageInv, NoneMissing
  <2>2. PICK p \in Places : /\ Own(p) /\ (Line[p].body = <<generation, n>> \/ Line[p].id = "HTTP_ERROR")
                            /\ \A q \in Places : After(q, n) => p <= q
    BY <2>1 DEF Covered
  <2>3. p # 1
    <3>1. CASE Own(1)
      <4>1. Line[1].id = "HEAD_DONE" /\ Line[1].body = NoBody
        BY <1>1, <3>1 DEF EventShaped
      <4>2. <<generation, n>> # NoBody
        BY DEF Intact, NoBody
      <4>3. QED
        BY <2>2, <4>1, <4>2
    <3>2. CASE ~Own(1)
      BY <2>2, <3>2
    <3>3. QED
      BY <3>1, <3>2
  <2>4. /\ p - 1 \in Places' /\ p - 1 \in Nat /\ Own(p - 1)'
        /\ Line'[p - 1].body = <<generation', n>> \/ Line'[p - 1].id = "HTTP_ERROR"
    BY <1>1, <1>7, <2>2, <2>3
  <2>5. ASSUME NEW q \in Places', After(q, n)' PROVE p - 1 <= q
    <3>1. After(q + 1, n) /\ q + 1 \in Places /\ q \in Nat
      BY <1>2, <2>5 DEF After
    <3>2. p <= q + 1
      BY <2>2, <3>1
    <3>3. QED
      BY <1>3, <3>1, <3>2
  <2>6. QED
    BY <2>4, <2>5 DEF Covered
<1>9. HeaderFirst'
  <2> SUFFICES ASSUME Intact, Receiving', ~Failing', ~HttpStatusOk, ota'.pc # "head"
               PROVE  /\ \A q \in Places' : Own(q)' /\ Line'[q].id \in {"BODY_DATA", "BODY_DONE"} =>
                           \E p \in Places' : Heads(p)' /\ p < q
                      /\ client[generation].phase = "body" => \E p \in Places' : Heads(p)'
    BY <1>1, <1>4 DEF HeaderFirst
  <2>1. ~Own(1) /\ ~Heads(1) /\ Receiving /\ ~Failing /\ ota.pc # "head"
    BY <1>1, <1>6 DEF Heads
  <2>2. ASSUME NEW q \in Places', Own(q)', Line'[q].id \in {"BODY_DATA", "BODY_DONE"}
        PROVE  \E p \in Places' : Heads(p)' /\ p < q
    <3>1. Own(q + 1) /\ Line[q + 1].id \in {"BODY_DATA", "BODY_DONE"} /\ q + 1 \in Places /\ q \in Nat
      BY <1>2, <2>2
    <3>2. PICK p \in Places : Heads(p) /\ p < q + 1
      BY <2>1, <3>1 DEF ImageInv, HeaderFirst
    <3>3. p - 1 \in Places' /\ p - 1 \in Nat /\ Heads(p - 1)' /\ p \in Nat
      BY <1>3, <1>7, <2>1, <3>2
    <3>4. p - 1 < q
      BY <3>1, <3>2, <3>3
    <3>5. QED
      BY <3>3, <3>4
  <2>3. ASSUME client[generation].phase = "body" PROVE \E p \in Places' : Heads(p)'
    <3>1. PICK p \in Places : Heads(p)
      BY <2>1, <2>3 DEF ImageInv, HeaderFirst
    <3>2. QED
      BY <1>7, <2>1, <3>1
  <2>4. QED
    BY <2>2, <2>3
<1>10. AllWritten'
  BY <1>1, <1>4 DEF AllWritten
<1>11. QED
  BY <1>5, <1>8, <1>9, <1>10 DEF ImageParts

\* What the taking of an event does not decide.
LEMMA RestTaken ==
  ASSUME TypeOK, TypeOK', SessionInv, OwnInv, ImageInv, OtaTake,
         fota'.written = fota.written, fota'.owner = fota.owner, fota'.committed = fota.committed,
         fota'.open = fota.open \/ ota'.pc = "detach",
         ota'.pc \in {"recv", "fota_init", "head", "write", "verify", "detach"}, ota'.http \in {0, http},
         ota'.pc = "fota_init" => StartsAt(1),
         ota'.pc = "head" => \A i \in Places' : ~Old(i)',
         \/ state' = state
         \/ Receiving /\ HttpStatusOk /\ state' = "DOWNLOADING"
         \/ Receiving /\ HttpStatusOk /\ state' = "VERIFYING" /\ ota'.pc = "verify" /\ Line' = <<>>
            /\ client[generation].phase \in {"ended", "destroyed"}
  PROVE  LineOrdered' /\ ClientsCounted' /\ SketchKeeps' /\ WriterFollows' /\ NoForeignBytes' /\ Downloaded'
<1>1. /\ ota.pc = "recv"
      /\ UNCHANGED <<generation, httpStatusCode, downloadedBytes, http, api, client, cb, lost>>
      /\ state \notin {"VERIFYING", "STAGED", "APPLYING"}
  BY TakenLine
<1>2. LineOrdered'
  <2>1. \A i \in Places' : Old(i)' =>
          /\ httpStatusCode' = "none" /\ ota'.pc # "head"
          /\ \A j \in Places' : Own(j)' => i < j
          /\ Line'[i].gen = generation' => \A j \in Places' : Old(j)' => j <= i
    BY TakenLine
  <2>2. \A i \in Places' : Own(i)' /\ Line'[i].id = "BODY_DONE" => i = Len(Line')
    BY TakenLine
  <2>3. state' \in {"VERIFYING", "STAGED", "APPLYING"} =>
          Line' = <<>> /\ client'[generation'].phase \in {"ended", "destroyed"}
    BY <1>1
  <2>4. QED
    BY <2>1, <2>2, <2>3 DEF LineOrdered
<1>3. queue # <<>> /\ queue' = Tail(queue)
  BY DEF OtaTake, TakeStart, TakeHeadDone, TakeBodyData, TakeBodyDone, TakeHttpError, Receive
<1>4. /\ 1 \in 1 .. Len(queue)
      /\ \A i \in 1 .. Len(queue') : queue'[i] = queue[i + 1] /\ i + 1 \in 1 .. Len(queue)
  <2>1. queue \in Seq(Events) /\ Len(queue) \in Nat \ {0} /\ Len(queue') = Len(queue) - 1
    BY <1>3 DEF TypeOK
  <2>2. QED
    BY <1>3, <2>1
<1>5. (\E i \in 1 .. Len(queue') : StartsAt(i)') => \E i \in 1 .. Len(queue) : StartsAt(i)
  BY <1>1, <1>4 DEF StartsAt
<1>6. ClientsCounted'
  <2>1. http' \in {0, generation'} /\ ota'.http \in {0, generation'}
    BY <1>1 DEF ImageInv, ClientsCounted
  <2>2. BeginInProgress' \/ (\E i \in 1 .. Len(queue') : StartsAt(i)') \/ ota'.pc \in {"fota_init", "create"} =>
          BeginInProgress \/ (\E i \in 1 .. Len(queue) : StartsAt(i))
    BY <1>1, <1>4, <1>5 DEF BeginInProgress
  <2>3. QED
    BY <1>1, <2>1, <2>2 DEF ImageInv, ClientsCounted
<1>7. BeginInProgress => httpStatusCode = "none"
  BY DEF SessionInv, StartNotAhead
<1>8. SketchKeeps'
  BY <1>1, <1>7 DEF ImageInv, SketchKeeps, BeginInProgress, HttpStatusOk, Receiving
<1>9. WriterFollows'
  BY <1>1 DEF ImageInv, WriterFollows, Receiving, Closing
<1>10. NoForeignBytes'
  BY DEF ImageInv, NoForeignBytes
<1>11. Downloaded'
  BY <1>1 DEF ImageInv, Downloaded, Receiving
<1>12. QED
  BY <1>2, <1>6, <1>8, <1>9, <1>10, <1>11

\* An event of no interest is dropped.
LEMMA ImageDropped ==
  ASSUME TypeOK, TypeOK', SessionInv, OwnInv, ImageInv, OtaTake,
         ota' = Waiting, UNCHANGED <<state, fota>>,
         Intact /\ Own(1) => ~Receiving
  PROVE  LineShaped' /\ LineOrdered' /\ ClientsCounted' /\ HandlerKeeps' /\ SketchKeeps'
         /\ WriterFollows' /\ NoForeignBytes' /\ Downloaded' /\ ImageParts'
<1>1. ota'.pc = "recv" /\ ota'.http = 0
  BY DEF Waiting
<1>2. LineShaped'
  BY TakenLine
<1>3. LineOrdered' /\ ClientsCounted' /\ SketchKeeps' /\ WriterFollows' /\ NoForeignBytes' /\ Downloaded'
  BY <1>1, RestTaken
<1>4. HandlerKeeps'
  BY <1>1 DEF HandlerKeeps, Closing
<1>5. Intact /\ Own(1) => ~Receiving'
  BY DEF Receiving
<1>6. ImageParts'
  BY <1>1, <1>5, ImageTaken
<1>7. QED
  BY <1>2, <1>3, <1>4, <1>6

\* A failure is on its way to the session's outcome.
LEMMA ImageFails ==
  ASSUME TypeOK, TypeOK', SessionInv, OwnInv, ImageInv, OtaTake, FotaEnd0, state' = state, Line[1].id # "START",
         ota'.pc = "detach", ota'.gen = Line[1].gen, ota'.http = 0,
         ota'.outcome \in {"INTERNAL", "DOWNLOAD_FAILED"}
  PROVE  LineShaped' /\ LineOrdered' /\ ClientsCounted' /\ HandlerKeeps' /\ SketchKeeps'
         /\ WriterFollows' /\ NoForeignBytes' /\ Downloaded' /\ ImageParts'
<1>1. fota'.written = fota.written /\ fota'.owner = fota.owner /\ fota'.committed = fota.committed
  BY DEF FotaEnd0, TypeOK, Writers
<1>2. LineShaped' /\ EventShaped(Line[1]) /\ generation' = generation /\ httpStatusCode' = httpStatusCode
      /\ state \notin {"VERIFYING", "STAGED", "APPLYING"}
  BY TakenLine
<1>3. LineOrdered' /\ ClientsCounted' /\ SketchKeeps' /\ WriterFollows' /\ NoForeignBytes' /\ Downloaded'
  BY <1>1, RestTaken
<1>4. Line[1].gen \in Nat /\ Line[1].src \in Nat
  BY LineIs, TakenLine, RestValues DEF LineForm, Events
<1>5. HandlerKeeps'
  <2>1. ota'.gen # 0
    BY <1>2, <1>4 DEF EventShaped
  <2>2. ota'.gen # generation' => httpStatusCode' = "none"
    BY <1>2, TakenLine
  <2>3. QED
    BY <1>2, <2>1, <2>2 DEF HandlerKeeps, Closing, Lifecycle!SessionErrors
<1>6. Own(1) => Failing'
  BY <1>2, TakenLine DEF Failing, Closing
<1>7. ImageParts'
  BY <1>1, <1>6, ImageTaken
<1>8. QED
  BY <1>2, <1>3, <1>5, <1>7

\* Every event that the task takes.
LEMMA ImageTake == TypeOK /\ TypeOK' /\ SessionInv /\ OwnInv /\ ImageInv /\ OtaTake => ImageInv'
<1> SUFFICES ASSUME TypeOK, TypeOK', SessionInv, OwnInv, ImageInv, OtaTake PROVE ImageInv'
  OBVIOUS
<1>1. /\ ota.pc = "recv" /\ Line[1] = Head(queue) /\ 1 \in Places /\ EventShaped(Line[1])
      /\ UNCHANGED <<generation, httpStatusCode, downloadedBytes, http, api, client, cb, lost>>
      /\ state \notin {"VERIFYING", "STAGED", "APPLYING"}
      /\ Own(1) => Line[1].gen = generation
      /\ Line[1].id # "START" /\ Line[1].gen = generation => \A i \in Places' : ~Old(i)'
      /\ Line[1].id # "START" /\ Line[1].gen # generation => httpStatusCode = "none"
  BY TakenLine
<1>2. Waiting.pc = "recv" /\ Waiting.http = 0
  BY DEF Waiting
<1>3. ~Failing /\ Written = Len(fota.written) /\ Len(fota.written) \in Nat
  BY <1>1 DEF Failing, Closing, Written, TypeOK, Writers
<1>4. Head(queue) = queue[1] /\ 1 \in 1 .. Len(queue)
  <2>1. queue # <<>>
    BY DEF OtaTake, TakeStart, TakeHeadDone, TakeBodyData, TakeBodyDone, TakeHttpError, Receive
  <2>2. QED
    BY <2>1 DEF TypeOK
<1>5. ~Receiving \/ HttpStatusOk \/ ~Intact \/ ~Own(1) \/ Line[1].id \notin {"BODY_DATA", "BODY_DONE"}
  <2> SUFFICES ASSUME Receiving, ~HttpStatusOk, Intact, Own(1), Line[1].id \in {"BODY_DATA", "BODY_DONE"} PROVE FALSE
    OBVIOUS
  <2>1. PICK p \in Places : p < 1
    BY <1>1, <1>3 DEF ImageInv, HeaderFirst
  <2>2. QED
    BY <2>1, LineIs DEF LineForm
<1>6. CASE TakeStart
  <2>1. Line[1].id = "START" /\ UNCHANGED <<state, heap, fota>> /\ ~Own(1)
    BY <1>1, <1>6 DEF TakeStart, Receive, Own
  <2>2. CASE ota' = Waiting
    <3>1. BodiesApart' /\ CopiesHeld'
      BY <1>1, <1>2, <2>1, <2>2, CopiesTaken
    <3>2. QED
      BY <2>1, <2>2, <3>1, ImageDropped DEF ImageInv, ImageParts
  <2>3. CASE ota' # Waiting
    <3>1. Line[1].gen = generation /\ state = "STARTING" /\ ota' = Task("fota_init", Line[1])
      BY <1>1, <1>6, <2>3 DEF TakeStart
    <3>2. ota'.pc = "fota_init" /\ ota'.http = 0 /\ ota'.gen = generation
      BY <3>1 DEF Task
    <3>3. StartsAt(1)
      BY <1>1, <1>4, <2>1, <3>1 DEF StartsAt
    <3>4. BodiesApart' /\ CopiesHeld'
      BY <1>1, <2>1, <3>2, CopiesTaken
    <3>5. LineOrdered' /\ ClientsCounted' /\ SketchKeeps' /\ WriterFollows' /\ NoForeignBytes' /\ Downloaded'
      BY <2>1, <3>2, <3>3, RestTaken
    <3>6. HandlerKeeps'
      BY <1>1, <3>1, <3>2 DEF HandlerKeeps, Closing, ImageInv, SketchKeeps
    <3>7. ImageParts'
      BY <2>1, <3>2, ImageTaken
    <3>8. LineShaped'
      BY TakenLine
    <3>9. QED
      BY <3>4, <3>5, <3>6, <3>7, <3>8 DEF ImageInv, ImageParts
  <2>4. QED
    BY <2>2, <2>3
<1>7. CASE TakeHeadDone
  <2>1. Line[1].id = "HEAD_DONE" /\ UNCHANGED <<state, heap>>
    BY <1>1, <1>7 DEF TakeHeadDone, Receive
  <2>2. CASE Line[1].gen # generation \/ ~Receiving
    <3>1. ota' = Waiting /\ UNCHANGED fota
      BY <1>1, <1>7, <2>2 DEF TakeHeadDone
    <3>2. BodiesApart' /\ CopiesHeld'
      BY <1>1, <1>2, <2>1, <3>1, CopiesTaken
    <3>3. QED
      BY <1>1, <2>1, <2>2, <3>1, <3>2, ImageDropped DEF ImageInv, ImageParts
  <2>3. CASE ~(Line[1].gen # generation \/ ~Receiving) /\ http = 0
    <3>1. ota' = [Task("detach", Line[1]) EXCEPT !.outcome = "INTERNAL"] /\ FotaEnd0
      BY <1>1, <1>7, <2>3 DEF TakeHeadDone
    <3>2. ota'.pc = "detach" /\ ota'.gen = Line[1].gen /\ ota'.http = 0 /\ ota'.outcome = "INTERNAL"
      BY <3>1 DEF Task
    <3>3. BodiesApart' /\ CopiesHeld'
      BY <1>1, <2>1, <3>2, CopiesTaken
    <3>4. QED
      BY <2>1, <3>1, <3>2, <3>3, ImageFails DEF ImageInv, ImageParts
  <2>4. CASE ~(Line[1].gen # generation \/ ~Receiving) /\ http # 0
    <3>1. ota' = [Task("head", Line[1]) EXCEPT !.http = http] /\ UNCHANGED fota
      BY <1>1, <1>7, <2>4 DEF TakeHeadDone
    <3>2. ota'.pc = "head" /\ ota'.gen = generation /\ ota'.http = http
      BY <2>4, <3>1 DEF Task
    <3>3. BodiesApart' /\ CopiesHeld'
      BY <1>1, <2>1, <3>2, CopiesTaken
    <3>4. LineOrdered' /\ ClientsCounted' /\ SketchKeeps' /\ WriterFollows' /\ NoForeignBytes' /\ Downloaded'
      BY <1>1, <2>1, <2>4, <3>1, <3>2, RestTaken
    <3>5. HandlerKeeps'
      <4>1. generation # 0
        BY <2>4 DEF ImageInv, SketchKeeps, Receiving
      <4>2. QED
        BY <1>1, <2>1, <2>4, <3>2, <4>1 DEF HandlerKeeps, Closing, Receiving
    <3>6. ImageParts'
      BY <2>1, <3>1, <3>2, ImageTaken
    <3>7. LineShaped'
      BY TakenLine
    <3>8. QED
      BY <3>3, <3>4, <3>5, <3>6, <3>7 DEF ImageInv, ImageParts
  <2>5. QED
    BY <2>2, <2>3, <2>4
<1>8. CASE TakeHttpError
  <2>1. /\ Line[1].id = "HTTP_ERROR" /\ UNCHANGED <<state, heap>> /\ FotaEnd0
        /\ ota' = [Task("detach", Line[1]) EXCEPT !.outcome = Line[1].err]
    BY <1>1, <1>8 DEF TakeHttpError, Receive
  <2>2. ota'.pc = "detach" /\ ota'.gen = Line[1].gen /\ ota'.http = 0 /\ ota'.outcome = Line[1].err
    BY <2>1 DEF Task
  <2>3. BodiesApart' /\ CopiesHeld'
    BY <1>1, <2>1, <2>2, CopiesTaken
  <2>4. Line[1].err \in {"INTERNAL", "DOWNLOAD_FAILED"}
    BY <1>1, <2>1 DEF EventShaped
  <2>5. QED
    BY <2>1, <2>2, <2>3, <2>4, ImageFails DEF ImageInv, ImageParts
<1>9. CASE TakeBodyDone
  <2>1. Line[1].id = "BODY_DONE" /\ UNCHANGED <<heap, fota>>
    BY <1>1, <1>9 DEF TakeBodyDone, Receive
  <2>2. CASE Line[1].gen # generation \/ ~HttpStatusOk \/ ~Receiving
    <3>1. ota' = Waiting /\ UNCHANGED state
      BY <1>1, <1>9, <2>2 DEF TakeBodyDone
    <3>2. BodiesApart' /\ CopiesHeld'
      BY <1>1, <1>2, <2>1, <3>1, CopiesTaken
    <3>3. Intact /\ Own(1) => ~Receiving
      BY <1>1, <1>5, <2>1, <2>2
    <3>4. QED
      BY <2>1, <3>1, <3>2, <3>3, ImageDropped DEF ImageInv, ImageParts
  <2>3. CASE ~(Line[1].gen # generation \/ ~HttpStatusOk \/ ~Receiving)
    <3>1. state' = "VERIFYING" /\ ota' = Task("verify", Line[1])
      BY <1>1, <1>9, <2>3 DEF TakeBodyDone
    <3>2. ota'.pc = "verify" /\ ota'.gen = generation /\ ota'.http = 0
      BY <2>3, <3>1 DEF Task
    <3>3. Own(1)
      BY <1>1, <2>1, <2>3 DEF ImageInv, LineOrdered, Old, Own, HttpStatusOk
    <3>4. Line[1].src = generation /\ client[generation].sent = Chunks /\ client[generation].phase \in {"ended", "destroyed"}
      BY <1>1, <2>1, <3>3 DEF Own, EventShaped
    <3>5. Line' = <<>>
      <4>1. Len(Line) = 1
        BY <1>1, <2>1, <3>3 DEF ImageInv, LineOrdered
      <4>2. Len(Line') = 0 /\ Line' \in Seq(Events)
        <5>1. queue # <<>> /\ queue' = Tail(queue)
          BY <1>9 DEF TakeBodyDone, Receive
        <5>2. Len(Line') = Len(Line) - 1
          BY <1>1, <5>1, LineTaken
        <5>3. QED
          BY <4>1, <5>2, LineIsNext DEF LineForm
      <4>3. QED
        BY <4>2
    <3>6. BodiesApart' /\ CopiesHeld'
      BY <1>1, <2>1, <3>2, CopiesTaken
    <3>7. LineOrdered' /\ ClientsCounted' /\ SketchKeeps' /\ WriterFollows' /\ NoForeignBytes' /\ Downloaded'
      BY <2>1, <2>3, <3>1, <3>2, <3>4, <3>5, RestTaken
    <3>8. HandlerKeeps'
      <4>1. generation # 0 /\ http # 0
        BY <1>1, <2>3 DEF ImageInv, SketchKeeps, WriterFollows, Receiving, HttpStatusOk, Closing
      <4>2. QED
        BY <1>1, <3>1, <3>2, <4>1 DEF HandlerKeeps, Closing
    <3>9. Intact => Written = Chunks
      <4> SUFFICES ASSUME Intact PROVE Written = Chunks
        OBVIOUS
      <4>1. Written \in Nat /\ Written <= Chunks /\ Chunks \in Nat
        BY <1>3, <3>4, OtaAssumption DEF ImageInv, InOrder, OtaAssumption
      <4>2. ASSUME Written < Chunks PROVE FALSE
        <5>1. Written + 1 \in Written + 1 .. client[generation].sent
          BY <3>4, <4>1, <4>2
        <5>2. Covered(Written + 1)
          BY <1>3, <2>3, <5>1 DEF ImageInv, NoneMissing
        <5>3. After(1, Written + 1)
          BY <2>1, <3>3 DEF After
        <5>4. PICK p \in Places : p <= 1 /\ (Line[p].body = <<generation, Written + 1>> \/ Line[p].id = "HTTP_ERROR")
          BY <1>1, <5>2, <5>3 DEF Covered
        <5>5. p = 1
          BY <5>4, LineIs DEF LineForm
        <5>6. Line[1].body = NoBody /\ <<generation, Written + 1>> # NoBody
          BY <1>1, <2>1 DEF EventShaped, NoBody, Intact
        <5>7. QED
          BY <2>1, <5>4, <5>5, <5>6
      <4>3. QED
        BY <4>1, <4>2
    <3>10. ImageParts'
      <4>1. ~Receiving'
        BY <3>1 DEF Receiving
      <4>2. QED
        BY <2>1, <2>3, <3>1, <3>2, <3>9, <4>1, ImageTaken
    <3>11. LineShaped'
      BY TakenLine
    <3>12. QED
      BY <3>6, <3>7, <3>8, <3>10, <3>11 DEF ImageInv, ImageParts
  <2>4. QED
    BY <2>2, <2>3
<1>10. CASE TakeBodyData
  <2>1. Line[1].id = "BODY_DATA" /\ UNCHANGED fota
    BY <1>1, <1>10 DEF TakeBodyData, Receive
  <2>2. \A i \in Places' : /\ i \in Nat /\ i + 1 \in Places /\ i + 1 # 1 /\ Line'[i] = Line[i + 1]
                           /\ Own(i)' = Own(i + 1) /\ Old(i)' = Old(i + 1) /\ Heads(i)' = Heads(i + 1)
    BY TakenLine
  <2>3. \A i \in Places : i \in Nat /\ (i = 1 \/ i - 1 \in Places')
    BY TakenLine
  <2>4. Line[1].body # NoBody /\ Line[1].body[1] = Line[1].src /\ Line[1].body \in heap
    BY <1>1, <2>1 DEF EventShaped, ImageInv, CopiesHeld
  <2>5. \A i \in Places' : Line'[i].body # Line[1].body
    BY <1>1, <2>2, <2>4 DEF ImageInv, BodiesApart
  <2>6. \A i, j \in Places' : Line'[i].body # NoBody /\ Line'[i].body = Line'[j].body => i = j
    <3> SUFFICES ASSUME NEW i \in Places', NEW j \in Places', Line'[i].body # NoBody, Line'[i].body = Line'[j].body PROVE i = j
      OBVIOUS
    <3>1. i + 1 = j + 1
      BY <2>2 DEF ImageInv, BodiesApart
    <3>2. QED
      BY <2>2, <3>1
  <2>7. ASSUME NEW b \in heap, b # Line[1].body PROVE (\E i \in Places' : Line'[i].body = b) \/ b[1] \in lost
    <3>1. (\E i \in Places : Line[i].body = b) \/ b[1] \in lost
      BY <1>1 DEF ImageInv, CopiesHeld
    <3>2. ASSUME NEW i \in Places, Line[i].body = b PROVE \E j \in Places' : Line'[j].body = b
      <4>1. i - 1 \in Places' /\ (i - 1) + 1 = i
        BY <2>3, <2>7, <3>2
      <4>2. Line'[i - 1] = Line[i]
        BY <2>2, <4>1
      <4>3. QED
        BY <3>2, <4>1, <4>2
    <3>3. QED
      BY <3>1, <3>2
  <2>8. CASE ~(Line[1].gen = generation /\ Receiving /\ HttpStatusOk)
    <3>1. ota' = Waiting /\ UNCHANGED state /\ heap' = heap \ {Line[1].body}
      BY <1>1, <1>10, <2>8 DEF TakeBodyData
    <3>2. Intact /\ Own(1) => ~Receiving
      BY <1>1, <1>5, <2>1, <2>8
    <3>3. BodiesApart'
      BY <1>1, <1>2, <2>6, <3>1 DEF ImageInv, BodiesApart
    <3>4. CopiesHeld'
      <4>1. \A i \in Places' : Line'[i].body # NoBody => Line'[i].body \in heap'
        BY <2>2, <2>5, <3>1 DEF ImageInv, CopiesHeld
      <4>2. QED
        BY <1>1, <1>2, <2>7, <3>1, <4>1 DEF CopiesHeld
    <3>5. QED
      BY <2>1, <3>1, <3>2, <3>3, <3>4, ImageDropped DEF ImageInv, ImageParts
  <2>9. CASE Line[1].gen = generation /\ Receiving /\ HttpStatusOk
    <3>1. state' = "DOWNLOADING" /\ ota' = Task("write", Line[1]) /\ UNCHANGED heap
      BY <1>1, <1>10, <2>9 DEF TakeBodyData
    <3>2. ota'.pc = "write" /\ ota'.gen = generation /\ ota'.http = 0 /\ ota'.body = Line[1].body
      BY <2>9, <3>1 DEF Task
    <3>3. Own(1)
      BY <1>1, <2>1, <2>9 DEF ImageInv, LineOrdered, Old, Own, HttpStatusOk
    <3>4. Line[1].src = generation /\ Line[1].body[1] = generation
      BY <2>4, <3>3 DEF Own
    <3>5. LineOrdered' /\ ClientsCounted' /\ SketchKeeps' /\ WriterFollows' /\ NoForeignBytes' /\ Downloaded'
      BY <2>1, <2>9, <3>1, <3>2, RestTaken
    <3>6. HandlerKeeps'
      <4>1. generation # 0
        BY <2>9 DEF ImageInv, SketchKeeps, Receiving
      <4>2. QED
        BY <1>1, <2>9, <3>1, <3>2, <4>1 DEF HandlerKeeps, Closing, HttpStatusOk
    <3>7. BodiesApart'
      BY <1>1, <2>4, <2>5, <2>6, <3>1, <3>2, <3>4 DEF ImageInv, BodiesApart
    <3>8. CopiesHeld'
      <4>1. \A i \in Places' : Line'[i].body # NoBody => Line'[i].body \in heap'
        BY <2>2, <3>1 DEF ImageInv, CopiesHeld
      <4>2. QED
        BY <1>1, <2>4, <2>7, <3>1, <3>2, <4>1 DEF CopiesHeld
    <3>9. ImageParts'
      <4>1. CASE Intact
        <5> DEFINE w == Len(fota.written)
        <5>1. w \in Nat /\ Written = w /\ Written' = w + 1
          BY <1>3, <2>1, <3>2 DEF Written
        <5>2. generation \in Gens /\ client[generation].sent \in Nat
          BY <4>1, RestValues, OtaAssumption DEF TypeOK, Gens, Intact, Clients, OtaAssumption
        <5>3. /\ Line[1].body \in Bodies /\ Line[1].body[2] \in Nat /\ Line[1].body[2] <= client[generation].sent
              /\ Line[1].body = <<generation, Line[1].body[2]>>
          BY <2>4, <3>4, OtaAssumption DEF TypeOK, Bodies, ImageInv, BodiesApart, OtaAssumption
        <5>4. Line[1].body[2] > w
          BY <1>1, <2>1, <3>3, <4>1, <5>1 DEF ImageInv, InOrder
        <5>5. Line[1].body[2] = w + 1
          <6> SUFFICES ASSUME Line[1].body[2] > w + 1 PROVE FALSE
            BY <5>1, <5>3, <5>4
          <6>1. w + 1 \in w + 1 .. client[generation].sent
            BY <5>1, <5>2, <5>3, <5>4
          <6>2. Covered(w + 1)
            BY <1>3, <2>9, <4>1, <5>1, <6>1 DEF ImageInv, NoneMissing
          <6>3. After(1, w + 1)
            BY <2>1, <3>3 DEF After
          <6>4. PICK p \in Places : p <= 1 /\ (Line[p].body = <<generation, w + 1>> \/ Line[p].id = "HTTP_ERROR")
            BY <1>1, <6>2, <6>3 DEF Covered
          <6>5. p = 1
            BY <6>4, LineIs DEF LineForm
          <6>6. Line[1].body[2] = w + 1
            BY <2>1, <6>4, <6>5
          <6>7. QED
            BY <5>1, <6>6
        <5>6. Intact' = Intact /\ generation' = generation /\ client' = client
          BY <1>1, <2>1 DEF Intact
        <5>7. ASSUME NEW i \in Places', Own(i)', Line'[i].id = "BODY_DATA" PROVE Line'[i].body[2] > w + 1
          <6>1. Own(i + 1) /\ Line[i + 1].id = "BODY_DATA" /\ i + 1 \in Places
            BY <2>2, <5>7
          <6>2. Line[i + 1].body[2] > w
            BY <4>1, <5>1, <6>1 DEF ImageInv, InOrder
          <6>3. Line[i + 1].body \in Bodies /\ Line[i + 1].body[1] = generation
            BY <6>1 DEF ImageInv, LineShaped, EventShaped, CopiesHeld, TypeOK, Own
          <6>4. Line[i + 1].body # Line[1].body
            BY <2>2, <2>5
          <6>5. Line[i + 1].body[2] # w + 1 /\ Line[i + 1].body[2] \in Nat
            BY <5>3, <5>5, <6>3, <6>4, OtaAssumption DEF Bodies, OtaAssumption
          <6>6. QED
            BY <2>2, <5>1, <6>2, <6>5
        <5>8. InOrder'
          BY <2>1, <3>2, <4>1, <5>1, <5>2, <5>3, <5>5, <5>6, <5>7 DEF ImageInv, InOrder
        <5>9. NoneMissing'
          <6> SUFFICES ASSUME NEW n \in w + 2 .. client[generation].sent PROVE Covered(n)'
            BY <5>1, <5>6 DEF NoneMissing
          <6>1. n \in w + 1 .. client[generation].sent /\ n # w + 1 /\ n \in Nat
            BY <5>1, <5>2
          <6>2. Covered(n)
            BY <1>3, <2>9, <4>1, <5>1, <6>1 DEF ImageInv, NoneMissing
          <6>3. PICK p \in Places : /\ Own(p) /\ (Line[p].body = <<generation, n>> \/ Line[p].id = "HTTP_ERROR")
                                    /\ \A q \in Places : After(q, n) => p <= q
            BY <6>2 DEF Covered
          <6>4. p # 1
            BY <2>1, <5>3, <5>5, <6>1, <6>3
          <6>5. p - 1 \in Places' /\ p \in Nat /\ (p - 1) + 1 = p
            BY <2>3, <6>4
          <6>6. Own(p - 1)' /\ Line'[p - 1] = Line[p]
            BY <2>2, <6>3, <6>5
          <6>7. ASSUME NEW q \in Places', After(q, n)' PROVE p - 1 <= q
            <7>1. After(q + 1, n) /\ q + 1 \in Places /\ q \in Nat
              BY <2>2, <6>7 DEF After
            <7>2. p <= q + 1
              BY <6>3, <7>1
            <7>3. QED
              BY <6>5, <7>1, <7>2
          <6>8. QED
            BY <5>6, <6>3, <6>5, <6>6, <6>7 DEF Covered
        <5>10. HeaderFirst' /\ AllWritten'
          BY <1>1, <2>9, <3>1 DEF HeaderFirst, AllWritten, HttpStatusOk
        <5>11. QED
          BY <5>8, <5>9, <5>10 DEF ImageParts
      <4>2. CASE ~Intact
        <5>1. ~Intact'
          BY <1>1, <2>1, <4>2 DEF Intact
        <5>2. QED
          BY <5>1 DEF ImageParts, InOrder, NoneMissing, HeaderFirst, AllWritten
      <4>3. QED
        BY <4>1, <4>2
    <3>10. LineShaped'
      BY TakenLine
    <3>11. QED
      BY <3>5, <3>6, <3>7, <3>8, <3>9, <3>10 DEF ImageInv, ImageParts
  <2>10. QED
    BY <2>8, <2>9
<1>11. QED
  BY <1>6, <1>7, <1>8, <1>9, <1>10 DEF OtaTake

-----------------------------------------------------------------------------
(* START *)

\* Steps of START: the session has no events yet and no header.
LEMMA ImageStart == TypeOK /\ TypeOK' /\ SessionInv /\ OwnInv /\ ImageInv /\ OtaStart => ImageInv'
<1> SUFFICES ASSUME TypeOK, TypeOK', SessionInv, OwnInv, ImageInv, OtaStart PROVE ImageInv'
  OBVIOUS
<1>1. /\ ota.pc \in StartSteps /\ ota \in Locals /\ fota \in Writers
      /\ UNCHANGED <<queue, cb, api, heap, lost, state, generation, httpStatusCode, downloadedBytes>>
  BY DEF OtaStart, StartFotaInit, StartCreateClient, StartConfigure, StartPublish, StartLaunch, session,
     StartSteps, TypeOK
<1>2. ota.gen # 0 /\ ota.gen = generation /\ state = "STARTING" /\ ~BeginInProgress
  BY <1>1 DEF OwnInv, Numbered, SessionInv, HandlerHoldsSession
<1>3. generation \in Gens /\ generation \in Nat
  BY <1>1, <1>2, RestValues DEF Locals, Gens
<1>4. ~HttpStatusOk /\ Receiving /\ ~Failing /\ ~Closing
  BY <1>1, <1>2 DEF ImageInv, SketchKeeps, Receiving, Failing, Closing, StartSteps
<1>5. Line' = Line
  BY <1>1, LineSame
<1>6. \A i \in 1 .. Len(queue) : ~StartsAt(i)
  BY <1>1 DEF OwnInv, StartsOnce
<1>7. ota.http \in {0, generation} /\ (ota.http # 0 => Live(generation)) /\ client \in [Gens -> Clients]
  BY DEF ImageInv, ClientsCounted, OwnInv, Alive, TypeOK
\* Where the task goes and what it does to the client and to the writer.
<1>8. /\ ota'.pc \in {"create", "configure", "publish", "launch", "recv", "detach"}
      /\ ota'.pc # "recv" => ota'.gen = generation
      /\ ota'.pc = "detach" => ota'.outcome \in {"INTERNAL", "DOWNLOAD_FAILED"}
      /\ ota'.http \in {0, generation} /\ http' \in {http, ota.http}
  <2> USE <1>1, <1>2, <1>7 DEF StartSteps, Locals, Goto, FinalizeFailure, Waiting
  <2>1. CASE StartFotaInit
    BY <2>1 DEF StartFotaInit
  <2>2. CASE StartCreateClient
    BY <2>2 DEF StartCreateClient
  <2>3. CASE StartConfigure
    BY <2>3 DEF StartConfigure
  <2>4. CASE StartPublish
    BY <2>4 DEF StartPublish
  <2>5. CASE StartLaunch
    <3>1. ota' = Waiting \/ ota' = [ota EXCEPT !.pc = "detach", !.outcome = "DOWNLOAD_FAILED"]
      BY <2>5 DEF StartLaunch
    <3>2. UNCHANGED http
      BY <2>5 DEF StartLaunch
    <3>3. CASE ota' = Waiting
      BY <3>2, <3>3
    <3>4. CASE ota' = [ota EXCEPT !.pc = "detach", !.outcome = "DOWNLOAD_FAILED"]
      BY <3>2, <3>4
    <3>5. QED
      BY <3>1, <3>3, <3>4
  <2>6. QED
    BY <2>1, <2>2, <2>3, <2>4, <2>5 DEF OtaStart
<1>9. \A h \in Gens : /\ h # generation => client'[h] = client[h]
                      /\ client'[h].sent = client[h].sent
                      /\ client'[h].phase = "body" => client[h].phase = "body"
                      /\ client[h].phase # "none" => client'[h].phase # "none"
                      /\ client[h].phase \in {"ended", "destroyed"} => client'[h].phase \in {"ended", "destroyed"}
                      /\ client'[h].phase = "none" => client'[h].sent = 0
  <2>1. CASE UNCHANGED client
    BY <2>1 DEF ImageInv, ClientsCounted
  <2>2. CASE ota.pc = "create" /\ client' = [client EXCEPT ![ota.gen] = [NoClient EXCEPT !.phase = "created"]]
    <3>1. client[generation].phase = "none" /\ client[generation].sent = 0
      BY <1>3, <2>2 DEF ImageInv, ClientsCounted
    <3>2. client'[generation].phase = "created" /\ client'[generation].sent = 0
      BY <1>2, <1>3, <1>7, <2>2 DEF NoClient
    <3>3. \A h \in Gens : h # generation => client'[h] = client[h]
      BY <1>2, <1>7, <2>2
    <3>4. QED
      BY <3>1, <3>2, <3>3 DEF ImageInv, ClientsCounted
  <2>3. ASSUME NEW p \in {"head", "destroyed"}, ota.http # 0, client' = [client EXCEPT ![ota.http].phase = p],
               p = "head" => client[ota.http].phase \notin {"ended", "destroyed"}
        PROVE  \A h \in Gens : /\ h # generation => client'[h] = client[h]
                               /\ client'[h].sent = client[h].sent
                               /\ client'[h].phase = "body" => client[h].phase = "body"
                               /\ client[h].phase # "none" => client'[h].phase # "none"
                               /\ client[h].phase \in {"ended", "destroyed"} => client'[h].phase \in {"ended", "destroyed"}
                               /\ client'[h].phase = "none" => client'[h].sent = 0
    <3>1. ota.http = generation
      BY <1>7, <2>3
    <3>2. client[generation] \in Clients
      BY <1>3, <1>7
    <3>3. client'[generation].phase = p /\ client'[generation].sent = client[generation].sent
      BY <1>3, <1>7, <2>3, <3>1, <3>2 DEF Clients
    <3>4. \A h \in Gens : h # generation => client'[h] = client[h]
      BY <1>7, <2>3, <3>1
    <3>5. QED
      BY <2>3, <3>1, <3>3, <3>4 DEF ImageInv, ClientsCounted
  <2>4. ota.pc \in {"configure", "publish", "launch"} => ota.http # 0
    BY DEF OwnInv, HandleFollows
  <2>5. ota.pc = "launch" => client[ota.http].phase = "created"
    BY <1>7, <2>4 DEF ImageInv, ClientsCounted
  <2>6. CASE StartFotaInit
    BY <2>1, <2>6 DEF StartFotaInit
  <2>7. CASE StartCreateClient
    BY <2>1, <2>2, <2>7 DEF StartCreateClient
  <2>8. CASE StartConfigure
    BY <2>1, <2>3, <2>4, <2>8 DEF StartConfigure, DestroyLocalClient
  <2>9. CASE StartPublish
    BY <2>1, <2>3, <2>4, <2>9 DEF StartPublish, DestroyLocalClient
  <2>10. CASE StartLaunch
    <3>1. UNCHANGED client \/ client' = [client EXCEPT ![ota.http].phase = "head"]
      BY <2>10 DEF StartLaunch
    <3>2. ota.pc = "launch"
      BY <2>10 DEF StartLaunch
    <3>3. QED
      BY <2>1, <2>3, <2>4, <2>5, <3>1, <3>2
  <2>11. QED
    BY <2>6, <2>7, <2>8, <2>9, <2>10 DEF OtaStart
<1>10. Onward
  BY <1>9 DEF Onward
<1>11. LineShaped' /\ BodiesApart' /\ CopiesHeld'
  BY <1>1, <1>5, <1>8, <1>9, <1>10, ShapedKept, ApartKept, CopiesKept DEF ImageInv, LineShaped, StartSteps
<1>12. LineOrdered'
  BY <1>1, <1>2, <1>5, <1>8, OrderedKept DEF ImageInv, LineOrdered
\* The writer: opened for this session, ended with a failure, or as it was.
<1>13. \/ /\ ota.pc = "fota_init" /\ ota'.pc = "create" /\ UNCHANGED <<client, http>> /\ ota'.http = ota.http
          /\ fota'.open /\ fota'.owner = generation /\ fota'.written = <<>>
       \/ /\ fota'.owner = fota.owner /\ fota'.written = fota.written /\ fota'.committed = fota.committed
          /\ fota'.open = fota.open \/ ota'.pc = "detach"
          /\ ota'.pc # "create"
          /\ ota'.pc \in {"configure", "publish"} => ota.pc \in {"create", "configure"}
  <2>1. ASSUME FotaEnd0 PROVE fota'.owner = fota.owner /\ fota'.written = fota.written /\ fota'.committed = fota.committed
    BY <1>1, <2>1 DEF FotaEnd0, Writers
  <2>2. ASSUME NEW err, NEW endFota, FinalizeFailure(err, endFota)
        PROVE  /\ ota'.pc = "detach" /\ fota'.owner = fota.owner /\ fota'.written = fota.written
               /\ fota'.committed = fota.committed
    <3>1. ota'.pc = "detach"
      BY <1>1, <2>2 DEF FinalizeFailure, Locals
    <3>2. FotaEnd0 \/ UNCHANGED fota
      BY <2>2 DEF FinalizeFailure
    <3>3. QED
      BY <2>1, <3>1, <3>2
  <2>3. ASSUME NEW pc, Goto(pc) PROVE ota'.pc = pc /\ ota'.http = ota.http
    BY <1>1, <2>3 DEF Goto, Locals
  <2>4. CASE StartFotaInit
    <3>1. CASE fota' = [NoFota EXCEPT !.open = TRUE, !.owner = ota.gen] /\ Goto("create")
      BY <1>2, <2>3, <2>4, <3>1 DEF StartFotaInit, NoFota
    <3>2. CASE FinalizeFailure("INTERNAL", FALSE)
      BY <2>2, <2>4, <3>2 DEF StartFotaInit
    <3>3. QED
      BY <2>4, <3>1, <3>2 DEF StartFotaInit
  <2>5. CASE StartCreateClient
    <3>1. CASE ota' = [ota EXCEPT !.pc = "configure", !.http = ota.gen] /\ UNCHANGED fota
      BY <1>1, <2>5, <3>1 DEF StartCreateClient, Locals
    <3>2. CASE FinalizeFailure("INTERNAL", TRUE)
      BY <2>2, <2>5, <3>2 DEF StartCreateClient
    <3>3. QED
      BY <2>5, <3>1, <3>2 DEF StartCreateClient
  <2>6. CASE StartConfigure
    <3>1. CASE Goto("publish") /\ UNCHANGED fota
      BY <2>3, <2>6, <3>1 DEF StartConfigure
    <3>2. CASE FotaEnd0 /\ ota' = [ota EXCEPT !.pc = "detach", !.http = 0, !.outcome = "INTERNAL"]
      BY <1>1, <2>1, <2>6, <3>2 DEF StartConfigure, Locals
    <3>3. QED
      BY <2>6, <3>1, <3>2 DEF StartConfigure
  <2>7. CASE StartPublish
    BY <1>2, <2>3, <2>7 DEF StartPublish
  <2>8. CASE StartLaunch
    <3>1. UNCHANGED http /\ ota.pc = "launch"
      BY <2>8 DEF StartLaunch
    <3>2. CASE ota' = Waiting /\ UNCHANGED fota
      BY <3>1, <3>2 DEF Waiting
    <3>3. CASE FinalizeFailure("DOWNLOAD_FAILED", TRUE)
      BY <2>2, <3>1, <3>3
    <3>4. QED
      BY <2>8, <3>2, <3>3 DEF StartLaunch
  <2>9. QED
    BY <2>4, <2>5, <2>6, <2>7, <2>8 DEF OtaStart
<1>14. ota'.pc \in {"configure", "publish", "launch"} => client'[generation].phase = "created"
  <2>1. ASSUME NEW pc, Goto(pc) PROVE ota'.pc = pc
    BY <1>1, <2>1 DEF Goto, Locals
  <2>2. ASSUME NEW err, NEW endFota, FinalizeFailure(err, endFota) PROVE ota'.pc = "detach"
    BY <1>1, <2>2 DEF FinalizeFailure, Locals
  <2>3. CASE StartFotaInit
    BY <2>1, <2>2, <2>3 DEF StartFotaInit
  <2>4. CASE StartCreateClient
    <3>1. CASE client' = [client EXCEPT ![ota.gen] = [NoClient EXCEPT !.phase = "created"]]
      BY <1>2, <1>3, <1>7, <3>1 DEF NoClient
    <3>2. CASE FinalizeFailure("INTERNAL", TRUE)
      BY <2>2, <3>2
    <3>3. QED
      BY <2>4, <3>1, <3>2 DEF StartCreateClient
  <2>5. CASE StartConfigure
    <3>1. CASE Goto("publish") /\ UNCHANGED client
      BY <2>5, <3>1 DEF StartConfigure, ImageInv, ClientsCounted
    <3>2. CASE ota' = [ota EXCEPT !.pc = "detach", !.http = 0, !.outcome = "INTERNAL"]
      BY <1>1, <3>2 DEF Locals
    <3>3. QED
      BY <2>5, <3>1, <3>2 DEF StartConfigure
  <2>6. CASE StartPublish
    BY <1>2, <2>6 DEF StartPublish, ImageInv, ClientsCounted
  <2>7. CASE StartLaunch
    <3>1. CASE ota' = Waiting
      BY <3>1 DEF Waiting
    <3>2. CASE FinalizeFailure("DOWNLOAD_FAILED", TRUE)
      BY <2>2, <3>2
    <3>3. QED
      BY <2>7, <3>1, <3>2 DEF StartLaunch
  <2>8. QED
    BY <2>3, <2>4, <2>5, <2>6, <2>7 DEF OtaStart
<1>15. ClientsCounted'
  <2>1. \A h \in Gens : client'[h].phase = "none" => client'[h].sent = 0
    BY <1>9
  <2>2. \A h \in Gens : h > generation => client'[h].phase = "none"
    <3> SUFFICES ASSUME NEW h \in Gens, h > generation PROVE client'[h].phase = "none"
      OBVIOUS
    <3>1. h # generation
      BY <1>3
    <3>2. QED
      BY <1>9, <3>1 DEF ImageInv, ClientsCounted
  <2>3. ota'.pc = "create" => client'[generation].phase = "none"
    BY <1>13 DEF ImageInv, ClientsCounted
  <2>4. ~BeginInProgress' /\ \A i \in 1 .. Len(queue') : ~StartsAt(i)'
    BY <1>1, <1>2, <1>6 DEF BeginInProgress, StartsAt
  <2>5. http' \in {0, generation}
    BY <1>7, <1>8 DEF ImageInv, ClientsCounted
  <2>6. ota'.pc # "fota_init"
    BY <1>8
  <2>7. QED
    BY <1>1, <1>8, <1>14, <2>1, <2>2, <2>3, <2>4, <2>5, <2>6 DEF ClientsCounted
<1>16. HandlerKeeps'
  BY <1>1, <1>2, <1>8 DEF HandlerKeeps, Closing, Lifecycle!SessionErrors
<1>17. SketchKeeps'
  BY <1>1, <1>2, <1>4 DEF ImageInv, SketchKeeps, BeginInProgress, HttpStatusOk
<1>18. WriterFollows'
  <2>1. fota'.owner <= generation'
    BY <1>1, <1>3, <1>13 DEF ImageInv, WriterFollows
  <2>2. http # 0 => ota.pc = "launch" /\ ota.http = http /\ http' = http
    BY <1>1, <1>8 DEF OwnInv, HandleFollows, StartSteps
  <2>3. http' # 0 /\ ota'.pc # "detach" => fota'.open /\ fota'.owner = generation
    <3>1. CASE ota.pc = "fota_init" /\ fota'.open /\ fota'.owner = generation
      BY <3>1
    <3>2. CASE ota'.pc # "detach" /\ ~(ota.pc = "fota_init" /\ fota'.open /\ fota'.owner = generation)
      <4>1. fota'.open = fota.open /\ fota'.owner = fota.owner
        BY <1>13, <3>2
      <4>2. http' # 0 => http # 0 \/ ota.http # 0
        BY <1>8
      <4>3. ota.http # 0 => ota.pc \in {"configure", "publish", "launch"}
        BY <1>1 DEF OwnInv, HandleFollows, StartSteps
      <4>4. http' # 0 => ota.pc \in {"configure", "publish"} \/ (ota.pc = "launch" /\ http # 0)
        BY <2>2, <4>2, <4>3 DEF OwnInv, HandleFollows
      <4>5. QED
        BY <4>1, <4>4 DEF ImageInv, WriterFollows
    <3>3. QED
      BY <3>1, <3>2
  <2>4. ota'.pc \in {"create", "configure", "publish"} => fota'.open /\ fota'.owner = generation
    BY <1>13 DEF ImageInv, WriterFollows
  <2>5. httpStatusCode # "none" => http' # 0
    BY <1>4, <2>2 DEF ImageInv, WriterFollows
  <2>6. QED
    BY <1>1, <2>1, <2>3, <2>4, <2>5 DEF WriterFollows
<1>19. NoForeignBytes' /\ Downloaded' /\ ImageParts'
  <2>1. CASE /\ ota.pc = "fota_init" /\ ota'.pc = "create" /\ UNCHANGED <<client, http>>
             /\ fota'.owner = generation /\ fota'.written = <<>>
    <3>1. client[generation].phase = "none" /\ client[generation].sent = 0 /\ fota.owner # generation
      BY <1>3, <2>1 DEF ImageInv, ClientsCounted
    <3>2. \A i \in Places : ~Own(i)
      BY <3>1 DEF ImageInv, LineShaped, EventShaped, Own
    <3>3. \A i \in Places' : ~Own(i)'
      BY <1>1, <1>5, <3>2 DEF Places, Own
    <3>4. Written' = 0 /\ Len(fota'.written) = 0
      BY <2>1 DEF Written
    <3>5. InOrder'
      BY <1>1, <2>1, <3>1, <3>3, <3>4 DEF InOrder
    <3>6. NoneMissing'
      BY <1>1, <2>1, <3>1, <3>4 DEF NoneMissing
    <3>7. HeaderFirst' /\ AllWritten'
      BY <1>1, <1>2, <2>1, <3>1, <3>3 DEF HeaderFirst, AllWritten
    <3>8. NoForeignBytes'
      BY <3>4 DEF NoForeignBytes
    <3>9. Downloaded'
      BY <1>1, <1>2, <2>1, <3>1, <3>4 DEF ImageInv, Downloaded
    <3>10. QED
      BY <3>5, <3>6, <3>7, <3>8, <3>9 DEF ImageParts
  <2>2. CASE /\ fota'.owner = fota.owner /\ fota'.written = fota.written /\ fota'.committed = fota.committed
    <3>1. ota.pc \notin {"write", "account", "head"} /\ ota'.pc \notin {"write", "account", "head"}
      BY <1>1, <1>8 DEF StartSteps
    <3>2. Intact' = Intact /\ Written' = Written /\ HttpStatusOk' = HttpStatusOk
      BY <1>1, <2>2, <3>1 DEF Intact, Written, HttpStatusOk
    <3>3. state' \notin {"VERIFYING", "STAGED", "APPLYING"}
      BY <1>1, <1>2
    <3>4. ImageParts'
      BY <1>1, <1>3, <1>4, <1>5, <1>9, <2>2, <3>1, <3>2, <3>3, ImageStays DEF ImageInv, ImageParts
    <3>5. NoForeignBytes'
      BY <2>2 DEF ImageInv, NoForeignBytes
    <3>6. Downloaded'
      BY <1>1, <2>2, <3>1 DEF ImageInv, Downloaded
    <3>7. QED
      BY <3>4, <3>5, <3>6
  <2>3. QED
    BY <1>13, <2>1, <2>2
<1>20. QED
  BY <1>11, <1>12, <1>15, <1>16, <1>17, <1>18, <1>19 DEF ImageInv, ImageParts

-----------------------------------------------------------------------------
(* The other handlers *)

\* A handler's step leaves the line and the clients' counts; a client it lets go of
\* is destroyed.
LEMMA HandlerLine ==
  ASSUME TypeOK, SessionInv, OwnInv, ImageInv, OtaTask, ~OtaTake, ~OtaStart
  PROVE  /\ UNCHANGED <<queue, cb, generation, api, lost>> /\ Line' = Line
         /\ \A h \in Gens : /\ client'[h].sent = client[h].sent
                            /\ client'[h].phase = client[h].phase \/ (h = ota.http /\ client'[h].phase = "destroyed")
         /\ Onward /\ LineShaped'
<1>1. UNCHANGED <<queue, cb, generation, api, lost>>
  BY DEF OtaTask, OtaStart, ReadHead, WriteBody, AccountBody, VerifyImage, CommitImage, DetachHttp,
         DestroyHttp, Settle, session
<1>2. Line' = Line
  BY <1>1, LineSame
<1>3. client \in [Gens -> Clients] /\ \A h \in Gens : client[h] \in Clients
  BY DEF TypeOK
<1>4. UNCHANGED client \/ client' = [client EXCEPT ![ota.http].phase = "destroyed"]
  BY DEF OtaTask, OtaStart, ReadHead, WriteBody, AccountBody, VerifyImage, CommitImage, DetachHttp,
         DestroyHttp, Settle, session, DestroyLocalClient
<1>5. \A h \in Gens : /\ client'[h].sent = client[h].sent
                      /\ client'[h].phase = client[h].phase \/ (h = ota.http /\ client'[h].phase = "destroyed")
  <2>1. CASE UNCHANGED client
    BY <2>1
  <2>2. CASE client' = [client EXCEPT ![ota.http].phase = "destroyed"]
    <3>1. \A h \in Gens : client'[h] = IF h = ota.http THEN [client[h] EXCEPT !.phase = "destroyed"] ELSE client[h]
      BY <1>3, <2>2
    <3>2. QED
      BY <1>3, <3>1 DEF Clients
  <2>3. QED
    BY <1>4, <2>1, <2>2
<1>6. Onward
  BY <1>5 DEF Onward
<1>7. LineShaped'
  BY <1>1, <1>2, <1>6, ShapedKept DEF ImageInv, LineShaped
<1>8. QED
  BY <1>1, <1>2, <1>5, <1>6, <1>7

\* Where a handler goes next.
LEMMA HandlerMoves ==
  ASSUME TypeOK, OtaTask, ~OtaTake, ~OtaStart
  PROVE  /\ ota'.pc \in {"recv", "account", "finish", "detach", "destroy", "settle"}
         /\ ota'.http \in {0, ota.http, http} /\ http' \in {0, http}
         /\ ota'.pc # "recv" => ota'.gen = ota.gen
         /\ ota'.pc \in {"destroy", "settle"} => ota'.outcome = ota.outcome /\ ota.pc \in {"detach", "destroy"}
         /\ fota'.owner = fota.owner /\ (~WriteBody => fota'.written = fota.written)
<1> USE DEF Locals, Goto, FinalizeFailure, Waiting, FotaEnd0, Writers
<1>1. ota \in Locals /\ fota \in Writers
  BY DEF TypeOK
<1>2. CASE ReadHead
  <2>1. http' = http /\ (ota' = Waiting \/ ota' = [ota EXCEPT !.pc = "detach", !.outcome = "HTTP_STATUS_ERROR"])
    BY <1>2 DEF ReadHead
  <2>2. UNCHANGED fota \/ fota' = [fota EXCEPT !.open = FALSE]
    BY <1>2 DEF ReadHead
  <2>3. fota'.owner = fota.owner /\ fota'.written = fota.written
    BY <1>1, <2>2
  <2>4. CASE ota' = Waiting
    BY <2>1, <2>3, <2>4
  <2>5. CASE ota' = [ota EXCEPT !.pc = "detach", !.outcome = "HTTP_STATUS_ERROR"]
    BY <1>1, <2>1, <2>3, <2>5
  <2>6. QED
    BY <2>1, <2>4, <2>5
<1>3. CASE WriteBody
  BY <1>1, <1>3 DEF WriteBody
<1>4. CASE AccountBody
  BY <1>1, <1>4 DEF AccountBody
<1>5. CASE VerifyImage
  BY <1>1, <1>5 DEF VerifyImage
<1>6. CASE CommitImage
  BY <1>1, <1>6 DEF CommitImage
<1>7. CASE DetachHttp
  BY <1>1, <1>7 DEF DetachHttp
<1>8. CASE DestroyHttp
  BY <1>1, <1>8 DEF DestroyHttp
<1>9. CASE Settle
  BY <1>1, <1>9 DEF Settle
<1>10. QED
  BY <1>2, <1>3, <1>4, <1>5, <1>6, <1>7, <1>8, <1>9 DEF OtaTask

\* What no handler but START changes.
LEMMA HandlerRest ==
  ASSUME TypeOK, TypeOK', SessionInv, OwnInv, ImageInv, OtaTask, ~OtaTake, ~OtaStart
  PROVE  LineShaped' /\ ClientsCounted' /\ BodiesApart' /\ CopiesHeld'
<1>1. /\ UNCHANGED <<queue, cb, generation, api, lost>> /\ Line' = Line
      /\ \A h \in Gens : /\ client'[h].sent = client[h].sent
                         /\ client'[h].phase = client[h].phase \/ (h = ota.http /\ client'[h].phase = "destroyed")
      /\ LineShaped'
  BY HandlerLine
<1>2. /\ ota'.pc \in {"recv", "account", "finish", "detach", "destroy", "settle"}
      /\ ota'.http \in {0, ota.http, http} /\ http' \in {0, http} /\ fota'.owner = fota.owner
  BY HandlerMoves
<1>3. ota.http \in {0, generation} /\ http \in {0, generation}
  BY DEF ImageInv, ClientsCounted
<1>4. generation \in Nat /\ generation <= MaxSessions
  BY RestValues DEF TypeOK
<1>5. 0 \notin Gens
  BY DEF Gens
<1>6. ClientsCounted'
  <2>1. \A h \in Gens : client'[h].phase = "none" => client'[h].sent = 0
    BY <1>1 DEF ImageInv, ClientsCounted
  <2>2. \A h \in Gens : h > generation => client'[h].phase = "none"
    <3> SUFFICES ASSUME NEW h \in Gens, h > generation PROVE client'[h].phase = "none"
      OBVIOUS
    <3>1. h # generation /\ h # 0
      BY <1>4, <1>5
    <3>2. QED
      BY <1>1, <1>3, <3>1 DEF ImageInv, ClientsCounted
  <2>3. ASSUME BeginInProgress' \/ (\E i \in 1 .. Len(queue') : StartsAt(i)')
        PROVE  client'[generation].phase = "none" /\ fota'.owner # generation
    <3>1. BeginInProgress \/ (\E i \in 1 .. Len(queue) : StartsAt(i))
      BY <1>1, <2>3 DEF BeginInProgress, StartsAt
    <3>2. client[generation].phase = "none" /\ (ota.pc # "create" => fota.owner # generation)
      BY <3>1 DEF ImageInv, ClientsCounted
    <3>3. ota.pc # "create"
      BY DEF OtaTask, ReadHead, WriteBody, AccountBody, VerifyImage, CommitImage, DetachHttp, DestroyHttp, Settle
    <3>4. generation # 0
      BY <3>1 DEF ImageInv, SketchKeeps, OwnInv, Numbered, StartsAt
    <3>5. generation \in Gens
      BY <1>4, <3>4 DEF Gens
    <3>6. ota.http # generation
      BY <3>2, <3>4 DEF OwnInv, Alive, Live
    <3>7. QED
      BY <1>1, <1>2, <3>2, <3>3, <3>5, <3>6
  <2>4. QED
    BY <1>1, <1>2, <1>3, <2>1, <2>2, <2>3 DEF ClientsCounted
<1>7. heap' = heap \/ (WriteBody /\ heap' = heap \ {ota.body})
  BY DEF OtaTask, OtaStart, ReadHead, WriteBody, AccountBody, VerifyImage, CommitImage, DetachHttp,
         DestroyHttp, Settle
<1>8. BodiesApart'
  BY <1>1, <1>2, <1>7, ApartKept DEF ImageInv
<1>9. CopiesHeld'
  <2>1. CASE WriteBody
    <3>1. ota.pc = "write" /\ heap' = heap \ {ota.body}
      BY <2>1 DEF WriteBody
    <3>2. \A i \in Places : Line[i].body # ota.body
      BY <3>1 DEF ImageInv, BodiesApart
    <3>3. Places' = Places
      BY <1>1 DEF Places
    <3>4. QED
      BY <1>1, <1>2, <3>1, <3>2, <3>3 DEF ImageInv, CopiesHeld
  <2>2. CASE ~WriteBody
    <3>1. ota.pc # "write" /\ heap' = heap
      <4>1. ota.pc # "write"
        BY <2>2 DEF OtaTask, OtaStart, ReadHead, AccountBody, VerifyImage, CommitImage, DetachHttp, DestroyHttp, Settle
      <4>2. QED
        BY <1>7, <2>2, <4>1
    <3>2. QED
      BY <1>1, <1>2, <3>1, CopiesKept DEF ImageInv
  <2>3. QED
    BY <2>1, <2>2
<1>10. QED
  BY <1>1, <1>6, <1>8, <1>9

\* The header is read: the session downloads, or fails.
LEMMA ImageHead == TypeOK /\ TypeOK' /\ SessionInv /\ OwnInv /\ ImageInv /\ ReadHead => ImageInv'
<1> SUFFICES ASSUME TypeOK, TypeOK', SessionInv, OwnInv, ImageInv, ReadHead PROVE ImageInv'
  OBVIOUS
<1>1. OtaTask /\ ~OtaTake /\ ~OtaStart /\ ota.pc = "head" /\ ~WriteBody
  BY DEF ReadHead, OtaTask, OtaTake, TakeStart, TakeHeadDone, TakeBodyData, TakeBodyDone, TakeHttpError, Receive,
     OtaStart, StartFotaInit, StartCreateClient, StartConfigure, StartPublish, StartLaunch, WriteBody
<1>2. LineShaped' /\ ClientsCounted' /\ BodiesApart' /\ CopiesHeld'
  BY <1>1, HandlerRest
<1>3. UNCHANGED <<queue, cb, generation, api, lost>> /\ Line' = Line
  BY <1>1, HandlerLine
<1>4. fota'.owner = fota.owner /\ fota'.written = fota.written
  BY <1>1, HandlerMoves
<1>5. /\ ota.gen = generation /\ generation # 0 /\ Receiving /\ ~BeginInProgress /\ ~Failing /\ ota.http # 0
      /\ \A i \in Places : ~Old(i)
  BY <1>1 DEF ImageInv, HandlerKeeps, LineOrdered, SessionInv, HandlerHoldsSession, Failing, Closing
<1>6. http # 0 /\ fota.open /\ fota.owner = generation
  BY <1>1, <1>5 DEF ImageInv, WriterFollows, OwnInv, HandleFollows
<1>7. UNCHANGED <<downloadedBytes, client, http>>
  BY DEF ReadHead
<1>8. \/ state' = "DOWNLOADING" /\ httpStatusCode' = "ok" /\ ota' = Waiting /\ UNCHANGED fota
      \/ state' = state /\ httpStatusCode' = "bad" /\ FinalizeFailure("HTTP_STATUS_ERROR", TRUE)
  BY <1>5 DEF ReadHead
<1>9. generation \in Gens \/ generation = 0
  BY RestValues DEF TypeOK, Gens
<1>10. CASE state' = "DOWNLOADING" /\ httpStatusCode' = "ok" /\ ota' = Waiting /\ UNCHANGED fota
  <2>1. ota'.pc = "recv"
    BY <1>10 DEF Waiting
  <2>2. LineOrdered'
    BY <1>3, <1>5, <1>10, OrderedKept DEF ImageInv
  <2>3. HandlerKeeps'
    BY <2>1 DEF HandlerKeeps, Closing
  <2>4. SketchKeeps'
    BY <1>3, <1>5, <1>10 DEF ImageInv, SketchKeeps, BeginInProgress, Receiving
  <2>5. WriterFollows' /\ NoForeignBytes'
    BY <1>3, <1>6, <1>7, <1>10, <2>1 DEF ImageInv, WriterFollows, NoForeignBytes
  <2>6. Intact' = Intact /\ Written' = Written /\ HttpStatusOk'
    BY <1>1, <1>3, <1>10, <2>1 DEF Intact, Written, HttpStatusOk
  <2>7. ImageParts'
    BY <1>3, <1>4, <1>5, <1>7, <1>9, <1>10, <2>1, <2>6, ImageStays DEF ImageInv, ImageParts
  <2>8. Downloaded'
    BY <1>1, <1>3, <1>5, <1>7, <1>10, <2>1 DEF ImageInv, Downloaded, Receiving
  <2>9. QED
    BY <1>2, <2>2, <2>3, <2>4, <2>5, <2>7, <2>8 DEF ImageInv, ImageParts
<1>11. CASE state' = state /\ httpStatusCode' = "bad" /\ FinalizeFailure("HTTP_STATUS_ERROR", TRUE)
  <2>1. ota'.pc = "detach" /\ ota'.gen = generation /\ ota'.outcome = "HTTP_STATUS_ERROR"
    BY <1>5, <1>11, FailureFields DEF TypeOK
  <2>2. LineOrdered'
    BY <1>3, <1>5, <1>7, <1>11, OrderedKept DEF ImageInv, LineOrdered
  <2>3. HandlerKeeps'
    BY <1>3, <1>5, <1>11, <2>1 DEF HandlerKeeps, Closing, Lifecycle!SessionErrors, Receiving
  <2>4. SketchKeeps'
    BY <1>3, <1>5, <1>11 DEF ImageInv, SketchKeeps, BeginInProgress, Receiving, HttpStatusOk
  <2>5. WriterFollows' /\ NoForeignBytes'
    BY <1>3, <1>4, <1>6, <1>7, <2>1 DEF ImageInv, WriterFollows, NoForeignBytes
  <2>6. Intact' = Intact /\ Written' = Written /\ Failing'
    BY <1>1, <1>3, <1>4, <2>1 DEF Intact, Written, Failing, Closing
  <2>7. ImageParts'
    BY <1>3, <1>4, <1>5, <1>7, <1>9, <1>11, <2>1, <2>6, ImageStays DEF ImageInv, ImageParts
  <2>8. Downloaded'
    BY <1>1, <1>3, <1>4, <1>5, <1>7, <1>11, <2>1 DEF ImageInv, Downloaded, Receiving
  <2>9. QED
    BY <1>2, <2>2, <2>3, <2>4, <2>5, <2>7, <2>8 DEF ImageInv, ImageParts
<1>12. QED
  BY <1>8, <1>10, <1>11

\* The body at hand goes to the writer, or the session fails.
LEMMA ImageWrite == TypeOK /\ TypeOK' /\ SessionInv /\ OwnInv /\ ImageInv /\ WriteBody => ImageInv'
<1> SUFFICES ASSUME TypeOK, TypeOK', SessionInv, OwnInv, ImageInv, WriteBody PROVE ImageInv'
  OBVIOUS
<1>1. OtaTask /\ ~OtaTake /\ ~OtaStart /\ ota.pc = "write"
  BY DEF WriteBody, OtaTask, OtaTake, TakeStart, TakeHeadDone, TakeBodyData, TakeBodyDone, TakeHttpError, Receive,
     OtaStart, StartFotaInit, StartCreateClient, StartConfigure, StartPublish, StartLaunch
<1>2. LineShaped' /\ ClientsCounted' /\ BodiesApart' /\ CopiesHeld'
  BY <1>1, HandlerRest
<1>3. UNCHANGED <<queue, cb, generation, api, lost>> /\ Line' = Line
  BY <1>1, HandlerLine
<1>4. fota'.owner = fota.owner
  BY <1>1, HandlerMoves
<1>5. /\ ota.gen = generation /\ ota.gen # 0 /\ state = "DOWNLOADING" /\ HttpStatusOk /\ ~Failing
      /\ ota.body # NoBody /\ ota.body[1] = generation /\ Receiving /\ ~Closing
  BY <1>1 DEF ImageInv, HandlerKeeps, Failing, Closing, BodiesApart, Receiving
<1>6. UNCHANGED <<state, httpStatusCode, downloadedBytes, client, http>>
  BY DEF WriteBody, session
<1>7. http # 0 /\ fota.open /\ fota.owner = generation
  BY <1>1, <1>5 DEF ImageInv, WriterFollows, HttpStatusOk
<1>8. \A i \in Places : ~Old(i)
  BY <1>5 DEF ImageInv, LineOrdered, HttpStatusOk
<1>9. LineOrdered'
  BY <1>3, <1>5, <1>6, <1>8, OrderedKept DEF ImageInv
<1>10. SketchKeeps'
  BY <1>3, <1>4, <1>5, <1>6 DEF ImageInv, SketchKeeps, BeginInProgress
<1>11. Places' = Places /\ \A i \in Places : Own(i)' = Own(i)
  BY <1>3 DEF Places, Own
<1>12. Intact' = Intact /\ Len(fota.written) \in Nat /\ Written = Len(fota.written) + 1
  BY <1>1, <1>3, <1>4 DEF Intact, Written, TypeOK, Writers
<1>13. CASE fota' = [fota EXCEPT !.written = Append(@, ota.body)] /\ Goto("account")
  <2>1. ota'.pc = "account" /\ ota'.gen = generation
    BY <1>5, <1>13, GotoFields DEF TypeOK
  <2>2. fota'.open = fota.open /\ fota'.written = Append(fota.written, ota.body)
    BY <1>13 DEF TypeOK, Writers
  <2>3. /\ Len(fota'.written) = Len(fota.written) + 1 /\ fota'.written[Len(fota.written) + 1] = ota.body
        /\ \A n \in 1 .. Len(fota.written) : fota'.written[n] = fota.written[n]
    BY <2>2 DEF TypeOK, Writers
  <2>4. HandlerKeeps'
    BY <1>3, <1>5, <1>6, <2>1 DEF ImageInv, HandlerKeeps, Closing, HttpStatusOk
  <2>5. WriterFollows'
    BY <1>3, <1>4, <1>6, <1>7, <2>1, <2>2 DEF ImageInv, WriterFollows
  <2>6. NoForeignBytes'
    BY <1>4, <1>5, <1>7, <1>12, <2>3 DEF ImageInv, NoForeignBytes
  <2>7. Written' = Written
    <3>1. Written' = Len(fota'.written)
      <4>1. Len(fota'.written) \in Nat
        BY <1>12, <2>3
      <4>2. QED
        BY <2>1, <4>1 DEF Written
    <3>2. QED
      BY <1>12, <2>3, <3>1
  <2>8. InOrder'
    <3>1. Intact => ota.body = <<generation, Written>>
      BY <1>1 DEF ImageInv, InOrder
    <3>2. Intact => \A n \in 1 .. Len(fota'.written) : fota'.written[n] = <<generation, n>>
      BY <1>12, <2>3, <3>1, SMTT(30) DEF ImageInv, InOrder
    <3>3. QED
      BY <1>3, <1>6, <1>11, <1>12, <2>1, <2>7, <3>2 DEF ImageInv, InOrder
  <2>9. NoneMissing'
    <3>1. \A n : Covered(n) => Covered(n)'
      BY <1>3 DEF Covered, After, Own, Places
    <3>2. QED
      BY <1>3, <1>5, <1>6, <1>12, <2>7, <3>1 DEF ImageInv, NoneMissing
  <2>10. HeaderFirst' /\ AllWritten'
    BY <1>5, <1>6 DEF HeaderFirst, AllWritten, HttpStatusOk
  <2>11. Downloaded'
    <3>1. downloadedBytes = Len(fota.written) /\ downloadedBytes \in Nat
      BY <1>1, <1>5, <1>7 DEF ImageInv, Downloaded, TypeOK
    <3>2. QED
      BY <1>3, <1>4, <1>6, <1>7, <1>12, <2>1, <2>3, <3>1 DEF Downloaded
  <2>12. QED
    BY <1>2, <1>9, <1>10, <2>4, <2>5, <2>6, <2>8, <2>9, <2>10, <2>11 DEF ImageInv
<1>14. CASE FinalizeFailure("VERIFY_FAILED", TRUE)
  <2>1. ota'.pc = "detach" /\ ota'.gen = generation /\ ota'.outcome = "VERIFY_FAILED"
    BY <1>5, <1>14, FailureFields DEF TypeOK
  <2>2. fota'.written = fota.written
    BY <1>14 DEF FinalizeFailure, FotaEnd0, TypeOK, Writers
  <2>3. HandlerKeeps'
    BY <1>3, <1>5, <1>6, <2>1 DEF ImageInv, HandlerKeeps, Closing, Lifecycle!SessionErrors
  <2>4. WriterFollows' /\ NoForeignBytes'
    BY <1>3, <1>4, <1>6, <1>7, <2>1, <2>2 DEF ImageInv, WriterFollows, NoForeignBytes
  <2>5. Written' + 1 = Written /\ Written' \in Nat /\ Failing'
    <3>1. Failing'
      BY <1>3, <2>1 DEF Failing, Closing
    <3>2. Written' = Len(fota.written)
      BY <1>12, <2>1, <2>2 DEF Written
    <3>3. QED
      BY <1>12, <3>1, <3>2
  <2>6. InOrder'
    <3> SUFFICES ASSUME Intact PROVE /\ \A n \in 1 .. Len(fota.written) : fota.written[n] = <<generation, n>>
                                     /\ Written' <= client[generation].sent
                                     /\ \A i \in Places : Own(i) /\ Line[i].id = "BODY_DATA" => Line[i].body[2] > Written'
      BY <1>3, <1>6, <1>11, <1>12, <2>1, <2>2 DEF InOrder
    <3>1. generation \in Gens
      BY <1>5, RestValues DEF TypeOK, Gens, Locals
    <3>2. client[generation].sent \in Nat
      BY <3>1, OtaAssumption DEF TypeOK, Clients, OtaAssumption
    <3>3. ASSUME NEW i \in Places, Own(i), Line[i].id = "BODY_DATA" PROVE Line[i].body[2] > Written'
      <4>1. Line[i].body[2] > Written /\ Line[i].body \in Bodies
        BY <3>3 DEF ImageInv, InOrder, LineShaped, EventShaped, CopiesHeld, TypeOK
      <4>2. Line[i].body[2] \in Nat
        BY <4>1, OtaAssumption DEF Bodies, OtaAssumption
      <4>3. QED
        BY <2>5, <4>1, <4>2
    <3>4. QED
      BY <1>12, <2>5, <3>2, <3>3 DEF ImageInv, InOrder
  <2>7. NoneMissing' /\ HeaderFirst' /\ AllWritten'
    BY <1>5, <1>6, <2>5 DEF NoneMissing, HeaderFirst, AllWritten
  <2>8. Downloaded'
    BY <1>1, <1>3, <1>4, <1>6, <2>1, <2>2 DEF ImageInv, Downloaded
  <2>9. QED
    BY <1>2, <1>9, <1>10, <2>3, <2>4, <2>6, <2>7, <2>8 DEF ImageInv
<1>15. QED
  BY <1>13, <1>14 DEF WriteBody

\* The step is one of a handler other than START, past its first critical section.
LEMMA HandlerIs ==
  AccountBody \/ VerifyImage \/ CommitImage \/ DetachHttp \/ DestroyHttp \/ Settle =>
    OtaTask /\ ~OtaTake /\ ~OtaStart /\ ~WriteBody /\ UNCHANGED <<httpStatusCode, heap>>
BY DEF OtaTask, OtaTake, TakeStart, TakeHeadDone, TakeBodyData, TakeBodyDone, TakeHttpError, Receive,
   OtaStart, StartFotaInit, StartCreateClient, StartConfigure, StartPublish, StartLaunch, WriteBody,
   AccountBody, VerifyImage, CommitImage, DetachHttp, DestroyHttp, Settle, session

\* The bytes that were written are counted.
LEMMA ImageAccount == TypeOK /\ TypeOK' /\ SessionInv /\ OwnInv /\ ImageInv /\ AccountBody => ImageInv'
<1> SUFFICES ASSUME TypeOK, TypeOK', SessionInv, OwnInv, ImageInv, AccountBody PROVE ImageInv'
  OBVIOUS
<1>1. OtaTask /\ ~OtaTake /\ ~OtaStart /\ ~WriteBody /\ ota.pc = "account"
  BY HandlerIs DEF AccountBody
<1>2. LineShaped' /\ ClientsCounted' /\ BodiesApart' /\ CopiesHeld'
  BY <1>1, HandlerRest
<1>3. UNCHANGED <<queue, cb, generation, api, lost>> /\ Line' = Line
  BY <1>1, HandlerLine
<1>4. ota.gen = generation /\ generation # 0 /\ state = "DOWNLOADING" /\ HttpStatusOk
  BY <1>1 DEF ImageInv, HandlerKeeps
<1>5. UNCHANGED <<state, httpStatusCode, client, http, fota>> /\ downloadedBytes' = downloadedBytes + 1
      /\ ota'.pc = "recv"
  BY <1>4 DEF AccountBody, Waiting
<1>6. \A i \in Places : ~Old(i)
  BY <1>4 DEF ImageInv, LineOrdered, HttpStatusOk
<1>7. LineOrdered'
  BY <1>3, <1>4, <1>5, <1>6, OrderedKept DEF ImageInv
<1>8. HandlerKeeps' /\ SketchKeeps'
  BY <1>3, <1>4, <1>5 DEF ImageInv, HandlerKeeps, SketchKeeps, Closing, BeginInProgress
<1>9. WriterFollows' /\ NoForeignBytes'
  BY <1>1, <1>3, <1>5 DEF ImageInv, WriterFollows, NoForeignBytes, Receiving, Closing
<1>10. ImageParts'
  <2>1. generation \in Gens
    BY <1>4, RestValues DEF TypeOK, Gens
  <2>2. Intact' = Intact /\ Written' = Written
    BY <1>1, <1>3, <1>5 DEF Intact, Written
  <2>3. Receiving /\ ~Failing /\ HttpStatusOk'
    BY <1>1, <1>4, <1>5 DEF Receiving, Failing, Closing, HttpStatusOk
  <2>4. QED
    BY <1>3, <1>4, <1>5, <2>1, <2>2, <2>3, ImageStays DEF ImageInv, ImageParts
<1>11. Downloaded'
  <2>1. downloadedBytes \in Nat
    BY DEF TypeOK
  <2>2. downloadedBytes + 1 = IF fota.owner = generation THEN Len(fota.written) ELSE 0
    BY <1>1, <1>4 DEF ImageInv, Downloaded
  <2>3. downloadedBytes' + 0 = downloadedBytes + 1
    BY <1>5, <2>1
  <2>4. QED
    BY <1>3, <1>5, <2>2, <2>3 DEF Downloaded
<1>12. QED
  BY <1>2, <1>7, <1>8, <1>9, <1>10, <1>11 DEF ImageInv, ImageParts

\* The image is verified and committed, or the session fails.
LEMMA ImageVerify == TypeOK /\ TypeOK' /\ SessionInv /\ OwnInv /\ ImageInv /\ (VerifyImage \/ CommitImage) => ImageInv'
<1> SUFFICES ASSUME TypeOK, TypeOK', SessionInv, OwnInv, ImageInv, VerifyImage \/ CommitImage PROVE ImageInv'
  OBVIOUS
<1>1. OtaTask /\ ~OtaTake /\ ~OtaStart /\ ~WriteBody /\ ota.pc \in {"verify", "finish"}
  BY HandlerIs DEF VerifyImage, CommitImage
<1>2. LineShaped' /\ ClientsCounted' /\ BodiesApart' /\ CopiesHeld'
  BY <1>1, HandlerRest
<1>3. UNCHANGED <<queue, cb, generation, api, lost>> /\ Line' = Line
  BY <1>1, HandlerLine
<1>4. ota.gen = generation /\ ota.gen # 0 /\ state = "VERIFYING" /\ http # 0
  BY <1>1 DEF ImageInv, HandlerKeeps
<1>5. fota.open /\ fota.owner = generation
  BY <1>1, <1>4 DEF ImageInv, WriterFollows
<1>6. UNCHANGED <<state, httpStatusCode, downloadedBytes, client, http>>
  BY DEF VerifyImage, CommitImage, session
<1>7. fota'.owner = fota.owner /\ fota'.written = fota.written
  BY <1>1, HandlerMoves
<1>8. \/ ota'.pc = "finish" /\ ota'.gen = generation /\ UNCHANGED fota
      \/ ota'.pc = "detach" /\ ota'.gen = generation /\ ota'.outcome = "VERIFY_FAILED"
      \/ ota'.pc = "detach" /\ ota'.gen = generation /\ ota'.outcome = "NONE" /\ fota'.committed
  <2>1. CASE VerifyImage
    <3>1. CASE Goto("finish")
      BY <1>4, <2>1, <3>1, GotoFields DEF TypeOK, VerifyImage
    <3>2. CASE FinalizeFailure("VERIFY_FAILED", FALSE)
      BY <1>4, <3>2, FailureFields DEF TypeOK
    <3>3. QED
      BY <2>1, <3>1, <3>2 DEF VerifyImage
  <2>2. CASE CommitImage
    <3>1. PICK ok \in BOOLEAN :
            /\ fota' = [fota EXCEPT !.open = FALSE, !.committed = ok]
            /\ ota' = [ota EXCEPT !.pc = "detach", !.outcome = IF ok THEN "NONE" ELSE "VERIFY_FAILED"]
      BY <2>2 DEF CommitImage
    <3>2. ota'.pc = "detach" /\ ota'.gen = ota.gen /\ ota'.outcome = IF ok THEN "NONE" ELSE "VERIFY_FAILED"
      BY <3>1 DEF TypeOK, Locals
    <3>3. fota'.committed = ok
      BY <3>1 DEF TypeOK, Writers
    <3>4. QED
      BY <1>4, <3>2, <3>3
  <2>3. QED
    BY <2>1, <2>2
<1>9. LineOrdered'
  BY <1>3, <1>4, <1>6, <1>8, OrderedKept DEF ImageInv, LineOrdered
<1>10. HandlerKeeps'
  BY <1>3, <1>4, <1>5, <1>6, <1>7, <1>8 DEF HandlerKeeps, Closing, Lifecycle!SessionErrors
<1>11. SketchKeeps'
  BY <1>3, <1>4, <1>6, <1>8 DEF ImageInv, SketchKeeps, Closing, BeginInProgress
<1>12. WriterFollows' /\ NoForeignBytes'
  BY <1>3, <1>4, <1>5, <1>6, <1>7, <1>8 DEF ImageInv, WriterFollows, NoForeignBytes, Receiving
<1>13. ImageParts'
  <2>1. generation \in Gens
    BY <1>4, RestValues DEF TypeOK, Gens
  <2>2. Intact' = Intact /\ Written' = Written
    BY <1>1, <1>3, <1>7, <1>8 DEF Intact, Written
  <2>3. ~Receiving' /\ ota'.pc # "write"
    BY <1>4, <1>6, <1>8 DEF Receiving
  <2>4. QED
    BY <1>3, <1>4, <1>6, <1>7, <2>1, <2>2, <2>3, ImageStays DEF ImageInv, ImageParts
<1>14. Downloaded'
  BY <1>1, <1>3, <1>6, <1>7, <1>8 DEF ImageInv, Downloaded
<1>15. QED
  BY <1>2, <1>9, <1>10, <1>11, <1>12, <1>13, <1>14 DEF ImageInv, ImageParts

\* The client is taken from the session and destroyed.
LEMMA ImageClose == TypeOK /\ TypeOK' /\ SessionInv /\ OwnInv /\ ImageInv /\ (DetachHttp \/ DestroyHttp) => ImageInv'
<1> SUFFICES ASSUME TypeOK, TypeOK', SessionInv, OwnInv, ImageInv, DetachHttp \/ DestroyHttp PROVE ImageInv'
  OBVIOUS
<1>1. OtaTask /\ ~OtaTake /\ ~OtaStart /\ ~WriteBody /\ ota.pc \in {"detach", "destroy"}
  BY HandlerIs DEF DetachHttp, DestroyHttp
<1>2. LineShaped' /\ ClientsCounted' /\ BodiesApart' /\ CopiesHeld'
  BY <1>1, HandlerRest
<1>3. UNCHANGED <<queue, cb, generation, api, lost>> /\ Line' = Line
      /\ \A h \in Gens : /\ client'[h].sent = client[h].sent
                         /\ client'[h].phase = client[h].phase \/ client'[h].phase = "destroyed"
  BY <1>1, HandlerLine
<1>4. UNCHANGED <<state, httpStatusCode, downloadedBytes, fota>>
  BY DEF DetachHttp, DestroyHttp, session
<1>5. /\ ota'.pc \in {"settle", "destroy"}
      /\ ota'.gen = ota.gen /\ ota'.outcome = ota.outcome
  <2>1. CASE DetachHttp
    <3>1. ota' = [ota EXCEPT !.http = http, !.pc = IF http = 0 THEN "settle" ELSE "destroy"]
      BY <2>1 DEF DetachHttp
    <3>2. QED
      BY <3>1 DEF TypeOK, Locals
  <2>2. CASE DestroyHttp
    <3>1. ota' = [ota EXCEPT !.pc = "settle", !.http = 0]
      BY <2>2 DEF DestroyHttp
    <3>2. QED
      BY <3>1 DEF TypeOK, Locals
  <2>3. QED
    BY <2>1, <2>2
<1>6. http' = 0
  BY DEF DetachHttp, DestroyHttp, OwnInv, HandleFollows
<1>7. generation \in Gens \/ generation = 0
  BY RestValues DEF TypeOK, Gens
<1>8. LineOrdered'
  <2>1. state' \in {"VERIFYING", "STAGED", "APPLYING"} =>
          Line = <<>> /\ client'[generation].phase \in {"ended", "destroyed"}
    BY <1>3, <1>4, <1>7 DEF ImageInv, LineOrdered, SketchKeeps
  <2>2. QED
    BY <1>3, <1>4, <1>5, <2>1, OrderedKept DEF ImageInv, LineOrdered
<1>9. HandlerKeeps'
  BY <1>1, <1>3, <1>4, <1>5 DEF ImageInv, HandlerKeeps, Closing
<1>10. SketchKeeps'
  BY <1>1, <1>3, <1>4, <1>5 DEF ImageInv, SketchKeeps, Closing, BeginInProgress, HttpStatusOk
<1>11. WriterFollows' /\ NoForeignBytes'
  BY <1>3, <1>4, <1>5, <1>6 DEF ImageInv, WriterFollows, NoForeignBytes, Closing
<1>12. ImageParts'
  <2>1. Intact' = Intact /\ Written' = Written
    BY <1>1, <1>3, <1>4, <1>5 DEF Intact, Written
  <2>2. Receiving' = Receiving /\ Failing' = Failing /\ HttpStatusOk' = HttpStatusOk
    BY <1>1, <1>3, <1>4, <1>5 DEF Receiving, Failing, Closing, HttpStatusOk
  <2>3. ota.pc # "head" /\ ota'.pc # "write"
    BY <1>1, <1>5
  <2>4. QED
    BY <1>3, <1>4, <1>7, <2>1, <2>2, <2>3, ImageStays DEF ImageInv, ImageParts
<1>13. Downloaded'
  BY <1>1, <1>3, <1>4, <1>5 DEF ImageInv, Downloaded
<1>14. QED
  BY <1>2, <1>8, <1>9, <1>10, <1>11, <1>12, <1>13 DEF ImageInv, ImageParts

\* The outcome is recorded, if the session is still the handler's.
LEMMA ImageSettle == TypeOK /\ TypeOK' /\ SessionInv /\ OwnInv /\ ImageInv /\ Settle => ImageInv'
<1> SUFFICES ASSUME TypeOK, TypeOK', SessionInv, OwnInv, ImageInv, Settle PROVE ImageInv'
  OBVIOUS
<1>1. OtaTask /\ ~OtaTake /\ ~OtaStart /\ ~WriteBody /\ ota.pc = "settle" /\ Closing
  BY HandlerIs DEF Settle, Closing
<1>2. LineShaped' /\ ClientsCounted' /\ BodiesApart' /\ CopiesHeld'
  BY <1>1, HandlerRest
<1>3. UNCHANGED <<queue, cb, generation, api, lost>> /\ Line' = Line
  BY <1>1, HandlerLine
<1>4. UNCHANGED <<httpStatusCode, downloadedBytes, client, http, fota>> /\ ota'.pc = "recv" /\ http = 0
  BY <1>1 DEF Settle, Waiting, SessionInv, SessionOwns
<1>5. generation \in Gens \/ generation = 0
  BY RestValues DEF TypeOK, Gens
<1>6. \/ ota.gen # generation /\ state' = state /\ state # "VERIFYING" /\ httpStatusCode = "none"
      \/ /\ ota.gen = generation /\ ota.outcome = "NONE" /\ state' = "STAGED" /\ state = "VERIFYING"
         /\ ~BeginInProgress /\ fota.committed /\ fota.owner = generation
      \/ ota.gen = generation /\ ota.outcome # "NONE" /\ state' = "ERROR" /\ state # "APPLYING"
  <2>1. CASE ota.gen # generation
    BY <1>1, <2>1 DEF Settle, ImageInv, HandlerKeeps, SketchKeeps
  <2>2. CASE ota.gen = generation /\ ota.outcome = "NONE"
    BY <1>1, <2>2 DEF Settle, ImageInv, HandlerKeeps, SessionInv, HandlerHoldsSession
  <2>3. CASE ota.gen = generation /\ ota.outcome # "NONE"
    BY <1>1, <2>3 DEF Settle, SetFailure, ImageInv, HandlerKeeps
  <2>4. QED
    BY <2>1, <2>2, <2>3
<1>7. ota.gen # 0
  BY <1>1 DEF ImageInv, HandlerKeeps
<1>8. LineOrdered'
  BY <1>3, <1>4, <1>6, OrderedKept DEF ImageInv, LineOrdered
<1>9. HandlerKeeps'
  BY <1>4 DEF HandlerKeeps, Closing
<1>10. SketchKeeps'
  BY <1>3, <1>4, <1>6, <1>7 DEF ImageInv, SketchKeeps, BeginInProgress, HttpStatusOk
<1>11. WriterFollows' /\ NoForeignBytes'
  BY <1>3, <1>4, <1>6 DEF ImageInv, WriterFollows, NoForeignBytes, Receiving
<1>12. ImageParts'
  <2>1. Intact' = Intact /\ Written' = Written
    BY <1>1, <1>3, <1>4 DEF Intact, Written
  <2>2. Receiving' /\ ~Failing' => Receiving /\ ~Failing
    BY <1>6 DEF Receiving, Failing
  <2>3. HttpStatusOk' = HttpStatusOk /\ ota.pc # "head" /\ ota'.pc # "write"
    BY <1>1, <1>4 DEF HttpStatusOk
  <2>4. QED
    BY <1>3, <1>4, <1>5, <1>6, <2>1, <2>2, <2>3, ImageStays DEF ImageInv, ImageParts
<1>13. Downloaded'
  BY <1>1, <1>3, <1>4, <1>6 DEF ImageInv, Downloaded
<1>14. QED
  BY <1>2, <1>8, <1>9, <1>10, <1>11, <1>12, <1>13 DEF ImageInv, ImageParts

\* A handler other than START goes on.
LEMMA ImageHandler == TypeOK /\ TypeOK' /\ SessionInv /\ OwnInv /\ ImageInv /\ OtaTask /\ ~OtaTake /\ ~OtaStart => ImageInv'
BY ImageHead, ImageWrite, ImageAccount, ImageVerify, ImageClose, ImageSettle DEF OtaTask

-----------------------------------------------------------------------------
(* The HTTP engine and its callback *)

\* What neither the line nor the clients have a part in.
EngineQuiet == UNCHANGED <<state, generation, httpStatusCode, downloadedBytes, http, api, ota, fota>>
\* They are kept when the rest of the state is.
LEMMA EngineRest ==
  ASSUME ImageInv, EngineQuiet
  PROVE  /\ HandlerKeeps' /\ SketchKeeps' /\ WriterFollows' /\ NoForeignBytes' /\ Downloaded'
         /\ Written' = Written /\ Failing' = Failing /\ Receiving' = Receiving /\ HttpStatusOk' = HttpStatusOk
<1> USE DEF EngineQuiet, ImageInv
<1>1. HandlerKeeps'
  BY DEF HandlerKeeps, Receiving, HttpStatusOk, Closing
<1>2. SketchKeeps'
  BY DEF SketchKeeps, Closing, BeginInProgress, HttpStatusOk
<1>3. WriterFollows' /\ NoForeignBytes'
  BY DEF WriterFollows, Receiving, Closing, NoForeignBytes
<1>4. Downloaded'
  BY DEF Downloaded
<1>5. Written' = Written /\ Failing' = Failing /\ Receiving' = Receiving /\ HttpStatusOk' = HttpStatusOk
  BY DEF Written, Failing, Closing, Receiving, HttpStatusOk
<1>6. QED
  BY <1>1, <1>2, <1>3, <1>4, <1>5

\* A request runs only for the session of now, and that has not been settled.
LEMMA RequestIsOfNow ==
  ASSUME TypeOK, SessionInv, OwnInv, ImageInv, NEW h \in Gens, client[h].phase \in {"head", "body"}
  PROVE  /\ h = generation /\ generation # 0 /\ generation \in Nat /\ Receiving /\ ~BeginInProgress
         /\ client[generation].sent \in Nat
         /\ \A i \in 1 .. Len(queue) : ~StartsAt(i)
         /\ ota.pc \notin {"fota_init", "create", "configure", "publish", "launch"}
         /\ \A i \in Places : Own(i) => Line[i].id # "BODY_DONE"
<1>1. Live(h) /\ h # 0
  BY DEF Live, Gens
<1>2. h \in {http, ota.http}
  BY <1>1 DEF OwnInv, Alive
<1>3. h = generation
  BY <1>1, <1>2 DEF ImageInv, ClientsCounted
<1>4. generation \in Nat /\ client[generation].sent \in Nat
  BY <1>3, RestValues, OtaAssumption DEF TypeOK, Clients, OtaAssumption
<1>5. ~BeginInProgress
  BY <1>1, <1>2 DEF OwnInv, HandleFollows, SessionInv, StartNotAhead
<1>6. Receiving
  <2>1. state \notin {"IDLE", "ERROR"}
    BY <1>1, <1>2 DEF OwnInv, HandleFollows, SessionInv, SessionOwns
  <2>2. state \notin {"VERIFYING", "STAGED", "APPLYING"}
    BY <1>3 DEF ImageInv, LineOrdered
  <2>3. QED
    BY <2>1, <2>2 DEF TypeOK, States, Receiving
<1>7. /\ \A i \in 1 .. Len(queue) : ~StartsAt(i)
      /\ ota.pc \notin {"fota_init", "create", "configure", "publish", "launch"}
  BY <1>3 DEF ImageInv, ClientsCounted
<1>8. \A i \in Places : Own(i) => Line[i].id # "BODY_DONE"
  BY <1>3 DEF ImageInv, LineShaped, EventShaped, Own
<1>9. QED
  BY <1>1, <1>3, <1>4, <1>5, <1>6, <1>7, <1>8

\* What a callback that enters with an event of client h means.
Enters(h) ==
  /\ cb.pc = "none" /\ cb'.pc = "entered" /\ cb'.src = h
  /\ EngineQuiet /\ UNCHANGED <<queue, lost>>
  /\ client[h].phase \in {"head", "body"} /\ client'[h].phase \in {"head", "body", "ended"}
  /\ \A x \in Gens : x # h => client'[x] = client[x]
  /\ cb'.id \in {"HEAD_DONE", "BODY_DATA", "BODY_DONE", "HTTP_ERROR"}
  /\ cb'.id # "BODY_DATA" => cb'.body = NoBody /\ heap' = heap
  /\ cb'.id = "BODY_DATA" => cb'.body = <<h, client[h].sent + 1>> /\ heap' = heap \cup {cb'.body}
  /\ cb'.id = "HTTP_ERROR" => cb'.err \in {"INTERNAL", "DOWNLOAD_FAILED"}
  /\ cb'.id = "BODY_DONE" => client'[h].sent = Chunks /\ client'[h].phase = "ended"
  /\ cb'.id \in {"BODY_DATA", "BODY_DONE"} => client[h].phase = "body"
  /\ \/ client'[h].sent = client[h].sent /\ cb'.id # "BODY_DATA"
     \/ client'[h].sent = client[h].sent + 1 /\ cb'.id \in {"BODY_DATA", "HTTP_ERROR"}
  /\ client'[h].phase = "body" => client[h].phase = "body" \/ cb'.id = "HEAD_DONE"

\* The event joins the line.
LEMMA ImageEntered ==
  ASSUME TypeOK, TypeOK', SessionInv, OwnInv, ImageInv, NEW h \in Gens, Enters(h)
  PROVE  ImageInv'
<1>1. /\ h = generation /\ generation # 0 /\ generation \in Nat /\ Receiving /\ ~BeginInProgress
      /\ client[generation].sent \in Nat
      /\ \A i \in 1 .. Len(queue) : ~StartsAt(i)
      /\ ota.pc \notin {"fota_init", "create", "configure", "publish", "launch"}
      /\ \A i \in Places : Own(i) => Line[i].id # "BODY_DONE"
  BY RequestIsOfNow DEF Enters
<1>2. UNCHANGED <<state, generation, httpStatusCode, http, api, ota, fota, queue, lost>>
  BY DEF Enters, EngineQuiet
<1>3. PICK k, e :
        /\ k \in Nat /\ Len(Line) + 1 = k /\ Places' = Places \cup {k}
        /\ \A i \in Places : i \in Nat /\ i >= 1 /\ i < k /\ Line'[i] = Line[i]
        /\ Line'[k] = e
        /\ e = [id |-> cb'.id, gen |-> generation, src |-> generation, body |-> cb'.body, err |-> cb'.err]
  <2>1. /\ Len(Line) \in Nat /\ Places' = Places \cup {Len(Line) + 1}
        /\ \A i \in Places : i \in Nat /\ i >= 1 /\ i <= Len(Line) /\ Line'[i] = Line[i]
        /\ Line'[Len(Line) + 1]
             = [id |-> cb'.id, gen |-> generation, src |-> generation, body |-> cb'.body, err |-> cb'.err]
    BY <1>1, <1>2, LineEntered DEF Enters
  <2>2. \A i \in Places : i < Len(Line) + 1
    BY <2>1
  <2>3. QED
    BY <2>1, <2>2
<1>4. e.id = cb'.id /\ e.gen = generation /\ e.src = generation /\ e.body = cb'.body /\ e.err = cb'.err
  BY <1>3
<1>5. Len(Line') = k
  BY <1>2, <1>3, LineIs, LineIsNext DEF LineForm, Enters
<1>6. /\ \A i \in Places : Own(i)' = Own(i) /\ Old(i)' = Old(i) /\ Heads(i)' = Heads(i)
      /\ Own(k)' /\ ~Old(k)'
      /\ Heads(k)' <=> cb'.id \in {"HEAD_DONE", "HTTP_ERROR"}
  <2>1. \A i \in Places : Own(i)' = Own(i) /\ Old(i)' = Old(i) /\ Heads(i)' = Heads(i)
    BY <1>2, <1>3 DEF Own, Old, Heads
  <2>2. Own(k)' /\ ~Old(k)'
    BY <1>2, <1>3, <1>4 DEF Own, Old, Enters
  <2>3. Heads(k)' <=> cb'.id \in {"HEAD_DONE", "HTTP_ERROR"}
    BY <1>3, <1>4, <2>2 DEF Heads
  <2>4. QED
    BY <2>1, <2>2, <2>3
<1>7. HandlerKeeps' /\ SketchKeeps' /\ WriterFollows' /\ NoForeignBytes' /\ Downloaded'
      /\ Written' = Written /\ Failing' = Failing /\ Receiving' = Receiving /\ HttpStatusOk' = HttpStatusOk
  BY EngineRest DEF Enters
<1>8. Intact' = Intact
  BY <1>2 DEF Intact
<1>9. client'[h].sent \in Nat /\ client[h].sent <= client'[h].sent
  BY <1>1 DEF Enters
<1>10. LineShaped'
  <2>1. Onward
    BY DEF Onward, Enters
  <2>2. ASSUME NEW i \in Places PROVE EventShaped(Line[i])'
    <3>1. EventShaped(Line[i]) /\ Line[i] \in Events
      BY LineIs DEF ImageInv, LineShaped, LineForm
    <3>2. Line[i].id # "START" => Line[i].src \in Gens
      BY <3>1, RestValues DEF TypeOK, EventShaped, Events, Gens
    <3>3. Line'[i] = Line[i]
      BY <1>3
    <3>4. QED
      BY <1>2, <2>1, <3>1, <3>2, <3>3 DEF EventShaped, Onward
  <2>3. EventShaped(e)'
    <3>1. e.id # "START" /\ e.src # 0 /\ e.src <= e.gen /\ e.gen <= generation /\ client'[e.src].phase # "none"
      BY <1>1, <1>4 DEF Enters
    <3>2. e.body # NoBody <=> e.id = "BODY_DATA"
      BY <1>1, <1>4 DEF Enters, NoBody
    <3>3. e.id = "BODY_DATA" => e.body[1] = e.src
      BY <1>1, <1>4 DEF Enters
    <3>4. e.id = "BODY_DONE" => client'[e.src].sent = Chunks /\ client'[e.src].phase \in {"ended", "destroyed"}
      BY <1>1, <1>4 DEF Enters
    <3>5. e.id = "HTTP_ERROR" => e.err \in {"INTERNAL", "DOWNLOAD_FAILED"}
      BY <1>4 DEF Enters
    <3>6. QED
      BY <1>2, <3>1, <3>2, <3>3, <3>4, <3>5 DEF EventShaped
  <2>4. QED
    BY <1>1, <1>3, <2>2, <2>3 DEF LineShaped, Enters
<1>11. LineOrdered'
  BY <1>1, <1>2, <1>3, <1>5, <1>6 DEF ImageInv, LineOrdered, Receiving
<1>12. ClientsCounted'
  BY <1>1, <1>2 DEF ImageInv, ClientsCounted, BeginInProgress, StartsAt, Enters
<1>13. \A b \in heap : b[1] \in Gens /\ b[2] \in Nat /\ b[2] <= client[b[1]].sent
  BY OtaAssumption DEF ImageInv, BodiesApart, TypeOK, Bodies, OtaAssumption
<1>14. \A i \in Places : /\ Line[i].body # NoBody => Line[i].body \in heap
                         /\ Own(i) /\ Line[i].id = "BODY_DATA" =>
                              Line[i].body[2] \in Nat /\ Line[i].body[2] <= client[generation].sent
  <2> SUFFICES ASSUME NEW i \in Places
               PROVE  /\ Line[i].body # NoBody => Line[i].body \in heap
                      /\ Own(i) /\ Line[i].id = "BODY_DATA" =>
                           Line[i].body[2] \in Nat /\ Line[i].body[2] <= client[generation].sent
    OBVIOUS
  <2>1. Line[i].body # NoBody => Line[i].body \in heap
    BY DEF ImageInv, CopiesHeld
  <2>2. Own(i) /\ Line[i].id = "BODY_DATA" => Line[i].body # NoBody /\ Line[i].body[1] = generation
    BY DEF ImageInv, LineShaped, EventShaped, Own
  <2>3. QED
    BY <1>13, <2>1, <2>2
<1>15. cb'.id = "BODY_DATA" => cb'.body \notin heap /\ cb'.body # NoBody
  BY <1>1, <1>13 DEF Enters, NoBody
<1>16. BodiesApart'
  <2>1. ASSUME NEW i \in Places', NEW j \in Places', Line'[i].body # NoBody, Line'[i].body = Line'[j].body
        PROVE  i = j
    <3>1. Line'[k].body # NoBody => Line'[k].body \notin heap
      BY <1>3, <1>4, <1>15 DEF Enters
    <3>2. CASE i \in Places /\ j \in Places
      BY <1>3, <2>1, <3>2 DEF ImageInv, BodiesApart
    <3>3. CASE i \notin Places \/ j \notin Places
      BY <1>3, <1>14, <2>1, <3>1, <3>3
    <3>4. QED
      BY <3>2, <3>3
  <2>2. ota.pc = "write" => ota.body # NoBody /\ ota.body[1] = generation /\ \A i \in Places' : Line'[i].body # ota.body
    <3>1. ota.pc = "write" => ota.body \in heap /\ ota.body # NoBody
      BY DEF ImageInv, CopiesHeld, BodiesApart
    <3>2. ota.pc = "write" => Line'[k].body # ota.body
      BY <1>3, <1>4, <1>15, <3>1 DEF Enters
    <3>3. QED
      BY <1>3, <3>2 DEF ImageInv, BodiesApart
  <2>3. \A b \in heap' : b[2] <= client'[b[1]].sent
    <3> SUFFICES ASSUME NEW b \in heap' PROVE b[2] <= client'[b[1]].sent
      OBVIOUS
    <3>1. CASE b \in heap
      <4>1. CASE b[1] = h
        BY <1>1, <1>9, <1>13, <3>1, <4>1
      <4>2. CASE b[1] # h
        BY <1>13, <3>1, <4>2 DEF Enters
      <4>3. QED
        BY <4>1, <4>2
    <3>2. CASE b \notin heap
      <4>1. b = <<h, client[h].sent + 1>> /\ client'[h].sent = client[h].sent + 1
        BY <3>2 DEF Enters
      <4>2. QED
        BY <1>9, <4>1
    <3>3. QED
      BY <3>1, <3>2
  <2>4. QED
    BY <1>2, <2>1, <2>2, <2>3 DEF BodiesApart
<1>17. CopiesHeld'
  <2>1. \A i \in Places' : Line'[i].body # NoBody => Line'[i].body \in heap'
    BY <1>3, <1>4, <1>14 DEF Enters
  <2>2. ota.pc = "write" => ota.body \in heap'
    BY DEF ImageInv, CopiesHeld, Enters
  <2>3. \A b \in heap' : \/ \E i \in Places' : Line'[i].body = b
                         \/ ota.pc = "write" /\ ota.body = b
                         \/ b[1] \in lost
    <3> SUFFICES ASSUME NEW b \in heap', ~(ota.pc = "write" /\ ota.body = b), b[1] \notin lost
                 PROVE  \E i \in Places' : Line'[i].body = b
      OBVIOUS
    <3>1. CASE b \in heap
      BY <1>3, <3>1 DEF ImageInv, CopiesHeld
    <3>2. CASE b \notin heap
      <4>1. Line'[k].body = b
        BY <1>3, <1>4, <3>2 DEF Enters
      <4>2. QED
        BY <1>3, <4>1
    <3>3. QED
      BY <3>1, <3>2
  <2>4. QED
    BY <1>2, <2>1, <2>2, <2>3 DEF CopiesHeld
<1>18. Intact => Written \in Nat /\ Written <= client[generation].sent
  BY DEF ImageInv, InOrder, Written, TypeOK, Writers
<1>19. InOrder'
  <2>1. Intact => Written <= client'[generation].sent
    BY <1>1, <1>9, <1>18
  <2>2. Intact => \A i \in Places' : Own(i)' /\ Line'[i].id = "BODY_DATA" => Line'[i].body[2] > Written
    <3> SUFFICES ASSUME Intact, NEW i \in Places', Own(i)', Line'[i].id = "BODY_DATA" PROVE Line'[i].body[2] > Written
      OBVIOUS
    <3>1. CASE i \in Places
      BY <1>3, <1>6, <3>1 DEF ImageInv, InOrder
    <3>2. CASE i = k
      <4>1. Line'[i].body = <<generation, client[generation].sent + 1>>
        BY <1>1, <1>3, <1>4, <3>2 DEF Enters
      <4>2. QED
        BY <1>1, <1>18, <4>1
    <3>3. QED
      BY <1>3, <3>1, <3>2
  <2>3. QED
    BY <1>2, <1>7, <1>8, <2>1, <2>2 DEF ImageInv, InOrder
<1>20. NoneMissing'
  <2> SUFFICES ASSUME Intact, Receiving, ~Failing, NEW n \in Written + 1 .. client'[generation].sent PROVE Covered(n)'
    BY <1>2, <1>7, <1>8 DEF NoneMissing
  <2>1. n \in Nat
    BY <1>18
  <2>2. CASE n <= client[generation].sent
    <3>1. n \in Written + 1 .. client[generation].sent
      BY <1>1, <1>18, <2>1, <2>2
    <3>2. PICK p \in Places : /\ Own(p) /\ (Line[p].body = <<generation, n>> \/ Line[p].id = "HTTP_ERROR")
                              /\ \A q \in Places : After(q, n) => p <= q
      BY <3>1 DEF ImageInv, NoneMissing, Covered
    <3>3. \A q \in Places' : After(q, n)' => p <= q
      <4> SUFFICES ASSUME NEW q \in Places', After(q, n)' PROVE p <= q
        OBVIOUS
      <4>1. CASE q \in Places
        BY <1>3, <1>6, <3>2, <4>1 DEF After
      <4>2. CASE q = k
        BY <1>3, <3>2, <4>2
      <4>3. QED
        BY <1>3, <4>1, <4>2
    <3>4. QED
      BY <1>2, <1>3, <1>6, <3>2, <3>3 DEF Covered
  <2>3. CASE n > client[generation].sent
    <3>1. n = client[generation].sent + 1 /\ client'[generation].sent = client[generation].sent + 1
          /\ cb'.id \in {"BODY_DATA", "HTTP_ERROR"}
      BY <1>1, <1>18, <2>1, <2>3, SMTT(30) DEF Enters
    <3>2. e.body = <<generation, n>> \/ e.id = "HTTP_ERROR"
      BY <1>1, <1>4, <3>1 DEF Enters
    <3>3. \A q \in Places' : After(q, n)' => k <= q
      <4> SUFFICES ASSUME NEW q \in Places', After(q, n)' PROVE k <= q
        OBVIOUS
      <4>1. CASE q \in Places
        <5>1. Own(q) /\ Line[q].id = "BODY_DATA" /\ Line[q].body[2] > n
          BY <1>1, <1>3, <1>6, <4>1 DEF After
        <5>2. Line[q].body[2] \in Nat /\ Line[q].body[2] <= client[generation].sent
          BY <1>14, <4>1, <5>1
        <5>3. QED
          BY <1>1, <3>1, <5>1, <5>2
      <4>2. CASE q = k
        BY <1>3, <4>2
      <4>3. QED
        BY <1>3, <4>1, <4>2
    <3>4. QED
      BY <1>2, <1>3, <1>6, <3>2, <3>3 DEF Covered
  <2>4. QED
    BY <1>1, <2>1, <2>2, <2>3
<1>21. HeaderFirst'
  <2> SUFFICES ASSUME Intact, Receiving, ~Failing, ~HttpStatusOk, ota.pc # "head"
               PROVE  /\ \A q \in Places' : Own(q)' /\ Line'[q].id \in {"BODY_DATA", "BODY_DONE"} =>
                           \E p \in Places' : Heads(p)' /\ p < q
                      /\ client'[generation].phase = "body" => \E p \in Places' : Heads(p)'
    BY <1>2, <1>7, <1>8 DEF HeaderFirst
  <2>1. client[generation].phase = "body" => \E p \in Places : Heads(p)
    BY DEF ImageInv, HeaderFirst
  <2>2. ASSUME NEW q \in Places', Own(q)', Line'[q].id \in {"BODY_DATA", "BODY_DONE"}
        PROVE  \E p \in Places' : Heads(p)' /\ p < q
    <3>1. CASE q \in Places
      BY <1>3, <1>6, <2>2, <3>1 DEF ImageInv, HeaderFirst
    <3>2. CASE q = k
      <4>1. client[generation].phase = "body"
        BY <1>1, <1>3, <1>4, <2>2, <3>2 DEF Enters
      <4>2. PICK p \in Places : Heads(p)
        BY <2>1, <4>1
      <4>3. p < q
        BY <1>3, <3>2
      <4>4. QED
        BY <1>3, <1>6, <4>2, <4>3
    <3>3. QED
      BY <1>3, <3>1, <3>2
  <2>3. client'[generation].phase = "body" => \E p \in Places' : Heads(p)'
    BY <1>1, <1>3, <1>6, <2>1 DEF Enters
  <2>4. QED
    BY <2>2, <2>3
<1>22. AllWritten'
  BY <1>1, <1>7 DEF AllWritten, Receiving
<1>23. QED
  BY <1>7, <1>10, <1>11, <1>12, <1>16, <1>17, <1>19, <1>20, <1>21, <1>22 DEF ImageInv

\* A delivery of client h is such a callback.
LEMMA DeliveryEnters ==
  ASSUME TypeOK, NEW h \in Gens, DeliverHead(h) \/ DeliverBody(h) \/ DeliverDone(h) \/ DeliverError(h)
  PROVE  Enters(h)
<1>1. client \in [Gens -> Clients] /\ client[h] \in Clients /\ client[h].sent \in Nat
  BY OtaAssumption DEF TypeOK, Clients, OtaAssumption
<1>2. /\ cb.pc = "none" /\ EngineQuiet /\ UNCHANGED <<queue, lost>>
      /\ client[h].phase \in {"head", "body"}
      /\ cb'.pc = "entered" /\ cb'.src = h
  BY DEF DeliverHead, DeliverBody, DeliverDone, DeliverError, Engine, EngineQuiet, session, EnterCallback
<1>3. CASE DeliverHead(h)
  <2>1. client'[h] = [client[h] EXCEPT !.phase = "body"] /\ \A x \in Gens : x # h => client'[x] = client[x]
    BY <1>1, <1>3 DEF DeliverHead
  <2>2. client'[h].phase = "body" /\ client'[h].sent = client[h].sent
    BY <1>1, <2>1 DEF Clients
  <2>3. cb'.id = "HEAD_DONE" /\ cb'.body = NoBody /\ heap' = heap
    BY <1>3 DEF DeliverHead, EnterCallback
  <2>4. QED
    BY <1>2, <2>1, <2>2, <2>3 DEF Enters
<1>4. CASE DeliverBody(h)
  <2>1. client'[h] = [client[h] EXCEPT !.sent = client[h].sent + 1] /\ \A x \in Gens : x # h => client'[x] = client[x]
    BY <1>1, <1>4 DEF DeliverBody
  <2>2. client[h].phase = "body" /\ client'[h].phase = "body" /\ client'[h].sent = client[h].sent + 1
    BY <1>1, <1>4, <2>1 DEF Clients, DeliverBody
  <2>3. \/ cb'.id = "BODY_DATA" /\ cb'.body = <<h, client[h].sent + 1>> /\ heap' = heap \cup {<<h, client[h].sent + 1>>}
        \/ cb'.id = "HTTP_ERROR" /\ cb'.err = "INTERNAL" /\ cb'.body = NoBody /\ heap' = heap
    BY <1>4 DEF DeliverBody, EnterCallback
  <2>4. QED
    BY <1>2, <2>1, <2>2, <2>3 DEF Enters
<1>5. CASE DeliverDone(h)
  <2>1. client'[h] = [client[h] EXCEPT !.phase = "ended"] /\ \A x \in Gens : x # h => client'[x] = client[x]
    BY <1>1, <1>5 DEF DeliverDone
  <2>2. client'[h].phase = "ended" /\ client'[h].sent = client[h].sent /\ client[h].sent = Chunks
        /\ client[h].phase = "body"
    BY <1>1, <1>5, <2>1 DEF Clients, DeliverDone
  <2>3. cb'.id = "BODY_DONE" /\ cb'.body = NoBody /\ heap' = heap
    BY <1>5 DEF DeliverDone, EnterCallback
  <2>4. QED
    BY <1>2, <2>1, <2>2, <2>3 DEF Enters
<1>6. CASE DeliverError(h)
  <2>1. client'[h] = [client[h] EXCEPT !.phase = "ended"] /\ \A x \in Gens : x # h => client'[x] = client[x]
    BY <1>1, <1>6 DEF DeliverError
  <2>2. client'[h].phase = "ended" /\ client'[h].sent = client[h].sent
    BY <1>1, <2>1 DEF Clients
  <2>3. cb'.id = "HTTP_ERROR" /\ cb'.err = "DOWNLOAD_FAILED" /\ cb'.body = NoBody /\ heap' = heap
    BY <1>6 DEF DeliverError, EnterCallback
  <2>4. QED
    BY <1>2, <2>1, <2>2, <2>3 DEF Enters
<1>7. QED
  BY <1>3, <1>4, <1>5, <1>6

\* A step of the engine that adds and removes no event.
LEMMA ImageSameLine ==
  ASSUME TypeOK, SessionInv, OwnInv, ImageInv, EngineQuiet, Line' = Line, UNCHANGED <<heap, lost>>,
         cb'.pc = "none" \/ (cb.pc # "none" /\ cb'.id = cb.id /\ cb'.src = cb.src),
         cb'.pc = "none" => cb'.body = NoBody,
         (\E i \in 1 .. Len(queue') : StartsAt(i)') => \E i \in 1 .. Len(queue) : StartsAt(i),
         \A h \in Gens : /\ client'[h].sent = client[h].sent
                         /\ \/ client'[h].phase = client[h].phase
                            \/ client[h].phase = "body" /\ client'[h].phase = "head"
  PROVE  ImageInv'
<1>1. UNCHANGED <<state, generation, httpStatusCode, http, api, ota, fota>>
  BY DEF EngineQuiet
<1>2. HandlerKeeps' /\ SketchKeeps' /\ WriterFollows' /\ NoForeignBytes' /\ Downloaded'
      /\ Written' = Written /\ Failing' = Failing /\ Receiving' = Receiving /\ HttpStatusOk' = HttpStatusOk
  BY EngineRest
<1>3. Onward
  BY DEF Onward
<1>4. LineShaped'
  BY <1>1, <1>3, ShapedKept DEF ImageInv
<1>5. generation \in Gens \/ generation = 0
  BY RestValues DEF TypeOK, Gens
<1>6. state' \in {"VERIFYING", "STAGED", "APPLYING"} =>
        Line = <<>> /\ client'[generation].phase \in {"ended", "destroyed"}
  BY <1>1, <1>5 DEF ImageInv, LineOrdered, SketchKeeps
<1>7. LineOrdered'
  BY <1>1, <1>6, OrderedKept DEF ImageInv, LineOrdered
<1>8. ClientsCounted'
  <2>1. \A h \in Gens : client'[h].phase = "none" => client[h].phase = "none"
    OBVIOUS
  <2>2. \A h \in Gens : client[h].phase \in {"none", "created"} => client'[h].phase = client[h].phase
    OBVIOUS
  <2>3. BeginInProgress \/ (\E i \in 1 .. Len(queue) : StartsAt(i))
          \/ ota.pc \in {"fota_init", "create", "configure", "publish", "launch"} => generation # 0
    BY DEF ImageInv, SketchKeeps, OwnInv, Numbered, StartsAt, StartSteps, SessionInv, HandlerHoldsSession
  <2>4. QED
    BY <1>1, <1>5, <2>1, <2>2, <2>3 DEF ImageInv, ClientsCounted, BeginInProgress
<1>9. BodiesApart' /\ CopiesHeld'
  BY <1>1, ApartKept, CopiesKept DEF ImageInv
<1>10. ImageParts'
  <2>1. Intact' = Intact
    BY <1>1 DEF Intact
  <2>2. \A h \in Gens : client'[h].phase = "body" => client[h].phase = "body"
    OBVIOUS
  <2>3. QED
    BY <1>1, <1>2, <1>5, <2>1, <2>2, ImageStays DEF ImageInv, ImageParts
<1>11. QED
  BY <1>2, <1>4, <1>7, <1>8, <1>9, <1>10 DEF ImageInv, ImageParts

\* The full queue refuses the event: it leaves the line.
LEMMA ImageRefused ==
  ASSUME TypeOK, TypeOK', SessionInv, OwnInv, ImageInv, CallbackSends, ~QueueHasRoom
  PROVE  ImageInv'
<1>1. /\ cb.pc = "tagged" /\ cb'.pc = "none" /\ cb'.body = NoBody /\ lost' = lost \cup {cb.src}
      /\ UNCHANGED <<queue, client, heap>> /\ EngineQuiet
  BY DEF CallbackSends, NoCallback, EngineQuiet, session
<1>2. UNCHANGED <<state, generation, httpStatusCode, http, api, ota, fota>>
  BY <1>1 DEF EngineQuiet
<1>3. PICK k :
        /\ k \in Nat /\ k = Len(Line) /\ k \in Places /\ Line[k] = Running
        /\ Places = Places' \cup {k}
        /\ \A i \in Places' : i \in Nat /\ i < k /\ Line'[i] = Line[i]
  BY <1>1, <1>2, LineRefused
<1>4. HandlerKeeps' /\ SketchKeeps' /\ WriterFollows' /\ NoForeignBytes' /\ Downloaded'
      /\ Written' = Written /\ Failing' = Failing /\ Receiving' = Receiving /\ HttpStatusOk' = HttpStatusOk
  BY <1>1, EngineRest
<1>5. \A i \in Places' : Own(i)' = Own(i) /\ Old(i)' = Old(i) /\ Heads(i)' = Heads(i)
  BY <1>2, <1>3 DEF Own, Old, Heads
<1>6. Line[k].src = cb.src /\ EventShaped(Line[k])
  BY <1>3 DEF Running, ImageInv, LineShaped
<1>7. state \notin {"VERIFYING", "STAGED", "APPLYING"}
  <2>1. Line # <<>>
    BY <1>3 DEF Places
  <2>2. QED
    BY <2>1 DEF ImageInv, LineOrdered
<1>8. Intact' => Intact /\ ~Own(k)
  BY <1>1, <1>2, <1>6 DEF Intact, Own
<1>9. LineShaped'
  BY <1>1, <1>2, <1>3 DEF ImageInv, LineShaped, EventShaped
<1>10. LineOrdered'
  BY <1>2, <1>3, <1>5, <1>7 DEF ImageInv, LineOrdered
<1>11. ClientsCounted'
  BY <1>1, <1>2 DEF ImageInv, ClientsCounted, BeginInProgress, StartsAt
<1>12. BodiesApart'
  BY <1>1, <1>2, <1>3 DEF ImageInv, BodiesApart
<1>13. CopiesHeld'
  <2>1. ASSUME NEW b \in heap, Line[k].body = b PROVE b[1] \in lost'
    <3>1. b # NoBody
      BY DEF TypeOK, Bodies, Gens, NoBody
    <3>2. b[1] = cb.src
      BY <1>6, <2>1, <3>1 DEF EventShaped
    <3>3. QED
      BY <1>1, <3>2
  <2>2. \A b \in heap : \/ \E i \in Places' : Line'[i].body = b
                        \/ ota.pc = "write" /\ ota.body = b
                        \/ b[1] \in lost'
    BY <1>1, <1>3, <2>1 DEF ImageInv, CopiesHeld
  <2>3. QED
    BY <1>1, <1>2, <1>3, <2>2 DEF ImageInv, CopiesHeld
<1>14. InOrder'
  BY <1>1, <1>2, <1>3, <1>4, <1>5, <1>8 DEF ImageInv, InOrder
<1>15. NoneMissing'
  <2> SUFFICES ASSUME Intact, ~Own(k), Receiving, ~Failing, NEW n \in Written + 1 .. client[generation].sent
               PROVE  Covered(n)'
    BY <1>1, <1>2, <1>4, <1>8 DEF NoneMissing
  <2>1. PICK p \in Places : /\ Own(p) /\ (Line[p].body = <<generation, n>> \/ Line[p].id = "HTTP_ERROR")
                            /\ \A q \in Places : After(q, n) => p <= q
    BY DEF ImageInv, NoneMissing, Covered
  <2>2. p \in Places'
    BY <1>3, <2>1
  <2>3. \A q \in Places' : After(q, n)' => After(q, n)
    BY <1>3, <1>5 DEF After
  <2>4. QED
    BY <1>2, <1>3, <1>5, <2>1, <2>2, <2>3 DEF Covered
<1>16. HeaderFirst'
  <2> SUFFICES ASSUME Intact, ~Own(k), Receiving, ~Failing, ~HttpStatusOk, ota.pc # "head"
               PROVE  /\ \A q \in Places' : Own(q)' /\ Line'[q].id \in {"BODY_DATA", "BODY_DONE"} =>
                           \E p \in Places' : Heads(p)' /\ p < q
                      /\ client[generation].phase = "body" => \E p \in Places' : Heads(p)'
    BY <1>1, <1>2, <1>4, <1>8 DEF HeaderFirst
  <2>1. \A p \in Places : Heads(p) => p \in Places'
    BY <1>3 DEF Heads
  <2>2. QED
    BY <1>3, <1>5, <2>1 DEF ImageInv, HeaderFirst
<1>17. AllWritten'
  BY <1>4, <1>7, <1>2 DEF AllWritten
<1>18. QED
  BY <1>4, <1>9, <1>10, <1>11, <1>12, <1>13, <1>14, <1>15, <1>16, <1>17 DEF ImageInv

\* The engine goes on.
LEMMA ImageEngine == TypeOK /\ TypeOK' /\ SessionInv /\ OwnInv /\ ImageInv /\ HttpEngine => ImageInv'
<1> SUFFICES ASSUME TypeOK, TypeOK', SessionInv, OwnInv, ImageInv, HttpEngine PROVE ImageInv'
  OBVIOUS
<1>1. CASE Deliver
  BY <1>1, DeliveryEnters, ImageEntered DEF Deliver
<1>2. ASSUME NEW h \in Gens, Resume(h) PROVE ImageInv'
  <2>1. client \in [Gens -> Clients] /\ \A x \in Gens : client[x] \in Clients
    BY DEF TypeOK
  <2>2. client[h].phase = "body" /\ UNCHANGED <<queue, cb, heap, lost>> /\ EngineQuiet /\ generation' = generation
        /\ client' = [client EXCEPT ![h].phase = "head", ![h].retries = @ + 1]
    BY <1>2 DEF Resume, Engine, EngineQuiet, session
  <2>3. client'[h] = [client[h] EXCEPT !.phase = "head", !.retries = @ + 1]
        /\ \A x \in Gens : x # h => client'[x] = client[x]
    BY <2>1, <2>2
  <2>4. client'[h].phase = "head" /\ client'[h].sent = client[h].sent
    BY <2>1, <2>3 DEF Clients
  <2>5. Line' = Line
    BY <2>2, LineSame
  <2>6. cb'.pc = "none" => cb'.body = NoBody
    BY <2>2 DEF ImageInv, LineShaped
  <2>7. QED
    BY <2>2, <2>3, <2>4, <2>5, <2>6, ImageSameLine DEF StartsAt
<1>3. CASE CallbackReadsGeneration
  <2>1. Line' = Line
    BY <1>3, LineTagged
  <2>2. UNCHANGED <<queue, heap, lost, client>> /\ EngineQuiet /\ generation' = generation /\ cb.pc # "none"
    BY <1>3 DEF CallbackReadsGeneration, EngineQuiet, session
  <2>3. cb'.pc = "tagged" /\ cb'.id = cb.id /\ cb'.src = cb.src
    BY <1>3 DEF CallbackReadsGeneration, TypeOK, Callbacks
  <2>4. QED
    BY <2>1, <2>2, <2>3, ImageSameLine DEF StartsAt
<1>4. CASE CallbackSends /\ QueueHasRoom
  <2>1. Line' = Line
    BY <1>4, LineSent
  <2>2. UNCHANGED <<heap, lost, client>> /\ EngineQuiet /\ generation' = generation /\ cb.pc = "tagged"
        /\ cb'.pc = "none" /\ cb'.body = NoBody
    BY <1>4 DEF CallbackSends, EngineQuiet, session, NoCallback
  <2> DEFINE e == [id |-> cb.id, gen |-> cb.gen, src |-> cb.src, body |-> cb.body, err |-> cb.err]
  <2>3. queue' = Append(queue, e) /\ e.id # "START"
    BY <1>4, <2>2 DEF CallbackSends, ImageInv, LineShaped
  <2> HIDE DEF e
  <2>4. queue \in Seq(Events) /\ Len(queue) \in Nat
    BY DEF TypeOK
  <2>5. /\ Len(queue') = Len(queue) + 1 /\ queue'[Len(queue) + 1] = e
        /\ \A i \in 1 .. Len(queue) : queue'[i] = queue[i]
    BY <2>3, <2>4
  <2>6. \A i \in 1 .. Len(queue') : StartsAt(i)' => i \in 1 .. Len(queue) /\ StartsAt(i)
    BY <2>2, <2>3, <2>4, <2>5 DEF StartsAt
  <2>7. QED
    BY <2>1, <2>2, <2>6, ImageSameLine
<1>5. CASE CallbackSends /\ ~QueueHasRoom
  BY <1>5, ImageRefused
<1>6. QED
  BY <1>1, <1>2, <1>3, <1>4, <1>5 DEF HttpEngine, Callback

-----------------------------------------------------------------------------
(* The theorems *)

\* What the invariants of the three modules say together.
AllInv == TypeOK /\ SessionInv /\ OwnInv /\ ImageInv

\* Every step preserves the invariant.
LEMMA ImageNext == AllInv /\ TypeOK' /\ [Next]_vars => ImageInv'
<1> SUFFICES ASSUME AllInv, TypeOK', [Next]_vars PROVE ImageInv'
  OBVIOUS
<1> USE DEF AllInv
<1>1. CASE Sketch
  BY <1>1, ImageSketch
<1>2. CASE OtaTask
  BY <1>2, ImageTake, ImageStart, ImageHandler
<1>3. CASE HttpEngine
  BY <1>3, ImageEngine
<1>4. CASE UNCHANGED vars
  BY <1>4, ImageUntouched DEF vars, session
<1>5. QED
  BY <1>1, <1>2, <1>3, <1>4 DEF Next

\* Every step preserves all of them.
LEMMA AllNext == AllInv /\ [Next]_vars => AllInv'
<1> SUFFICES ASSUME AllInv, [Next]_vars PROVE AllInv'
  OBVIOUS
<1>1. TypeOK'
  BY TypeNext DEF AllInv
<1>2. SessionInv'
  BY SessionNext DEF AllInv
<1>3. OwnInv'
  BY OwnNext DEF AllInv
<1>4. ImageInv'
  BY <1>1, ImageNext
<1>5. QED
  BY <1>1, <1>2, <1>3, <1>4 DEF AllInv

\* The inductive invariant holds of the bridge.
THEOREM ImageInvariant == Spec => []AllInv
<1>1. Init => AllInv
  BY TypeInit, SessionInit, OwnInit, ImageInit DEF AllInv
<1>2. QED
  BY <1>1, AllNext, PTL DEF Spec

\* A body copy has a holder until it is freed or leaked.
LEMMA CopiesOwned == AllInv => BodyOwnership
<1> SUFFICES ASSUME AllInv PROVE BodyOwnership
  OBVIOUS
<1>1. TypeOK /\ CopiesHeld /\ LineShaped /\ LineForm
  BY LineIs DEF AllInv, ImageInv
<1>2. \A i \in 1 .. Len(queue) : queue[i] \in Queued /\ queue[i] = Line[i] /\ i \in Places
  BY <1>1 DEF Queued, LineForm
<1>3. cb.pc # "none" => Len(queue) + 1 \in Places /\ Line[Len(queue) + 1].body = cb.body
  BY <1>1 DEF LineForm, Running
<1>4. \A i \in Places : i \in 1 .. Len(queue) \/ (cb.pc # "none" /\ i = Len(queue) + 1)
  BY <1>1 DEF LineForm
<1>5. ASSUME NEW b \in BodyHolders \ {NoBody} PROVE b \in heap
  <2>1. CASE \E e \in Queued : b = e.body
    BY <1>1, <1>2, <1>5, <2>1 DEF Queued, CopiesHeld
  <2>2. CASE b = cb.body
    BY <1>1, <1>3, <1>5, <2>2 DEF LineShaped, CopiesHeld
  <2>3. CASE ota.pc = "write" /\ b = ota.body
    BY <1>1, <2>3 DEF CopiesHeld
  <2>4. QED
    BY <1>5, <2>1, <2>2, <2>3 DEF BodyHolders
<1>6. ASSUME NEW b \in heap, b[1] \notin lost PROVE b \in BodyHolders
  <2>1. CASE ota.pc = "write" /\ ota.body = b
    BY <2>1 DEF BodyHolders
  <2>2. ASSUME NEW i \in Places, Line[i].body = b PROVE b \in BodyHolders
    BY <1>2, <1>3, <1>4, <2>2 DEF BodyHolders
  <2>3. QED
    BY <1>1, <1>6, <2>1, <2>2 DEF CopiesHeld
<1>7. QED
  BY <1>5, <1>6 DEF BodyOwnership

\* The HTTP client, the copies of the bodies and the FOTA writer that the session
\* uses are its own, alive, and let go of: at every step of the sketch, the
\* arduino_ota task and the HTTP engine, whatever handler lost the race with begin()
\* or clear(), and whatever the full queue refused.
THEOREM ResourcesHeld == Spec => []ResourcesOwned
<1>1. AllInv => HttpOwnership
  BY OwnImplies DEF AllInv
<1>2. AllInv => FotaOpenWhenUsed
  <2> SUFFICES ASSUME AllInv, ota.pc \in {"head", "write", "verify", "finish"}
               PROVE  fota.open /\ fota.owner = ota.gen
    BY DEF FotaOpenWhenUsed
  <2>1. ota.gen = generation /\ ota.pc # "detach" /\ ~Closing
    BY DEF AllInv, ImageInv, HandlerKeeps, Closing
  <2>2. http # 0
    BY <2>1 DEF AllInv, ImageInv, HandlerKeeps, WriterFollows, HttpStatusOk, Receiving, OwnInv, HandleFollows
  <2>3. QED
    BY <2>1, <2>2 DEF AllInv, ImageInv, WriterFollows
<1>3. AllInv => ResourcesOwned
  BY <1>1, <1>2, CopiesOwned DEF ResourcesOwned
<1>4. QED
  BY <1>3, ImageInvariant, PTL

\* A staged package is committed and, unless the full queue refused one of its
\* events, holds every body of its session once and in order; no body of another
\* session ever reaches the writer.
THEOREM ImageIsSound == Spec => []ImageSound
<1>1. AllInv => StagedImageWhole
  <2> SUFFICES ASSUME AllInv, state = "STAGED" PROVE StagedImageWhole
    BY DEF StagedImageWhole
  <2>1. fota.committed /\ fota.owner = generation /\ generation # 0
    BY DEF AllInv, ImageInv, SketchKeeps
  <2>2. ota.pc # "write" /\ ota.pc # "account"
    BY DEF AllInv, ImageInv, HandlerKeeps
  <2>3. fota.written \in Seq(Bodies \cup {NoBody}) /\ Len(fota.written) \in Nat /\ downloadedBytes \in Nat
    BY DEF AllInv, TypeOK, Writers
  <2>4. ASSUME generation \notin lost
        PROVE  fota.written = WholePackage(generation) /\ downloadedBytes = Chunks
    <3>1. Intact
      BY <2>1, <2>4 DEF Intact
    <3>2. Written = Len(fota.written)
      BY <2>2, <2>3 DEF Written
    <3>3. Written = Chunks
      BY <3>1 DEF AllInv, ImageInv, AllWritten
    <3>4. \A n \in 1 .. Chunks : fota.written[n] = <<generation, n>>
      BY <3>1, <3>2, <3>3 DEF AllInv, ImageInv, InOrder
    <3>5. fota.written = [n \in 1 .. Chunks |-> fota.written[n]]
      <4>1. fota.written \in [1 .. Len(fota.written) -> Bodies \cup {NoBody}]
        BY <2>3, LenProperties
      <4>2. QED
        BY <3>2, <3>3, <4>1
    <3>6. fota.written = WholePackage(generation)
      BY <3>4, <3>5 DEF WholePackage
    <3>7. downloadedBytes = Chunks
      BY <2>1, <2>2, <2>3, <3>2, <3>3 DEF AllInv, ImageInv, Downloaded
    <3>8. QED
      BY <3>6, <3>7
  <2>5. QED
    BY <2>1, <2>4 DEF StagedImageWhole
<1>2. AllInv => ImageSound
  BY <1>1 DEF AllInv, ImageInv, ImageSound
<1>3. QED
  BY <1>2, ImageInvariant, PTL

-----------------------------------------------------------------------------
(* The life cycle *)

\* A call of the sketch is a step of the life cycle, or changes nothing of it.
LEMMA SketchLives == AllInv /\ Sketch => [Lifecycle!Next]_(Lifecycle!life)
<1> SUFFICES ASSUME AllInv, Sketch PROVE Lifecycle!Next \/ UNCHANGED Lifecycle!life
  OBVIOUS
<1>1. ASSUME NEW err \in EarlyErrors, BeginRefusedEarly(err) PROVE Lifecycle!Refuse
  BY <1>1, OtaAssumption DEF OtaAssumption, BeginRefusedEarly, Lifecycle!Refuse, Lifecycle!RefusalErrors
<1>2. CASE BeginRefusedByState
  BY <1>2 DEF BeginRefusedByState, Lifecycle!Next, Lifecycle!Refuse, Lifecycle!RefusalErrors
<1>3. CASE BeginAccepted
  <2>1. generation \in Nat /\ generation' = generation + 1
    BY <1>3, RestValues, NextGenerationIsNew DEF AllInv, TypeOK, BeginAccepted
  <2>2. Lifecycle!Begin
    BY <1>3, <2>1 DEF BeginAccepted, ResetSession, Lifecycle!Begin
  <2>3. QED
    BY <2>2 DEF Lifecycle!Next
<1>4. CASE BeginSendsStart
  BY <1>4 DEF BeginSendsStart, session, Lifecycle!life
<1>5. CASE BeginGivesUp
  <2>1. BeginInProgress
    BY <1>5 DEF BeginGivesUp, BeginInProgress
  <2>2. state \in {"STARTING", "ERROR"} /\ generation # 0 /\ generation \in Nat
    BY <2>1, RestValues DEF AllInv, ImageInv, SketchKeeps, TypeOK
  <2>3. Lifecycle!Fail
    BY <1>5, <2>2 DEF BeginGivesUp, ResetSession, Lifecycle!Fail, Lifecycle!SessionErrors
  <2>4. QED
    BY <2>3 DEF Lifecycle!Next
<1>6. CASE Clear
  <2>1. CASE StateIsRunning \/ state = "STAGED"
    BY <1>6, <2>1 DEF Clear, Lifecycle!Next, Lifecycle!Refuse, Lifecycle!RefusalErrors
  <2>2. CASE ~(StateIsRunning \/ state = "STAGED")
    <3>1. state \in {"IDLE", "ERROR"}
      BY <2>2 DEF AllInv, TypeOK, States, StateIsRunning
    <3>2. QED
      BY <1>6, <2>2, <3>1 DEF Clear, ResetSession, Lifecycle!Next, Lifecycle!Clear
  <2>3. QED
    BY <2>1, <2>2
<1>7. CASE Apply
  BY <1>7 DEF Apply, Lifecycle!Next, Lifecycle!Refuse, Lifecycle!RefusalErrors, Lifecycle!Apply
<1>8. CASE Reboot
  BY <1>8 DEF AllInv, ImageInv, SketchKeeps, Reboot, Lifecycle!Next, Lifecycle!Reboot
<1>9. QED
  BY <1>1, <1>2, <1>3, <1>4, <1>5, <1>6, <1>7, <1>8 DEF Sketch, SketchFinishesBegin, Lifecycle!Next

\* So is a step of the arduino_ota task.
LEMMA TaskLives == AllInv /\ OtaTask => [Lifecycle!Next]_(Lifecycle!life)
<1> SUFFICES ASSUME AllInv, OtaTask PROVE Lifecycle!Next \/ UNCHANGED Lifecycle!life
  OBVIOUS
<1>1. Receiving /\ HttpStatusOk => state = "DOWNLOADING"
  BY DEF AllInv, ImageInv, SketchKeeps, Receiving
<1>2. CASE TakeStart \/ TakeHeadDone \/ TakeHttpError
  BY <1>2 DEF TakeStart, TakeHeadDone, TakeHttpError, Receive, Lifecycle!life
<1>3. CASE TakeBodyData
  BY <1>1, <1>3 DEF TakeBodyData, Receive, Lifecycle!life
<1>4. CASE TakeBodyDone
  BY <1>1, <1>4 DEF TakeBodyDone, Receive, Lifecycle!life, Lifecycle!Next, Lifecycle!Verify
<1>5. CASE OtaStart
  BY <1>5 DEF OtaStart, StartFotaInit, StartCreateClient, StartConfigure, StartPublish, StartLaunch, session,
     Lifecycle!life
<1>6. CASE ReadHead
  <2>1. Receiving
    BY <1>6 DEF ReadHead, AllInv, ImageInv, HandlerKeeps
  <2>2. CASE UNCHANGED <<state, lastError>>
    BY <1>6, <2>2 DEF ReadHead, Lifecycle!life
  <2>3. CASE state' = "DOWNLOADING" /\ lastError' = "NONE"
    BY <1>6, <2>1, <2>3 DEF ReadHead, Receiving, Lifecycle!Next, Lifecycle!Download
  <2>4. QED
    BY <1>6, <2>2, <2>3 DEF ReadHead
<1>7. CASE WriteBody \/ AccountBody \/ VerifyImage \/ CommitImage \/ DetachHttp \/ DestroyHttp
  BY <1>7 DEF WriteBody, AccountBody, VerifyImage, CommitImage, DetachHttp, DestroyHttp, session, Lifecycle!life
<1>8. CASE Settle
  <2>1. ota.pc = "settle" /\ Closing /\ generation' = generation
    BY <1>8 DEF Settle, Closing
  <2>2. CASE ota.gen # generation
    BY <1>8, <2>1, <2>2 DEF Settle, Lifecycle!life
  <2>3. CASE ota.gen = generation /\ ota.outcome = "NONE"
    <3>1. state = "VERIFYING"
      BY <2>1, <2>3 DEF AllInv, SessionInv, HandlerHoldsSession
    <3>2. QED
      BY <1>8, <2>1, <2>3, <3>1 DEF Settle, Lifecycle!Next, Lifecycle!Stage
  <2>4. CASE ota.gen = generation /\ ota.outcome # "NONE"
    <3>1. /\ state' = "ERROR" /\ lastError' = ota.outcome
          /\ ota.outcome \in Lifecycle!SessionErrors
          /\ state \notin {"STAGED", "APPLYING"} /\ (state = "VERIFYING" => ota.outcome = "VERIFY_FAILED")
          /\ generation # 0
      BY <1>8, <2>1, <2>4 DEF Settle, SetFailure, AllInv, ImageInv, HandlerKeeps
    <3>2. generation > 0
      BY <3>1, RestValues DEF AllInv, TypeOK
    <3>3. state \in States
      BY DEF AllInv, TypeOK
    <3>4. QED
      BY <2>1, <3>1, <3>2, <3>3 DEF States, Lifecycle!Next, Lifecycle!Fail, Lifecycle!Reject
  <2>5. QED
    BY <2>2, <2>3, <2>4
<1>9. QED
  BY <1>2, <1>3, <1>4, <1>5, <1>6, <1>7, <1>8 DEF OtaTask, OtaTake

\* What the sketch sees of the sessions, their state, how many have begun and the
\* last error, follows the life cycle of OtaLifecycle: three threads, a bounded queue
\* and an HTTP engine implement it step by step.
THEOREM SessionFollowsLifecycle == Spec => FollowsLifecycle
<1>1. Init => Lifecycle!Init
  BY DEF Init, Lifecycle!Init
<1>2. AllInv /\ [Next]_vars => [Lifecycle!Next]_(Lifecycle!life)
  <2>1. HttpEngine => UNCHANGED session
    BY DEF HttpEngine, Deliver, DeliverHead, DeliverBody, DeliverDone, DeliverError, Engine, Resume, Callback,
       CallbackReadsGeneration, CallbackSends
  <2>2. HttpEngine \/ UNCHANGED vars => UNCHANGED Lifecycle!life
    BY <2>1 DEF vars, session, Lifecycle!life
  <2>3. QED
    BY <2>2, SketchLives, TaskLives DEF Next
<1>3. QED
  BY <1>1, <1>2, ImageInvariant, PTL DEF Spec, FollowsLifecycle, Lifecycle!Spec

=============================================================================
