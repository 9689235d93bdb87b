----------------------------- MODULE OtaSession -----------------------------
(***************************************************************************)
(* The over-the-air update session of arduino_ota_io.c.  Three threads     *)
(* share g_arduinoOta under one mutex:                                     *)
(*   - the sketch task calls begin, clear and apply;                       *)
(*   - the arduino_ota task receives events from a bounded queue and runs  *)
(*     their handlers, which drop the mutex around every HTTP and FOTA     *)
(*     call and compare the generation again when they take it back;       *)
(*   - the HTTP engine of the SDK runs arduinoOtaHttpCallback, which reads *)
(*     the current generation, copies the body and posts an event.         *)
(* A critical section is one step; an SDK call between two critical        *)
(* sections is a step of its own.                                          *)
(***************************************************************************)
EXTENDS Naturals, Sequences, FiniteSets

CONSTANTS
  MaxSessions,   \* bound: sessions begun since boot
  Chunks,        \* body callbacks that make up one package
  QueueLimit,    \* events the arduino_ota queue holds (16 in the code)
  MaxRetries,    \* resumed requests per HTTP client (2 in the code)
  GenModulus,    \* number of values of the generation counter (2^32)
  EarlyErrors,   \* bound: which early failures of begin() are enumerated
  DestroyJoins   \* does luat_http_client_destroy wait for a running callback

Errors == {"NONE", "INVALID_ARGUMENT", "INVALID_STATE", "NETWORK_NOT_READY",
           "DOWNLOAD_FAILED", "VERIFY_FAILED", "HTTP_STATUS_ERROR", "INTERNAL"}

ASSUME OtaAssumption ==
  /\ MaxSessions \in Nat \ {0}
  /\ Chunks \in Nat \ {0}
  /\ QueueLimit \in Nat \ {0}
  /\ MaxRetries \in Nat
  /\ GenModulus \in Nat /\ MaxSessions < GenModulus
  /\ EarlyErrors \subseteq {"INVALID_ARGUMENT", "NETWORK_NOT_READY", "INTERNAL"}
  /\ DestroyJoins \in BOOLEAN

VARIABLES
  state,            \* g_arduinoOta.state
  generation,       \* g_arduinoOta.generation
  lastError,        \* g_arduinoOta.lastError
  httpStatusCode,   \* g_arduinoOta.httpStatusCode: not yet known, 200/206, other
  totalBytes,       \* g_arduinoOta.totalBytes, in chunks
  downloadedBytes,  \* g_arduinoOta.downloadedBytes, in chunks
  strings,          \* generation whose url/user/password/caCert are allocated, 0: none
  http,             \* g_arduinoOta.http: the client, named by its generation, 0: NULL
  taskReady,        \* g_arduinoOta.taskReady
  queue,            \* event queue of the arduino_ota task
  api,              \* where the sketch task is inside begin()
  ota,              \* where the arduino_ota task is, and its local variables
  client,           \* HTTP clients of the SDK
  cb,               \* the callback the HTTP engine is running
  heap,             \* body copies that are allocated
  fota,             \* the FOTA writer of the SDK
  lost              \* history: clients one of whose events the full queue refused

session == <<state, generation, lastError, httpStatusCode, totalBytes,
             downloadedBytes, strings>>
vars == <<session, http, taskReady, queue, api, ota, client, cb, heap, fota, lost>>

-----------------------------------------------------------------------------
(* Data *)

States == {"IDLE", "STARTING", "DOWNLOADING", "VERIFYING", "STAGED", "APPLYING", "ERROR"}
Gens   == 1 .. MaxSessions
Bodies == Gens \X (1 .. Chunks)
NoBody == <<0, 0>>

EventIds == {"START", "HEAD_DONE", "BODY_DATA", "BODY_DONE", "HTTP_ERROR"}

\* src (the client that raised the event) is a history field: the code's
\* event carries only the generation the callback read.
Events == [id : EventIds, gen : 0 .. MaxSessions, src : 0 .. MaxSessions,
           body : Bodies \cup {NoBody}, err : Errors]

ClientPhases == {"none", "created", "head", "body", "ended", "destroyed"}
Clients == [phase : ClientPhases, sent : 0 .. Chunks, retries : 0 .. MaxRetries]
NoClient == [phase |-> "none", sent |-> 0, retries |-> 0]
Live(h) == client[h].phase \notin {"none", "destroyed"}

\* The callback: not running, entered, past its read of the generation.
Callbacks == [pc : {"none", "entered", "tagged"}, id : EventIds, gen : 0 .. MaxSessions,
              src : 0 .. MaxSessions, body : Bodies \cup {NoBody}, err : Errors]
NoCallback == [pc |-> "none", id |-> "START", gen |-> 0, src |-> 0,
               body |-> NoBody, err |-> "NONE"]

\* Program counters of the arduino_ota task.  "recv" waits for an event.
StartSteps == {"fota_init", "create", "configure", "publish", "launch"}
TaskSteps  == {"recv", "head", "write", "account", "verify", "finish",
               "detach", "destroy", "settle"} \cup StartSteps
Locals == [pc : TaskSteps, gen : 0 .. MaxSessions, http : 0 .. MaxSessions,
           body : Bodies \cup {NoBody}, outcome : Errors]
Waiting == [pc |-> "recv", gen |-> 0, http |-> 0, body |-> NoBody, outcome |-> "NONE"]

Writers == [open : BOOLEAN, owner : 0 .. MaxSessions,
            written : Seq(Bodies \cup {NoBody}), committed : BOOLEAN]
NoFota == [open |-> FALSE, owner |-> 0, written |-> <<>>, committed |-> FALSE]

StateIsRunning == state \in {"STARTING", "DOWNLOADING", "VERIFYING", "APPLYING"}
HttpStatusOk   == httpStatusCode = "ok"

Receiving           == state \in {"STARTING", "DOWNLOADING"}

\* generation++, and 0 is skipped when the counter wraps.
NextGeneration == LET n == (generation + 1) % GenModulus
                  IN  IF n = 0 THEN 1 ELSE n

QueueHasRoom == Len(queue) < QueueLimit
Queued       == {queue[i] : i \in 1 .. Len(queue)}

Init ==
  /\ state = "IDLE" /\ generation = 0 /\ lastError = "NONE"
  /\ httpStatusCode = "none" /\ totalBytes = 0 /\ downloadedBytes = 0
  /\ strings = 0 /\ http = 0 /\ taskReady = FALSE
  /\ queue = <<>> /\ api = "idle" /\ ota = Waiting
  /\ client = [h \in Gens |-> NoClient]
  /\ cb = NoCallback /\ heap = {} /\ fota = NoFota /\ lost = {}

-----------------------------------------------------------------------------
(* Sketch task *)

\* arduinoOtaResetSessionLocked, with the state and the error it is followed by.
ResetSession(st, err, str) ==
  /\ state' = st /\ lastError' = err /\ strings' = str
  /\ httpStatusCode' = "none" /\ totalBytes' = 0 /\ downloadedBytes' = 0

SetFailure(err) == state' = "ERROR" /\ lastError' = err

\* An argument, task, modem or allocation check of begin() fails: only
\* lastError changes, whatever session is running.  The argument checks come
\* before arduinoOtaEnsureTask, the others after it (INTERNAL on either side).
BeginRefusedEarly(err) ==
  /\ api = "idle"
  /\ lastError' = err
  /\ taskReady' \in IF err = "INVALID_ARGUMENT" THEN {taskReady}
                    ELSE IF err = "NETWORK_NOT_READY" THEN {TRUE} ELSE {taskReady, TRUE}
  /\ UNCHANGED <<state, generation, httpStatusCode, totalBytes, downloadedBytes,
                 strings, http, queue, api, ota, client, cb, heap, fota, lost>>

BeginRefusedByState ==
  /\ api = "idle"
  /\ state \notin {"IDLE", "ERROR"}
  /\ taskReady' = TRUE
  /\ lastError' = "INVALID_STATE"
  /\ UNCHANGED <<state, generation, httpStatusCode, totalBytes, downloadedBytes,
                 strings, http, queue, api, ota, client, cb, heap, fota, lost>>

\* The critical section of begin(): a new session replaces the old one.
BeginAccepted ==
  /\ api = "idle"
  /\ state \in {"IDLE", "ERROR"}
  /\ generation < MaxSessions
  /\ taskReady' = TRUE
  /\ generation' = NextGeneration
  /\ ResetSession("STARTING", "NONE", NextGeneration)
  /\ api' = "sending"
  /\ UNCHANGED <<http, queue, ota, client, cb, heap, fota, lost>>

\* luat_rtos_event_send(START) after the mutex is dropped.
BeginSendsStart ==
  /\ api = "sending"
  /\ IF QueueHasRoom
     THEN /\ queue' = Append(queue, [id |-> "START", gen |-> generation, src |-> 0,
                                     body |-> NoBody, err |-> "NONE"])
          /\ api' = "idle"
     ELSE api' = "refused" /\ UNCHANGED queue
  /\ UNCHANGED <<session, http, taskReady, ota, client, cb, heap, fota, lost>>

\* The send failed: begin() takes the mutex back and discards the session.
BeginGivesUp ==
  /\ api = "refused"
  /\ ResetSession("ERROR", "INTERNAL", 0)
  /\ api' = "idle"
  /\ UNCHANGED <<generation, http, taskReady, queue, ota, client, cb, heap, fota, lost>>

\* Mutant of Clear: accepted while the task works.
ClearWhenRunning ==
  /\ api = "idle"
  /\ state # "STAGED" /\ ResetSession("IDLE", "NONE", 0)
  /\ UNCHANGED <<generation, http, taskReady, queue, api, ota, client, cb, heap, fota, lost>>

Clear ==
  /\ api = "idle"
  /\ IF StateIsRunning \/ state = "STAGED"
     THEN /\ lastError' = "INVALID_STATE"
          /\ UNCHANGED <<state, httpStatusCode, totalBytes, downloadedBytes, strings>>
     ELSE ResetSession("IDLE", "NONE", 0)
  /\ UNCHANGED <<generation, http, taskReady, queue, api, ota, client, cb, heap, fota, lost>>

Apply ==
  /\ api = "idle"
  /\ IF state = "STAGED"
     THEN state' = "APPLYING" /\ api' = "rebooting" /\ UNCHANGED lastError
     ELSE lastError' = "INVALID_STATE" /\ UNCHANGED <<state, api>>
  /\ UNCHANGED <<generation, httpStatusCode, totalBytes, downloadedBytes, strings,
                 http, taskReady, queue, ota, client, cb, heap, fota, lost>>

\* luat_os_reboot: every thread and all of RAM start again.
Reboot ==
  /\ api = "rebooting"
  /\ state' = "IDLE" /\ generation' = 0 /\ lastError' = "NONE"
  /\ httpStatusCode' = "none" /\ totalBytes' = 0 /\ downloadedBytes' = 0
  /\ strings' = 0 /\ http' = 0 /\ taskReady' = FALSE
  /\ queue' = <<>> /\ api' = "idle" /\ ota' = Waiting
  /\ client' = [h \in Gens |-> NoClient]
  /\ cb' = NoCallback /\ heap' = {} /\ fota' = NoFota /\ lost' = {}

SketchFinishesBegin == BeginSendsStart \/ BeginGivesUp

Sketch ==
  \/ \E err \in EarlyErrors : BeginRefusedEarly(err)
  \/ BeginRefusedByState
  \/ BeginAccepted
  \/ SketchFinishesBegin
  \/ Clear
  \/ Apply
  \/ Reboot

-----------------------------------------------------------------------------
(* arduino_ota task *)

Goto(pc) == ota' = [ota EXCEPT !.pc = pc]

FotaEnd0 == fota' = [fota EXCEPT !.open = FALSE]

\* arduinoOtaFinalizeFailure up to its first critical section.
FinalizeFailure(err, endFota) ==
  /\ IF endFota THEN FotaEnd0 ELSE UNCHANGED fota
  /\ ota' = [ota EXCEPT !.pc = "detach", !.outcome = err]

\* arduinoOtaTask: receive an event and run the first critical section of its
\* handler, which decides whether the event is still of interest.
Receive(id) ==
  /\ taskReady /\ ota.pc = "recv" /\ queue # <<>> /\ Head(queue).id = id
  /\ queue' = Tail(queue)
  /\ UNCHANGED <<generation, lastError, totalBytes, downloadedBytes, strings,
                 httpStatusCode, http, taskReady, api, client, cb, lost>>

Task(pc, e) == [pc |-> pc, gen |-> e.gen, http |-> 0, body |-> e.body, outcome |-> "NONE"]

\* From here the handler uses url, user, password and caCert without the mutex.
TakeStart ==
  LET e == Head(queue)
  IN  /\ Receive("START")
      /\ ota' = IF e.gen = generation /\ state = "STARTING"
                THEN Task("fota_init", e) ELSE Waiting
      /\ UNCHANGED <<state, heap, fota>>

TakeHeadDone ==
  LET e == Head(queue)
  IN  /\ Receive("HEAD_DONE")
      /\ IF e.gen # generation \/ ~Receiving
         THEN ota' = Waiting /\ UNCHANGED fota
         ELSE IF http = 0
              THEN ota' = [Task("detach", e) EXCEPT !.outcome = "INTERNAL"] /\ FotaEnd0
              ELSE ota' = [Task("head", e) EXCEPT !.http = http] /\ UNCHANGED fota
      /\ UNCHANGED <<state, heap>>

TakeBodyData ==
  LET e == Head(queue)
  IN  /\ Receive("BODY_DATA")
      /\ IF e.gen = generation /\ Receiving /\ HttpStatusOk
         THEN state' = "DOWNLOADING" /\ ota' = Task("write", e) /\ UNCHANGED heap
         ELSE heap' = heap \ {e.body} /\ ota' = Waiting /\ UNCHANGED state
      /\ UNCHANGED fota

\* Mutant of TakeBodyDone: accepted before a good header was seen.
TakeBodyDoneEarly ==
  LET e == Head(queue)
  IN  /\ Receive("BODY_DONE")
      /\ IF e.gen # generation \/ ~Receiving
         THEN ota' = Waiting /\ UNCHANGED state
         ELSE state' = "VERIFYING" /\ ota' = Task("verify", e)
      /\ UNCHANGED <<heap, fota>>

TakeBodyDone ==
  LET e == Head(queue)
  IN  /\ Receive("BODY_DONE")
      /\ IF e.gen # generation \/ ~HttpStatusOk \/ ~Receiving
         THEN ota' = Waiting /\ UNCHANGED state
         ELSE state' = "VERIFYING" /\ ota' = Task("verify", e)
      /\ UNCHANGED <<heap, fota>>

\* No generation check: FOTA and the HTTP client are torn down at once.
TakeHttpError ==
  LET e == Head(queue)
  IN  /\ Receive("HTTP_ERROR")
      /\ ota' = [Task("detach", e) EXCEPT !.outcome = e.err]
      /\ FotaEnd0
      /\ UNCHANGED <<state, heap>>

\* luat_fota_init opens the writer for this session or fails.
StartFotaInit ==
  /\ ota.pc = "fota_init"
  /\ \/ fota' = [NoFota EXCEPT !.open = TRUE, !.owner = ota.gen] /\ Goto("create")
     \/ FinalizeFailure("INTERNAL", FALSE)
  /\ UNCHANGED <<session, http, taskReady, queue, api, client, cb, heap, lost>>

StartCreateClient ==
  /\ ota.pc = "create"
  /\ \/ /\ client' = [client EXCEPT ![ota.gen] = [NoClient EXCEPT !.phase = "created"]]
        /\ ota' = [ota EXCEPT !.pc = "configure", !.http = ota.gen]
        /\ UNCHANGED fota
     \/ FinalizeFailure("INTERNAL", TRUE) /\ UNCHANGED client
  /\ UNCHANGED <<session, http, taskReady, queue, api, cb, heap, lost>>

DestroyLocalClient == client' = [client EXCEPT ![ota.http].phase = "destroyed"]

\* Mutant of StartConfigure: the failure path forgets the local client.
StartConfigureLeaks ==
  /\ ota.pc = "configure"
  /\ \/ Goto("publish") /\ UNCHANGED fota
     \/ FotaEnd0 /\ ota' = [ota EXCEPT !.pc = "detach", !.http = 0, !.outcome = "INTERNAL"]
  /\ UNCHANGED <<session, http, taskReady, queue, api, client, cb, heap, lost>>

\* luat_http_client_ssl_config and arduinoOtaBuildUrlWithAuth read the strings;
\* either may fail, and the local client is then destroyed.
StartConfigure ==
  /\ ota.pc = "configure"
  /\ \/ Goto("publish") /\ UNCHANGED <<client, fota>>
     \/ /\ DestroyLocalClient
        /\ FotaEnd0
        /\ ota' = [ota EXCEPT !.pc = "detach", !.http = 0, !.outcome = "INTERNAL"]
  /\ UNCHANGED <<session, http, taskReady, queue, api, cb, heap, lost>>

StartPublish ==
  /\ ota.pc = "publish"
  /\ IF ota.gen = generation
     THEN http' = ota.http /\ Goto("launch") /\ UNCHANGED <<client, fota>>
     ELSE DestroyLocalClient /\ FotaEnd0 /\ ota' = Waiting /\ UNCHANGED http
  /\ UNCHANGED <<session, taskReady, queue, api, cb, heap, lost>>

\* luat_http_client_start.  The url is read again to choose the error; begin()
\* has validated it, so the error is DOWNLOAD_FAILED.
StartLaunch ==
  /\ ota.pc = "launch"
  /\ \/ client' = [client EXCEPT ![ota.http].phase = "head"] /\ ota' = Waiting /\ UNCHANGED fota
     \/ FinalizeFailure("DOWNLOAD_FAILED", TRUE) /\ UNCHANGED client
  /\ UNCHANGED <<session, http, taskReady, queue, api, cb, heap, lost>>

\* The status code and length of the client captured by TakeHeadDone, then
\* the second critical section of arduinoOtaHandleHeadDone, which checks the
\* generation but not the state.
ReadHead ==
  /\ ota.pc = "head"
  /\ \E status \in {"ok", "bad"}, length \in {0, Chunks} :
       /\ IF ota.gen = generation
          THEN /\ httpStatusCode' = status /\ totalBytes' = length
               /\ IF status = "ok"
                  THEN state' = "DOWNLOADING" /\ lastError' = "NONE"
                  ELSE UNCHANGED <<state, lastError>>
          ELSE UNCHANGED <<httpStatusCode, totalBytes, state, lastError>>
       /\ IF status = "ok"
          THEN ota' = Waiting /\ UNCHANGED fota
          ELSE FinalizeFailure("HTTP_STATUS_ERROR", TRUE)
  /\ UNCHANGED <<generation, downloadedBytes, strings, http, taskReady, queue, api,
                 client, cb, heap, lost>>

\* luat_fota_write, then the body copy is freed.
WriteBody ==
  /\ ota.pc = "write"
  /\ heap' = heap \ {ota.body}
  /\ \/ /\ fota' = [fota EXCEPT !.written = Append(@, ota.body)]
        /\ Goto("account")
     \/ FinalizeFailure("VERIFY_FAILED", TRUE)
  /\ UNCHANGED <<session, http, taskReady, queue, api, client, cb, lost>>

AccountBody ==
  /\ ota.pc = "account"
  /\ downloadedBytes' = IF ota.gen = generation THEN downloadedBytes + 1 ELSE downloadedBytes
  /\ ota' = Waiting
  /\ UNCHANGED <<state, generation, lastError, httpStatusCode, totalBytes, strings,
                 http, taskReady, queue, api, client, cb, heap, fota, lost>>

\* Mutant of VerifyImage: a failed verification is not reported.
VerifyImageSilently ==
  /\ ota.pc = "verify"
  /\ Goto("finish") \/ ota' = Waiting
  /\ UNCHANGED <<session, http, taskReady, queue, api, client, cb, heap, lost, fota>>

\* luat_fota_done: positive, poll again after 100 ms (the step stutters);
\* negative, verification failed and FOTA is not ended.
VerifyImage ==
  /\ ota.pc = "verify"
  /\ \/ Goto("finish")
     \/ FinalizeFailure("VERIFY_FAILED", FALSE)
  /\ UNCHANGED <<session, http, taskReady, queue, api, client, cb, heap, lost, fota>>

\* luat_fota_end(1) commits the package or fails.
CommitImage ==
  /\ ota.pc = "finish"
  /\ \E ok \in BOOLEAN :
       /\ fota' = [fota EXCEPT !.open = FALSE, !.committed = ok]
       /\ ota' = [ota EXCEPT !.pc = "detach",
                             !.outcome = IF ok THEN "NONE" ELSE "VERIFY_FAILED"]
  /\ UNCHANGED <<session, http, taskReady, queue, api, client, cb, heap, lost>>

\* arduinoOtaCloseHttp: take the handle under the mutex ...
DetachHttp ==
  /\ ota.pc = "detach"
  /\ http' = 0
  /\ ota' = [ota EXCEPT !.http = http, !.pc = IF http = 0 THEN "settle" ELSE "destroy"]
  /\ UNCHANGED <<session, taskReady, queue, api, client, cb, heap, fota, lost>>

\* ... and close and destroy it without.  Only here can a callback be running.
DestroyHttp ==
  /\ ota.pc = "destroy"
  /\ DestroyJoins => cb.src # ota.http
  /\ DestroyLocalClient
  /\ ota' = [ota EXCEPT !.pc = "settle", !.http = 0]
  /\ UNCHANGED <<session, http, taskReady, queue, api, cb, heap, fota, lost>>

\* Mutant of Settle: the generation is not compared again.
SettleUnfenced ==
  /\ ota.pc = "settle"
  /\ IF ota.outcome = "NONE"
     THEN state' = "STAGED" /\ lastError' = "NONE"
     ELSE SetFailure(ota.outcome)
  /\ ota' = Waiting
  /\ UNCHANGED <<generation, httpStatusCode, totalBytes, downloadedBytes, strings,
                 http, taskReady, queue, api, client, cb, heap, fota, lost>>

\* The last critical section of arduinoOtaFinalizeFailure and of
\* arduinoOtaHandleBodyDone: record the outcome, if the session is still ours.
Settle ==
  /\ ota.pc = "settle"
  /\ IF ota.gen # generation
     THEN UNCHANGED <<state, lastError>>
     ELSE IF ota.outcome = "NONE"
          THEN state' = "STAGED" /\ lastError' = "NONE"
          ELSE SetFailure(ota.outcome)
  /\ ota' = Waiting
  /\ UNCHANGED <<generation, httpStatusCode, totalBytes, downloadedBytes, strings,
                 http, taskReady, queue, api, client, cb, heap, fota, lost>>

OtaStart == StartFotaInit \/ StartCreateClient \/ StartConfigure \/ StartPublish \/ StartLaunch
OtaTake  == TakeStart \/ TakeHeadDone \/ TakeBodyData \/ TakeBodyDone \/ TakeHttpError
OtaTask  == \/ OtaTake \/ OtaStart \/ ReadHead \/ WriteBody \/ AccountBody
            \/ VerifyImage \/ CommitImage \/ DetachHttp \/ DestroyHttp \/ Settle

-----------------------------------------------------------------------------
(* HTTP engine of the SDK: one thread, at most one callback at a time *)

EnterCallback(h, id, body, err) ==
  cb' = [pc |-> "entered", id |-> id, gen |-> 0, src |-> h, body |-> body, err |-> err]

Engine(h) ==
  /\ cb.pc = "none"
  /\ UNCHANGED <<session, http, taskReady, queue, api, ota, fota, lost>>

\* HTTP_STATE_GET_HEAD without data: the header is complete.
DeliverHead(h) ==
  /\ Engine(h)
  /\ client[h].phase = "head"
  /\ client' = [client EXCEPT ![h].phase = "body"]
  /\ EnterCallback(h, "HEAD_DONE", NoBody, "NONE")
  /\ UNCHANGED heap

\* Mutant of DeliverBody: a body that finds no memory is skipped in silence.
DeliverBodySkips(h) ==
  LET n == client[h].sent + 1
  IN  /\ Engine(h)
      /\ client[h].phase = "body" /\ n <= Chunks
      /\ client' = [client EXCEPT ![h].sent = n]
      /\ \/ EnterCallback(h, "BODY_DATA", <<h, n>>, "NONE") /\ heap' = heap \cup {<<h, n>>}
         \/ UNCHANGED <<cb, heap>>

\* HTTP_STATE_GET_BODY with data: the callback copies it, or posts an error
\* when there is no memory.  The engine does not learn of it and goes on.
DeliverBody(h) ==
  LET n == client[h].sent + 1
  IN  /\ Engine(h)
      /\ client[h].phase = "body" /\ n <= Chunks
      /\ client' = [client EXCEPT ![h].sent = n]
      /\ \/ EnterCallback(h, "BODY_DATA", <<h, n>>, "NONE") /\ heap' = heap \cup {<<h, n>>}
         \/ EnterCallback(h, "HTTP_ERROR", NoBody, "INTERNAL") /\ UNCHANGED heap

\* HTTP_STATE_GET_BODY without data: the body is complete.
DeliverDone(h) ==
  /\ Engine(h)
  /\ client[h].phase = "body" /\ client[h].sent = Chunks
  /\ client' = [client EXCEPT ![h].phase = "ended"]
  /\ EnterCallback(h, "BODY_DONE", NoBody, "NONE")
  /\ UNCHANGED heap

\* A negative status ends the request.
DeliverError(h) ==
  /\ Engine(h)
  /\ client[h].phase \in {"head", "body"}
  /\ client' = [client EXCEPT ![h].phase = "ended"]
  /\ EnterCallback(h, "HTTP_ERROR", NoBody, "DOWNLOAD_FAILED")
  /\ UNCHANGED heap

\* A dropped connection is resumed: a new header, then the rest of the body.
Resume(h) ==
  /\ Engine(h)
  /\ client[h].phase = "body" /\ client[h].retries < MaxRetries
  /\ client' = [client EXCEPT ![h].phase = "head", ![h].retries = @ + 1]
  /\ UNCHANGED <<cb, heap>>

\* arduinoOtaHttpCallback reads the generation of now, not of its client.
CallbackReadsGeneration ==
  /\ cb.pc = "entered"
  /\ cb' = [cb EXCEPT !.pc = "tagged", !.gen = generation]
  /\ UNCHANGED <<session, http, taskReady, queue, api, ota, client, heap, fota, lost>>

\* luat_rtos_event_send, whose result is ignored: a full queue loses the event
\* and leaks the body copy.
CallbackSends ==
  /\ cb.pc = "tagged"
  /\ IF QueueHasRoom
     THEN /\ queue' = Append(queue, [id |-> cb.id, gen |-> cb.gen, src |-> cb.src,
                                     body |-> cb.body, err |-> cb.err])
          /\ UNCHANGED lost
     ELSE lost' = lost \cup {cb.src} /\ UNCHANGED queue
  /\ cb' = NoCallback
  /\ UNCHANGED <<session, http, taskReady, api, ota, client, heap, fota>>

Callback == CallbackReadsGeneration \/ CallbackSends
Deliver  == \E h \in Gens : DeliverHead(h) \/ DeliverBody(h) \/ DeliverDone(h) \/ DeliverError(h)

HttpEngine == Deliver \/ Callback \/ \E h \in Gens : Resume(h)

Next == Sketch \/ OtaTask \/ HttpEngine

Spec == Init /\ [][Next]_vars

\* Tasks of the RTOS are preemptive and run when they are ready; the server
\* answers or the request times out; luat_fota_done stops asking to be polled;
\* luat_os_reboot reboots.
Fairness == /\ WF_vars(OtaTask)
            /\ WF_vars(Deliver)
            /\ WF_vars(Callback)
            /\ WF_vars(SketchFinishesBegin)
            /\ WF_vars(Reboot)

FairSpec == Spec /\ Fairness

-----------------------------------------------------------------------------
(* Properties *)

Lifecycle == INSTANCE OtaLifecycle WITH
  phase <- state, begun <- generation, error <- lastError

\* What the sketch sees of a session follows the life cycle of OtaLifecycle.
FollowsLifecycle == Lifecycle!Spec

\* Every variable has the values its declaration promises.
TypeOK ==
  /\ state \in States
  /\ generation \in 0 .. MaxSessions
  /\ lastError \in Errors
  /\ httpStatusCode \in {"none", "ok", "bad"}
  /\ totalBytes \in {0, Chunks}
  /\ downloadedBytes \in Nat
  /\ strings \in 0 .. MaxSessions
  /\ http \in 0 .. MaxSessions
  /\ taskReady \in BOOLEAN
  /\ queue \in Seq(Events)
  /\ api \in {"idle", "sending", "refused", "rebooting"}
  /\ ota \in Locals
  /\ client \in [Gens -> Clients]
  /\ cb \in Callbacks
  /\ heap \subseteq Bodies
  /\ fota \in Writers
  /\ lost \subseteq 0 .. MaxSessions

\* While the START handler works without the mutex on the url, user, password
\* and caCert pointers it captured, no begin() or clear() has freed or
\* replaced those strings.
StringsInUse ==
  ota.pc \in StartSteps => strings = ota.gen /\ state = "STARTING"

\* The strengthening that makes StringsInUse inductive, part by part.  No generation in flight is newer than the session.
BeginInProgress == api \in {"sending", "refused"}
GenerationsBounded ==
  /\ ota.gen <= generation /\ cb.gen <= generation
  /\ \A e \in Queued : e.gen <= generation

\* A failure in flight names its cause.
FailuresNamed ==
  /\ cb.id = "HTTP_ERROR" => cb.err # "NONE"
  /\ \A e \in Queued : e.id = "HTTP_ERROR" => e.err # "NONE"

\* START is not in the queue before begin() is past the point where it may
\* still discard the session; until then the session has no client and no status.
StartNotAhead ==
  /\ cb.pc # "none" => cb.id # "START"
  /\ BeginInProgress =>
       /\ http = 0 /\ httpStatusCode = "none"
       /\ \A e \in Queued : e.id = "START" => e.gen < generation

\* The strings are those of the session that is neither idle nor failed; a
\* session that is has no client, and the task lets go of the handle before it
\* records an outcome.
SessionOwns ==
  /\ state \notin {"IDLE", "ERROR"} => strings = generation
  /\ state \in {"IDLE", "ERROR"} \/ ota.pc \in {"destroy", "settle"} => http = 0

\* A handler that passed its generation check keeps the session in the state it
\* found: the sketch can neither begin, clear nor discard it meanwhile.
Closing == ota.pc \in {"detach", "destroy", "settle"}
HandlerHoldsSession ==
  /\ ota.pc \in StartSteps =>
       ota.gen = generation /\ state = "STARTING" /\ ~BeginInProgress
  /\ ota.pc = "head" /\ ota.gen = generation => Receiving /\ ~BeginInProgress
  /\ ota.pc \in {"verify", "finish"} \/ (Closing /\ ota.outcome = "NONE") =>
       (ota.gen = generation => state = "VERIFYING" /\ ~BeginInProgress)

SessionInv ==
  /\ GenerationsBounded /\ FailuresNamed /\ StartNotAhead
  /\ SessionOwns /\ HandlerHoldsSession

\* No HTTP client is leaked and no handle dangles: a client that was created
\* and not destroyed is g_arduinoOta.http or the one the task holds locally,
\* at most one is alive, and both handles are alive when they are set.  The
\* sketch sees IDLE or ERROR only after every client is destroyed: the next
\* begin() finds none that could still call back.
HttpOwnership ==
  /\ \A h \in Gens : Live(h) => h \in {http, ota.http}
  /\ http # 0 => Live(http)
  /\ ota.http # 0 => Live(ota.http)
  /\ http # 0 /\ ota.http # 0 => http = ota.http
  /\ state \in {"IDLE", "ERROR"} => http = 0 /\ \A h \in Gens : ~Live(h)

\* A body copy is freed once and by its last holder: whatever a queued event,
\* the running callback or the task still refers to is allocated, and what is
\* allocated is referred to or was leaked by a refused send.
BodyHolders == {e.body : e \in Queued} \cup {cb.body}
               \cup (IF ota.pc = "write" THEN {ota.body} ELSE {})
BodyOwnership ==
  /\ BodyHolders \ {NoBody} \subseteq heap
  /\ \A b \in heap : b \in BodyHolders \/ b[1] \in lost

\* The FOTA writer of a session never receives a body of another session, even
\* when the callback that delivered it outlived its client and was tagged with
\* the newer generation: begin() has reset httpStatusCode.
NoForeignBytes ==
  \A i \in 1 .. Len(fota.written) : fota.written[i][1] = fota.owner

\* Write, done and end(1) reach a FOTA writer that this session opened and
\* that no stale failure has ended.
FotaOpenWhenUsed ==
  ota.pc \in {"head", "write", "verify", "finish"} => fota.open /\ fota.owner = ota.gen

\* What the session uses is its own, alive, and let go of: the HTTP client, the
\* copies of the bodies and the FOTA writer.
ResourcesOwned == HttpOwnership /\ BodyOwnership /\ FotaOpenWhenUsed

\* A staged package is committed and has every body of its session once and in
\* order, unless the full queue refused one of its events.
WholePackage(g) == [n \in 1 .. Chunks |-> <<g, n>>]
StagedImageWhole ==
  state = "STAGED" =>
    /\ fota.committed /\ fota.owner = generation
    /\ generation \notin lost => /\ fota.written = WholePackage(generation)
                                 /\ downloadedBytes = Chunks

\* The image is made of the bodies of its session only, and of all of them before
\* it is staged.
ImageSound == NoForeignBytes /\ StagedImageWhole

\* Work left over from an older session (a late event, a handler that lost the
\* race with begin()) changes nothing the sketch can read of the current one.
WorkGeneration == IF ota.pc = "recv" /\ queue # <<>> THEN Head(queue).gen ELSE ota.gen
StaleWorkIsInert ==
  [][OtaTask /\ WorkGeneration # generation => UNCHANGED session]_vars

\* A session that begin() started leaves the running states, unless the queue
\* refused one of its events: then nothing in the code ends it.
InProgress(g) == generation = g /\ state \in {"STARTING", "DOWNLOADING", "VERIFYING"}
SessionEnds ==
  \A g \in Gens : InProgress(g) ~> (~InProgress(g) \/ g \in lost)

=============================================================================
