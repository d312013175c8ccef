--------------------------- MODULE FrameDelivery ---------------------------
(***************************************************************************)
(* A presented client target on its way to the stream service: the         *)
(* StreamFrameSink of a display (src/src/StreamFrameSink.cpp), called by   *)
(* PresentDisplay outside every lock of the Display, the endpoint that     *)
(* talks to the service (src/src/AidlFrameConsumerEndpoint.cpp) with the   *)
(* worker thread that connects it and polls the state of the stream, and   *)
(* what SurfaceFlinger may do with a buffer it presented.                  *)
(*                                                                         *)
(* The service is another process, modelled from the calls made to it.  A  *)
(* step of a presenting thread or of the worker is one critical section of *)
(* registry_mutex_ or of the endpoint's mutex_, or one binder call;        *)
(* registry_mutex_ is held across the call that registers a buffer.  Calls *)
(* whose arguments do not fit the AIDL types, fences that cannot be        *)
(* duplicated for the call, and the counters of FrameSinkStats are left    *)
(* out: the first two end as a target that cannot be resolved does.        *)
(***************************************************************************)
EXTENDS Naturals

CONSTANTS Threads,        \* the threads that present on the display
          Buffers,        \* client targets: their allocator identities
          NoThread,       \* registry_mutex_ is free
          NoBuffer,       \* a thread that presents nothing
          Clients,        \* SurfaceFlinger presents one frame and then on request
                          \* only ("once"), or goes on presenting ("always")
          MaxGeneration,  \* bound: the generations of the streams
          Allowed(_, _, _, _), \* bound: whether the client goes on presenting, the
                          \* generation, the crashes of the service and the
                          \* faults (failed calls, refusals, targets kept local)
                          \* that may come together
          AnswersLost     \* such a fault may come after a frame was accepted

ASSUME DeliveryAssumption ==
    /\ NoThread \notin Threads
    /\ NoBuffer \notin Buffers
    /\ Clients \subseteq {"once", "always"}
    /\ MaxGeneration \in Nat
    /\ AnswersLost \in BOOLEAN

VARIABLES
    \* the service
    up,               \* an instance is running
    stream,           \* its stream
    known,            \* the buffers registered with it
    reading,          \* the buffers of accepted frames it still reads
    crashes, faults,  \* how much of the bounds is used
    shown,            \* it took a frame of its stream (history)
    \* the endpoint
    consumer,         \* consumer_: the instance, 0 for null
    cached,           \* states_ of the display
    wpc,              \* where Run is
    wconsumer,        \* its local consumer
    wstate,           \* the state it was answered
    stopping,         \* stopping_
    \* the sink
    activeGeneration, \* active_generation_, 0 for ~has_generation_
    registered,       \* registered_buffers_
    nextId,           \* next_buffer_id_
    lock,             \* the thread that holds registry_mutex_ during a call
    assigned,         \* every registration the sink made (history)
    \* SurfaceFlinger
    task,             \* what each thread presents, and where it is
    fenced,           \* the buffers whose present fence is yet to signal
    refresh           \* whether it has a frame to present, or was asked for one

serviceVars == <<up, stream, known, reading, crashes, faults, shown>>
workerVars == <<wpc, wconsumer, wstate>>
endpointVars == <<consumer, cached>>
sinkVars == <<activeGeneration, registered, nextId, lock, assigned>>
vars == <<serviceVars, workerVars, endpointVars, sinkVars,
          stopping, task, fenced, refresh>>

Stream == [instance : Nat, generation : Nat, accepting : BOOLEAN]
StreamState == [generation : Nat, accepting : BOOLEAN]
Registration == [buffer : Buffers, id : Nat]
Assignment == [buffer : Buffers, id : Nat, generation : Nat]
Status == {"none", "refused", "stale", "unknown"}
Request == {"no", "once", "always"}
Task == [pc : {"idle", "reset", "ensure", "register", "submit", "send", "invalidate"},
         buffer : Buffers \cup {NoBuffer}, generation : Nat, id : Nat,
         consumer : Nat, status : Status]

TypeOK ==
    /\ up \in BOOLEAN
    /\ stream \in Stream
    /\ known \subseteq Registration
    /\ reading \subseteq Buffers
    /\ crashes \in Nat
    /\ faults \in Nat
    /\ shown \in BOOLEAN
    /\ consumer \in Nat
    /\ cached \in StreamState
    /\ wpc \in {"top", "query", "store", "activate", "done"}
    /\ wconsumer \in Nat
    /\ wstate \in StreamState
    /\ stopping \in BOOLEAN
    /\ activeGeneration \in Nat
    /\ registered \subseteq Registration
    /\ nextId \in Nat
    /\ lock \in Threads \cup {NoThread}
    /\ assigned \subseteq Assignment
    /\ task \in [Threads -> Task]
    /\ \A t \in Threads : task[t].pc = "idle" <=> task[t].buffer = NoBuffer
    /\ fenced \subseteq Buffers
    /\ refresh \in Request

NoStream == [instance |-> 0, generation |-> 0, accepting |-> FALSE]
NoState == [generation |-> 0, accepting |-> FALSE]
Idle == [pc |-> "idle", buffer |-> NoBuffer, generation |-> 0, id |-> 0,
         consumer |-> 0, status |-> "none"]

Init ==
    /\ up = FALSE
    /\ stream = NoStream
    /\ known = {}
    /\ reading = {}
    /\ crashes = 0
    /\ faults = 0
    /\ shown = FALSE
    /\ consumer = 0
    /\ cached = NoState
    /\ wpc = "top"
    /\ wconsumer = 0
    /\ wstate = NoState
    /\ stopping = FALSE
    /\ activeGeneration = 0
    /\ registered = {}
    /\ nextId = 1
    /\ lock = NoThread
    /\ assigned = {}
    /\ task = [t \in Threads |-> Idle]
    /\ fenced = {}
    /\ refresh \in Clients

----------------------------------------------------------------------------
(* The service.                                                            *)

Busy == refresh = "always"

Fault ==
    /\ Allowed(Busy, stream.generation, crashes, faults + 1)
    /\ faults' = faults + 1

Reachable(instance) == up /\ instance = stream.instance

\* An instance starts, with a stream or waiting for one.  Only for a busy
\* client may its generations be those of the last one again.
Start(generation, accepting) ==
    /\ ~up
    /\ Allowed(Busy, generation, crashes, faults)
    /\ ~Busy => generation > stream.generation
    /\ up' = TRUE
    /\ stream' = [instance |-> stream.instance + 1,
                  generation |-> generation, accepting |-> accepting]
    /\ shown' = FALSE
    /\ UNCHANGED <<known, reading, crashes, faults, endpointVars, workerVars,
                   sinkVars, stopping, task, fenced, refresh>>

\* It stops the stream, or starts the next one.
StopStream ==
    /\ up
    /\ stream.accepting
    /\ stream' = [stream EXCEPT !.accepting = FALSE]
    /\ UNCHANGED <<up, known, reading, crashes, faults, shown, endpointVars, workerVars,
                   sinkVars, stopping, task, fenced, refresh>>

StartStream ==
    /\ up
    /\ stream.generation < MaxGeneration
    /\ Allowed(Busy, stream.generation + 1, crashes, faults)
    /\ stream' = [stream EXCEPT !.generation = @ + 1, !.accepting = TRUE]
    /\ known' = {}
    /\ shown' = FALSE
    /\ UNCHANGED <<up, reading, crashes, faults, endpointVars, workerVars,
                   sinkVars, stopping, task, fenced, refresh>>

\* With its process go its registrations, and its fences signal.
Crash ==
    /\ up
    /\ Allowed(Busy, stream.generation, crashes + 1, faults)
    /\ crashes' = crashes + 1
    /\ up' = FALSE
    /\ known' = {}
    /\ reading' = {}
    /\ fenced' = {}
    /\ UNCHANGED <<stream, faults, shown, endpointVars, workerVars,
                   sinkVars, stopping, task, refresh>>

\* The last access to a buffer ends, and its release fence signals.
ReadDone(buffer) ==
    /\ buffer \in reading
    /\ reading' = reading \ {buffer}
    /\ fenced' = fenced \ {buffer}
    /\ UNCHANGED <<up, stream, known, crashes, faults, shown, endpointVars, workerVars,
                   sinkVars, stopping, task, refresh>>

\* An id registered again names the new buffer.
Register(buffer, id) ==
    known' = {k \in known : k.id # id} \cup {[buffer |-> buffer, id |-> id]}

----------------------------------------------------------------------------
(* The endpoint: what its callers and its worker share.                    *)

\* A call to the consumer failed.
Disconnect(failed) ==
    IF consumer = failed
    THEN /\ consumer' = 0
         /\ cached' = [cached EXCEPT !.accepting = FALSE]
    ELSE UNCHANGED <<consumer, cached>>

\* The top of the loop, after a wait that its interval or the destructor ends.
Top ==
    /\ wpc = "top"
    /\ \/ /\ stopping
          /\ wpc' = "done"
          /\ UNCHANGED <<consumer, wconsumer>>
       \/ /\ ~stopping
          /\ IF consumer = 0 /\ up
             THEN consumer' = stream.instance
             ELSE UNCHANGED consumer
          /\ wconsumer' = consumer'
          /\ wpc' = IF consumer' = 0 THEN "top" ELSE "query"
    /\ UNCHANGED <<serviceVars, cached, wstate, sinkVars, stopping, task, fenced, refresh>>

GetStreamStateAnswered ==
    /\ wpc = "query"
    /\ Reachable(wconsumer)
    /\ wstate' = [generation |-> stream.generation, accepting |-> stream.accepting]
    /\ wconsumer' = 0
    /\ wpc' = "store"
    /\ UNCHANGED <<serviceVars, endpointVars, sinkVars,
                   stopping, task, fenced, refresh>>

GetStreamStateFails ==
    /\ wpc = "query"
    /\ \/ ~Reachable(wconsumer) /\ UNCHANGED faults
       \/ Reachable(wconsumer) /\ Fault
    /\ Disconnect(wconsumer)
    /\ wconsumer' = 0
    /\ wpc' = "top"
    /\ UNCHANGED <<up, stream, known, reading, crashes, shown, wstate,
                   sinkVars, stopping, task, fenced, refresh>>

QuietActivated == ~cached.accepting     \* mutant: only the flag is compared

Activated ==
    wstate.accepting /\ (~cached.accepting \/ wstate.generation # cached.generation)

Store ==
    /\ wpc = "store"
    /\ cached' = wstate
    /\ wpc' = IF ~stopping /\ Activated THEN "activate" ELSE "top"
    /\ wstate' = NoState
    /\ UNCHANGED <<serviceVars, consumer, wconsumer, sinkVars, stopping, task, fenced, refresh>>

\* stream_activation_callback: HwcDevice::EmitRefresh.
Activate ==
    /\ wpc = "activate"
    /\ refresh' = IF Busy THEN "always" ELSE "once"
    /\ wpc' = "top"
    /\ UNCHANGED <<serviceVars, endpointVars, wconsumer, wstate, sinkVars,
                   stopping, task, fenced>>

Worker ==
    Top \/ GetStreamStateAnswered \/ GetStreamStateFails \/ Store \/ Activate

\* The destructor, once no sink is left to present through the endpoint.
Stop ==
    /\ ~stopping
    /\ \A t \in Threads : task[t].pc = "idle"
    /\ stopping' = TRUE
    /\ UNCHANGED <<serviceVars, endpointVars, workerVars, sinkVars, task, fenced, refresh>>

----------------------------------------------------------------------------
(* Submit, in a presenting thread.                                         *)

\* SurfaceFlinger keeps off a buffer until its present fence signals.
Borrowed(buffer) == buffer \in fenced \/ \E t \in Threads : task[t].buffer = buffer

\* PresentDisplay, to where Submit reads the state of the stream.
Present(t, buffer) ==
    /\ ~stopping
    /\ task[t].pc = "idle"
    /\ refresh # "no"
    /\ ~Borrowed(buffer)
    /\ task' = [task EXCEPT ![t] =
                   [Idle EXCEPT !.buffer = buffer,
                                !.pc = IF cached.accepting THEN "ensure" ELSE "reset",
                                !.generation = IF cached.accepting THEN cached.generation ELSE 0]]
    /\ refresh' = IF Busy THEN "always" ELSE "no"
    /\ UNCHANGED <<serviceVars, endpointVars, workerVars, sinkVars, stopping, fenced>>

\* Submit returns; the acquire fence is the present fence, and says nothing
\* of what the service reads.
Return(t) == task' = [task EXCEPT ![t] = Idle]

\* The target does not resolve, or is protected.
KeepLocal(t) ==
    /\ task[t].pc = "ensure"
    /\ Fault
    /\ Return(t)
    /\ UNCHANGED <<up, stream, known, reading, crashes, shown, endpointVars,
                   workerVars, sinkVars, stopping, fenced, refresh>>

\* mutant: the ids start again with the registrations
RewindingReset(t) ==
    /\ task[t].pc = "reset"
    /\ lock = NoThread
    /\ registered' = {}
    /\ activeGeneration' = 0
    /\ nextId' = 1
    /\ Return(t)
    /\ UNCHANGED <<serviceVars, endpointVars, workerVars, lock, assigned,
                   stopping, fenced, refresh>>

ResetRegisteredBuffers(t) ==
    /\ task[t].pc = "reset"
    /\ lock = NoThread
    /\ registered' = {}
    /\ activeGeneration' = 0
    /\ Return(t)
    /\ UNCHANGED <<serviceVars, endpointVars, workerVars, nextId, lock, assigned,
                   stopping, fenced, refresh>>

UnscopedRegistrations(generation) ==    \* mutant: a new generation clears nothing
    registered

\* The registrations that are of the generation.
Registrations(generation) ==
    IF generation = activeGeneration THEN registered ELSE {}

\* The registration is found, or the endpoint is asked to register it.
EnsureBufferRegistered(t) ==
    /\ task[t].pc = "ensure"
    /\ lock = NoThread
    /\ registered' = Registrations(task[t].generation)
    /\ activeGeneration' = task[t].generation
    /\ \/ \E r \in registered' :
             /\ r.buffer = task[t].buffer
             /\ task' = [task EXCEPT ![t].pc = "submit", ![t].id = r.id]
             /\ UNCHANGED lock
       \/ /\ \A r \in registered' : r.buffer # task[t].buffer
          /\ task' = [task EXCEPT ![t].pc = "register", ![t].consumer = consumer]
          /\ lock' = t
    /\ UNCHANGED <<serviceVars, endpointVars, workerVars, nextId, assigned,
                   stopping, fenced, refresh>>

\* The service's answer to registerBuffer.
RegisterBuffer(t) ==
    /\ task[t].pc = "register"
    /\ Reachable(task[t].consumer)
    /\ stream.accepting
    /\ task[t].generation = stream.generation
    /\ Register(task[t].buffer, nextId)
    /\ registered' = registered \cup {[buffer |-> task[t].buffer, id |-> nextId]}
    /\ assigned' = assigned \cup {[buffer |-> task[t].buffer, id |-> nextId,
                                   generation |-> task[t].generation]}
    /\ nextId' = nextId + 1
    /\ task' = [task EXCEPT ![t].pc = "submit", ![t].id = nextId, ![t].consumer = 0]
    /\ lock' = NoThread
    /\ UNCHANGED <<up, stream, reading, crashes, faults, shown, endpointVars, workerVars,
                   activeGeneration, stopping, fenced, refresh>>

EndRegister(t) ==
    /\ Return(t)
    /\ lock' = NoThread
    /\ UNCHANGED <<up, stream, reading, crashes, shown, workerVars, activeGeneration,
                   registered, nextId, assigned, stopping, fenced, refresh>>

\* Any status but kAccepted.
RegisterRefused(t) ==
    /\ task[t].pc = "register"
    /\ \/ task[t].consumer = 0 /\ UNCHANGED faults
       \/ /\ Reachable(task[t].consumer)
          /\ \/ ~stream.accepting /\ UNCHANGED faults
             \/ task[t].generation # stream.generation /\ UNCHANGED faults
             \/ Fault
    /\ EndRegister(t)
    /\ UNCHANGED <<known, endpointVars>>

\* A binder error, perhaps after the service registered the buffer.
RegisterFails(t) ==
    /\ task[t].pc = "register"
    /\ task[t].consumer # 0
    /\ \/ ~Reachable(task[t].consumer) /\ UNCHANGED <<faults, known>>
       \/ /\ Reachable(task[t].consumer)
          /\ Fault
          /\ \/ UNCHANGED known
             \/ stream.accepting /\ Register(task[t].buffer, nextId)
    /\ Disconnect(task[t].consumer)
    /\ EndRegister(t)

\* SubmitFrame reads consumer_ once.
GetConsumer(t) ==
    /\ task[t].pc = "submit"
    /\ task' = [task EXCEPT ![t].pc = "send", ![t].consumer = consumer]
    /\ UNCHANGED <<serviceVars, endpointVars, workerVars, sinkVars, stopping, fenced, refresh>>

\* mutant: the target is gone when its registration is looked at
ForgetfulAnswer(t, status) ==
    task' = [task EXCEPT ![t] = [Idle EXCEPT !.pc = "invalidate", !.status = status]]

\* mutant: a frame whose answer is an error is submitted again
ResubmittingAnswer(t, status) ==
    task' = [task EXCEPT ![t].pc = IF status = "refused" THEN "submit" ELSE "invalidate",
                         ![t].status = status, ![t].consumer = 0]

Answer(t, status) ==
    task' = [task EXCEPT ![t].pc = "invalidate", ![t].status = status,
                         ![t].consumer = 0, ![t].generation = 0]

\* The service takes the frame: it reads the registered buffer now, or until
\* the release fence it returns signals.
Takes(t) ==
    /\ Reachable(task[t].consumer)
    /\ stream.accepting
    /\ task[t].generation = stream.generation
    /\ \E k \in known :
          /\ k.id = task[t].id
          /\ \/ reading' = reading \cup {k.buffer}
             \/ UNCHANGED reading

AcquireFence(buffer) == {}              \* mutant: the release fence is dropped

\* The release fence is the present fence: the buffer is not the client's
\* until it signals.
ReleaseFence(buffer) == {buffer} \cap reading'

SubmitAccepted(t) ==
    /\ task[t].pc = "send"
    /\ Takes(t)
    /\ shown' = TRUE
    /\ fenced' = fenced \cup ReleaseFence(task[t].buffer)
    /\ Return(t)
    /\ UNCHANGED <<up, stream, known, crashes, faults, endpointVars, workerVars,
                   sinkVars, stopping, refresh>>

SubmitRefused(t) ==
    /\ task[t].pc = "send"
    /\ \/ /\ task[t].consumer = 0
          /\ Answer(t, "stale")
          /\ UNCHANGED faults
       \/ /\ Reachable(task[t].consumer)
          /\ \/ /\ ~stream.accepting \/ task[t].generation # stream.generation
                /\ Answer(t, "stale")
                /\ UNCHANGED faults
             \/ /\ \A k \in known : k.id # task[t].id
                /\ Answer(t, "unknown")
                /\ UNCHANGED faults
             \/ Fault /\ Answer(t, "refused")
    /\ UNCHANGED <<up, stream, known, reading, crashes, shown, endpointVars, workerVars,
                   sinkVars, stopping, fenced, refresh>>

\* A binder error before the service took the frame.
SubmitFails(t) ==
    /\ task[t].pc = "send"
    /\ task[t].consumer # 0
    /\ \/ ~Reachable(task[t].consumer) /\ UNCHANGED faults
       \/ Reachable(task[t].consumer) /\ Fault
    /\ Disconnect(task[t].consumer)
    /\ Answer(t, "stale")
    /\ UNCHANGED <<up, stream, known, reading, crashes, shown, workerVars,
                   sinkVars, stopping, fenced, refresh>>

\* The service took the frame, but its answer is lost to a binder error, or
\* its release fence cannot be duplicated.
AnswerLost(t) ==
    /\ task[t].pc = "send"
    /\ AnswersLost
    /\ Fault
    /\ Takes(t)
    /\ shown' = TRUE
    /\ \/ Disconnect(task[t].consumer) /\ Answer(t, "stale")
       \/ UNCHANGED endpointVars /\ Answer(t, "refused")
    /\ UNCHANGED <<up, stream, known, crashes, workerVars, sinkVars,
                   stopping, fenced, refresh>>

\* mutant: an unknown buffer stays registered
StubbornInvalidateRegistration(t) ==
    /\ task[t].pc = "invalidate"
    /\ lock = NoThread
    /\ IF task[t].status = "stale"
       THEN registered' = {} /\ activeGeneration' = 0
       ELSE UNCHANGED <<registered, activeGeneration>>
    /\ Return(t)
    /\ UNCHANGED <<serviceVars, endpointVars, workerVars, nextId, lock, assigned,
                   stopping, fenced, refresh>>

\* kNoActiveStream and kStaleGeneration are one status here.
InvalidateRegistration(t) ==
    /\ task[t].pc = "invalidate"
    /\ lock = NoThread
    /\ CASE task[t].status = "stale" ->
               registered' = {} /\ activeGeneration' = 0
         [] task[t].status = "unknown" ->
               /\ registered' = registered \
                     {[buffer |-> task[t].buffer, id |-> task[t].id]}
               /\ UNCHANGED activeGeneration
         [] OTHER -> UNCHANGED <<registered, activeGeneration>>
    /\ Return(t)
    /\ UNCHANGED <<serviceVars, endpointVars, workerVars, nextId, lock, assigned,
                   stopping, fenced, refresh>>

Submit(t) ==
    \/ KeepLocal(t) \/ ResetRegisteredBuffers(t)
    \/ EnsureBufferRegistered(t)
    \/ RegisterBuffer(t) \/ RegisterRefused(t) \/ RegisterFails(t)
    \/ GetConsumer(t) \/ SubmitAccepted(t) \/ SubmitRefused(t)
    \/ SubmitFails(t) \/ AnswerLost(t)
    \/ InvalidateRegistration(t)

----------------------------------------------------------------------------
Service ==
    \/ \E generation \in 1 .. MaxGeneration, accepting \in BOOLEAN : Start(generation, accepting)
    \/ StopStream
    \/ StartStream
    \/ Crash
    \/ \E buffer \in Buffers : ReadDone(buffer)

SurfaceFlinger == \E t \in Threads, buffer \in Buffers : Present(t, buffer)

Next ==
    \/ Service
    \/ Worker
    \/ Stop
    \/ SurfaceFlinger
    \/ \E t \in Threads : Submit(t)

Spec == Init /\ [][Next]_vars

\* Threads are scheduled and binder calls return; the service finishes
\* reading; SurfaceFlinger presents what it is asked for.
FairSpec ==
    /\ Spec
    /\ WF_vars(Worker)
    /\ WF_vars(SurfaceFlinger)
    /\ \A t \in Threads : WF_vars(Submit(t))
    /\ \A buffer \in Buffers : WF_vars(ReadDone(buffer))

----------------------------------------------------------------------------
\* What a thread is about to submit.
Submitting == {t \in Threads : task[t].pc \in {"submit", "send"}}
Submission(t) == [buffer |-> task[t].buffer, id |-> task[t].id,
                  generation |-> task[t].generation]

\* Ids are never given out twice, and the thread that registers a buffer
\* keeps the others away from the registrations.
IdsAreUnique ==
    /\ \A a \in assigned : a.id < nextId
    /\ \A a, b \in assigned : a.id = b.id => a = b
    /\ \A k \in known : k.id <= nextId
    /\ \A t \in Threads : task[t].pc = "register" <=> lock = t
    /\ lock # NoThread => /\ activeGeneration = task[lock].generation
                          /\ \A r \in registered : r.buffer # task[lock].buffer

\* A frame is submitted under the generation its buffer was registered in
\* (EnsureBufferRegistered clears the cache of another generation).
GenerationScoped ==
    /\ \A r \in registered : [buffer |-> r.buffer, id |-> r.id,
                              generation |-> activeGeneration] \in assigned
    /\ \A t \in Submitting : Submission(t) \in assigned

\* The service never has another buffer under an id that a frame is
\* submitted with, after restarts and lost answers too: what it shows is the
\* target that was presented (next_buffer_id_ is never reset).
RegistrationsAgree ==
    \A k \in known, a \in assigned : k.id = a.id => k.buffer = a.buffer

\* "The client target remains borrowed until the returned present fence
\* signals": SurfaceFlinger does not get a buffer back that the service reads.
BorrowedWhileRead == \A buffer \in reading : Borrowed(buffer)

\* What each call presents, and the calls whose frame has no answer yet.
Presented == [t \in Threads |-> task[t].buffer]
Offered == [t \in Threads |-> task[t].pc \notin {"idle", "invalidate"}]

\* The detour over registrations, ids and generations is invisible: the
\* service takes the target of the call that sent the frame, once at most.
Handover == INSTANCE TargetHandover WITH presented <- Presented, offered <- Offered
HandoverSpec == Handover!Spec

\* A stream that goes on accepting frames is shown one of them.
StreamIsShown ==
    []<>(shown \/ ~up \/ ~stream.accepting \/ stopping)
=============================================================================
