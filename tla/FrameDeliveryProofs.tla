------------------------ MODULE FrameDeliveryProofs ------------------------
(***************************************************************************)
(* That a frame is always submitted under the id its own buffer has in     *)
(* the generation of the stream, and that the service never has another    *)
(* buffer under that id, whatever the number of threads and buffers, the   *)
(* failures and the restarts are.                                          *)
(***************************************************************************)
EXTENDS FrameDelivery, TLAPS

----------------------------------------------------------------------------
(* Types.                                                                  *)

ServiceType ==
    /\ up \in BOOLEAN
    /\ stream \in Stream
    /\ known \subseteq Registration
    /\ reading \subseteq Buffers
    /\ crashes \in Nat
    /\ faults \in Nat
    /\ shown \in BOOLEAN

EndpointType ==
    /\ consumer \in Nat
    /\ cached \in StreamState
    /\ wpc \in {"top", "query", "store", "activate", "done"}
    /\ wconsumer \in Nat
    /\ wstate \in StreamState
    /\ stopping \in BOOLEAN

SinkType ==
    /\ activeGeneration \in Nat
    /\ registered \subseteq Registration
    /\ nextId \in Nat
    /\ lock \in Threads \cup {NoThread}
    /\ assigned \subseteq Assignment

IsTask(k) == k \in Task /\ (k.pc = "idle" <=> k.buffer = NoBuffer)

TaskType ==
    /\ task \in [Threads -> Task]
    /\ \A t \in Threads : task[t].pc = "idle" <=> task[t].buffer = NoBuffer

\* The conjuncts of TypeOK, by the part of the system they are about.
LEMMA TypeParts ==
    /\ TypeOK <=> /\ ServiceType /\ EndpointType /\ SinkType /\ TaskType
                  /\ fenced \subseteq Buffers /\ refresh \in Request
    /\ TypeOK' <=> /\ ServiceType' /\ EndpointType' /\ SinkType' /\ TaskType'
                   /\ fenced' \subseteq Buffers /\ refresh' \in Request
  BY Zenon DEF TypeOK, ServiceType, EndpointType, SinkType, TaskType

LEMMA InitTypes == Init => TypeOK
<1> SUFFICES ASSUME Init PROVE TypeOK
  OBVIOUS
<1>1. ServiceType
  BY DEF Init, ServiceType, NoStream, Stream
<1>2. EndpointType
  BY DEF Init, EndpointType, NoState, StreamState
<1>3. SinkType
  BY DEF Init, SinkType
<1>4. TaskType
  BY DEF Init, TaskType, Task, Idle, Status
<1>5. fenced \subseteq Buffers /\ refresh \in Request
  BY DeliveryAssumption DEF DeliveryAssumption, Init, Request
<1>6. QED
  BY <1>1, <1>2, <1>3, <1>4, <1>5, TypeParts

\* A step of one thread replaces its task by another one.
LEMMA TaskTypeKept ==
    ASSUME TaskType, NEW t \in Threads, NEW k, IsTask(k),
           task' = [task EXCEPT ![t] = k]
    PROVE  TaskType'
  BY DEF TaskType, IsTask

\* The tasks that the steps of a submission leave behind.
LEMMA NextTask ==
    ASSUME TaskType, NEW t \in Threads
    PROVE  /\ IsTask(Idle)
           /\ \A buffer \in Buffers, generation \in Nat, pc \in {"reset", "ensure"} :
                 IsTask([Idle EXCEPT !.buffer = buffer, !.pc = pc, !.generation = generation])
           /\ task[t].pc # "idle" =>
                 /\ \A id \in Nat : IsTask([task[t] EXCEPT !.pc = "submit", !.id = id])
                 /\ \A id \in Nat : IsTask([task[t] EXCEPT !.pc = "submit", !.id = id, !.consumer = 0])
                 /\ \A c \in Nat, pc \in {"register", "send"} :
                       IsTask([task[t] EXCEPT !.pc = pc, !.consumer = c])
                 /\ \A status \in Status :
                       IsTask([task[t] EXCEPT !.pc = "invalidate", !.status = status,
                                              !.consumer = 0, !.generation = 0])
<1>1. IsTask(task[t])
  BY DEF TaskType, IsTask
<1>2. IsTask(Idle)
  BY DEF IsTask, Idle, Task, Status
<1>3. \A buffer \in Buffers, generation \in Nat, pc \in {"reset", "ensure"} :
         IsTask([Idle EXCEPT !.buffer = buffer, !.pc = pc, !.generation = generation])
  BY DeliveryAssumption DEF DeliveryAssumption, IsTask, Idle, Task, Status
<1>4. ASSUME task[t].pc # "idle"
      PROVE  task[t].buffer \in Buffers
  BY <1>1, <1>4 DEF IsTask, Task
<1>5. QED
  BY <1>1, <1>2, <1>3, <1>4, DeliveryAssumption DEF DeliveryAssumption, IsTask, Task

LEMMA StreamTypes ==
    ASSUME TypeOK, NEW generation \in Nat, NEW accepting \in BOOLEAN
    PROVE  /\ [instance |-> stream.instance + 1, generation |-> generation,
               accepting |-> accepting] \in Stream
           /\ [stream EXCEPT !.accepting = FALSE] \in Stream
           /\ [stream EXCEPT !.generation = @ + 1, !.accepting = TRUE] \in Stream
           /\ [cached EXCEPT !.accepting = FALSE] \in StreamState
           /\ [generation |-> stream.generation, accepting |-> stream.accepting] \in StreamState
           /\ NoState \in StreamState
           /\ cached.generation \in Nat
           /\ stream.instance \in Nat
<1>1. stream \in Stream /\ cached \in StreamState
  BY DEF TypeOK
<1>2. /\ stream.instance \in Nat /\ stream.generation \in Nat
      /\ stream.accepting \in BOOLEAN
      /\ cached.generation \in Nat
  BY <1>1 DEF Stream, StreamState
<1>3. [instance |-> stream.instance + 1, generation |-> generation,
       accepting |-> accepting] \in Stream
  BY <1>2 DEF Stream
<1>4. [stream EXCEPT !.accepting = FALSE] \in Stream
  BY <1>1 DEF Stream
<1>5. [stream EXCEPT !.generation = @ + 1, !.accepting = TRUE] \in Stream
  <2>1. \A n \in Nat : [stream EXCEPT !.generation = n, !.accepting = TRUE] \in Stream
    BY <1>1 DEF Stream
  <2>2. PICK n \in Nat : n = stream.generation + 1
    BY <1>2
  <2>3. [stream EXCEPT !.generation = n, !.accepting = TRUE] \in Stream
    BY <2>1
  <2>4. QED
    BY <2>2, <2>3, Zenon
<1>6. [cached EXCEPT !.accepting = FALSE] \in StreamState
  BY <1>1 DEF StreamState
<1>7. [generation |-> stream.generation, accepting |-> stream.accepting] \in StreamState
  BY <1>2 DEF StreamState
<1>8. NoState \in StreamState
  BY DEF StreamState, NoState
<1>9. QED
  BY <1>2, <1>3, <1>4, <1>5, <1>6, <1>7, <1>8

\* Parts a step leaves alone keep their types.
LEMMA UntouchedTypes ==
    ASSUME TypeOK
    PROVE  /\ UNCHANGED serviceVars => ServiceType'
           /\ UNCHANGED <<endpointVars, workerVars, stopping>> => EndpointType'
           /\ UNCHANGED sinkVars => SinkType'
           /\ UNCHANGED task => TaskType'
  BY TypeParts DEF ServiceType, EndpointType, SinkType, TaskType,
                   serviceVars, endpointVars, workerVars, sinkVars

LEMMA ServiceTypes ==
    ASSUME TypeOK, Service
    PROVE  TypeOK'
<1>1. ServiceType /\ fenced \subseteq Buffers /\ refresh \in Request
  BY TypeParts
<1>2. /\ UNCHANGED <<endpointVars, workerVars, stopping>>
      /\ UNCHANGED sinkVars /\ UNCHANGED task /\ UNCHANGED refresh
  BY Zenon DEF Service, Start, StopStream, StartStream, Crash, ReadDone
<1>3. fenced' \subseteq Buffers /\ refresh' \in Request
  BY <1>1 DEF Service, Start, StopStream, StartStream, Crash, ReadDone
<1>4. stream' \in Stream
  <2>1. CASE \E generation \in 1 .. MaxGeneration, accepting \in BOOLEAN :
                Start(generation, accepting)
    <3>1. PICK generation \in 1 .. MaxGeneration, accepting \in BOOLEAN :
             Start(generation, accepting)
      BY <2>1
    <3>2. generation \in Nat
      BY DeliveryAssumption DEF DeliveryAssumption
    <3>3. QED
      BY <3>1, <3>2, StreamTypes DEF Start
  <2>2. CASE StopStream
    BY <2>2, StreamTypes DEF StopStream
  <2>3. CASE StartStream
    BY <2>3, StreamTypes, Zenon DEF StartStream
  <2>4. CASE Crash \/ \E buffer \in Buffers : ReadDone(buffer)
    BY <1>1, <2>4 DEF Crash, ReadDone, ServiceType
  <2>5. QED
    BY <2>1, <2>2, <2>3, <2>4 DEF Service
<1>5. up' \in BOOLEAN /\ shown' \in BOOLEAN
  BY <1>1, Zenon DEF Service, Start, StopStream, StartStream, Crash, ReadDone, ServiceType
<1>6. known' \subseteq Registration /\ reading' \subseteq Buffers
  BY <1>1 DEF Service, Start, StopStream, StartStream, Crash, ReadDone, ServiceType
<1>7. crashes' \in Nat /\ faults' \in Nat
  BY <1>1 DEF Service, Start, StopStream, StartStream, Crash, ReadDone, ServiceType
<1>8. ServiceType'
  BY <1>4, <1>5, <1>6, <1>7, Zenon DEF ServiceType
<1>9. QED
  BY <1>2, <1>3, <1>8, UntouchedTypes, TypeParts

\* A failed call may disconnect the endpoint.
LEMMA DisconnectTypes ==
    ASSUME TypeOK, NEW failed, Disconnect(failed)
    PROVE  consumer' \in Nat /\ cached' \in StreamState
<1>1. consumer \in Nat /\ cached \in StreamState
  BY DEF TypeOK
<1>2. [cached EXCEPT !.accepting = FALSE] \in StreamState
  BY StreamTypes
<1>3. \/ consumer' = 0 /\ cached' = [cached EXCEPT !.accepting = FALSE]
      \/ consumer' = consumer /\ cached' = cached
  BY DEF Disconnect
<1>4. 0 \in Nat
  OBVIOUS
<1>5. QED
  BY <1>1, <1>2, <1>3, <1>4, Zenon

LEMMA WorkerTypes ==
    ASSUME TypeOK, Worker
    PROVE  TypeOK'
<1>1. EndpointType /\ ServiceType /\ fenced \subseteq Buffers /\ refresh \in Request
  BY TypeParts
<1>2. UNCHANGED sinkVars /\ UNCHANGED task /\ UNCHANGED fenced /\ UNCHANGED stopping
  BY Zenon DEF Worker, Top, GetStreamStateAnswered, GetStreamStateFails, Store, Activate
<1>3. refresh' \in Request
  <2>1. CASE Activate
    BY <2>1 DEF Activate, Request
  <2>2. CASE Top \/ GetStreamStateAnswered \/ GetStreamStateFails \/ Store
    BY <1>1, <2>2, Zenon DEF Top, GetStreamStateAnswered, GetStreamStateFails, Store
  <2>3. QED
    BY <2>1, <2>2 DEF Worker
<1>4. ServiceType'
  <2>1. CASE GetStreamStateFails
    <3>1. faults' \in Nat
      BY <1>1, <2>1 DEF GetStreamStateFails, Fault, ServiceType
    <3>2. UNCHANGED <<up, stream, known, reading, crashes, shown>>
      BY <2>1, Zenon DEF GetStreamStateFails
    <3>3. QED
      BY <1>1, <3>1, <3>2, Zenon DEF ServiceType
  <2>2. CASE Top \/ GetStreamStateAnswered \/ Store \/ Activate
    <3>1. UNCHANGED serviceVars
      BY <2>2, Zenon DEF Top, GetStreamStateAnswered, Store, Activate
    <3>2. QED
      BY <3>1, UntouchedTypes
  <2>3. QED
    BY <2>1, <2>2 DEF Worker
<1>5. /\ consumer' \in Nat /\ wconsumer' \in Nat
      /\ wpc' \in {"top", "query", "store", "activate", "done"}
  <2>1. stream.instance \in Nat
    BY StreamTypes
  <2>2. GetStreamStateFails => consumer' \in Nat
    BY DisconnectTypes DEF GetStreamStateFails
  <2>3. QED
    BY <1>1, <2>1, <2>2
       DEF Worker, Top, GetStreamStateAnswered, GetStreamStateFails, Store, Activate,
           EndpointType, endpointVars
<1>6. cached' \in StreamState /\ wstate' \in StreamState
  <2>1. GetStreamStateFails => cached' \in StreamState
    BY DisconnectTypes DEF GetStreamStateFails
  <2>2. GetStreamStateAnswered => wstate' \in StreamState
    BY StreamTypes DEF GetStreamStateAnswered
  <2>3. NoState \in StreamState
    BY StreamTypes
  <2>4. QED
    BY <1>1, <2>1, <2>2, <2>3
       DEF Worker, Top, GetStreamStateAnswered, GetStreamStateFails, Store, Activate,
           EndpointType, endpointVars
<1>7. EndpointType'
  BY <1>1, <1>2, <1>5, <1>6 DEF EndpointType
<1>8. QED
  BY <1>1, <1>2, <1>3, <1>4, <1>7, UntouchedTypes, TypeParts

\* A call to the service leaves its state, and the endpoint's, in their types.
LEMMA CallTypes ==
    ASSUME TypeOK, NEW t \in Threads, Submit(t)
    PROVE  ServiceType' /\ EndpointType' /\ fenced' \subseteq Buffers /\ refresh' \in Request
<1>1. ServiceType /\ EndpointType /\ SinkType /\ TaskType /\ fenced \subseteq Buffers
      /\ refresh \in Request
  BY TypeParts
<1>2. task[t].pc # "idle" => task[t].buffer \in Buffers
  BY <1>1 DEF TaskType, Task
<1>3. UNCHANGED <<up, stream, crashes, workerVars, stopping, refresh>>
  BY Zenon DEF Submit, KeepLocal, ResetRegisteredBuffers, EnsureBufferRegistered,
               RegisterBuffer, RegisterRefused, RegisterFails, EndRegister, GetConsumer,
               SubmitAccepted, SubmitRefused, SubmitFails, AnswerLost,
               InvalidateRegistration, serviceVars
<1>4. UNCHANGED faults \/ Fault
  BY Zenon DEF Submit, KeepLocal, ResetRegisteredBuffers, EnsureBufferRegistered,
               RegisterBuffer, RegisterRefused, RegisterFails, GetConsumer,
               SubmitAccepted, SubmitRefused, SubmitFails, AnswerLost,
               InvalidateRegistration, serviceVars
<1>5. faults' \in Nat
  BY <1>1, <1>4 DEF Fault, ServiceType
<1>6. \/ UNCHANGED known
      \/ task[t].pc = "register" /\ Register(task[t].buffer, nextId)
  BY Zenon DEF Submit, KeepLocal, ResetRegisteredBuffers, EnsureBufferRegistered,
               RegisterBuffer, RegisterRefused, RegisterFails, GetConsumer,
               SubmitAccepted, SubmitRefused, SubmitFails, AnswerLost,
               InvalidateRegistration, serviceVars
<1>7. known' \subseteq Registration
  BY <1>1, <1>2, <1>6 DEF Register, Registration, ServiceType, SinkType
<1>8. \/ UNCHANGED <<reading, shown>>
      \/ Takes(t) /\ shown' = TRUE
  BY Zenon DEF Submit, KeepLocal, ResetRegisteredBuffers, EnsureBufferRegistered,
               RegisterBuffer, RegisterRefused, RegisterFails, EndRegister, GetConsumer,
               SubmitAccepted, SubmitRefused, SubmitFails, AnswerLost,
               InvalidateRegistration, serviceVars
<1>9. reading' \subseteq Buffers
  BY <1>1, <1>8 DEF Takes, ServiceType, Registration
<1>10. shown' \in BOOLEAN
  BY <1>1, <1>8, Zenon DEF ServiceType
<1>11. ServiceType'
  BY <1>1, <1>3, <1>5, <1>7, <1>9, <1>10, Zenon DEF ServiceType
<1>12. UNCHANGED <<consumer, cached>> \/ Disconnect(task[t].consumer)
  BY Zenon DEF Submit, KeepLocal, ResetRegisteredBuffers, EnsureBufferRegistered,
               RegisterBuffer, RegisterRefused, RegisterFails, GetConsumer,
               SubmitAccepted, SubmitRefused, SubmitFails, AnswerLost,
               InvalidateRegistration, endpointVars
<1>13. consumer' \in Nat /\ cached' \in StreamState
  <2>1. CASE UNCHANGED <<consumer, cached>>
    BY <1>1, <2>1, Zenon DEF EndpointType
  <2>2. CASE Disconnect(task[t].consumer)
    BY <2>2, DisconnectTypes
  <2>3. QED
    BY <1>12, <2>1, <2>2
<1>14. EndpointType'
  BY <1>1, <1>3, <1>13, Zenon DEF EndpointType, workerVars
<1>15. UNCHANGED fenced \/ fenced' = fenced \cup ReleaseFence(task[t].buffer)
  BY Zenon DEF Submit, KeepLocal, ResetRegisteredBuffers, EnsureBufferRegistered,
               RegisterBuffer, RegisterRefused, RegisterFails, EndRegister, GetConsumer,
               SubmitAccepted, SubmitRefused, SubmitFails, AnswerLost,
               InvalidateRegistration
<1>16. fenced' \subseteq Buffers
  BY <1>1, <1>9, <1>15 DEF ReleaseFence
<1>17. QED
  BY <1>1, <1>3, <1>11, <1>14, <1>16

\* The sink and the tasks keep their types as well.
LEMMA SubmitTypes ==
    ASSUME TypeOK, NEW t \in Threads, Submit(t)
    PROVE  TypeOK'
<1>1. SinkType /\ TaskType /\ consumer \in Nat
  BY TypeParts DEF EndpointType
<1>2. task[t] \in Task /\ (task[t].pc # "idle" => task[t].buffer \in Buffers)
  BY <1>1 DEF TaskType, Task
<1>3. SinkType' /\ TaskType'
  <2>1. ASSUME Return(t)
        PROVE  TaskType'
    BY <1>1, <2>1, NextTask, TaskTypeKept, Zenon DEF Return
  <2>2. CASE KeepLocal(t)
    BY <2>1, <2>2, UntouchedTypes, Zenon DEF KeepLocal
  <2>3. CASE ResetRegisteredBuffers(t)
    BY <1>1, <2>1, <2>3 DEF ResetRegisteredBuffers, SinkType
  <2>4. CASE EnsureBufferRegistered(t)
    <3>1. registered' \subseteq Registration /\ activeGeneration' \in Nat
      BY <1>1, <1>2, <2>4 DEF EnsureBufferRegistered, Registrations, SinkType, Task
    <3>2. SinkType'
      BY <1>1, <2>4, <3>1 DEF EnsureBufferRegistered, SinkType
    <3>3. task[t].pc # "idle"
      BY <2>4 DEF EnsureBufferRegistered
    <3>4. CASE \E r \in registered' :
                  task' = [task EXCEPT ![t].pc = "submit", ![t].id = r.id]
      <4>1. PICK r \in registered' :
               task' = [task EXCEPT ![t] = [@ EXCEPT !.pc = "submit", !.id = r.id]]
        BY <3>4
      <4>2. r.id \in Nat
        BY <3>1 DEF Registration
      <4>3. QED
        BY <1>1, <3>2, <3>3, <4>1, <4>2, NextTask, TaskTypeKept
    <3>5. CASE task' = [task EXCEPT ![t].pc = "register", ![t].consumer = consumer]
      <4>1. task' = [task EXCEPT ![t] = [@ EXCEPT !.pc = "register", !.consumer = consumer]]
        BY <3>5
      <4>2. QED
        BY <1>1, <3>2, <3>3, <4>1, NextTask, TaskTypeKept
    <3>6. QED
      BY <2>4, <3>4, <3>5 DEF EnsureBufferRegistered
  <2>5. CASE RegisterBuffer(t)
    <3>1. task[t].buffer \in Buffers /\ task[t].generation \in Nat /\ task[t].pc # "idle"
      BY <1>2, <2>5 DEF RegisterBuffer, Task
    <3>2. SinkType'
      BY <1>1, <2>5, <3>1 DEF RegisterBuffer, SinkType, Registration, Assignment
    <3>3. nextId \in Nat
      BY <1>1 DEF SinkType
    <3>4. task' = [task EXCEPT ![t] = [@ EXCEPT !.pc = "submit", !.id = nextId, !.consumer = 0]]
      BY <2>5 DEF RegisterBuffer
    <3>5. QED
      BY <1>1, <3>1, <3>2, <3>3, <3>4, NextTask, TaskTypeKept
  <2>6. CASE RegisterRefused(t) \/ RegisterFails(t)
    <3>1. EndRegister(t)
      BY <2>6 DEF RegisterRefused, RegisterFails
    <3>2. SinkType'
      BY <1>1, <3>1 DEF EndRegister, SinkType
    <3>3. QED
      BY <2>1, <3>1, <3>2 DEF EndRegister
  <2>7. CASE GetConsumer(t)
    <3>1. task' = [task EXCEPT ![t] = [@ EXCEPT !.pc = "send", !.consumer = consumer]]
          /\ task[t].pc # "idle"
      BY <2>7 DEF GetConsumer
    <3>2. TaskType'
      BY <1>1, <3>1, NextTask, TaskTypeKept
    <3>3. QED
      BY <2>7, <3>2, UntouchedTypes, Zenon DEF GetConsumer
  <2>8. CASE SubmitAccepted(t)
    BY <2>1, <2>8, UntouchedTypes, Zenon DEF SubmitAccepted
  <2>9. CASE SubmitRefused(t) \/ SubmitFails(t) \/ AnswerLost(t)
    <3>1. PICK status \in Status : Answer(t, status)
      BY <2>9, Zenon DEF SubmitRefused, SubmitFails, AnswerLost, Status
    <3>2. task[t].pc # "idle"
      BY <2>9 DEF SubmitRefused, SubmitFails, AnswerLost
    <3>3. TaskType'
      <4>1. task' = [task EXCEPT ![t] = [@ EXCEPT !.pc = "invalidate", !.status = status,
                                                 !.consumer = 0, !.generation = 0]]
        BY <3>1 DEF Answer
      <4>2. QED
        BY <1>1, <3>1, <3>2, <4>1, NextTask, TaskTypeKept
    <3>4. UNCHANGED sinkVars
      BY <2>9, Zenon DEF SubmitRefused, SubmitFails, AnswerLost
    <3>5. QED
      BY <3>3, <3>4, UntouchedTypes
  <2>10. CASE InvalidateRegistration(t)
    <3>1. registered' \subseteq registered /\ activeGeneration' \in {0, activeGeneration}
      BY <2>10 DEF InvalidateRegistration
    <3>2. SinkType'
      BY <1>1, <2>10, <3>1 DEF InvalidateRegistration, SinkType
    <3>3. QED
      BY <2>1, <2>10, <3>2 DEF InvalidateRegistration
  <2>11. QED
    BY <2>2, <2>3, <2>4, <2>5, <2>6, <2>7, <2>8, <2>9, <2>10 DEF Submit
<1>4. QED
  BY <1>3, CallTypes, TypeParts

LEMMA TypeStep ==
    ASSUME TypeOK, [Next]_vars
    PROVE  TypeOK'
<1>1. CASE Service
  BY <1>1, ServiceTypes
<1>2. CASE Worker
  BY <1>2, WorkerTypes
<1>3. CASE Stop
  <2>1. UNCHANGED <<serviceVars, endpointVars, workerVars, sinkVars, task, fenced, refresh>>
        /\ stopping' = TRUE
    BY <1>3, Zenon DEF Stop
  <2>2. EndpointType'
    BY <2>1, TypeParts, Zenon DEF EndpointType, endpointVars, workerVars
  <2>3. QED
    BY <2>1, <2>2, UntouchedTypes, TypeParts, Zenon
<1>4. CASE SurfaceFlinger
  <2>1. PICK t \in Threads, buffer \in Buffers : Present(t, buffer)
    BY <1>4, Zenon DEF SurfaceFlinger
  <2>2. /\ UNCHANGED <<serviceVars, endpointVars, workerVars, sinkVars, stopping, fenced>>
        /\ refresh' = IF Busy THEN "always" ELSE "no"
    BY <2>1, Zenon DEF Present
  <2>3. PICK generation \in Nat, pc \in {"reset", "ensure"} :
           task' = [task EXCEPT ![t] = [Idle EXCEPT !.buffer = buffer, !.pc = pc,
                                                    !.generation = generation]]
    BY <2>1, StreamTypes DEF Present
  <2>4. TaskType'
    BY <2>3, NextTask, TaskTypeKept, TypeParts
  <2>5. refresh' \in Request
    BY <2>2 DEF Request
  <2>6. QED
    BY <2>2, <2>4, <2>5, UntouchedTypes, TypeParts, Zenon
<1>5. CASE \E t \in Threads : Submit(t)
  BY <1>5, SubmitTypes
<1>6. CASE UNCHANGED vars
  BY <1>6, UntouchedTypes, TypeParts, Zenon DEF vars
<1>7. QED
  BY <1>1, <1>2, <1>3, <1>4, <1>5, <1>6 DEF Next

\* The state of the service, the endpoint, the sink and the tasks has its
\* types.
THEOREM TypeCorrect == Spec => []TypeOK
<1>1. Init => TypeOK
  BY InitTypes
<1>2. TypeOK /\ [Next]_vars => TypeOK'
  BY TypeStep
<1>3. QED
  BY <1>1, <1>2, PTL DEF Spec

----------------------------------------------------------------------------
(* Ids and generations.                                                    *)

DeliveryInv == IdsAreUnique /\ GenerationScoped /\ RegistrationsAgree

\* A step that leaves the sink and the tasks alone, and registers nothing
\* with the service.
LEMMA OutsideKeepsInv ==
    ASSUME DeliveryInv, UNCHANGED <<sinkVars, task>>, known' \subseteq known
    PROVE  DeliveryInv'
<1>1. UNCHANGED <<activeGeneration, registered, nextId, lock, assigned>> /\ UNCHANGED task
  BY DEF sinkVars
<1>2. IdsAreUnique'
  BY <1>1 DEF DeliveryInv, IdsAreUnique
<1>3. GenerationScoped'
  BY <1>1 DEF DeliveryInv, GenerationScoped, Submitting, Submission
<1>4. RegistrationsAgree'
  BY <1>1 DEF DeliveryInv, RegistrationsAgree
<1>5. QED
  BY <1>2, <1>3, <1>4 DEF DeliveryInv

\* A thread that does not hold the lock goes on without a frame to submit, or
\* with the one it had, and the registrations stay or become fewer.
LEMMA ThreadKeepsInv ==
    ASSUME TypeOK, DeliveryInv, NEW t \in Threads, NEW k,
           task' = [task EXCEPT ![t] = k],
           task[t].pc # "register",
           k.pc # "register",
           k.pc \in {"submit", "send"} =>
              /\ t \in Submitting
              /\ k.buffer = task[t].buffer /\ k.id = task[t].id
              /\ k.generation = task[t].generation,
           UNCHANGED <<nextId, assigned, lock>>,
           known' \subseteq known,
           registered' \subseteq registered,
           registered' # {} => activeGeneration' = activeGeneration,
           lock # NoThread => UNCHANGED <<registered, activeGeneration>>
    PROVE  DeliveryInv'
<1>1. task'[t] = k /\ \A u \in Threads : u # t => task'[u] = task[u]
  BY TypeParts DEF TaskType
<1>2. lock # t /\ lock \in Threads \cup {NoThread}
  BY TypeParts DEF DeliveryInv, IdsAreUnique, SinkType
<1>3. IdsAreUnique'
  <2>1. \A u \in Threads : task'[u].pc = "register" <=> lock' = u
    BY <1>1, <1>2 DEF DeliveryInv, IdsAreUnique
  <2>2. lock' # NoThread => /\ activeGeneration' = task'[lock'].generation
                            /\ \A r \in registered' : r.buffer # task'[lock'].buffer
    BY <1>1, <1>2 DEF DeliveryInv, IdsAreUnique
  <2>3. QED
    BY <2>1, <2>2 DEF DeliveryInv, IdsAreUnique
<1>4. GenerationScoped'
  <2>1. \A r \in registered' : [buffer |-> r.buffer, id |-> r.id,
                                generation |-> activeGeneration'] \in assigned'
    BY DEF DeliveryInv, GenerationScoped
  <2>2. \A u \in Submitting' : u \in Submitting /\ Submission(u)' = Submission(u)
    BY <1>1 DEF Submitting, Submission
  <2>3. QED
    BY <2>1, <2>2 DEF DeliveryInv, GenerationScoped
<1>5. RegistrationsAgree'
  BY DEF DeliveryInv, RegistrationsAgree
<1>6. QED
  BY <1>3, <1>4, <1>5 DEF DeliveryInv

\* A registration that is found was made in the generation of the task; the
\* lock is taken to make one.
LEMMA EnsureKeepsInv ==
    ASSUME TypeOK, DeliveryInv, NEW t \in Threads, EnsureBufferRegistered(t)
    PROVE  DeliveryInv'
<1>1. /\ task[t].pc = "ensure" /\ lock = NoThread
      /\ registered' = Registrations(task[t].generation)
      /\ activeGeneration' = task[t].generation
      /\ UNCHANGED <<nextId, assigned, known>>
  BY DEF EnsureBufferRegistered, serviceVars
<1>2. \A u \in Threads : task[u].pc # "register" /\ u # NoThread
  BY <1>1, DeliveryAssumption DEF DeliveryAssumption, DeliveryInv, IdsAreUnique
<1>3. \A r \in registered' : [buffer |-> r.buffer, id |-> r.id,
                              generation |-> activeGeneration'] \in assigned'
  BY <1>1 DEF Registrations, DeliveryInv, GenerationScoped
<1>4. RegistrationsAgree'
  BY <1>1 DEF DeliveryInv, RegistrationsAgree
<1>5. \/ \E r \in registered' :
             /\ r.buffer = task[t].buffer
             /\ task' = [task EXCEPT ![t] = [@ EXCEPT !.pc = "submit", !.id = r.id]]
             /\ UNCHANGED lock
      \/ /\ \A r \in registered' : r.buffer # task[t].buffer
         /\ task' = [task EXCEPT ![t] = [@ EXCEPT !.pc = "register", !.consumer = consumer]]
         /\ lock' = t
  BY DEF EnsureBufferRegistered
<1>6. task \in [Threads -> Task] /\ task[t] \in Task
  BY TypeParts DEF TaskType
<1>7. \A u \in Threads : u # t => task'[u] = task[u]
  BY <1>5, <1>6
<1>8. CASE \E r \in registered' :
              /\ r.buffer = task[t].buffer
              /\ task' = [task EXCEPT ![t] = [@ EXCEPT !.pc = "submit", !.id = r.id]]
              /\ UNCHANGED lock
  <2>1. PICK r \in registered' :
              /\ r.buffer = task[t].buffer
              /\ task' = [task EXCEPT ![t] = [@ EXCEPT !.pc = "submit", !.id = r.id]]
              /\ UNCHANGED lock
    BY <1>8
  <2>2. /\ task'[t].pc = "submit" /\ task'[t].id = r.id
        /\ task'[t].buffer = r.buffer /\ task'[t].generation = activeGeneration'
    BY <1>1, <1>6, <2>1 DEF Task
  <2>3. IdsAreUnique'
    BY <1>1, <1>2, <1>7, <2>1, <2>2 DEF DeliveryInv, IdsAreUnique
  <2>4. \A u \in Submitting' \ {t} : u \in Submitting /\ Submission(u)' = Submission(u)
    BY <1>7 DEF Submitting, Submission
  <2>5. Submission(t)' \in assigned'
    BY <1>3, <2>1, <2>2 DEF Submission
  <2>6. GenerationScoped'
    BY <1>1, <1>3, <2>4, <2>5 DEF DeliveryInv, GenerationScoped
  <2>7. QED
    BY <1>4, <2>3, <2>6 DEF DeliveryInv
<1>9. CASE /\ \A r \in registered' : r.buffer # task[t].buffer
           /\ task' = [task EXCEPT ![t] = [@ EXCEPT !.pc = "register", !.consumer = consumer]]
           /\ lock' = t
  <2>1. /\ task'[t].pc = "register" /\ task'[t].buffer = task[t].buffer
        /\ task'[t].generation = activeGeneration'
    BY <1>1, <1>6, <1>9 DEF Task
  <2>2. \A u \in Threads : task'[u].pc = "register" <=> lock' = u
    BY <1>2, <1>7, <1>9, <2>1
  <2>3. \A r \in registered' : r.buffer # task'[t].buffer
    BY <1>9, <2>1
  <2>4. IdsAreUnique'
    BY <1>1, <1>9, <2>1, <2>2, <2>3 DEF DeliveryInv, IdsAreUnique
  <2>5. \A u \in Submitting' : u \in Submitting /\ Submission(u)' = Submission(u)
    BY <1>7, <2>1 DEF Submitting, Submission
  <2>6. GenerationScoped'
    BY <1>1, <1>3, <2>5 DEF DeliveryInv, GenerationScoped
  <2>7. QED
    BY <1>4, <2>4, <2>6 DEF DeliveryInv
<1>10. QED
  BY <1>5, <1>8, <1>9

\* The new registration takes an id that nobody has.
LEMMA RegisterKeepsInv ==
    ASSUME TypeOK, DeliveryInv, NEW t \in Threads, RegisterBuffer(t)
    PROVE  DeliveryInv'
<1> DEFINE new == [buffer |-> task[t].buffer, id |-> nextId,
                   generation |-> task[t].generation]
<1>1. /\ task[t].pc = "register"
      /\ known' = {k \in known : k.id # nextId} \cup
                     {[buffer |-> task[t].buffer, id |-> nextId]}
      /\ registered' = registered \cup {[buffer |-> task[t].buffer, id |-> nextId]}
      /\ assigned' = assigned \cup {new}
      /\ nextId' = nextId + 1 /\ lock' = NoThread
      /\ UNCHANGED activeGeneration
      /\ task' = [task EXCEPT ![t] = [@ EXCEPT !.pc = "submit", !.id = nextId, !.consumer = 0]]
  BY DEF RegisterBuffer, Register
<1>2. lock = t /\ t # NoThread /\ activeGeneration = task[t].generation
      /\ \A u \in Threads : u # t => task[u].pc # "register"
  BY <1>1, DeliveryAssumption DEF DeliveryAssumption, DeliveryInv, IdsAreUnique
<1>3. task \in [Threads -> Task] /\ task[t] \in Task /\ nextId \in Nat
      /\ assigned \subseteq Assignment /\ known \subseteq Registration
  BY TypeParts DEF TaskType, SinkType, ServiceType
<1>4. /\ \A u \in Threads : u # t => task'[u] = task[u]
      /\ task'[t].pc = "submit" /\ task'[t].id = nextId
      /\ task'[t].buffer = task[t].buffer /\ task'[t].generation = task[t].generation
  BY <1>1, <1>3 DEF Task
<1>5. \A a \in assigned : a.id < nextId /\ a.id \in Nat
  BY <1>3 DEF DeliveryInv, IdsAreUnique, Assignment
<1>6. IdsAreUnique'
  <2>1. \A a \in assigned' : a.id < nextId'
    BY <1>1, <1>3, <1>5
  <2>2. \A a, b \in assigned' : a.id = b.id => a = b
    BY <1>1, <1>3, <1>5 DEF DeliveryInv, IdsAreUnique
  <2>3. \A k \in known' : k.id <= nextId'
    BY <1>1, <1>3 DEF DeliveryInv, IdsAreUnique, Registration
  <2>4. \A u \in Threads : task'[u].pc = "register" <=> lock' = u
    BY <1>1, <1>2, <1>4, DeliveryAssumption DEF DeliveryAssumption
  <2>5. QED
    BY <1>1, <2>1, <2>2, <2>3, <2>4 DEF IdsAreUnique
<1>7. GenerationScoped'
  <2>1. \A r \in registered' : [buffer |-> r.buffer, id |-> r.id,
                                generation |-> activeGeneration'] \in assigned'
    BY <1>1, <1>2 DEF DeliveryInv, GenerationScoped
  <2>2. \A u \in Submitting' \ {t} : u \in Submitting /\ Submission(u)' = Submission(u)
    BY <1>4 DEF Submitting, Submission
  <2>3. Submission(t)' \in assigned'
    BY <1>1, <1>4 DEF Submission
  <2>4. QED
    BY <1>1, <2>1, <2>2, <2>3 DEF DeliveryInv, GenerationScoped
<1>8. RegistrationsAgree'
  BY <1>1, <1>5 DEF DeliveryInv, RegistrationsAgree
<1>9. QED
  BY <1>6, <1>7, <1>8 DEF DeliveryInv

\* The lock is released; what the service may have registered has an id that
\* the sink gave to nobody.
LEMMA EndRegisterKeepsInv ==
    ASSUME TypeOK, DeliveryInv, NEW t \in Threads,
           RegisterRefused(t) \/ RegisterFails(t)
    PROVE  DeliveryInv'
<1>1. /\ task[t].pc = "register"
      /\ \/ known' = known
         \/ known' = {k \in known : k.id # nextId} \cup
                        {[buffer |-> task[t].buffer, id |-> nextId]}
      /\ lock' = NoThread
      /\ UNCHANGED <<activeGeneration, registered, nextId, assigned>>
      /\ task' = [task EXCEPT ![t] = Idle]
  BY DEF RegisterRefused, RegisterFails, EndRegister, Return, Register
<1>2. t # NoThread /\ \A u \in Threads : u # t => task[u].pc # "register"
  BY <1>1, DeliveryAssumption DEF DeliveryAssumption, DeliveryInv, IdsAreUnique
<1>3. task \in [Threads -> Task] /\ nextId \in Nat /\ assigned \subseteq Assignment
  BY TypeParts DEF TaskType, SinkType
<1>4. (\A u \in Threads : u # t => task'[u] = task[u]) /\ task'[t].pc = "idle"
  BY <1>1, <1>3 DEF Idle
<1>5. IdsAreUnique'
  <2>1. \A k \in known' : k.id <= nextId'
    BY <1>1, <1>3 DEF DeliveryInv, IdsAreUnique
  <2>2. \A u \in Threads : task'[u].pc = "register" <=> lock' = u
    BY <1>1, <1>2, <1>4, DeliveryAssumption DEF DeliveryAssumption
  <2>3. QED
    BY <1>1, <2>1, <2>2 DEF DeliveryInv, IdsAreUnique
<1>6. GenerationScoped'
  <2>1. \A u \in Submitting' : u \in Submitting /\ Submission(u)' = Submission(u)
    BY <1>4 DEF Submitting, Submission
  <2>2. QED
    BY <1>1, <2>1 DEF DeliveryInv, GenerationScoped
<1>7. RegistrationsAgree'
  <2>1. \A a \in assigned : a.id # nextId
    BY <1>3 DEF DeliveryInv, IdsAreUnique, Assignment
  <2>2. QED
    BY <1>1, <2>1 DEF DeliveryInv, RegistrationsAgree
<1>8. QED
  BY <1>5, <1>6, <1>7 DEF DeliveryInv

LEMMA SubmitKeepsInv ==
    ASSUME TypeOK, DeliveryInv, NEW t \in Threads, Submit(t)
    PROVE  DeliveryInv'
<1>0. Idle.pc = "idle"
  BY DEF Idle
<1>1. CASE KeepLocal(t)
  <2>1. task[t].pc = "ensure" /\ task' = [task EXCEPT ![t] = Idle]
        /\ UNCHANGED <<sinkVars, known>>
    BY <1>1, Zenon DEF KeepLocal, Return
  <2>2. QED
    BY <1>0, <2>1, ThreadKeepsInv DEF sinkVars
<1>2. CASE ResetRegisteredBuffers(t)
  <2>1. /\ task[t].pc = "reset" /\ task' = [task EXCEPT ![t] = Idle]
        /\ lock = NoThread /\ registered' = {}
        /\ UNCHANGED <<nextId, assigned, lock, known>>
    BY <1>2 DEF ResetRegisteredBuffers, Return, serviceVars
  <2>2. QED
    BY <1>0, <2>1, ThreadKeepsInv
<1>3. CASE EnsureBufferRegistered(t)
  BY <1>3, EnsureKeepsInv
<1>4. CASE RegisterBuffer(t)
  BY <1>4, RegisterKeepsInv
<1>5. CASE RegisterRefused(t) \/ RegisterFails(t)
  BY <1>5, EndRegisterKeepsInv
<1>6. CASE GetConsumer(t)
  <2> DEFINE k == [task[t] EXCEPT !.pc = "send", !.consumer = consumer]
  <2>1. /\ task[t].pc = "submit" /\ task' = [task EXCEPT ![t] = k]
        /\ UNCHANGED <<sinkVars, known>>
    BY <1>6 DEF GetConsumer, serviceVars
  <2>2. task[t] \in Task
    BY TypeParts DEF TaskType
  <2>3. k.pc = "send" /\ k.buffer = task[t].buffer /\ k.id = task[t].id
        /\ k.generation = task[t].generation
    BY <2>2 DEF Task
  <2>4. t \in Submitting
    BY <2>1 DEF Submitting
  <2> HIDE DEF k
  <2>5. QED
    BY <2>1, <2>3, <2>4, ThreadKeepsInv DEF sinkVars
<1>7. CASE SubmitAccepted(t)
  <2>1. task[t].pc = "send" /\ task' = [task EXCEPT ![t] = Idle]
        /\ UNCHANGED <<sinkVars, known>>
    BY <1>7, Zenon DEF SubmitAccepted, Return
  <2>2. QED
    BY <1>0, <2>1, ThreadKeepsInv DEF sinkVars
<1>8. CASE SubmitRefused(t) \/ SubmitFails(t) \/ AnswerLost(t)
  <2>1. task[t].pc = "send" /\ UNCHANGED <<sinkVars, known>>
    BY <1>8, Zenon DEF SubmitRefused, SubmitFails, AnswerLost
  <2>2. PICK status \in Status : Answer(t, status)
    BY <1>8, Zenon DEF SubmitRefused, SubmitFails, AnswerLost, Status
  <2> DEFINE k == [task[t] EXCEPT !.pc = "invalidate", !.status = status,
                                  !.consumer = 0, !.generation = 0]
  <2>3. task' = [task EXCEPT ![t] = k]
    BY <2>2 DEF Answer
  <2>4. task[t] \in Task
    BY TypeParts DEF TaskType
  <2>5. k.pc = "invalidate"
    BY <2>4 DEF Task
  <2> HIDE DEF k
  <2>6. QED
    BY <2>1, <2>3, <2>5, ThreadKeepsInv DEF sinkVars
<1>9. CASE InvalidateRegistration(t)
  <2>1. /\ task[t].pc = "invalidate" /\ task' = [task EXCEPT ![t] = Idle]
        /\ lock = NoThread
        /\ UNCHANGED <<nextId, assigned, lock, known>>
    BY <1>9 DEF InvalidateRegistration, Return, serviceVars
  <2>2. registered' \subseteq registered
        /\ (registered' # {} => activeGeneration' = activeGeneration)
    BY <1>9 DEF InvalidateRegistration
  <2>3. QED
    BY <1>0, <2>1, <2>2, ThreadKeepsInv
<1>10. QED
  BY <1>1, <1>2, <1>3, <1>4, <1>5, <1>6, <1>7, <1>8, <1>9 DEF Submit

LEMMA InvStep ==
    ASSUME TypeOK, DeliveryInv, [Next]_vars
    PROVE  DeliveryInv'
<1>1. CASE Service
  <2>1. UNCHANGED <<sinkVars, task>>
    BY <1>1, Zenon DEF Service, Start, StopStream, StartStream, Crash, ReadDone
  <2>2. known' \subseteq known
    BY <1>1 DEF Service, Start, StopStream, StartStream, Crash, ReadDone
  <2>3. QED
    BY <2>1, <2>2, OutsideKeepsInv
<1>2. CASE Worker \/ Stop \/ UNCHANGED vars
  <2>1. UNCHANGED <<sinkVars, task, known>>
    BY <1>2, Zenon DEF Worker, Top, GetStreamStateAnswered, GetStreamStateFails, Store,
                       Activate, Stop, vars, serviceVars
  <2>2. QED
    BY <2>1, OutsideKeepsInv
<1>3. CASE SurfaceFlinger
  <2>1. PICK t \in Threads, buffer \in Buffers : Present(t, buffer)
    BY <1>3, Zenon DEF SurfaceFlinger
  <2>2. task[t].pc = "idle" /\ UNCHANGED <<sinkVars, known>>
    BY <2>1 DEF Present, serviceVars
  <2>3. PICK generation \in Nat, pc \in {"reset", "ensure"} :
           task' = [task EXCEPT ![t] = [Idle EXCEPT !.buffer = buffer, !.pc = pc,
                                                    !.generation = generation]]
    BY <2>1, StreamTypes DEF Present
  <2> DEFINE k == [Idle EXCEPT !.buffer = buffer, !.pc = pc, !.generation = generation]
  <2>4. k.pc = pc
    BY DEF Idle
  <2>5. task' = [task EXCEPT ![t] = k]
    BY <2>3
  <2> HIDE DEF k
  <2>6. QED
    BY <2>2, <2>4, <2>5, ThreadKeepsInv DEF sinkVars
<1>4. CASE \E t \in Threads : Submit(t)
  BY <1>4, SubmitKeepsInv
<1>5. QED
  BY <1>1, <1>2, <1>3, <1>4 DEF Next

LEMMA InitInv == Init => DeliveryInv
  BY DeliveryAssumption
     DEF DeliveryAssumption, Init, DeliveryInv, IdsAreUnique, GenerationScoped,
         RegistrationsAgree, Submitting, Idle

\* No property is inductive without the others: that an id of the sink names
\* one buffer at the service needs the ids to be fresh, and those are as long
\* as one thread at a time registers.
THEOREM DeliveryInvariant == Spec => []DeliveryInv
<1>1. Init => TypeOK /\ DeliveryInv
  BY InitTypes, InitInv
<1>2. TypeOK /\ DeliveryInv /\ [Next]_vars => TypeOK' /\ DeliveryInv'
  BY TypeStep, InvStep
<1>3. QED
  BY <1>1, <1>2, PTL DEF Spec

\* Ids are given out once, and registering keeps other threads away from the
\* registrations.
THEOREM IdsAreGivenOutOnce == Spec => []IdsAreUnique
  BY DeliveryInvariant, PTL DEF DeliveryInv

\* Every frame is submitted under an id that was registered for its buffer in
\* its generation.
THEOREM FramesAreGenerationScoped == Spec => []GenerationScoped
  BY DeliveryInvariant, PTL DEF DeliveryInv

\* Under an id that the sink has given out, the service has its buffer or
\* none, after restarts and lost answers too.
THEOREM ServiceAgreesOnIds == Spec => []RegistrationsAgree
  BY DeliveryInvariant, PTL DEF DeliveryInv

----------------------------------------------------------------------------
(* The loan of the buffers.                                                *)

\* The service takes a frame of the buffer that was presented: it has no other
\* under that id.
LEMMA TakesThePresented ==
    ASSUME DeliveryInv, NEW t \in Submitting, Takes(t)
    PROVE  reading' \subseteq reading \cup {task[t].buffer}
<1>1. Submission(t) \in assigned
  BY DEF DeliveryInv, GenerationScoped
<1>2. \A k \in known : k.id = task[t].id => k.buffer = task[t].buffer
  BY <1>1 DEF DeliveryInv, RegistrationsAgree, Submission
<1>3. QED
  BY <1>2 DEF Takes

LEMMA FencedWhileRead ==
    ASSUME ~AnswersLost, DeliveryInv, reading \subseteq fenced, [Next]_vars
    PROVE  reading' \subseteq fenced'
<1>1. CASE Service
  BY <1>1 DEF Service, Start, StopStream, StartStream, Crash, ReadDone
<1>2. CASE Worker \/ Stop \/ SurfaceFlinger \/ UNCHANGED vars
  <2>1. UNCHANGED <<reading, fenced>>
    BY <1>2, Zenon DEF Worker, Top, GetStreamStateAnswered, GetStreamStateFails, Store,
                       Activate, Stop, SurfaceFlinger, Present, vars, serviceVars
  <2>2. QED
    BY <2>1
<1>3. ASSUME NEW t \in Threads, Submit(t)
      PROVE  reading' \subseteq fenced'
  <2>1. CASE SubmitAccepted(t)
    <3>1. /\ t \in Submitting /\ Takes(t)
          /\ fenced' = fenced \cup ({task[t].buffer} \cap reading')
      BY <2>1 DEF SubmitAccepted, Submitting, ReleaseFence
    <3>2. QED
      BY <3>1, TakesThePresented
  <2>2. CASE ~SubmitAccepted(t)
    <3>1. UNCHANGED <<reading, fenced>>
      BY <1>3, <2>2, Zenon
         DEF Submit, KeepLocal, ResetRegisteredBuffers, EnsureBufferRegistered,
             RegisterBuffer, RegisterRefused, RegisterFails, EndRegister, GetConsumer,
             SubmitRefused, SubmitFails, AnswerLost, InvalidateRegistration, serviceVars
    <3>2. QED
      BY <3>1
  <2>3. QED
    BY <2>1, <2>2
<1>4. QED
  BY <1>1, <1>2, <1>3 DEF Next

\* SurfaceFlinger does not get a buffer back that the service reads, as long
\* as no answer to an accepted frame is lost (then it does: the run
\* delivery_lost_answer).
THEOREM BuffersStayBorrowed ==
    ASSUME ~AnswersLost
    PROVE  Spec => []BorrowedWhileRead
<1>1. Init => reading \subseteq fenced
  BY DEF Init
<1>2. DeliveryInv /\ reading \subseteq fenced /\ [Next]_vars => (reading \subseteq fenced)'
  BY FencedWhileRead
<1>3. reading \subseteq fenced => BorrowedWhileRead
  BY DEF BorrowedWhileRead, Borrowed
<1>4. QED
  BY <1>1, <1>2, <1>3, DeliveryInvariant, PTL DEF Spec

----------------------------------------------------------------------------
(* The handover of the client targets.                                     *)

\* A step of one thread changes what its own call presents and offers.
LEMMA CallMaps ==
    ASSUME TypeOK, NEW t \in Threads, NEW k, task' = [task EXCEPT ![t] = k]
    PROVE  /\ Presented' = [Presented EXCEPT ![t] = k.buffer]
           /\ Offered' = [Offered EXCEPT ![t] = k.pc \notin {"idle", "invalidate"}]
<1>1. task'[t] = k /\ \A u \in Threads : u # t => task'[u] = task[u]
  BY TypeParts DEF TaskType
<1>2. Presented' = [Presented EXCEPT ![t] = k.buffer]
  <2>1. Presented' = [u \in Threads |-> task'[u].buffer]
    BY DEF Presented
  <2>2. [Presented EXCEPT ![t] = k.buffer]
           = [u \in Threads |-> IF u = t THEN k.buffer ELSE task[u].buffer]
    BY Zenon DEF Presented
  <2>3. \A u \in Threads : task'[u].buffer = IF u = t THEN k.buffer ELSE task[u].buffer
    BY <1>1
  <2>4. QED
    BY <2>1, <2>2, <2>3
<1>3. Offered' = [Offered EXCEPT ![t] = k.pc \notin {"idle", "invalidate"}]
  <2> DEFINE Open(kind) == kind \notin {"idle", "invalidate"}
  <2>1. Offered' = [u \in Threads |-> Open(task'[u].pc)]
    BY DEF Offered
  <2>2. [Offered EXCEPT ![t] = Open(k.pc)]
           = [u \in Threads |-> IF u = t THEN Open(k.pc) ELSE Open(task[u].pc)]
    BY Zenon DEF Offered
  <2>3. ASSUME NEW u \in Threads
        PROVE  Open(task'[u].pc) = IF u = t THEN Open(k.pc) ELSE Open(task[u].pc)
    <3>1. CASE u = t
      BY <1>1, <3>1, Zenon
    <3>2. CASE u # t
      BY <1>1, <3>2, Zenon
    <3>3. QED
      BY <3>1, <3>2
  <2> HIDE DEF Open
  <2>4. Offered' = [Offered EXCEPT ![t] = Open(k.pc)]
    BY <2>1, <2>2, <2>3, Zenon
  <2>5. QED
    BY <2>4, Zenon DEF Open
<1>4. QED
  BY <1>2, <1>3

\* A call that ends, or has its answer, is over or only tidies up.
LEMMA LeavingMaps ==
    ASSUME TypeOK, NEW t \in Threads, NEW k, task' = [task EXCEPT ![t] = k],
           k.pc \in {"idle", "invalidate"},
           k.buffer \in {NoBuffer, task[t].buffer}
    PROVE  Handover!Leave(t) /\ Offered' = [Offered EXCEPT ![t] = FALSE]
<1>1. Presented' = [Presented EXCEPT ![t] = k.buffer]
      /\ Offered' = [Offered EXCEPT ![t] = FALSE]
  BY CallMaps
<1>2. CASE k.buffer = NoBuffer
  BY <1>1, <1>2 DEF Handover!Leave
<1>3. CASE k.buffer = task[t].buffer
  <2>1. Presented' = Presented
    BY <1>1, <1>3 DEF Presented
  <2>2. QED
    BY <1>1, <2>1 DEF Handover!Leave
<1>4. QED
  BY <1>2, <1>3

\* The client keeps off a buffer that is presented.
LEMMA PresentMaps ==
    ASSUME TypeOK, NEW t \in Threads, NEW buffer \in Buffers, Present(t, buffer)
    PROVE  Handover!Present(t, buffer)
<1>1. /\ task[t].pc = "idle" /\ ~Borrowed(buffer) /\ UNCHANGED reading
  BY DEF Present, serviceVars
<1>2. PICK generation \in Nat, pc \in {"reset", "ensure"} :
         task' = [task EXCEPT ![t] = [Idle EXCEPT !.buffer = buffer, !.pc = pc,
                                                  !.generation = generation]]
  BY StreamTypes DEF Present
<1> DEFINE k == [Idle EXCEPT !.buffer = buffer, !.pc = pc, !.generation = generation]
<1>3. k.pc \in {"reset", "ensure"} /\ k.buffer = buffer
  BY DEF Idle
<1>4. task' = [task EXCEPT ![t] = k]
  BY <1>2
<1> HIDE DEF k
<1>5. Presented' = [Presented EXCEPT ![t] = buffer] /\ Offered' = [Offered EXCEPT ![t] = TRUE]
  BY <1>3, <1>4, CallMaps
<1>6. Presented[t] = NoBuffer /\ \A u \in Threads : Presented[u] # buffer
  BY <1>1, TypeParts DEF Presented, TaskType, Borrowed
<1>7. QED
  BY <1>1, <1>5, <1>6 DEF Handover!Present

\* Registering is invisible; an accepted frame is a target the service takes,
\* whether its answer arrives or not.
LEMMA SubmitMaps ==
    ASSUME TypeOK, DeliveryInv, NEW t \in Threads, Submit(t)
    PROVE  \/ Handover!Take(t) \/ Handover!Return(t)
           \/ UNCHANGED <<Presented, Offered, reading>>
<1>1. task[t] \in Task /\ Idle.pc = "idle" /\ Idle.buffer = NoBuffer
  BY TypeParts DEF TaskType, Idle
<1>2. CASE \/ KeepLocal(t) \/ ResetRegisteredBuffers(t) \/ RegisterRefused(t)
           \/ RegisterFails(t) \/ InvalidateRegistration(t)
  <2>1. task' = [task EXCEPT ![t] = Idle] /\ UNCHANGED reading
    BY <1>2, Zenon DEF KeepLocal, ResetRegisteredBuffers, RegisterRefused, RegisterFails,
                       EndRegister, InvalidateRegistration, Return, serviceVars
  <2>2. QED
    BY <1>1, <2>1, LeavingMaps DEF Handover!Return
<1>3. CASE EnsureBufferRegistered(t) \/ RegisterBuffer(t) \/ GetConsumer(t)
  <2>1. UNCHANGED reading /\ task[t].pc \notin {"idle", "invalidate"}
    BY <1>3 DEF EnsureBufferRegistered, RegisterBuffer, GetConsumer, serviceVars
  <2>2. \E k : /\ task' = [task EXCEPT ![t] = k]
               /\ k.pc \notin {"idle", "invalidate"} /\ k.buffer = task[t].buffer
    BY <1>1, <1>3 DEF EnsureBufferRegistered, RegisterBuffer, GetConsumer, Task
  <2>3. PICK k : /\ task' = [task EXCEPT ![t] = k]
                 /\ k.pc \notin {"idle", "invalidate"} /\ k.buffer = task[t].buffer
    BY <2>2
  <2>4. Presented' = [Presented EXCEPT ![t] = k.buffer] /\ Offered' = [Offered EXCEPT ![t] = TRUE]
    BY <2>3, CallMaps
  <2>5. UNCHANGED <<Presented, Offered>>
    BY <2>1, <2>3, <2>4 DEF Presented, Offered
  <2>6. QED
    BY <2>1, <2>5
<1>4. ASSUME SubmitAccepted(t) \/ AnswerLost(t)
      PROVE  Offered[t] /\ reading' \in {reading, reading \cup {Presented[t]}}
  <2>1. task[t].pc = "send" /\ t \in Submitting /\ Takes(t)
    BY <1>4 DEF SubmitAccepted, AnswerLost, Submitting
  <2>2. reading' \subseteq reading \cup {task[t].buffer} /\ reading \subseteq reading'
    BY <2>1, TakesThePresented DEF Takes
  <2>3. reading' = reading \/ reading' = reading \cup {task[t].buffer}
    BY <2>2
  <2>4. QED
    BY <2>1, <2>3 DEF Presented, Offered
<1>5. CASE SubmitAccepted(t)
  <2>1. task' = [task EXCEPT ![t] = Idle]
    BY <1>5 DEF SubmitAccepted, Return
  <2>2. QED
    BY <1>1, <1>4, <1>5, <2>1, LeavingMaps DEF Handover!Take
<1>6. CASE SubmitRefused(t) \/ SubmitFails(t) \/ AnswerLost(t)
  <2>1. PICK status : Answer(t, status)
    BY <1>6, Zenon DEF SubmitRefused, SubmitFails, AnswerLost
  <2> DEFINE k == [task[t] EXCEPT !.pc = "invalidate", !.status = status,
                                  !.consumer = 0, !.generation = 0]
  <2>2. task' = [task EXCEPT ![t] = k]
    BY <2>1 DEF Answer
  <2>3. k.pc = "invalidate" /\ k.buffer = task[t].buffer
    BY <1>1 DEF Task
  <2> HIDE DEF k
  <2>4. Handover!Leave(t) /\ Offered' = [Offered EXCEPT ![t] = FALSE]
    BY <2>2, <2>3, LeavingMaps
  <2>5. CASE AnswerLost(t)
    BY <1>4, <2>4, <2>5 DEF Handover!Take
  <2>6. CASE SubmitRefused(t) \/ SubmitFails(t)
    <3>1. UNCHANGED reading
      BY <2>6, Zenon DEF SubmitRefused, SubmitFails
    <3>2. QED
      BY <2>4, <3>1 DEF Handover!Return
  <2>7. QED
    BY <1>6, <2>5, <2>6
<1>7. QED
  BY <1>2, <1>3, <1>5, <1>6 DEF Submit

\* The service never reads another target than the one of the call that sent
\* it the frame, and takes that one once at most: retries, restarts and lost
\* answers never make it show a target again, or under another's id.
THEOREM ImplementsHandover == Spec => HandoverSpec
<1>1. Init => Handover!Init
  <2> SUFFICES ASSUME Init PROVE Handover!Init
    OBVIOUS
  <2>1. task = [t \in Threads |-> Idle] /\ reading = {}
    BY DEF Init
  <2>2. Presented = [t \in Threads |-> NoBuffer]
    BY <2>1 DEF Presented, Idle
  <2>3. \A t \in Threads : (task[t].pc \notin {"idle", "invalidate"}) = FALSE
    BY <2>1 DEF Idle
  <2>4. Offered = [t \in Threads |-> FALSE]
    BY <2>3, Zenon DEF Offered
  <2>5. QED
    BY <2>1, <2>2, <2>4 DEF Handover!Init
<1>2. TypeOK /\ DeliveryInv /\ [Next]_vars => [Handover!Next]_(Handover!handoverVars)
  <2> SUFFICES ASSUME TypeOK, DeliveryInv, [Next]_vars
               PROVE  Handover!Next \/ UNCHANGED Handover!handoverVars
    OBVIOUS
  <2>1. CASE Service
    <3>1. reading' \in SUBSET reading /\ UNCHANGED task
      BY <2>1 DEF Service, Start, StopStream, StartStream, Crash, ReadDone
    <3>2. QED
      BY <3>1 DEF Handover!Next, Handover!Finish, Presented, Offered
  <2>2. CASE Worker \/ Stop \/ UNCHANGED vars
    <3>1. UNCHANGED <<reading, task>>
      BY <2>2, Zenon DEF Worker, Top, GetStreamStateAnswered, GetStreamStateFails, Store,
                         Activate, Stop, vars, serviceVars
    <3>2. QED
      BY <3>1 DEF Handover!handoverVars, Presented, Offered
  <2>3. CASE SurfaceFlinger
    BY <2>3, PresentMaps DEF SurfaceFlinger, Handover!Next
  <2>4. CASE \E t \in Threads : Submit(t)
    BY <2>4, SubmitMaps DEF Handover!Next, Handover!handoverVars
  <2>5. QED
    BY <2>1, <2>2, <2>3, <2>4 DEF Next
<1>3. QED
  BY <1>1, <1>2, TypeCorrect, DeliveryInvariant, PTL DEF Spec, HandoverSpec, Handover!Spec
=============================================================================
