---------------------- MODULE TopologySubscriberProofs ----------------------
(***************************************************************************)
(* Proofs about TopologySubscriber, for every set of layouts and every     *)
(* bound: TypeOK, the inductive invariant SubscriberInv, and that the      *)
(* displays follow the service's history forwards only (TopologyMirror).   *)
(***************************************************************************)
EXTENDS TopologySubscriber, TLAPS

----------------------------------------------------------------------------
(* Type correctness.                                                       *)

\* The snapshot before any other is a snapshot.
LEMMA NoSnapshotType == NoSnapshot \in Snapshot
  BY SubscriberAssumption DEF SubscriberAssumption, NoSnapshot, Snapshot

\* Callbacks are only ever added for epochs and a snapshot.
LEMMA CallBackType ==
    ASSUME TypeOK, NEW epochs \in SUBSET Nat, NEW s \in Snapshot, CallBack(epochs, s)
    PROVE  calls' \subseteq Call
<1>1. {[epoch |-> e, snapshot |-> s] : e \in epochs} \subseteq Call
  BY DEF Call
<1>2. QED
  BY <1>1 DEF CallBack, TypeOK

\* What is published, by a publication or a restart, is a snapshot.
LEMMA PublishType ==
    ASSUME TypeOK, NEW layout \in Layouts, Publish(layout)
    PROVE  snapshot' \in Snapshot
<1>1. PICK g \in snapshot.generation .. snapshot.generation + 1 :
         snapshot' = [snapshot EXCEPT !.generation = g, !.layout = layout]
  BY DEF Publish
<1>2. g \in Nat
  BY DEF TypeOK, Snapshot
<1>3. QED
  BY <1>1, <1>2 DEF TypeOK, Snapshot

\* What Apply does to the applier and the displays.
LEMMA ApplyType ==
    ASSUME TypeOK, NEW e \in Nat, NEW s \in Snapshot, Apply(e, s)
    PROVE  /\ activeEpoch' \in Nat /\ lastGeneration' \in Nat /\ attached' \in BOOLEAN
           /\ external' \in Layouts /\ adopted' \in Snapshot
  BY DEF Apply, TypeOK, Snapshot

\* Beginning a lease leaves it in its type.
LEMMA LeaseType ==
    ASSUME TypeOK, BeginServiceLossLease
    PROVE  lease' \in {"none", "running", "due"}
  BY DEF BeginServiceLossLease, TypeOK

\* So does its expiry, which may clear the displays.
LEMMA ExpireType ==
    ASSUME TypeOK, ExpireServiceLossLeaseIfNeeded
    PROVE  /\ lease' \in {"none", "running", "due"}
           /\ authoritative' \in BOOLEAN
           /\ external' \in Layouts
  BY SubscriberAssumption DEF SubscriberAssumption, ExpireServiceLossLeaseIfNeeded, TypeOK

\* Ending an epoch leaves the two counters in Nat.
LEMMA EndEpochType ==
    ASSUME TypeOK, EndServiceEpoch
    PROVE  activeEpoch' \in Nat /\ lastGeneration' \in Nat /\ attached' \in BOOLEAN
  BY DEF EndServiceEpoch, TypeOK

\* Every step of the worker keeps the types.
LEMMA WorkerType ==
    ASSUME TypeOK, Worker
    PROVE  TypeOK'
<1> USE DEF serviceVars, registryVars, applierVars, Location
<1>1. CASE Top
  BY <1>1, ExpireType DEF Top, TypeOK
<1>2. CASE Return
  BY <1>2 DEF Return, TypeOK
<1>3. CASE NoService
  BY <1>3 DEF NoService, TypeOK
<1>4. CASE Connect
  BY <1>4 DEF Connect, BeginServiceEpoch, TypeOK, Snapshot
<1>5. CASE RegisterListener
  <2>1. calls' \subseteq Call
    BY <1>5, CallBackType DEF RegisterListener, TypeOK
  <2>2. QED
    BY <1>5, <2>1 DEF RegisterListener, TypeOK
<1>6. CASE Registered
  BY <1>6 DEF Registered, TypeOK
<1>7. CASE RegisterFails
  BY <1>7, LeaseType, EndEpochType DEF RegisterFails, LeaveIteration, CallFails, TypeOK
<1>8. CASE GetSnapshot
  BY <1>8 DEF GetSnapshot, TypeOK
<1>9. CASE LeavePolling
  BY <1>9 DEF LeavePolling, CallFails, TypeOK
<1>10. CASE ApplyPolled
  <2>1. /\ activeEpoch' \in Nat /\ lastGeneration' \in Nat /\ attached' \in BOOLEAN
        /\ external' \in Layouts /\ adopted' \in Snapshot
    BY <1>10, ApplyType DEF ApplyPolled, TypeOK
  <2>2. lease' \in {"none", "running", "due"} /\ authoritative' \in BOOLEAN
    BY <1>10, LeaseType DEF ApplyPolled, TypeOK
  <2>3. QED
    BY <1>10, <2>1, <2>2, NoSnapshotType DEF ApplyPolled, TypeOK
<1>11. CASE Expire
  BY <1>11, ExpireType DEF Expire, TypeOK
<1>12. CASE UnregisterListener
  <2>1. listeners' \subseteq Nat
    BY <1>12 DEF UnregisterListener, TypeOK
  <2>2. faults' \in Nat
    BY <1>12 DEF UnregisterListener, CallFails, TypeOK
  <2>3. QED
    BY <1>12, <2>1, <2>2 DEF UnregisterListener, TypeOK
<1>13. CASE EndEpoch
  <2>1. lease' \in {"none", "running", "due"}
    BY <1>13, LeaseType DEF EndEpoch, TypeOK
  <2>2. activeEpoch' \in Nat /\ lastGeneration' \in Nat /\ attached' \in BOOLEAN
    BY <1>13, EndEpochType DEF EndEpoch
  <2>3. QED
    BY <1>13, <2>1, <2>2 DEF EndEpoch, LeaveIteration, TypeOK
<1>14. QED
  BY <1>1, <1>2, <1>3, <1>4, <1>5, <1>6, <1>7, <1>8, <1>9, <1>10, <1>11, <1>12, <1>13
     DEF Worker

\* Every step keeps the variables of TopologySubscriber in their types.
THEOREM TypeCorrect == Spec => []TypeOK
<1>1. Init => TypeOK
  <2>1. NoDisplays \in Layouts
    BY SubscriberAssumption DEF SubscriberAssumption
  <2> SUFFICES ASSUME Init PROVE TypeOK
    OBVIOUS
  <2>2. /\ snapshot \in Snapshot /\ polled \in Snapshot /\ adopted \in Snapshot
        /\ external \in Layouts
    BY <2>1, NoSnapshotType DEF Init
  <2>3. /\ up \in BOOLEAN /\ attached \in BOOLEAN /\ authoritative \in BOOLEAN
        /\ listeners \subseteq Nat /\ calls \subseteq Call
    BY DEF Init
  <2>4. /\ faults \in Nat /\ activeEpoch \in Nat /\ lastGeneration \in Nat
        /\ conn \in Nat /\ epoch \in Nat
        /\ pc \in Location
        /\ lease \in {"none", "running", "due"}
        /\ owner \in {"running", "stopping", "stopped"}
    BY DEF Init, Location
  <2>5. QED
    BY <2>2, <2>3, <2>4 DEF TypeOK
<1>2. TypeOK /\ [Next]_vars => TypeOK'
  <2> SUFFICES ASSUME TypeOK, [Next]_vars PROVE TypeOK'
    OBVIOUS
  <2> USE DEF serviceVars, registryVars, applierVars, workerVars
  <2>1. ASSUME NEW layout \in Layouts, Publish(layout) PROVE TypeOK'
    <3>1. snapshot' \in Snapshot
      BY <2>1, PublishType
    <3>2. calls' \subseteq Call
      BY <2>1, <3>1, CallBackType DEF Publish, TypeOK
    <3>3. QED
      BY <2>1, <3>1, <3>2 DEF Publish, TypeOK
  <2>2. ASSUME NEW layout \in Layouts, Start(layout) PROVE TypeOK'
    <3>1. snapshot' \in Snapshot
      BY <2>2, SubscriberAssumption DEF SubscriberAssumption, Start, TypeOK, Snapshot
    <3>2. /\ up' = TRUE
          /\ UNCHANGED <<listeners, calls, faults, registryVars, applierVars,
                         workerVars, owner>>
      BY <2>2 DEF Start
    <3>3. QED
      BY <3>1, <3>2 DEF TypeOK
  <2>3. CASE Crash
    <3>1. /\ up' = FALSE /\ listeners' = {} /\ faults' \in Nat
          /\ UNCHANGED <<snapshot, calls, registryVars, applierVars, workerVars, owner>>
      BY <2>3 DEF Crash, TypeOK
    <3>2. QED
      BY <3>1 DEF TypeOK
  <2>4. CASE OnTopologyChanged
    <3>1. PICK call \in calls : calls' = calls \ {call} /\ Apply(call.epoch, call.snapshot)
      BY <2>4 DEF OnTopologyChanged
    <3>2. call.epoch \in Nat /\ call.snapshot \in Snapshot
      BY DEF TypeOK, Call
    <3>3. /\ activeEpoch' \in Nat /\ lastGeneration' \in Nat /\ attached' \in BOOLEAN
          /\ external' \in Layouts /\ adopted' \in Snapshot
      BY <3>1, <3>2, ApplyType
    <3>4. QED
      BY <2>4, <3>1, <3>3 DEF OnTopologyChanged, TypeOK
  <2>5. CASE LeasePasses
    BY <2>5 DEF LeasePasses, TypeOK
  <2>6. CASE Worker
    BY <2>6, WorkerType
  <2>7. CASE Destroy
    BY <2>7 DEF Destroy, TypeOK
  <2>8. CASE Stop
    BY <2>8 DEF Stop, TypeOK
  <2>9. CASE UNCHANGED vars
    BY <2>9 DEF vars, TypeOK
  <2>10. QED
    BY <2>1, <2>2, <2>3, <2>4, <2>5, <2>6, <2>7, <2>8, <2>9 DEF Next
<1>3. QED
  BY <1>1, <1>2, PTL DEF Spec

----------------------------------------------------------------------------
(* The order of snapshots.                                                 *)

\* The order of publication is transitive.
LEMMA NotAfterIsTransitive ==
    ASSUME NEW s \in Snapshot, NEW t \in Snapshot, NEW u \in Snapshot,
           NotAfter(s, t), NotAfter(t, u)
    PROVE  NotAfter(s, u)
  BY DEF NotAfter, Snapshot

\* The service only moves forward: a generation within an instance, an
\* instance at a restart.
LEMMA ServiceMovesForward ==
    ASSUME TypeOK, NEW layout \in Layouts, Publish(layout) \/ Start(layout)
    PROVE  /\ snapshot' \in Snapshot
           /\ NotAfter(snapshot, snapshot')
           /\ snapshot.instance <= snapshot'.instance
           /\ Publish(layout) => snapshot'.instance = snapshot.instance
<1>1. CASE Publish(layout)
  <2>1. PICK g \in snapshot.generation .. snapshot.generation + 1 :
           snapshot' = [snapshot EXCEPT !.generation = g, !.layout = layout]
    BY <1>1 DEF Publish
  <2>2. g \in Nat /\ snapshot.generation <= g
    BY DEF TypeOK, Snapshot
  <2>3. /\ snapshot'.instance = snapshot.instance
        /\ snapshot'.generation = g
        /\ snapshot.instance \in Nat
    BY <2>1 DEF TypeOK, Snapshot
  <2>4. QED
    BY <1>1, <2>2, <2>3, PublishType DEF NotAfter
<1>2. CASE Start(layout)
  <2>1. /\ snapshot' \in Snapshot
        /\ snapshot'.instance = snapshot.instance + 1
        /\ snapshot.instance \in Nat
    BY <1>2, SubscriberAssumption DEF SubscriberAssumption, Start, TypeOK, Snapshot
  <2>2. ~Publish(layout)
    BY <1>2 DEF Publish, Start
  <2>3. QED
    BY <2>1, <2>2 DEF NotAfter
<1>3. QED
  BY <1>1, <1>2

----------------------------------------------------------------------------
(* The inductive invariant.  The steps that leave the order of snapshots   *)
(* alone share one lemma, those that end an epoch another.                 *)

\* A step that changes neither the service, the applier nor the connection
\* keeps what the invariant says of them.
LEMMA QuietStep ==
    ASSUME TypeOK, SubscriberInv,
           UNCHANGED <<snapshot, calls, activeEpoch, lastGeneration, adopted,
                       conn, epoch, polled>>,
           listeners' \subseteq listeners,
           ~up' => listeners' = {},
           external' \in {external, NoDisplays},
           InEpoch' <=> InEpoch,
           pc' = "apply" => pc = "apply"
    PROVE  NothingFromTheFuture' /\ ActiveEpochIsTheConnection' /\ GenerationsAreOfTheEpoch'
<1>1. NothingFromTheFuture'
  BY DEF SubscriberInv, NothingFromTheFuture, NotAfter
<1>2. ActiveEpochIsTheConnection'
  BY DEF SubscriberInv, ActiveEpochIsTheConnection
<1>3. GenerationsAreOfTheEpoch'
  BY DEF SubscriberInv, GenerationsAreOfTheEpoch, NotAfter
<1>4. QED
  BY <1>1, <1>2, <1>3

\* Once an epoch ends, no callback or listener is of the active epoch.
LEMMA EpochEnds ==
    ASSUME TypeOK, SubscriberInv, InEpoch, EndServiceEpoch, LeaveIteration,
           UNCHANGED <<up, snapshot, listeners, calls, external, adopted, polled>>
    PROVE  NothingFromTheFuture' /\ ActiveEpochIsTheConnection' /\ GenerationsAreOfTheEpoch'
<1>1. /\ activeEpoch' = activeEpoch + 1
      /\ lastGeneration' = 0
      /\ conn' = 0 /\ epoch' = 0 /\ pc' = "top"
  BY DEF SubscriberInv, ActiveEpochIsTheConnection, EndServiceEpoch, LeaveIteration
<1>2. activeEpoch \in Nat /\ snapshot.instance \in Nat
  BY DEF TypeOK, Snapshot
<1>3. \A call \in calls : call.epoch \in Nat /\ call.epoch <= activeEpoch
  BY DEF SubscriberInv, ActiveEpochIsTheConnection, TypeOK, Call
<1>4. \A e \in listeners : e \in Nat /\ e <= activeEpoch
  BY DEF SubscriberInv, ActiveEpochIsTheConnection, TypeOK
<1>5. ~InEpoch'
  BY <1>1 DEF InEpoch
<1>6. NothingFromTheFuture'
  BY <1>1, <1>2 DEF SubscriberInv, NothingFromTheFuture, NotAfter
<1>7. ActiveEpochIsTheConnection'
  <2>1. \A call \in calls : call.epoch <= activeEpoch' /\ call.epoch # activeEpoch'
    BY <1>1, <1>2, <1>3
  <2>2. \A e \in listeners : e <= activeEpoch' /\ e # activeEpoch'
    BY <1>1, <1>2, <1>4
  <2>3. QED
    BY <1>1, <1>5, <2>1, <2>2 DEF SubscriberInv, ActiveEpochIsTheConnection
<1>8. GenerationsAreOfTheEpoch'
  <2>1. \A call \in calls : call.epoch # activeEpoch'
    BY <1>1, <1>2, <1>3
  <2>2. QED
    BY <1>1, <2>1 DEF SubscriberInv, GenerationsAreOfTheEpoch
<1>9. QED
  BY <1>6, <1>7, <1>8

\* A snapshot of the current connection is taken over only if it is newer
\* than what the epoch has applied, and then it is not older than the
\* displays (the two checks of Apply).
LEMMA ApplyMovesForward ==
    ASSUME TypeOK, SubscriberInv, NEW e \in Nat, NEW s \in Snapshot, Apply(e, s),
           e = activeEpoch => /\ InEpoch
                              /\ s.instance = conn
                              /\ lastGeneration = 0 => NotAfter(adopted, s)
    PROVE  \/ UNCHANGED <<external, adopted, lastGeneration>>
           \/ /\ attached
              /\ e = activeEpoch
              /\ external' = s.layout
              /\ adopted' = s
              /\ lastGeneration' = s.generation
              /\ lastGeneration' > 0
              /\ NotAfter(adopted, s)
<1>1. CASE Accepts(e, s) /\ s.generation > lastGeneration
  <2>1. /\ attached /\ e = activeEpoch
        /\ external' = s.layout /\ adopted' = s /\ lastGeneration' = s.generation
    BY <1>1 DEF Apply, Accepts
  <2>2. lastGeneration \in Nat /\ s.generation \in Nat /\ lastGeneration' > 0
    BY <1>1, <2>1 DEF TypeOK, Snapshot
  <2>3. NotAfter(adopted, s)
    <3>1. CASE lastGeneration = 0
      BY <2>1, <3>1
    <3>2. CASE lastGeneration > 0
      <4>1. adopted.instance = conn /\ adopted.generation = lastGeneration
        BY <3>2 DEF SubscriberInv, GenerationsAreOfTheEpoch
      <4>2. QED
        BY <1>1, <2>1, <2>2, <4>1 DEF NotAfter
    <3>3. QED
      BY <2>2, <3>1, <3>2
  <2>4. QED
    BY <2>1, <2>2, <2>3
<1>2. CASE ~(Accepts(e, s) /\ s.generation > lastGeneration)
  BY <1>2 DEF Apply
<1>3. QED
  BY <1>1, <1>2

\* A callback that runs keeps the invariant (onTopologyChanged).
LEMMA CallbackInv ==
    ASSUME TypeOK, SubscriberInv, OnTopologyChanged
    PROVE  NothingFromTheFuture' /\ ActiveEpochIsTheConnection' /\ GenerationsAreOfTheEpoch'
<1>1. PICK call \in calls : calls' = calls \ {call} /\ Apply(call.epoch, call.snapshot)
  BY DEF OnTopologyChanged
<1>2. /\ call.epoch \in Nat /\ call.snapshot \in Snapshot
      /\ adopted \in Snapshot /\ snapshot \in Snapshot
  BY DEF TypeOK, Call
<1>3. call.epoch = activeEpoch => /\ InEpoch
                                  /\ call.snapshot.instance = conn
                                  /\ lastGeneration = 0 => NotAfter(adopted, call.snapshot)
  BY DEF SubscriberInv, ActiveEpochIsTheConnection, GenerationsAreOfTheEpoch
<1>4. UNCHANGED <<up, snapshot, listeners, activeEpoch, pc, conn, epoch, polled>>
  BY <1>1 DEF OnTopologyChanged, workerVars, Apply
<1>5. InEpoch' <=> InEpoch
  BY <1>4 DEF InEpoch
<1>6. NotAfter(call.snapshot, snapshot)
  BY DEF SubscriberInv, NothingFromTheFuture
<1>7. CASE UNCHANGED <<external, adopted, lastGeneration>>
  <2>1. NothingFromTheFuture'
    BY <1>1, <1>4, <1>7 DEF SubscriberInv, NothingFromTheFuture, NotAfter
  <2>2. ActiveEpochIsTheConnection'
    BY <1>1, <1>4, <1>5, <1>7 DEF SubscriberInv, ActiveEpochIsTheConnection
  <2>3. GenerationsAreOfTheEpoch'
    BY <1>1, <1>4, <1>5, <1>7 DEF SubscriberInv, GenerationsAreOfTheEpoch, NotAfter
  <2>4. QED
    BY <2>1, <2>2, <2>3
<1>8. CASE /\ call.epoch = activeEpoch
           /\ external' = call.snapshot.layout
           /\ adopted' = call.snapshot
           /\ lastGeneration' = call.snapshot.generation
           /\ lastGeneration' > 0
  <2>1. NothingFromTheFuture'
    BY <1>1, <1>4, <1>6, <1>8 DEF SubscriberInv, NothingFromTheFuture, NotAfter
  <2>2. ActiveEpochIsTheConnection'
    BY <1>1, <1>4, <1>5 DEF SubscriberInv, ActiveEpochIsTheConnection
  <2>3. lastGeneration' \in Nat /\ lastGeneration' # 0
    BY <1>2, <1>8 DEF Snapshot
  <2>4. GenerationsAreOfTheEpoch'
    BY <1>3, <1>4, <1>5, <1>8, <2>3 DEF GenerationsAreOfTheEpoch
  <2>5. QED
    BY <2>1, <2>2, <2>4
<1>9. QED
  BY <1>1, <1>2, <1>3, <1>7, <1>8, ApplyMovesForward

\* A callback that is added is for a listener and carries what is published.
LEMMA CallBackAdds ==
    ASSUME NEW epochs, NEW s, CallBack(epochs, s), NEW call \in calls'
    PROVE  call \in calls \/ (call.epoch \in epochs /\ call.snapshot = s)
  BY DEF CallBack

\* A publication or a restart keeps it.
LEMMA ServiceInv ==
    ASSUME TypeOK, SubscriberInv, NEW layout \in Layouts, Publish(layout) \/ Start(layout)
    PROVE  NothingFromTheFuture' /\ ActiveEpochIsTheConnection' /\ GenerationsAreOfTheEpoch'
<1>1. /\ UNCHANGED <<listeners, activeEpoch, lastGeneration, external, adopted,
                     pc, conn, epoch, polled>>
      /\ up' = TRUE
  BY DEF Publish, Start, registryVars, applierVars, workerVars, TypeOK
<1>2. /\ snapshot' \in Snapshot /\ snapshot \in Snapshot
      /\ NotAfter(snapshot, snapshot')
      /\ snapshot.instance <= snapshot'.instance
      /\ Publish(layout) => snapshot'.instance = snapshot.instance
  BY ServiceMovesForward DEF TypeOK
<1>3. /\ adopted \in Snapshot /\ polled \in Snapshot /\ conn \in Nat
      /\ snapshot.instance \in Nat /\ snapshot'.instance \in Nat
      /\ \A call \in calls : call.snapshot \in Snapshot
  BY <1>2 DEF TypeOK, Call, Snapshot
<1>4. InEpoch' <=> InEpoch
  BY <1>1 DEF InEpoch
<1>5. \A call \in calls' :
         \/ call \in calls
         \/ call.epoch \in listeners /\ call.snapshot = snapshot' /\ Publish(layout)
  BY CallBackAdds DEF Publish, Start
<1>6. listeners # {} => Publish(layout)
  BY DEF SubscriberInv, ActiveEpochIsTheConnection, Start
<1>7. NotAfter(snapshot', snapshot')
  BY <1>2 DEF NotAfter, Snapshot
<1>8. NotAfter(adopted, snapshot') /\ NotAfter(polled, snapshot')
      /\ \A call \in calls : NotAfter(call.snapshot, snapshot')
  BY <1>2, <1>3, NotAfterIsTransitive DEF SubscriberInv, NothingFromTheFuture
<1>9. NothingFromTheFuture'
  <2>1. conn' <= snapshot'.instance
    BY <1>1, <1>2, <1>3 DEF SubscriberInv, NothingFromTheFuture
  <2>2. QED
    BY <1>1, <1>5, <1>7, <1>8, <2>1 DEF NothingFromTheFuture, NotAfter
<1>10. ActiveEpochIsTheConnection'
  <2>1. \A e \in listeners : /\ e <= activeEpoch
                             /\ e = activeEpoch => InEpoch /\ conn = snapshot'.instance
    BY <1>2, <1>6 DEF SubscriberInv, ActiveEpochIsTheConnection
  <2>2. \A call \in calls' :
           /\ call.epoch <= activeEpoch
           /\ call.epoch = activeEpoch => InEpoch /\ call.snapshot.instance = conn
    BY <1>5, <2>1 DEF SubscriberInv, ActiveEpochIsTheConnection
  <2>3. QED
    BY <1>1, <1>4, <2>1, <2>2 DEF SubscriberInv, ActiveEpochIsTheConnection
<1>11. GenerationsAreOfTheEpoch'
  <2>1. \A call \in calls' : lastGeneration = 0 /\ call.epoch = activeEpoch
                                => NotAfter(adopted, call.snapshot)
    BY <1>5, <1>8 DEF SubscriberInv, GenerationsAreOfTheEpoch
  <2>2. QED
    BY <1>1, <1>4, <2>1 DEF SubscriberInv, GenerationsAreOfTheEpoch, NotAfter
<1>12. QED
  BY <1>9, <1>10, <1>11

\* A new connection begins an epoch that nothing refers to yet.
LEMMA ConnectInv ==
    ASSUME TypeOK, SubscriberInv, Connect
    PROVE  NothingFromTheFuture' /\ ActiveEpochIsTheConnection' /\ GenerationsAreOfTheEpoch'
<1>1. /\ activeEpoch' = activeEpoch + 1
      /\ lastGeneration' = 0
      /\ epoch' = activeEpoch'
      /\ conn' = snapshot.instance
      /\ pc' = "register"
      /\ UNCHANGED <<up, snapshot, listeners, calls, external, adopted, polled>>
  BY DEF Connect, BeginServiceEpoch, serviceVars, registryVars
<1>2. activeEpoch \in Nat /\ snapshot.instance \in Nat
  BY DEF TypeOK, Snapshot
<1>3. \A call \in calls : call.epoch <= activeEpoch' /\ call.epoch # activeEpoch'
  BY <1>1, <1>2 DEF SubscriberInv, ActiveEpochIsTheConnection, TypeOK, Call
<1>4. \A e \in listeners : e <= activeEpoch' /\ e # activeEpoch'
  BY <1>1, <1>2 DEF SubscriberInv, ActiveEpochIsTheConnection, TypeOK
<1>5. NothingFromTheFuture'
  BY <1>1, <1>2 DEF SubscriberInv, NothingFromTheFuture, NotAfter
<1>6. ActiveEpochIsTheConnection'
  BY <1>1, <1>3, <1>4 DEF SubscriberInv, ActiveEpochIsTheConnection
<1>7. GenerationsAreOfTheEpoch'
  BY <1>1, <1>3 DEF SubscriberInv, GenerationsAreOfTheEpoch
<1>8. QED
  BY <1>5, <1>6, <1>7

\* A registered listener is of the active epoch and the connected service.
LEMMA RegisterListenerInv ==
    ASSUME TypeOK, SubscriberInv, RegisterListener
    PROVE  NothingFromTheFuture' /\ ActiveEpochIsTheConnection' /\ GenerationsAreOfTheEpoch'
<1>1. /\ pc = "register" /\ pc' = "registering"
      /\ up /\ conn = snapshot.instance
      /\ listeners' = listeners \cup {epoch}
      /\ UNCHANGED <<up, snapshot, activeEpoch, lastGeneration, external, adopted,
                     conn, epoch, polled>>
  BY DEF RegisterListener, Reachable, registryVars, applierVars
<1>2. InEpoch /\ InEpoch' /\ epoch = activeEpoch /\ epoch <= activeEpoch
  BY <1>1 DEF InEpoch, SubscriberInv, ActiveEpochIsTheConnection, TypeOK
<1>3. \A call \in calls' :
         \/ call \in calls
         \/ call.epoch = epoch /\ call.snapshot = snapshot
  BY CallBackAdds DEF RegisterListener
<1>4. NotAfter(snapshot, snapshot)
  BY DEF TypeOK, NotAfter, Snapshot
<1>5. NothingFromTheFuture'
  BY <1>1, <1>3, <1>4 DEF SubscriberInv, NothingFromTheFuture, NotAfter
<1>6. ActiveEpochIsTheConnection'
  BY <1>1, <1>2, <1>3 DEF SubscriberInv, ActiveEpochIsTheConnection
<1>7. GenerationsAreOfTheEpoch'
  <2>1. \A call \in calls' : lastGeneration = 0 /\ call.epoch = activeEpoch
                                => NotAfter(adopted, call.snapshot)
    BY <1>3 DEF SubscriberInv, GenerationsAreOfTheEpoch, NothingFromTheFuture
  <2>2. QED
    BY <1>1, <1>2, <2>1 DEF SubscriberInv, GenerationsAreOfTheEpoch, NotAfter
<1>8. QED
  BY <1>5, <1>6, <1>7

\* A polled snapshot is of the connected service and not older than the
\* one on display.
LEMMA GetSnapshotInv ==
    ASSUME TypeOK, SubscriberInv, GetSnapshot
    PROVE  NothingFromTheFuture' /\ ActiveEpochIsTheConnection' /\ GenerationsAreOfTheEpoch'
<1>1. /\ pc = "poll" /\ pc' = "apply"
      /\ conn = snapshot.instance
      /\ polled' = snapshot
      /\ UNCHANGED <<up, snapshot, listeners, calls, activeEpoch, lastGeneration,
                     external, adopted, conn, epoch>>
  BY DEF GetSnapshot, Reachable, serviceVars, registryVars, applierVars
<1>2. InEpoch /\ InEpoch'
  BY <1>1 DEF InEpoch
<1>3. NotAfter(snapshot, snapshot)
  BY DEF TypeOK, NotAfter, Snapshot
<1>4. NothingFromTheFuture'
  BY <1>1, <1>3 DEF SubscriberInv, NothingFromTheFuture, NotAfter
<1>5. ActiveEpochIsTheConnection'
  BY <1>1, <1>2 DEF SubscriberInv, ActiveEpochIsTheConnection
<1>6. GenerationsAreOfTheEpoch'
  BY <1>1, <1>2 DEF SubscriberInv, GenerationsAreOfTheEpoch, NothingFromTheFuture, NotAfter
<1>7. QED
  BY <1>4, <1>5, <1>6

\* Applying it keeps the invariant.
LEMMA ApplyPolledInv ==
    ASSUME TypeOK, SubscriberInv, ApplyPolled
    PROVE  NothingFromTheFuture' /\ ActiveEpochIsTheConnection' /\ GenerationsAreOfTheEpoch'
<1>1. /\ pc = "apply" /\ pc' = "expire"
      /\ Apply(epoch, polled)
      /\ polled' = NoSnapshot
      /\ UNCHANGED <<up, snapshot, listeners, calls, conn, epoch>>
  BY DEF ApplyPolled, serviceVars
<1>2. InEpoch /\ InEpoch' /\ epoch = activeEpoch /\ activeEpoch' = activeEpoch
  BY <1>1 DEF InEpoch, SubscriberInv, ActiveEpochIsTheConnection, Apply
<1>3. /\ polled.instance = conn
      /\ lastGeneration = 0 => NotAfter(adopted, polled)
      /\ NotAfter(polled, snapshot)
  BY <1>1 DEF SubscriberInv, ActiveEpochIsTheConnection, GenerationsAreOfTheEpoch,
     NothingFromTheFuture
<1>4. /\ epoch \in Nat /\ polled \in Snapshot /\ snapshot \in Snapshot
      /\ NotAfter(NoSnapshot, snapshot)
  BY DEF TypeOK, NotAfter, NoSnapshot, Snapshot
<1>5. ActiveEpochIsTheConnection'
  BY <1>1, <1>2 DEF SubscriberInv, ActiveEpochIsTheConnection
<1>6. CASE UNCHANGED <<external, adopted, lastGeneration>>
  <2>1. NothingFromTheFuture'
    BY <1>1, <1>4, <1>6 DEF SubscriberInv, NothingFromTheFuture, NotAfter
  <2>2. GenerationsAreOfTheEpoch'
    BY <1>1, <1>2, <1>6 DEF SubscriberInv, GenerationsAreOfTheEpoch, NotAfter
  <2>3. QED
    BY <1>5, <2>1, <2>2
<1>7. CASE /\ external' = polled.layout
           /\ adopted' = polled
           /\ lastGeneration' = polled.generation
           /\ lastGeneration' > 0
  <2>1. NothingFromTheFuture'
    BY <1>1, <1>3, <1>4, <1>7 DEF SubscriberInv, NothingFromTheFuture, NotAfter
  <2>2. lastGeneration' # 0
    BY <1>4, <1>7 DEF Snapshot
  <2>3. GenerationsAreOfTheEpoch'
    BY <1>1, <1>2, <1>3, <1>7, <2>2 DEF GenerationsAreOfTheEpoch
  <2>4. QED
    BY <1>5, <2>1, <2>3
<1>8. QED
  BY <1>1, <1>2, <1>3, <1>4, <1>6, <1>7, ApplyMovesForward

\* The worker's steps that start or end no epoch and apply no snapshot.
LEMMA OtherWorkerInv ==
    ASSUME TypeOK, SubscriberInv,
           \/ Top \/ Return \/ NoService \/ Registered \/ LeavePolling \/ Expire
           \/ UnregisterListener
    PROVE  NothingFromTheFuture' /\ ActiveEpochIsTheConnection' /\ GenerationsAreOfTheEpoch'
<1>1. ~up => listeners = {}
  BY DEF SubscriberInv, ActiveEpochIsTheConnection
<1>2. UNCHANGED <<up, snapshot, calls, activeEpoch, lastGeneration, adopted,
                  conn, epoch, polled>>
  BY DEF Top, Return, NoService, Registered, LeavePolling, Expire, UnregisterListener,
     serviceVars, registryVars, applierVars
<1>3. listeners' \subseteq listeners
  BY DEF Top, Return, NoService, Registered, LeavePolling, Expire, UnregisterListener,
     serviceVars
<1>4. external' \in {external, NoDisplays}
  BY DEF Top, Return, NoService, Registered, LeavePolling, Expire, UnregisterListener,
     ExpireServiceLossLeaseIfNeeded, registryVars
<1>5. (InEpoch' <=> InEpoch) /\ pc' # "apply"
  BY DEF Top, Return, NoService, Registered, LeavePolling, Expire, UnregisterListener,
     InEpoch
<1>6. QED
  BY <1>1, <1>2, <1>3, <1>4, <1>5, QuietStep

\* The two steps that end an epoch keep the invariant.
LEMMA EpochEndsInv ==
    ASSUME TypeOK, SubscriberInv, RegisterFails \/ EndEpoch
    PROVE  NothingFromTheFuture' /\ ActiveEpochIsTheConnection' /\ GenerationsAreOfTheEpoch'
<1>1. /\ EndServiceEpoch /\ LeaveIteration
      /\ UNCHANGED <<up, snapshot, listeners, calls, external, adopted, polled>>
  BY DEF RegisterFails, EndEpoch, serviceVars, registryVars
<1>2. InEpoch
  BY DEF RegisterFails, EndEpoch, InEpoch
<1>3. QED
  BY <1>1, <1>2, EpochEnds

\* Every step of the worker keeps the invariant.
LEMMA WorkerInv ==
    ASSUME TypeOK, SubscriberInv, Worker
    PROVE  NothingFromTheFuture' /\ ActiveEpochIsTheConnection' /\ GenerationsAreOfTheEpoch'
  BY ConnectInv, RegisterListenerInv, GetSnapshotInv, ApplyPolledInv, OtherWorkerInv,
     EpochEndsInv DEF Worker

\* Steps of the service, the lease and the owner.
LEMMA CrashLeaseOwnerInv ==
    ASSUME TypeOK, SubscriberInv, Crash \/ LeasePasses \/ Destroy \/ Stop
    PROVE  NothingFromTheFuture' /\ ActiveEpochIsTheConnection' /\ GenerationsAreOfTheEpoch'
<1>1. ~up => listeners = {}
  BY DEF SubscriberInv, ActiveEpochIsTheConnection
<1>2. /\ UNCHANGED <<snapshot, calls, activeEpoch, lastGeneration, external, adopted,
                     pc, conn, epoch, polled>>
      /\ listeners' \subseteq listeners
      /\ ~up' => listeners' = {}
  BY <1>1 DEF Crash, LeasePasses, Destroy, Stop, serviceVars, registryVars, applierVars,
     workerVars
<1>3. InEpoch' <=> InEpoch
  BY <1>2 DEF InEpoch
<1>4. QED
  BY <1>2, <1>3, QuietStep

\* The destructor joins the worker before it stops the applier, and nothing
\* else detaches the registry.
LEMMA DetachedLastInv ==
    ASSUME TypeOK, DetachedLast, [Next]_vars
    PROVE  DetachedLast'
<1>1. CASE Destroy
  BY <1>1 DEF Destroy, applierVars, workerVars, DetachedLast, stopping
<1>2. CASE Stop
  BY <1>2 DEF Stop, workerVars, DetachedLast, stopping
<1>3. CASE Worker
  <2>1. UNCHANGED <<attached, owner>> /\ pc # "done"
    BY <1>3 DEF Worker, Top, Return, NoService, Connect, RegisterListener, Registered,
       RegisterFails, GetSnapshot, LeavePolling, ApplyPolled, Expire, UnregisterListener,
       EndEpoch, BeginServiceEpoch, EndServiceEpoch, Apply, applierVars
  <2>2. pc' = "done" => stopping
    BY <1>3 DEF Worker, Top, Return, NoService, Connect, RegisterListener, Registered,
       RegisterFails, GetSnapshot, LeavePolling, ApplyPolled, Expire, UnregisterListener,
       EndEpoch, LeaveIteration
  <2>3. QED
    BY <2>1, <2>2 DEF DetachedLast, stopping
<1>4. CASE \/ \E layout \in Layouts : Publish(layout) \/ Start(layout)
           \/ Crash \/ OnTopologyChanged \/ LeasePasses \/ UNCHANGED vars
  <2>1. UNCHANGED <<attached, owner, pc>>
    BY <1>4 DEF Publish, Start, Crash, OnTopologyChanged, Apply, LeasePasses, applierVars,
       workerVars, vars
  <2>2. QED
    BY <2>1 DEF DetachedLast, stopping
<1>5. QED
  BY <1>1, <1>2, <1>3, <1>4 DEF Next

\* The invariant holds initially and every step of the subscription and of
\* the service keeps it.
THEOREM SubscriberInvariant == Spec => []SubscriberInv
<1>1. Init => SubscriberInv
  <2> SUFFICES ASSUME Init PROVE SubscriberInv
    OBVIOUS
  <2>1. NothingFromTheFuture
    BY DEF Init, NothingFromTheFuture, NotAfter, NoSnapshot
  <2>2. ActiveEpochIsTheConnection
    BY DEF Init, ActiveEpochIsTheConnection, InEpoch
  <2>3. GenerationsAreOfTheEpoch
    BY DEF Init, GenerationsAreOfTheEpoch
  <2>4. DetachedLast
    BY DEF Init, DetachedLast
  <2>5. QED
    BY <2>1, <2>2, <2>3, <2>4 DEF SubscriberInv
<1>2. TypeOK /\ SubscriberInv /\ [Next]_vars => SubscriberInv'
  <2> SUFFICES ASSUME TypeOK, SubscriberInv, [Next]_vars PROVE SubscriberInv'
    OBVIOUS
  <2>1. DetachedLast'
    BY DetachedLastInv DEF SubscriberInv
  <2>2. CASE Next
    BY <2>1, <2>2, ServiceInv, CallbackInv, WorkerInv, CrashLeaseOwnerInv
       DEF Next, SubscriberInv
  <2>3. CASE UNCHANGED vars
    <3>1. /\ UNCHANGED <<up, snapshot, listeners, calls, activeEpoch, lastGeneration,
                         external, adopted, pc, conn, epoch, polled>>
          /\ ~up => listeners = {}
          /\ InEpoch' <=> InEpoch
      BY <2>3 DEF vars, serviceVars, registryVars, applierVars, workerVars, InEpoch,
         SubscriberInv, ActiveEpochIsTheConnection
    <3>2. QED
      BY <2>1, <3>1, QuietStep DEF SubscriberInv
  <2>4. QED
    BY <2>2, <2>3
<1>3. QED
  BY <1>1, <1>2, TypeCorrect, PTL DEF Spec

----------------------------------------------------------------------------
(* What follows.                                                           *)

\* A poll that vouched for the displays leaves them on a lease once the
\* worker has no listener (BeginServiceLossLease at the end of an epoch).
THEOREM RetentionHasALease == Spec => []RetainedOnLease
<1>1. Init => RetainedOnLease
  BY DEF Init, RetainedOnLease
<1>2. TypeOK /\ RetainedOnLease /\ [Next]_vars => RetainedOnLease'
  <2> SUFFICES ASSUME TypeOK, RetainedOnLease, [Next]_vars PROVE RetainedOnLease'
    OBVIOUS
  <2> USE DEF RetainedOnLease, Unconnected, stopping
  <2>1. CASE Top
    BY <2>1 DEF Top, ExpireServiceLossLeaseIfNeeded
  <2>2. CASE RegisterFails \/ EndEpoch
    BY <2>2 DEF RegisterFails, EndEpoch, LeaveIteration, BeginServiceLossLease
  <2>3. CASE Return \/ NoService \/ Connect \/ RegisterListener
    BY <2>3 DEF Return, NoService, Connect, RegisterListener
  <2>4. CASE \/ Registered \/ GetSnapshot \/ LeavePolling \/ ApplyPolled \/ Expire
             \/ UnregisterListener
    BY <2>4 DEF Registered, GetSnapshot, LeavePolling, ApplyPolled, Expire,
       UnregisterListener
  <2>5. CASE LeasePasses \/ Destroy \/ Stop
    BY <2>5 DEF LeasePasses, Destroy, Stop, workerVars
  <2>6. CASE \/ \E layout \in Layouts : Publish(layout) \/ Start(layout)
             \/ Crash \/ OnTopologyChanged \/ UNCHANGED vars
    BY <2>6 DEF Publish, Start, Crash, OnTopologyChanged, workerVars, vars
  <2>7. QED
    BY <2>1, <2>2, <2>3, <2>4, <2>5, <2>6 DEF Next, Worker
<1>3. QED
  BY <1>1, <1>2, TypeCorrect, PTL DEF Spec

\* A step changes the displays or the last snapshot taken over only while the
\* subscription is open, and then as TopologyMirror lets it.
LEMMA MirrorStep ==
    ASSUME TypeOK, TypeOK', SubscriberInv, [Next]_vars
    PROVE  [Mirror!Next]_<<external, [instance |-> adopted.instance,
                                      generation |-> adopted.generation],
                           owner = "stopped">>
<1> DEFINE source == [instance |-> adopted.instance, generation |-> adopted.generation]
           closed == owner = "stopped"
           SameMirror == external' = external /\ source' = source /\ (closed' <=> closed)
<1>1. source' \in Mirror!Source /\ external' \in Layouts
  BY DEF TypeOK, Snapshot, Mirror!Source
<1>2. ASSUME NEW e \in Nat, NEW s \in Snapshot, Apply(e, s), UNCHANGED owner,
             e = activeEpoch => /\ InEpoch
                                /\ s.instance = conn
                                /\ lastGeneration = 0 => NotAfter(adopted, s)
      PROVE  Mirror!TakeOver \/ SameMirror
  <2>1. CASE UNCHANGED <<external, adopted, lastGeneration>>
    BY <1>2, <2>1
  <2>2. CASE attached /\ adopted' = s /\ NotAfter(adopted, s)
    <3>1. ~closed /\ ~closed'
      BY <1>2, <2>2 DEF SubscriberInv, DetachedLast
    <3>2. Mirror!NotOlder(source, source')
      BY <2>2 DEF NotAfter, Mirror!NotOlder
    <3>3. QED
      BY <1>1, <3>1, <3>2 DEF Mirror!TakeOver
  <2>3. QED
    BY <1>2, <2>1, <2>2, ApplyMovesForward
<1>3. CASE OnTopologyChanged
  <2>1. PICK call \in calls : Apply(call.epoch, call.snapshot)
    BY <1>3 DEF OnTopologyChanged
  <2>2. /\ call.epoch \in Nat /\ call.snapshot \in Snapshot
        /\ UNCHANGED owner
    BY <1>3 DEF OnTopologyChanged, TypeOK, Call
  <2>3. call.epoch = activeEpoch => /\ InEpoch
                                    /\ call.snapshot.instance = conn
                                    /\ lastGeneration = 0 => NotAfter(adopted, call.snapshot)
    BY DEF SubscriberInv, ActiveEpochIsTheConnection, GenerationsAreOfTheEpoch
  <2>4. QED
    BY <1>2, <2>1, <2>2, <2>3 DEF Mirror!Next
<1>4. CASE ApplyPolled
  <2>1. /\ Apply(epoch, polled) /\ UNCHANGED owner
        /\ epoch \in Nat /\ polled \in Snapshot
        /\ pc = "apply" /\ InEpoch
    BY <1>4 DEF ApplyPolled, TypeOK, InEpoch
  <2>2. polled.instance = conn /\ (lastGeneration = 0 => NotAfter(adopted, polled))
    BY <2>1 DEF SubscriberInv, ActiveEpochIsTheConnection, GenerationsAreOfTheEpoch
  <2>3. QED
    BY <1>2, <2>1, <2>2 DEF Mirror!Next
<1>5. CASE Top \/ Expire
  <2>1. UNCHANGED <<adopted, owner>> /\ external' \in {external, NoDisplays} /\ pc # "done"
    BY <1>5 DEF Top, Expire, ExpireServiceLossLeaseIfNeeded
  <2>2. ~closed /\ ~closed'
    BY <2>1 DEF SubscriberInv, DetachedLast
  <2>3. QED
    BY <2>1, <2>2 DEF Mirror!Next, Mirror!Clear
<1>6. CASE Stop
  <2>1. UNCHANGED <<external, adopted>> /\ ~closed /\ closed'
    BY <1>6 DEF Stop, registryVars
  <2>2. QED
    BY <2>1 DEF Mirror!Next, Mirror!Close
<1>7. CASE \/ Return \/ NoService \/ Connect \/ RegisterListener \/ Registered
           \/ RegisterFails \/ GetSnapshot \/ LeavePolling \/ UnregisterListener
           \/ EndEpoch
  <2>1. UNCHANGED <<external, adopted, owner>>
    BY <1>7 DEF Return, NoService, Connect, RegisterListener, Registered, RegisterFails,
       GetSnapshot, LeavePolling, UnregisterListener, EndEpoch, registryVars
  <2>2. QED
    BY <2>1
<1>8. CASE \/ \E layout \in Layouts : Publish(layout) \/ Start(layout)
           \/ Crash \/ LeasePasses \/ Destroy \/ UNCHANGED vars
  <2>1. UNCHANGED <<external, adopted>> /\ (closed' <=> closed)
    BY <1>8 DEF Publish, Start, Crash, LeasePasses, Destroy, vars, registryVars
  <2>2. QED
    BY <2>1
<1>9. QED
  BY <1>3, <1>4, <1>5, <1>6, <1>7, <1>8 DEF Next, Worker

\* The displays follow the service's history forwards only, and not at all
\* once the destructor has returned.
THEOREM ImplementsMirror == Spec => MirrorSpec
<1>1. Init => Mirror!Init
  BY DEF Init, Mirror!Init, NoSnapshot
<1>2. TypeOK /\ TypeOK' /\ SubscriberInv /\ [Next]_vars
        => [Mirror!Next]_<<external, [instance |-> adopted.instance,
                                      generation |-> adopted.generation],
                           owner = "stopped">>
  BY MirrorStep
<1>3. QED
  BY <1>1, <1>2, TypeCorrect, SubscriberInvariant, PTL
     DEF Spec, MirrorSpec, Mirror!Spec, Mirror!mirrorVars

\* Short of a newer snapshot, displays are removed only by a lease that was
\* due (ExpireServiceLossLeaseIfNeeded is the only caller of
\* ClearExternalDisplays).
THEOREM RemovalAwaitsTheLease == Spec => RetainedUntilDue
<1>1. ASSUME SubscriberInv, [Next]_vars,
             external # NoDisplays, external' = NoDisplays, adopted' = adopted
      PROVE  lease = "due"
  <2>1. external = adopted.layout
    BY <1>1 DEF SubscriberInv, GenerationsAreOfTheEpoch
  <2>2. \A e, s : ~Apply(e, s)
    BY <1>1, <2>1 DEF Apply
  <2>3. ~OnTopologyChanged /\ ~ApplyPolled
    BY <2>2 DEF OnTopologyChanged, ApplyPolled
  <2>4. external' # external
    BY <1>1
  <2>5. Top \/ Expire
    BY <1>1, <2>3, <2>4 DEF Next, Worker, Publish, Start, Crash, LeasePasses, Destroy, Stop,
       Return, NoService, Connect, RegisterListener, Registered, RegisterFails,
       GetSnapshot, LeavePolling, UnregisterListener, EndEpoch, registryVars, vars
  <2>6. QED
    BY <2>4, <2>5 DEF Top, Expire, ExpireServiceLossLeaseIfNeeded
<1>2. SubscriberInv /\ [Next]_vars
        => [external # NoDisplays /\ external' = NoDisplays /\ adopted' = adopted
            => lease = "due"]_vars
  BY <1>1
<1>3. QED
  BY <1>2, SubscriberInvariant, PTL DEF Spec, RetainedUntilDue

----------------------------------------------------------------------------
(* A service that never publishes an invalid snapshot.                     *)

\* Every snapshot such a service hands out is accepted when it is polled, so
\* that no lease runs where ClearExternalDisplays could undo a snapshot.
PolledIsAccepted ==
    /\ up => snapshot.generation > 0
    /\ pc = "apply" => IsValid(polled)
    /\ pc = "expire" => lease = "none"
    /\ lastGeneration > 0 => external = adopted.layout

\* With valid snapshots only, the generation counted as applied is always the
\* one shown; the run of a service with invalid ones shows it is not in general.
THEOREM AppliedStaysShown ==
    ASSUME Layouts = ValidLayouts, FirstGeneration # 0
    PROVE  Spec => []AppliedIsShown
<1>1. Init => PolledIsAccepted
  BY DEF Init, PolledIsAccepted
<1>2. TypeOK /\ SubscriberInv /\ PolledIsAccepted /\ [Next]_vars => PolledIsAccepted'
  <2> SUFFICES ASSUME TypeOK, SubscriberInv, PolledIsAccepted, [Next]_vars
               PROVE  PolledIsAccepted'
    OBVIOUS
  <2> USE DEF PolledIsAccepted
  <2>1. \A e, s : Apply(e, s) => (lastGeneration' > 0 => external' = adopted'.layout)
    BY DEF Apply
  <2>2. ASSUME NEW layout \in Layouts, Publish(layout) \/ Start(layout)
        PROVE  PolledIsAccepted'
    <3>1. snapshot'.generation > 0
      <4>1. CASE Publish(layout)
        <5>1. PICK g \in snapshot.generation .. snapshot.generation + 1 :
                 snapshot' = [snapshot EXCEPT !.generation = g, !.layout = layout]
          BY <4>1 DEF Publish
        <5>2. snapshot.generation \in Nat /\ snapshot.generation > 0
              /\ snapshot'.generation = g
          BY <4>1, <5>1 DEF Publish, TypeOK, Snapshot
        <5>3. QED
          BY <5>2
      <4>2. CASE Start(layout)
        BY <4>2, SubscriberAssumption DEF SubscriberAssumption, Start
      <4>3. QED
        BY <2>2, <4>1, <4>2
    <3>2. UNCHANGED <<pc, polled, lease, lastGeneration, external, adopted>>
      BY <2>2 DEF Publish, Start, registryVars, applierVars, workerVars
    <3>3. QED
      BY <3>1, <3>2 DEF IsValid
  <2>3. CASE OnTopologyChanged
    BY <2>1, <2>3 DEF OnTopologyChanged, workerVars, IsValid
  <2>4. CASE Top
    <3>1. lastGeneration = 0
      BY <2>4 DEF Top, SubscriberInv, GenerationsAreOfTheEpoch, InEpoch, TypeOK
    <3>2. QED
      BY <2>4, <3>1 DEF Top, serviceVars, applierVars
  <2>5. CASE Connect
    BY <2>5 DEF Connect, BeginServiceEpoch, serviceVars
  <2>6. CASE RegisterFails \/ EndEpoch
    <3>1. lastGeneration' = 0 /\ pc' = "top" /\ UNCHANGED <<up, snapshot>>
      BY <2>6 DEF RegisterFails, EndEpoch, EndServiceEpoch, LeaveIteration, InEpoch,
         SubscriberInv, ActiveEpochIsTheConnection, serviceVars
    <3>2. QED
      BY <3>1
  <2>7. CASE GetSnapshot
    <3>1. IsValid(snapshot)
      BY <2>7 DEF GetSnapshot, Reachable, IsValid, TypeOK, Snapshot
    <3>2. QED
      BY <2>7, <3>1 DEF GetSnapshot, serviceVars, registryVars, applierVars, IsValid
  <2>8. CASE ApplyPolled
    <3>1. Accepts(epoch, polled)
      BY <2>8 DEF ApplyPolled, Accepts, SubscriberInv, ActiveEpochIsTheConnection,
         DetachedLast, InEpoch
    <3>2. lease' = "none" /\ pc' = "expire" /\ UNCHANGED <<up, snapshot>>
      BY <2>8, <3>1 DEF ApplyPolled, serviceVars
    <3>3. QED
      BY <2>1, <2>8, <3>2 DEF ApplyPolled
  <2>9. CASE Expire
    BY <2>9 DEF Expire, ExpireServiceLossLeaseIfNeeded, serviceVars, applierVars
  <2>10. CASE \/ Return \/ NoService \/ RegisterListener \/ Registered \/ LeavePolling
              \/ UnregisterListener
    BY <2>10 DEF Return, NoService, RegisterListener, Registered, LeavePolling,
       UnregisterListener, serviceVars, registryVars, applierVars
  <2>11. CASE LeasePasses
    BY <2>11 DEF LeasePasses, serviceVars, registryVars, applierVars, IsValid
  <2>12. CASE Crash \/ Destroy \/ Stop \/ UNCHANGED vars
    BY <2>12 DEF Crash, Destroy, Stop, vars, serviceVars, registryVars, applierVars,
       workerVars, IsValid
  <2>13. QED
    BY <2>2, <2>3, <2>4, <2>5, <2>6, <2>7, <2>8, <2>9, <2>10, <2>11, <2>12 DEF Next, Worker
<1>3. SubscriberInv /\ PolledIsAccepted => AppliedIsShown
  BY DEF SubscriberInv, GenerationsAreOfTheEpoch, PolledIsAccepted, AppliedIsShown
<1>4. QED
  BY <1>1, <1>2, <1>3, TypeCorrect, SubscriberInvariant, PTL DEF Spec
=============================================================================
