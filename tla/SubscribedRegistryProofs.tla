---------------------- MODULE SubscribedRegistryProofs ----------------------
(***************************************************************************)
(* Proofs about SubscribedRegistry, for every set of layouts, displays and *)
(* ports: the composition behaves as each of its parts, so that what is    *)
(* proved of the parts holds of it, and a snapshot reaches the client.     *)
(***************************************************************************)
EXTENDS SubscribedRegistry, TopologySubscriberProofs

\* The theorems of the registry, about this one.
Proved == INSTANCE DisplayRegistryProofs
              WITH Snapshots <- {Converted[layout] : layout \in ValidLayouts},
                   Offers <- {}

LEMMA RegistryAssumptions ==
    /\ Proved!TopologyAssumption
    /\ Proved!RegistryAssumption
  BY SubscribedAssumption DEF SubscribedAssumption, Registry!TopologyAssumption,
     Proved!TopologyAssumption, Proved!RegistryAssumption, Registry!DisplayConfig,
     Proved!DisplayConfig, Registry!kPrimaryDisplayId, Proved!kPrimaryDisplayId

----------------------------------------------------------------------------
\* A step of the composition is a step of the subscription, or none of it.
THEOREM ComposedOfTheSubscription == SubscribedSpec => Spec
<1>1. SubscribedInit => Init
  BY DEF SubscribedInit
<1>2. [SubscribedNext]_subscribedVars => [Next]_vars
  BY DEF SubscribedNext, BinderApplies, WorkerApplies, WorkerExpires, WorkerChangesEpoch,
     WorkerElsewhere, StopApplier, Elsewhere, RegistryStep, Next, Worker, subscribedVars
<1>3. QED
  BY <1>1, <1>2, PTL DEF SubscribedSpec, Spec

\* What the applier hands to the registry is a valid layout: a snapshot it
\* accepted, or none when the lease has passed (Apply, ClearExternalDisplays).
LEMMA ValidLayoutsAreApplied ==
    ASSUME TypeOK, TypeOK',
           \/ BinderApplies /\ lastGeneration' > lastGeneration
           \/ WorkerApplies /\ lastGeneration' > lastGeneration
           \/ WorkerExpires /\ lease' # lease /\ attached
    PROVE  external' \in ValidLayouts
<1>1. ASSUME NEW e, NEW s, Apply(e, s), lastGeneration' > lastGeneration
      PROVE  external' \in ValidLayouts
  <2>1. lastGeneration' # lastGeneration
    BY <1>1 DEF TypeOK
  <2>2. QED
    BY <1>1, <2>1 DEF Apply, Accepts, IsValid
<1>2. CASE BinderApplies /\ lastGeneration' > lastGeneration
  BY <1>1, <1>2 DEF BinderApplies, OnTopologyChanged
<1>3. CASE WorkerApplies /\ lastGeneration' > lastGeneration
  BY <1>1, <1>3 DEF WorkerApplies, ApplyPolled
<1>4. CASE WorkerExpires /\ lease' # lease /\ attached
  <2>1. NoDisplays \in ValidLayouts
    BY SubscriberAssumption DEF SubscriberAssumption
  <2>2. QED
    BY <1>4, <2>1 DEF WorkerExpires, Top, Expire, ExpireServiceLossLeaseIfNeeded
<1>5. QED
  BY <1>2, <1>3, <1>4

\* A step of the composition leaves the registry alone, hands it a valid
\* layout, or is a step of its own.
LEMMA RegistrySteps ==
    ASSUME TypeOK, TypeOK', [SubscribedNext]_subscribedVars
    PROVE  \/ /\ UNCHANGED displayVars
              /\ external' = external
              /\ UNCHANGED applying
           \/ \E thread \in {"worker", "binder"} :
                 Replace(thread, external') /\ external' \in ValidLayouts
           \/ RegistryStep
<1>1. CASE BinderApplies
  <2>1. CASE lastGeneration' > lastGeneration
    BY <1>1, <2>1, ValidLayoutsAreApplied DEF BinderApplies, AppliedBy
  <2>2. CASE ~(lastGeneration' > lastGeneration)
    <3>1. external' = external
      BY <1>1, <2>2 DEF BinderApplies, OnTopologyChanged, Apply
    <3>2. QED
      BY <1>1, <2>2, <3>1 DEF BinderApplies, AppliedBy, Untouched
  <2>3. QED
    BY <2>1, <2>2
<1>2. CASE WorkerApplies
  <2>1. CASE lastGeneration' > lastGeneration
    BY <1>2, <2>1, ValidLayoutsAreApplied DEF WorkerApplies, AppliedBy
  <2>2. CASE ~(lastGeneration' > lastGeneration)
    <3>1. external' = external
      BY <1>2, <2>2 DEF WorkerApplies, ApplyPolled, Apply
    <3>2. QED
      BY <1>2, <2>2, <3>1 DEF WorkerApplies, AppliedBy, Untouched
  <2>3. QED
    BY <2>1, <2>2
<1>3. CASE WorkerExpires
  <2>1. CASE lease' # lease /\ attached
    BY <1>3, <2>1, ValidLayoutsAreApplied DEF WorkerExpires
  <2>2. CASE ~(lease' # lease /\ attached)
    <3>1. external' = external
      BY <1>3, <2>2 DEF WorkerExpires, Top, Expire, ExpireServiceLossLeaseIfNeeded
    <3>2. QED
      BY <1>3, <2>2, <3>1 DEF WorkerExpires, Untouched
  <2>3. QED
    BY <2>1, <2>2
<1>4. CASE WorkerChangesEpoch \/ WorkerElsewhere \/ StopApplier \/ Elsewhere
  <2>1. external' = external
    BY <1>4 DEF WorkerChangesEpoch, WorkerElsewhere, StopApplier, Elsewhere,
       Connect, RegisterFails, EndEpoch, Return, NoService, RegisterListener, Registered,
       GetSnapshot, LeavePolling, UnregisterListener, Stop, Publish, Start, Crash,
       LeasePasses, Destroy, registryVars
  <2>2. QED
    BY <1>4, <2>1 DEF WorkerChangesEpoch, WorkerElsewhere, StopApplier, Elsewhere, Untouched
<1>5. CASE UNCHANGED subscribedVars
  BY <1>5 DEF subscribedVars, vars, registryVars, displayVars
<1>6. QED
  BY <1>1, <1>2, <1>3, <1>4, <1>5 DEF SubscribedNext

----------------------------------------------------------------------------
(* The registry.                                                           *)

\* The theorems of the registry speak of the same registry.
LEMMA SameReplace ==
    ASSUME NEW layout \in ValidLayouts,
           Registry!ReplaceExternalDisplays(Converted[layout])
    PROVE  Proved!ReplaceExternalDisplays(Converted[layout])
  BY DEF Registry!ReplaceExternalDisplays, Proved!ReplaceExternalDisplays,
     Registry!Busy, Proved!Busy, Registry!CanReplace, Proved!CanReplace,
     Registry!IsValidExternalConfig, Proved!IsValidExternalConfig,
     Registry!kPrimaryDisplayId, Proved!kPrimaryDisplayId,
     Registry!TargetDisplays, Proved!TargetDisplays,
     Registry!AsExternal, Proved!AsExternal, Registry!IdsOf, Proved!IdsOf,
     Registry!DisconnectedIds, Proved!DisconnectedIds,
     Registry!ConnectedDisplays, Proved!ConnectedDisplays

LEMMA SameSetHotplugCallback ==
    ASSUME NEW install \in BOOLEAN, Registry!SetHotplugCallback(install)
    PROVE  Proved!SetHotplugCallback(install)
  BY DEF Registry!SetHotplugCallback, Proved!SetHotplugCallback, Registry!Busy, Proved!Busy,
     Registry!IdsOf, Proved!IdsOf

LEMMA SameMapSteps ==
    ASSUME Registry!EraseNext \/ Registry!InsertNext
    PROVE  Proved!EraseNext \/ Proved!InsertNext
<1>1. Registry!EraseNext => Proved!EraseNext
  BY DEF Registry!EraseNext, Proved!EraseNext, Registry!IsLeast, Proved!IsLeast,
     Registry!Without, Proved!Without, Registry!EventIfInstalled, Proved!EventIfInstalled
<1>2. Registry!InsertNext => Proved!InsertNext
  BY DEF Registry!InsertNext, Proved!InsertNext, Registry!IsLeast, Proved!IsLeast,
     Registry!IdsOf, Proved!IdsOf,
     Registry!Without, Proved!Without, Registry!EventIfInstalled, Proved!EventIfInstalled
<1>3. QED
  BY <1>1, <1>2

LEMMA SameCallbacks ==
    ASSUME Registry!Notify \/ Registry!AnnounceNext
    PROVE  Proved!Notify \/ Proved!AnnounceNext
<1>1. Registry!Notify => Proved!Notify
  BY DEF Registry!Notify, Proved!Notify, Registry!Told, Proved!Told,
     Registry!Without, Proved!Without
<1>2. Registry!AnnounceNext => Proved!AnnounceNext
  BY DEF Registry!AnnounceNext, Proved!AnnounceNext, Registry!IsLeast, Proved!IsLeast,
     Registry!Told, Proved!Told, Registry!Without, Proved!Without
<1>3. QED
  BY <1>1, <1>2

\* A step of the composition is a step of the registry, or none of it.
LEMMA RegistryNext ==
    ASSUME TypeOK, TypeOK', [SubscribedNext]_subscribedVars
    PROVE  [Proved!Next]_(Proved!vars)
<1>1. CASE UNCHANGED displayVars
  BY <1>1 DEF displayVars, Proved!vars
<1>2. ASSUME NEW thread, Replace(thread, external'), external' \in ValidLayouts
      PROVE  Proved!Next
  <2>1. Proved!ReplaceExternalDisplays(Converted[external'])
    BY <1>2, SameReplace DEF Replace
  <2>2. QED
    BY <1>2, <2>1 DEF Proved!Next
<1>3. CASE RegistryStep
  <2>1. CASE \E install \in BOOLEAN : Registry!SetHotplugCallback(install)
    BY <2>1, SameSetHotplugCallback DEF Proved!Next
  <2>2. CASE ~\E install \in BOOLEAN : Registry!SetHotplugCallback(install)
    BY <1>3, <2>2, SameMapSteps, SameCallbacks DEF RegistryStep, Proved!Next
  <2>3. QED
    BY <2>1, <2>2
<1>4. QED
  BY <1>1, <1>2, <1>3, RegistrySteps

\* The composition uses the registry as the registry's theorems assume.
THEOREM ComposedOfTheRegistry == SubscribedSpec => Proved!Spec
<1>1. SubscribedInit => Proved!Init
  BY DEF SubscribedInit, Registry!Init, Proved!Init, Registry!PrimaryConfig,
     Proved!PrimaryConfig, Registry!kPrimaryDisplayId, Proved!kPrimaryDisplayId
<1>2. TypeOK /\ TypeOK' /\ [SubscribedNext]_subscribedVars => [Proved!Next]_(Proved!vars)
  BY RegistryNext
<1>3. SubscribedSpec => []TypeOK
  BY ComposedOfTheSubscription, TypeCorrect, PTL
<1>4. QED
  BY <1>1, <1>2, <1>3, PTL DEF SubscribedSpec, Proved!Spec

\* Types of both parts, and of who is in the registry.
THEOREM SubscribedTypeCorrect == SubscribedSpec => []SubscribedTypeOK
<1>1. Proved!TypeOK => Registry!TypeOK
  BY DEF Proved!TypeOK, Registry!TypeOK, Proved!DisplayConfig, Registry!DisplayConfig,
     Proved!Event, Registry!Event
<1> DEFINE Applying == applying \in {"nobody", "worker", "binder"}
<1>2. SubscribedInit => Applying
  BY DEF SubscribedInit
<1>3. Applying /\ [SubscribedNext]_subscribedVars => Applying'
  BY DEF SubscribedNext, BinderApplies, WorkerApplies, WorkerExpires, WorkerChangesEpoch,
     WorkerElsewhere, StopApplier, Elsewhere, RegistryStep, AppliedBy, Replace, Untouched,
     subscribedVars
<1>4. SubscribedSpec => []Applying
  <2> HIDE DEF Applying
  <2>1. QED
    BY <1>2, <1>3, PTL DEF SubscribedSpec
<1>5. SubscribedSpec => []Proved!TypeOK
  BY ComposedOfTheRegistry, RegistryAssumptions, Proved!TypeCorrect, PTL
<1>6. SubscribedSpec => []TypeOK
  BY ComposedOfTheSubscription, TypeCorrect, PTL
<1>7. TypeOK /\ Proved!TypeOK /\ Applying => SubscribedTypeOK
  BY <1>1 DEF SubscribedTypeOK
<1>8. QED
  BY <1>4, <1>5, <1>6, <1>7, PTL

----------------------------------------------------------------------------
(* A snapshot reaches the client.                                          *)

\* Whatever is shown, a layout replaces all of it but the primary, by entries
\* that are external (DisplayTopology::ReplaceExternalDisplays).
LEMMA LayoutsReplaceEachOther ==
    ASSUME NEW l \in ValidLayouts, NEW m \in ValidLayouts
    PROVE  /\ Registry!TargetDisplays(Shown(l), Converted[m]) = Shown(m)
           /\ \A c \in Shown(m) : Registry!AsTopologyEntry(c) = c
<1>1. ASSUME NEW k \in ValidLayouts
      PROVE  /\ {c \in Shown(k) : c.id = Registry!kPrimaryDisplayId} = {Registry!PrimaryConfig}
             /\ \A c \in Shown(k) : Registry!AsTopologyEntry(c) = c
  <2> DEFINE converted == Converted[k]
  <2>1. /\ converted \in Seq(Registry!DisplayConfig)
        /\ \A i \in DOMAIN converted : converted[i].id # Registry!kPrimaryDisplayId
    BY SubscribedAssumption DEF SubscribedAssumption, Registry!CanReplace
  <2>2. ASSUME NEW d \in Registry!DisplayConfig, d.id # Registry!kPrimaryDisplayId
        PROVE  /\ Registry!AsExternal(d).id # Registry!kPrimaryDisplayId
               /\ Registry!AsTopologyEntry(Registry!AsExternal(d)) = Registry!AsExternal(d)
    BY <2>2 DEF Registry!AsExternal, Registry!DisplayConfig, Registry!AsTopologyEntry
  <2>3. /\ Registry!PrimaryConfig.id = Registry!kPrimaryDisplayId
        /\ Registry!AsTopologyEntry(Registry!PrimaryConfig) = Registry!PrimaryConfig
    BY DEF Registry!PrimaryConfig, Registry!AsTopologyEntry
  <2>4. Shown(k) = {Registry!PrimaryConfig}
                      \cup {Registry!AsExternal(converted[i]) : i \in DOMAIN converted}
    BY <2>3 DEF Shown, Registry!TargetDisplays
  <2> HIDE DEF converted
  <2>5. \A i \in DOMAIN converted : converted[i] \in Registry!DisplayConfig
    BY <2>1
  <2>6. QED
    BY <2>1, <2>2, <2>3, <2>4, <2>5
<1>2. {c \in {Registry!PrimaryConfig} : c.id = Registry!kPrimaryDisplayId}
         = {Registry!PrimaryConfig}
  BY DEF Registry!PrimaryConfig
<1>3. QED
  BY <1>1, <1>2 DEF Shown, Registry!TargetDisplays

LEMMA SubscribedInvHolds ==
    ASSUME SubscribedTypeOK, SubscribedTypeOK', SubscriberInv, SubscribedInv,
           [SubscribedNext]_subscribedVars
    PROVE  SubscribedInv'
<1>0. TypeOK /\ TypeOK'
  BY DEF SubscribedTypeOK
<1>1. external' \in ValidLayouts /\ topology' = Shown(external')
  <2>1. CASE UNCHANGED displayVars /\ external' = external
    BY <2>1 DEF SubscribedInv, displayVars, Shown
  <2>2. ASSUME NEW thread, Replace(thread, external'), external' \in ValidLayouts
        PROVE  topology' = Shown(external')
    <3>1. topology' = Registry!TargetDisplays(topology, Converted[external'])
      BY <2>2 DEF Replace, Registry!ReplaceExternalDisplays
    <3>2. QED
      BY <2>2, <3>1, LayoutsReplaceEachOther DEF SubscribedInv
  <2>3. CASE RegistryStep
    BY <2>3 DEF RegistryStep, Registry!SetHotplugCallback, Registry!EraseNext,
       Registry!InsertNext, Registry!Notify, Registry!AnnounceNext, SubscribedInv,
       vars, registryVars, Shown
  <2>4. QED
    BY <1>0, <2>1, <2>2, <2>3, RegistrySteps
<1>2. \A d \in displays' \cup inserting' : Registry!AsTopologyEntry(d) = d
  <2>1. CASE UNCHANGED displayVars
    BY <2>1 DEF SubscribedInv, displayVars
  <2>2. ASSUME NEW thread, Replace(thread, external'), external' \in ValidLayouts
        PROVE  displays' = displays /\ inserting' \subseteq Shown(external')
    <3>1. /\ displays' = displays
          /\ inserting' \subseteq Registry!TargetDisplays(topology, Converted[external'])
      BY <2>2 DEF Replace, Registry!ReplaceExternalDisplays, Registry!ConnectedDisplays
    <3>2. QED
      BY <2>2, <3>1, LayoutsReplaceEachOther DEF SubscribedInv
  <2>3. CASE RegistryStep
    <3>1. displays' \cup inserting' \subseteq displays \cup inserting
      BY <2>3 DEF RegistryStep, Registry!SetHotplugCallback, Registry!EraseNext,
         Registry!InsertNext, Registry!Notify, Registry!AnnounceNext, Registry!Without
    <3>2. QED
      BY <3>1 DEF SubscribedInv
  <2>4. QED
    BY <1>0, <2>1, <2>2, <2>3, RegistrySteps, LayoutsReplaceEachOther DEF SubscribedInv
<1>3. (applying # "nobody" => Registry!Busy)'
  <2>1. CASE UNCHANGED <<displayVars, applying>>
    BY <2>1 DEF SubscribedInv, displayVars, Registry!Busy
  <2>2. ASSUME NEW thread, Replace(thread, external')
        PROVE  (applying # "nobody" => Registry!Busy)'
    BY <2>2 DEF Replace
  <2>3. CASE RegistryStep
    BY <2>3 DEF RegistryStep
  <2>4. QED
    BY <1>0, <2>1, <2>2, <2>3, RegistrySteps
<1>4. ASSUME SubscribedNext, pc' # pc \/ applying' # applying
      PROVE  (/\ applying = "binder" => InEpoch
              /\ applying = "worker" => pc # "done")'
  <2>1. CASE BinderApplies
    <3>1. pc' = pc /\ applying = "nobody" /\ applying' \in {"nobody", "binder"}
      BY <2>1 DEF BinderApplies, OnTopologyChanged, workerVars, AppliedBy, Replace, Untouched
    <3>2. lastGeneration' > lastGeneration
      BY <1>4, <2>1, <3>1 DEF BinderApplies, AppliedBy, Untouched
    <3>3. PICK call \in calls : Apply(call.epoch, call.snapshot)
      BY <2>1 DEF BinderApplies, OnTopologyChanged
    <3>4. lastGeneration' # lastGeneration
      BY <1>0, <3>2 DEF TypeOK
    <3>5. call.epoch = activeEpoch
      BY <3>3, <3>4 DEF Apply, Accepts
    <3>6. InEpoch
      BY <3>5 DEF SubscriberInv, ActiveEpochIsTheConnection
    <3>7. QED
      BY <3>1, <3>6 DEF InEpoch
  <2>2. CASE WorkerApplies \/ WorkerExpires \/ WorkerElsewhere
    <3>1. applying # "worker" /\ applying' \in {applying, "nobody", "worker"}
      BY <2>2 DEF WorkerApplies, WorkerExpires, WorkerElsewhere, AppliedBy, Replace, Untouched
    <3>2. pc' # "done" \/ (pc = "top" /\ applying' = applying)
      BY <2>2 DEF WorkerApplies, WorkerExpires, WorkerElsewhere, ApplyPolled, Top, Expire,
         Return, NoService, RegisterListener, Registered, GetSnapshot, LeavePolling,
         UnregisterListener, Untouched
    <3>3. InEpoch => InEpoch'
      BY <2>2 DEF WorkerApplies, WorkerExpires, WorkerElsewhere, ApplyPolled, Top, Expire,
         Return, NoService, RegisterListener, Registered, GetSnapshot, LeavePolling,
         UnregisterListener, InEpoch
    <3>4. QED
      BY <3>1, <3>2, <3>3 DEF SubscribedInv, InEpoch
  <2>3. CASE WorkerChangesEpoch
    BY <2>3 DEF WorkerChangesEpoch, Untouched
  <2>4. CASE StopApplier \/ Elsewhere \/ RegistryStep
    <3>1. pc' = pc /\ applying' \in {applying, "nobody"}
      BY <2>4 DEF StopApplier, Elsewhere, RegistryStep, Untouched, Stop, Publish, Start, Crash,
         LeasePasses, Destroy, workerVars, vars
    <3>2. QED
      BY <3>1 DEF SubscribedInv, InEpoch
  <2>5. QED
    BY <1>4, <2>1, <2>2, <2>3, <2>4 DEF SubscribedNext
<1>5. ASSUME pc' = pc, applying' = applying
      PROVE  (/\ applying = "binder" => InEpoch
              /\ applying = "worker" => pc # "done")'
  BY <1>5 DEF SubscribedInv, InEpoch
<1>6. (/\ applying = "binder" => InEpoch
       /\ applying = "worker" => pc # "done")'
  BY <1>4, <1>5 DEF subscribedVars, vars, workerVars
<1>7. QED
  BY <1>1, <1>2, <1>3, <1>6 DEF SubscribedInv

\* The two parts of the composition agree.
THEOREM SubscribedInvariant == SubscribedSpec => []SubscribedInv
<1>1. SubscribedInit => SubscribedInv
  <2> SUFFICES ASSUME SubscribedInit PROVE SubscribedInv
    OBVIOUS
  <2>1. external = NoDisplays /\ NoDisplays \in ValidLayouts
    BY SubscriberAssumption DEF SubscriberAssumption, SubscribedInit, Init
  <2>2. Registry!TargetDisplays({Registry!PrimaryConfig}, <<>>) = {Registry!PrimaryConfig}
    BY DEF Registry!TargetDisplays, Registry!PrimaryConfig
  <2>3. Shown(NoDisplays) = {Registry!PrimaryConfig}
    BY <2>2, SubscribedAssumption DEF SubscribedAssumption, Shown
  <2>4. Registry!AsTopologyEntry(Registry!PrimaryConfig) = Registry!PrimaryConfig
    BY DEF Registry!AsTopologyEntry, Registry!PrimaryConfig
  <2>5. /\ topology = {Registry!PrimaryConfig} /\ displays = {Registry!PrimaryConfig}
        /\ inserting = {} /\ applying = "nobody"
    BY DEF SubscribedInit, Registry!Init
  <2>6. QED
    BY <2>1, <2>3, <2>4, <2>5 DEF SubscribedInv
<1>2. SubscribedTypeOK /\ SubscribedTypeOK' /\ SubscriberInv /\ SubscribedInv
         /\ [SubscribedNext]_subscribedVars => SubscribedInv'
  BY SubscribedInvHolds
<1>3. SubscribedSpec => []SubscriberInv
  BY ComposedOfTheSubscription, SubscriberInvariant, PTL
<1>4. QED
  BY <1>1, <1>2, <1>3, SubscribedTypeCorrect, PTL DEF SubscribedSpec

\* A snapshot taken over is in the topology at once, and in the displays and
\* at the client when the thread that took it over is done; the join of the
\* worker leaves nobody in the registry.
THEOREM SnapshotsReachTheClient == SubscribedSpec => []SnapshotReachesTheClient
<1>1. SubscribedTypeOK /\ SubscribedInv /\ Proved!QuiescentAgreement
         => SnapshotReachesTheClient
  <2> SUFFICES ASSUME SubscribedTypeOK, SubscribedInv, Proved!QuiescentAgreement
               PROVE  SnapshotReachesTheClient
    OBVIOUS
  <2>1. ~Registry!Busy => /\ {Registry!AsTopologyEntry(d) : d \in displays} = topology
                          /\ announced = IF callback THEN displays ELSE {}
    BY DEF Proved!QuiescentAgreement, Proved!Busy, Registry!Busy,
       Proved!AsTopologyEntry, Registry!AsTopologyEntry, Proved!AsExternal,
       Registry!AsExternal, Proved!kPrimaryDisplayId, Registry!kPrimaryDisplayId
  <2>2. {Registry!AsTopologyEntry(d) : d \in displays} = displays
    BY DEF SubscribedInv
  <2>3. applying # "nobody" => pc # "done"
    BY DEF SubscribedInv, SubscribedTypeOK, InEpoch
  <2>4. QED
    BY <2>1, <2>2, <2>3 DEF SubscribedInv, SnapshotReachesTheClient
<1>2. SubscribedSpec => []Proved!QuiescentAgreement
  BY ComposedOfTheRegistry, RegistryAssumptions, Proved!AgreementWhenQuiescent, PTL
<1>3. QED
  BY <1>1, <1>2, SubscribedTypeCorrect, SubscribedInvariant, PTL

\* What is proved of the parts, of their composition: the displays mirror the
\* service's history, are removed by a lease only, and are held on one.
THEOREM ComposedKeepsTheMirror ==
    SubscribedSpec => MirrorSpec /\ RetainedUntilDue /\ []RetainedOnLease
  BY ComposedOfTheSubscription, ImplementsMirror, RemovalAwaitsTheLease, RetentionHasALease,
     PTL

\* The client of the composition sees a hotplug feed.
THEOREM ComposedKeepsTheFeed == SubscribedSpec => FeedSpec
<1>1. Proved!Feed!Init => Registry!Feed!Init
  BY DEF Proved!Feed!Init, Registry!Feed!Init
<1>2. [Proved!Feed!Next]_announced => [Registry!Feed!Next]_announced
  BY DEF Proved!Feed!Next, Registry!Feed!Next, Proved!Feed!Restart, Registry!Feed!Restart,
     Proved!Feed!Attach, Registry!Feed!Attach, Proved!Feed!Detach, Registry!Feed!Detach,
     Proved!DisplayConfig, Registry!DisplayConfig, Proved!kPrimaryDisplayId,
     Registry!kPrimaryDisplayId
<1>3. Proved!FeedSpec => FeedSpec
  BY <1>1, <1>2, PTL DEF FeedSpec, Proved!FeedSpec, Registry!FeedSpec, Proved!Feed!Spec,
     Registry!Feed!Spec
<1>4. QED
  BY <1>3, ComposedOfTheRegistry, RegistryAssumptions, Proved!ImplementsFeed, PTL
=============================================================================
