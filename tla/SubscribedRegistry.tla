------------------------- MODULE SubscribedRegistry -------------------------
(***************************************************************************)
(* The topology subscription and the registry it drives, together          *)
(* (src/src/AidlDisplayTopologySubscriber.cpp, DisplayRegistry.cpp): what  *)
(* TopologySubscriber takes as one step, the replacement of the external   *)
(* displays, is here the operation of DisplayRegistry with its callbacks,  *)
(* made while the caller holds the applier's mutex_.                       *)
(*                                                                         *)
(* Two locks nest: the applier's mutex_, then hotplug_mutex_.  A step of   *)
(* TopologySubscriber that needs the first waits until no thread is in     *)
(* ReplaceExternalDisplays; the worker itself cannot go on before its call *)
(* returns; the service, the clock, and the rest of either go on.  The     *)
(* fields Apply and its caller set when the call returns are set when it   *)
(* starts: nobody can read them in between.                                *)
(*                                                                         *)
(* The subscription is the only caller of the operations that change the   *)
(* topology, and the client the only caller of SetHotplugCallback.         *)
(***************************************************************************)
EXTENDS TopologySubscriber, Sequences

CONSTANTS Ids, Ports, Specs, ValidSpecs, PrimarySpec,  \* those of DisplayTopology
          Converted      \* the configurations of each valid layout

VARIABLES topology, displays, callback, announced,     \* those of DisplayRegistry
          erasing, inserting, announcing, pending,
          applying       \* the thread in ReplaceExternalDisplays

Registry == INSTANCE DisplayRegistry
                WITH Snapshots <- {Converted[layout] : layout \in ValidLayouts},
                     Offers <- {}

\* The configurations are distinct and in bounds, which is what ConvertSnapshot
\* checks of a layout, and an empty layout has none.
ASSUME SubscribedAssumption ==
    /\ Registry!TopologyAssumption
    /\ \A layout \in ValidLayouts :
          /\ Converted[layout] \in Seq(Registry!DisplayConfig)
          /\ Registry!CanReplace(Converted[layout])
    /\ Converted[NoDisplays] = <<>>

displayVars == <<topology, displays, callback, announced,
                 erasing, inserting, announcing, pending>>
subscribedVars == <<vars, displayVars, applying>>

SubscribedTypeOK ==
    /\ TypeOK
    /\ Registry!TypeOK
    /\ applying \in {"nobody", "worker", "binder"}

SubscribedInit ==
    /\ Init
    /\ Registry!Init
    /\ applying = "nobody"

----------------------------------------------------------------------------
(* ReplaceExternalDisplays, called with the applier's mutex_ held.  A call *)
(* that changes nothing returns at once.                                   *)

Replace(thread, layout) ==
    /\ applying = "nobody"
    /\ Registry!ReplaceExternalDisplays(Converted[layout])
    /\ applying' = IF Registry!Busy' THEN thread ELSE "nobody"

Untouched == UNCHANGED <<displayVars, applying>>

\* A newer snapshot of the epoch is handed to the registry.
AppliedBy(thread) ==
    IF lastGeneration' > lastGeneration THEN Replace(thread, external') ELSE Untouched

BinderApplies ==
    /\ applying = "nobody"
    /\ OnTopologyChanged
    /\ AppliedBy("binder")

WorkerApplies ==
    /\ applying = "nobody"
    /\ ApplyPolled
    /\ AppliedBy("worker")

\* ClearExternalDisplays, when the lease has passed.
WorkerExpires ==
    /\ applying # "worker"
    /\ Top \/ Expire
    /\ IF lease' # lease /\ attached THEN Replace("worker", external') ELSE Untouched

HastyWorkerChangesEpoch ==              \* mutant: mutex_ is not locked
    /\ applying # "worker"
    /\ Connect \/ RegisterFails \/ EndEpoch
    /\ Untouched

\* BeginServiceEpoch and EndServiceEpoch.
WorkerChangesEpoch ==
    /\ applying = "nobody"
    /\ Connect \/ RegisterFails \/ EndEpoch
    /\ Untouched

\* Steps that lock nothing of the applier or the registry.
WorkerElsewhere ==
    /\ applying # "worker"
    /\ \/ Return \/ NoService \/ RegisterListener \/ Registered \/ GetSnapshot
       \/ LeavePolling \/ UnregisterListener
    /\ Untouched

StopApplier ==
    /\ applying = "nobody"
    /\ Stop
    /\ Untouched

Elsewhere ==
    /\ \/ \E layout \in Layouts : Publish(layout) \/ Start(layout)
       \/ Crash \/ LeasePasses \/ Destroy
    /\ Untouched

\* The registry: the rest of the running operation, or the client's callback.
RegistryStep ==
    /\ \/ \E install \in BOOLEAN : Registry!SetHotplugCallback(install)
       \/ Registry!EraseNext \/ Registry!InsertNext \/ Registry!Notify
       \/ Registry!AnnounceNext
    /\ applying' = IF Registry!Busy' THEN applying ELSE "nobody"
    /\ UNCHANGED vars

SubscribedNext ==
    \/ BinderApplies \/ WorkerApplies \/ WorkerExpires \/ WorkerChangesEpoch
    \/ WorkerElsewhere \/ StopApplier \/ Elsewhere \/ RegistryStep

SubscribedSpec == SubscribedInit /\ [][SubscribedNext]_subscribedVars

----------------------------------------------------------------------------
\* The topology whose external displays are those of a layout.
Shown(layout) ==
    Registry!TargetDisplays({Registry!PrimaryConfig}, Converted[layout])

\* The two parts agree, and every step preserves it.
SubscribedInv ==
    /\ external \in ValidLayouts
    /\ topology = Shown(external)
    /\ \A d \in displays \cup inserting : Registry!AsTopologyEntry(d) = d
    /\ applying # "nobody" => Registry!Busy
    /\ applying = "binder" => InEpoch
    /\ applying = "worker" => pc # "done"

\* What the subscription counts as shown is the registry's topology; once no
\* thread is in the registry, it is what HWC calls resolve and what the client
\* holds connected; and the destructor's join of the worker leaves no thread in
\* the registry, a late callback's neither, so that the registry may be
\* destroyed (mutex_ held across ReplaceExternalDisplays, EndServiceEpoch).
SnapshotReachesTheClient ==
    /\ topology = Shown(external)
    /\ ~Registry!Busy =>
          /\ displays = Shown(external)
          /\ announced = IF callback THEN Shown(external) ELSE {}
    /\ applying # "nobody" => Registry!Busy /\ pc # "done"

\* The client of the composed system sees a hotplug feed.
FeedSpec == Registry!FeedSpec
=============================================================================
