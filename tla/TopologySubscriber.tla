------------------------- MODULE TopologySubscriber -------------------------
(***************************************************************************)
(* The topology subscription (src/src/AidlDisplayTopologySubscriber.cpp):  *)
(* a worker thread that finds the topology service, registers a listener   *)
(* and polls it; the listener's callbacks on binder threads; the applier   *)
(* they share; and the owner that destroys the subscription.               *)
(*                                                                         *)
(* The service is another process, modelled from the calls made to it: it  *)
(* may crash and restart, a call to it may fail with or without effect,    *)
(* and its callbacks may arrive late, in any order, or never.  Everything  *)
(* done under the applier's mutex_ is one step, the registry's replacement *)
(* of the external displays included.                                      *)
(*                                                                         *)
(* active_epoch_ is a 64-bit counter that would wrap to 1: with two steps  *)
(* per reconnect_interval it cannot reach the wrap, and it is a number of  *)
(* Nat here.  last_rejected_generation_ only decides what is logged.       *)
(***************************************************************************)
EXTENDS Naturals, FiniteSets

CONSTANTS Layouts,         \* the external displays a snapshot can list
          ValidLayouts,    \* those ConvertSnapshot accepts
          NoDisplays,      \* the empty list
          FirstGeneration, \* the generation a service instance starts with
          MaxGeneration,   \* bound: how far an instance increases it
          MaxFaults,       \* bound: crashes and failed calls in a behaviour
          MaxCalls         \* bound: callbacks that are still to run

ASSUME SubscriberAssumption ==
    /\ ValidLayouts \subseteq Layouts
    /\ NoDisplays \in ValidLayouts
    /\ FirstGeneration \in Nat
    /\ MaxGeneration \in Nat
    /\ MaxFaults \in Nat
    /\ MaxCalls \in Nat

VARIABLES
    \* the service
    up,             \* an instance is running
    snapshot,       \* the topology it publishes
    listeners,      \* the epochs whose listener it holds
    calls,          \* the callbacks it made that have not run
    faults,         \* how much of MaxFaults is used
    \* TopologySnapshotApplier, and the displays it controls
    activeEpoch,    \* active_epoch_
    lastGeneration, \* last_generation_
    attached,       \* registry_ # nullptr, and so ~stopping_
    external,       \* the external displays of the registry
    adopted,        \* the last snapshot that replaced them (history)
    \* the worker thread
    pc,             \* where Run is
    conn,           \* the service instance its binder refers to
    epoch,          \* the local epoch
    polled,         \* the local snapshot
    authoritative,  \* has_authoritative_snapshot_
    lease,          \* service_loss_deadline_: unset, in the future, passed
    \* the owner
    owner           \* running, in the destructor, or done with it

serviceVars == <<up, snapshot, listeners, calls, faults>>
registryVars == <<external, adopted>>
applierVars == <<activeEpoch, lastGeneration, attached>>
workerVars == <<pc, conn, epoch, polled, authoritative, lease>>
vars == <<serviceVars, registryVars, applierVars, workerVars, owner>>

Snapshot == [instance : Nat, generation : Nat, layout : Layouts]
Call == [epoch : Nat, snapshot : Snapshot]

Location == {"top", "connect", "register", "registering", "poll", "apply",
             "expire", "teardown", "end", "done"}

TypeOK ==
    /\ up \in BOOLEAN
    /\ snapshot \in Snapshot
    /\ listeners \subseteq Nat
    /\ calls \subseteq Call
    /\ faults \in Nat
    /\ activeEpoch \in Nat
    /\ lastGeneration \in Nat
    /\ attached \in BOOLEAN
    /\ external \in Layouts
    /\ adopted \in Snapshot
    /\ pc \in Location
    /\ conn \in Nat
    /\ epoch \in Nat
    /\ polled \in Snapshot
    /\ authoritative \in BOOLEAN
    /\ lease \in {"none", "running", "due"}
    /\ owner \in {"running", "stopping", "stopped"}

NoSnapshot == [instance |-> 0, generation |-> 0, layout |-> NoDisplays]

Init ==
    /\ up = FALSE
    /\ snapshot = NoSnapshot
    /\ listeners = {}
    /\ calls = {}
    /\ faults = 0
    /\ activeEpoch = 0
    /\ lastGeneration = 0
    /\ attached = TRUE
    /\ external = NoDisplays
    /\ adopted = NoSnapshot
    /\ pc = "top"
    /\ conn = 0
    /\ epoch = 0
    /\ polled = NoSnapshot
    /\ authoritative = FALSE
    /\ lease = "none"
    /\ owner = "running"

stopping == owner # "running"

----------------------------------------------------------------------------
(* The service.                                                            *)

IsValid(s) == s.generation > 0 /\ s.layout \in ValidLayouts

\* Callbacks are sent to the listeners, or lost.
CallBack(epochs, s) ==
    LET sent == calls \cup {[epoch |-> e, snapshot |-> s] : e \in epochs}
    IN  \/ calls' = sent /\ Cardinality(sent) <= MaxCalls
        \/ UNCHANGED calls

\* A generation whose snapshot was invalid may be published again.
Publish(layout) ==
    /\ up
    /\ \E g \in snapshot.generation .. snapshot.generation + 1 :
          /\ g <= MaxGeneration
          /\ g = snapshot.generation => ~IsValid(snapshot)
          /\ snapshot' = [snapshot EXCEPT !.generation = g, !.layout = layout]
    /\ CallBack(listeners, snapshot')
    /\ UNCHANGED <<up, listeners, faults, registryVars, applierVars, workerVars, owner>>

Start(layout) ==
    /\ ~up
    /\ up' = TRUE
    /\ snapshot' = [instance |-> snapshot.instance + 1,
                    generation |-> FirstGeneration, layout |-> layout]
    /\ UNCHANGED <<listeners, calls, faults, registryVars, applierVars, workerVars, owner>>

Crash ==
    /\ up
    /\ faults < MaxFaults
    /\ up' = FALSE
    /\ listeners' = {}
    /\ faults' = faults + 1
    /\ UNCHANGED <<snapshot, calls, registryVars, applierVars, workerVars, owner>>

Reachable == up /\ conn = snapshot.instance

CallFails ==
    \/ ~Reachable /\ UNCHANGED faults
    \/ Reachable /\ faults < MaxFaults /\ faults' = faults + 1

----------------------------------------------------------------------------
(* TopologySnapshotApplier.                                                *)

Accepts(e, s) == attached /\ e = activeEpoch /\ IsValid(s)

GaplessApply(e, s) ==                   \* mutant: a skipped generation is not applied
    /\ IF Accepts(e, s) /\ s.generation = lastGeneration + 1
       THEN /\ external' = s.layout
            /\ adopted' = s
            /\ lastGeneration' = s.generation
       ELSE UNCHANGED <<external, adopted, lastGeneration>>
    /\ UNCHANGED <<activeEpoch, attached>>

\* Apply answers Accepts(e, s), also when the snapshot is not newer.
Apply(e, s) ==
    /\ IF Accepts(e, s) /\ s.generation > lastGeneration
       THEN /\ external' = s.layout
            /\ adopted' = s
            /\ lastGeneration' = s.generation
       ELSE UNCHANGED <<external, adopted, lastGeneration>>
    /\ UNCHANGED <<activeEpoch, attached>>

BeginServiceEpoch ==
    /\ activeEpoch' = activeEpoch + 1
    /\ lastGeneration' = 0
    /\ epoch' = activeEpoch'
    /\ UNCHANGED attached

LingeringEndServiceEpoch ==             \* mutant: the epoch stays active
    /\ lastGeneration' = IF epoch = activeEpoch THEN 0 ELSE lastGeneration
    /\ UNCHANGED <<activeEpoch, attached>>

NegativeEndServiceEpoch ==              \* mutant: "none" is -1, not 0
    /\ activeEpoch' = activeEpoch + 1
    /\ lastGeneration' = 0 - 1
    /\ UNCHANGED attached

EndServiceEpoch ==
    /\ IF epoch = activeEpoch
       THEN activeEpoch' = activeEpoch + 1 /\ lastGeneration' = 0
       ELSE UNCHANGED <<activeEpoch, lastGeneration>>
    /\ UNCHANGED attached

----------------------------------------------------------------------------
(* A callback runs on a binder thread.                                     *)

OnTopologyChanged ==
    /\ \E call \in calls :
          /\ calls' = calls \ {call}
          /\ Apply(call.epoch, call.snapshot)
    /\ UNCHANGED <<up, snapshot, listeners, faults, workerVars, owner>>

----------------------------------------------------------------------------
(* The lease.                                                              *)

BeginServiceLossLease ==
    lease' = IF authoritative /\ lease = "none" THEN "running" ELSE lease

HastyExpireServiceLossLease ==          \* mutant: the deadline is not awaited
    IF lease # "none"
    THEN /\ lease' = "none"
         /\ authoritative' = FALSE
         /\ external' = IF attached THEN NoDisplays ELSE external
    ELSE UNCHANGED <<lease, authoritative, external>>

ExpireServiceLossLeaseIfNeeded ==
    IF lease = "due"
    THEN /\ lease' = "none"
         /\ authoritative' = FALSE
         /\ external' = IF attached THEN NoDisplays ELSE external
    ELSE UNCHANGED <<lease, authoritative, external>>

LeasePasses ==
    /\ lease = "running"
    /\ lease' = "due"
    /\ UNCHANGED <<serviceVars, registryVars, applierVars, owner,
                   pc, conn, epoch, polled, authoritative>>

----------------------------------------------------------------------------
(* The worker: Run.  A wait ends by its timeout at any time; when stopping *)
(* ends it, the step after it is the one the loop condition takes.         *)

Top ==
    /\ pc = "top"
    /\ ~stopping
    /\ ExpireServiceLossLeaseIfNeeded
    /\ pc' = "connect"
    /\ UNCHANGED <<serviceVars, adopted, applierVars, conn, epoch, polled, owner>>

Return ==
    /\ pc = "top"
    /\ stopping
    /\ pc' = "done"
    /\ UNCHANGED <<serviceVars, registryVars, applierVars, owner,
                   conn, epoch, polled, authoritative, lease>>

\* The connector finds no service.
NoService ==
    /\ pc = "connect"
    /\ ~up
    /\ pc' = "top"
    /\ UNCHANGED <<serviceVars, registryVars, applierVars, owner,
                   conn, epoch, polled, authoritative, lease>>

Connect ==
    /\ pc = "connect"
    /\ up
    /\ conn' = snapshot.instance
    /\ BeginServiceEpoch
    /\ pc' = "register"
    /\ UNCHANGED <<serviceVars, registryVars, owner, polled, authoritative, lease>>

\* The service holds the listener and sends it the current snapshot; it may
\* crash before the worker has its answer.
RegisterListener ==
    /\ pc = "register"
    /\ Reachable
    /\ listeners' = listeners \cup {epoch}
    /\ CallBack({epoch}, snapshot)
    /\ pc' = "registering"
    /\ UNCHANGED <<up, snapshot, faults, registryVars, applierVars, owner,
                   conn, epoch, polled, authoritative, lease>>

Registered ==
    /\ pc = "registering"
    /\ Reachable
    /\ pc' = "poll"
    /\ UNCHANGED <<serviceVars, registryVars, applierVars, owner,
                   conn, epoch, polled, authoritative, lease>>

\* The binder, the listener and the epoch are locals of one iteration.
LeaveIteration ==
    /\ pc' = "top"
    /\ conn' = 0
    /\ epoch' = 0

RegisterFails ==
    /\ pc \in {"register", "registering"}
    /\ CallFails
    /\ EndServiceEpoch
    /\ BeginServiceLossLease
    /\ LeaveIteration
    /\ UNCHANGED <<up, snapshot, listeners, calls, registryVars, owner,
                   polled, authoritative>>

GetSnapshot ==
    /\ pc = "poll"
    /\ ~stopping
    /\ Reachable
    /\ polled' = snapshot
    /\ pc' = "apply"
    /\ UNCHANGED <<serviceVars, registryVars, applierVars, owner,
                   conn, epoch, authoritative, lease>>

DeafLeavePolling ==                     \* mutant: only a failed call ends the loop
    /\ pc = "poll"
    /\ ~stopping
    /\ CallFails
    /\ pc' = "teardown"
    /\ UNCHANGED <<up, snapshot, listeners, calls, registryVars, applierVars, owner,
                   conn, epoch, polled, authoritative, lease>>

LeavePolling ==
    /\ pc = "poll"
    /\ \/ stopping /\ UNCHANGED faults
       \/ ~stopping /\ CallFails
    /\ pc' = "teardown"
    /\ UNCHANGED <<up, snapshot, listeners, calls, registryVars, applierVars, owner,
                   conn, epoch, polled, authoritative, lease>>

UncancelledApplyPolled ==               \* mutant: the lease is not cancelled
    /\ pc = "apply"
    /\ Apply(epoch, polled)
    /\ IF Accepts(epoch, polled)
       THEN authoritative' = TRUE /\ UNCHANGED lease
       ELSE BeginServiceLossLease /\ UNCHANGED authoritative
    /\ polled' = NoSnapshot
    /\ pc' = "expire"
    /\ UNCHANGED <<serviceVars, owner, conn, epoch>>

ApplyPolled ==
    /\ pc = "apply"
    /\ Apply(epoch, polled)
    /\ IF Accepts(epoch, polled)
       THEN authoritative' = TRUE /\ lease' = "none"
       ELSE BeginServiceLossLease /\ UNCHANGED authoritative
    /\ polled' = NoSnapshot
    /\ pc' = "expire"
    /\ UNCHANGED <<serviceVars, owner, conn, epoch>>

Expire ==
    /\ pc = "expire"
    /\ ExpireServiceLossLeaseIfNeeded
    /\ pc' = "poll"
    /\ UNCHANGED <<serviceVars, adopted, applierVars, conn, epoch, polled, owner>>

\* Its outcome is ignored.
UnregisterListener ==
    /\ pc = "teardown"
    /\ \/ Reachable /\ listeners' = listeners \ {epoch} /\ UNCHANGED faults
       \/ CallFails /\ UNCHANGED listeners
    /\ pc' = "end"
    /\ UNCHANGED <<up, snapshot, calls, registryVars, applierVars, owner,
                   conn, epoch, polled, authoritative, lease>>

LeaselessEndEpoch ==                    \* mutant: no lease for the lost service
    /\ pc = "end"
    /\ EndServiceEpoch
    /\ LeaveIteration
    /\ UNCHANGED <<serviceVars, registryVars, owner, polled, authoritative, lease>>

EndEpoch ==
    /\ pc = "end"
    /\ EndServiceEpoch
    /\ IF stopping THEN UNCHANGED lease ELSE BeginServiceLossLease
    /\ LeaveIteration
    /\ UNCHANGED <<serviceVars, registryVars, owner, polled, authoritative>>

Worker ==
    \/ Top \/ Return \/ NoService \/ Connect
    \/ RegisterListener \/ Registered \/ RegisterFails
    \/ GetSnapshot \/ LeavePolling \/ ApplyPolled \/ Expire
    \/ UnregisterListener \/ EndEpoch

----------------------------------------------------------------------------
(* The destructor: stop and join the worker, then stop the applier.        *)

Destroy ==
    /\ owner = "running"
    /\ owner' = "stopping"
    /\ UNCHANGED <<serviceVars, registryVars, applierVars, workerVars>>

Stop ==
    /\ owner = "stopping"
    /\ pc = "done"
    /\ owner' = "stopped"
    /\ attached' = FALSE
    /\ UNCHANGED <<serviceVars, registryVars, activeEpoch, lastGeneration, workerVars>>

----------------------------------------------------------------------------
Next ==
    \/ \E layout \in Layouts : Publish(layout) \/ Start(layout)
    \/ Crash
    \/ OnTopologyChanged
    \/ LeasePasses
    \/ Worker
    \/ Destroy
    \/ Stop

Spec == Init /\ [][Next]_vars

\* The worker and the destroying thread are scheduled, binder calls return,
\* and the clock advances.  Nothing makes a callback arrive, the service
\* publish, or anyone destroy the subscription.
FairSpec == Spec /\ WF_vars(Worker) /\ WF_vars(LeasePasses) /\ WF_vars(Stop)

----------------------------------------------------------------------------
\* Two snapshots in the order the service published them.
NotAfter(s, t) ==
    \/ s.instance < t.instance
    \/ s.instance = t.instance /\ s.generation <= t.generation

InEpoch == pc \in {"register", "registering", "poll", "apply", "expire", "teardown", "end"}

\* Nothing anyone holds is newer than what the service publishes.
NothingFromTheFuture ==
    /\ NotAfter(adopted, snapshot)
    /\ \A call \in calls : NotAfter(call.snapshot, snapshot)
    /\ NotAfter(polled, snapshot)
    /\ conn <= snapshot.instance

\* A callback the applier will not drop comes from the service the worker is
\* connected to; between two connections there is none.
ActiveEpochIsTheConnection ==
    /\ InEpoch => epoch = activeEpoch
    /\ ~up => listeners = {}
    /\ \A e \in listeners :
          /\ e <= activeEpoch
          /\ e = activeEpoch => InEpoch /\ conn = snapshot.instance
    /\ \A call \in calls :
          /\ call.epoch <= activeEpoch
          /\ call.epoch = activeEpoch => InEpoch /\ call.snapshot.instance = conn
    /\ pc = "apply" => polled.instance = conn

\* last_generation_ is that of the last snapshot taken over, unless none was
\* in this epoch; then every snapshot of the epoch may be taken over.
GenerationsAreOfTheEpoch ==
    /\ lastGeneration > 0 => /\ InEpoch
                             /\ adopted.instance = conn
                             /\ adopted.generation = lastGeneration
    /\ lastGeneration = 0 =>
          /\ \A call \in calls :
                call.epoch = activeEpoch => NotAfter(adopted, call.snapshot)
          /\ pc = "apply" => NotAfter(adopted, polled)
    /\ external \in {adopted.layout, NoDisplays}

\* The registry is left by the applier last.
DetachedLast ==
    /\ attached <=> owner # "stopped"
    /\ pc = "done" => stopping
    /\ owner = "stopped" => pc = "done"

\* What every step preserves, and the refinement below follows from.
SubscriberInv ==
    /\ NothingFromTheFuture
    /\ ActiveEpochIsTheConnection
    /\ GenerationsAreOfTheEpoch
    /\ DetachedLast

\* The displays follow the service's history forwards only, across its
\* restarts and across callbacks that arrive late, and are left alone once
\* the registry may be destroyed (Apply's epoch and generation checks, the
\* destructor's join and Stop).
Mirror == INSTANCE TopologyMirror
            WITH view <- external,
                 source <- [instance |-> adopted.instance,
                            generation |-> adopted.generation],
                 closed <- owner = "stopped"
MirrorSpec == Mirror!Spec

\* While the worker has no registered listener, displays that a polled
\* snapshot vouched for are held on a lease only.
Unconnected == pc \in {"top", "connect", "register", "registering"}
RetainedOnLease ==
    Unconnected /\ authoritative /\ ~stopping => lease # "none"

\* "HWC retains the last external snapshot" until the lease has passed:
\* without a newer snapshot the displays are removed only by a lease that
\* was due (ExpireServiceLossLeaseIfNeeded).
RetainedUntilDue ==
    [][/\ external # NoDisplays
       /\ external' = NoDisplays
       /\ adopted' = adopted
       => lease = "due"]_vars

\* A generation the applier counts as applied in this epoch is the one on
\* display: a later poll of it will not apply it again.
AppliedIsShown ==
    lastGeneration > 0 =>
        /\ external = adopted.layout
        /\ adopted.generation = lastGeneration
        /\ adopted.instance = conn

\* A service that is lost for good after a poll succeeded loses its displays.
VouchedDisplaysExpire ==
    authoritative /\ ~up ~> external = NoDisplays \/ up \/ stopping

\* "If the topology service remains unavailable, HWC retains the last
\* external snapshot for [the lease], then removes it": whatever made the
\* displays appear.
LostDisplaysExpire ==
    []<>(up \/ stopping \/ external = NoDisplays)

\* "Each increasing generation replaces the complete external-display
\* snapshot": a service that stays up with a valid snapshot ends up shown.
ValidSnapshotIsShown ==
    <>[](up /\ ~stopping /\ IsValid(snapshot)) => <>[](external = snapshot.layout)

\* The destructor returns, whatever the service does.
ShutdownCompletes == owner = "stopping" ~> owner = "stopped"
=============================================================================
