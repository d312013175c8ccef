-------------------------- MODULE DisplayRegistry --------------------------
(***************************************************************************)
(* DisplayRegistry (src/src/DisplayRegistry.cpp): the displays the HWC     *)
(* calls resolve, kept in step with the topology, and the hotplug events   *)
(* the composer client receives.                                           *)
(*                                                                         *)
(* hotplug_mutex_ is held through a whole operation, the callbacks it      *)
(* makes included; mutex_ only while the map is touched.  Every step below *)
(* is one critical section of mutex_ or one callback, so the states        *)
(* between them are those an HWC call on another thread can observe.       *)
(***************************************************************************)
EXTENDS DisplayTopology

CONSTANTS Snapshots,   \* the sequences ReplaceExternalDisplays is called with
          Offers       \* the configurations ConnectExternal is called with

ASSUME RegistryAssumption ==
    /\ Snapshots \subseteq Seq(DisplayConfig)
    /\ Offers \subseteq DisplayConfig

VARIABLES
    topology,    \* topology_.displays_
    displays,    \* displays_: the configurations of the Display objects
    callback,    \* hotplug_callback_ is set
    announced,   \* what the client behind the callback holds as connected
    erasing,     \* the ids the running operation has yet to erase
    inserting,   \* the displays it has yet to insert
    announcing,  \* the ids SetHotplugCallback has yet to publish
    pending      \* the callback about to be made, if any

vars == <<topology, displays, callback, announced,
          erasing, inserting, announcing, pending>>

Event == [id : Ids, connected : BOOLEAN]

TypeOK ==
    /\ topology \subseteq DisplayConfig
    /\ displays \subseteq DisplayConfig
    /\ callback \in BOOLEAN
    /\ announced \subseteq DisplayConfig
    /\ erasing \subseteq Ids
    /\ inserting \subseteq DisplayConfig
    /\ announcing \subseteq Ids
    /\ pending \subseteq Event
    /\ \A e, f \in pending : e = f

Init ==
    /\ topology = {PrimaryConfig}
    /\ displays = {PrimaryConfig}
    /\ callback = FALSE
    /\ announced = {}
    /\ erasing = {}
    /\ inserting = {}
    /\ announcing = {}
    /\ pending = {}

\* hotplug_mutex_ is held.
Busy == erasing # {} \/ inserting # {} \/ announcing # {} \/ pending # {}

IsLeast(id, ids) == id \in ids /\ \A other \in ids : id <= other

----------------------------------------------------------------------------
(* The operations, up to the first change of displays_.                    *)

StaleSetHotplugCallback(install) ==     \* mutant: ids collected before the lock
    /\ ~Busy
    /\ callback' = install
    /\ announced' = {}
    /\ announcing' = IF install THEN {kPrimaryDisplayId} ELSE {}
    /\ UNCHANGED <<topology, displays, erasing, inserting, pending>>

\* RegisterCallback(HOTPLUG): the client behind a new callback starts with
\* nothing connected and is sent the current displays.
SetHotplugCallback(install) ==
    /\ ~Busy
    /\ callback' = install
    /\ announced' = {}
    /\ announcing' = IF install THEN IdsOf(displays) ELSE {}
    /\ UNCHANGED <<topology, displays, erasing, inserting, pending>>

\* The Display is built from the caller's configuration, copied before the
\* topology overwrites its connection type.
ConnectExternal(config) ==
    /\ ~Busy
    /\ CanConnect(topology, config)
    /\ topology' = topology \cup {AsExternal(config)}
    /\ inserting' = {config}
    /\ UNCHANGED <<displays, callback, announced, erasing, announcing, pending>>

Disconnect(id) ==
    /\ ~Busy
    /\ CanDisconnect(topology, id)
    /\ topology' = Without(topology, id)
    /\ erasing' = {id}
    /\ UNCHANGED <<displays, callback, announced, inserting, announcing, pending>>

ReplaceExternalDisplays(configs) ==
    /\ ~Busy
    /\ CanReplace(configs)
    /\ LET target == TargetDisplays(topology, configs)
       IN  /\ topology' = target
           /\ erasing' = DisconnectedIds(topology, target)
           /\ inserting' = ConnectedDisplays(topology, target)
    /\ UNCHANGED <<displays, callback, announced, announcing, pending>>

----------------------------------------------------------------------------
(* The rest of an operation: erase and insert in the order of the ids,     *)
(* each followed by its callback.                                          *)

RepeatedEvent(id, connected) ==         \* mutant: both events for every change
    IF callback THEN [id : {id}, connected : BOOLEAN] ELSE {}

EventIfInstalled(id, connected) ==
    IF callback THEN {[id |-> id, connected |-> connected]} ELSE {}

EraseNext ==
    /\ pending = {}
    /\ \E id \in Ids :
          /\ IsLeast(id, erasing)
          /\ displays' = Without(displays, id)
          /\ erasing' = erasing \ {id}
          /\ pending' = EventIfInstalled(id, FALSE)
    /\ UNCHANGED <<topology, callback, announced, inserting, announcing>>

UnorderedInsertNext ==                  \* mutant: inserts before the removals
    /\ pending = {}
    /\ \E config \in inserting :
          /\ IsLeast(config.id, IdsOf(inserting))
          /\ displays' = Without(displays, config.id) \cup {config}
          /\ inserting' = inserting \ {config}
          /\ pending' = EventIfInstalled(config.id, TRUE)
    /\ UNCHANGED <<topology, callback, announced, erasing, announcing>>

InsertNext ==
    /\ pending = {}
    /\ erasing = {}
    /\ \E config \in inserting :
          /\ IsLeast(config.id, IdsOf(inserting))
          /\ displays' = Without(displays, config.id) \cup {config}
          /\ inserting' = inserting \ {config}
          /\ pending' = EventIfInstalled(config.id, TRUE)
    /\ UNCHANGED <<topology, callback, announced, erasing, announcing>>

\* The client asks for the attributes of a display it is told about; on a
\* disconnect it forgets the display.
Told(event) ==
    IF event.connected
    THEN announced \cup {d \in displays : d.id = event.id}
    ELSE Without(announced, event.id)

Notify ==
    /\ \E event \in pending : announced' = Told(event)
    /\ pending' = {}
    /\ UNCHANGED <<topology, displays, callback, erasing, inserting, announcing>>

AnnounceNext ==
    /\ \E id \in Ids :
          /\ IsLeast(id, announcing)
          /\ announced' = Told([id |-> id, connected |-> TRUE])
          /\ announcing' = announcing \ {id}
    /\ UNCHANGED <<topology, displays, callback, erasing, inserting, pending>>

Next ==
    \/ \E install \in BOOLEAN : SetHotplugCallback(install)
    \/ \E config \in Offers : ConnectExternal(config)
    \/ \E id \in Ids : Disconnect(id)
    \/ \E configs \in Snapshots : ReplaceExternalDisplays(configs)
    \/ EraseNext
    \/ InsertNext
    \/ Notify
    \/ AnnounceNext

Spec == Init /\ [][Next]_vars

----------------------------------------------------------------------------
\* The entry of the topology for a Display: its connection type is forced.
AsTopologyEntry(config) ==
    IF config.id = kPrimaryDisplayId THEN config ELSE AsExternal(config)

\* When no operation runs, the displays HWC calls resolve are those of the
\* topology, and the client holds exactly those displays connected.
QuiescentAgreement ==
    ~Busy =>
        /\ {AsTopologyEntry(d) : d \in displays} = topology
        /\ announced = IF callback THEN displays ELSE {}

\* A callback tells the client news, and what a lookup made during the
\* callback confirms: the display resolves on connect and is already gone on
\* disconnect (the order of map change and callback in every operation).
EventsAreTruthful ==
    /\ \A e \in pending :
          /\ e.connected <=> e.id \in IdsOf(displays)
          /\ e.connected <=> e.id \notin IdsOf(announced)
    /\ announcing \subseteq IdsOf(displays) \ IdsOf(announced)

\* Removals and configuration changes are announced before any new display
\* becomes visible: a lookup never finds a new display while the client
\* still holds one that is gone, and never a changed one under an id it holds.
RemovalsBeforeArrivals ==
    \/ displays \subseteq announced
    \/ announced \subseteq displays

\* Two displays a lookup can find never share an id or a port, not even
\* halfway through a snapshot that swaps the ports of two displays.
Distinct(configs) ==
    \A c, d \in configs : c # d => c.id # d.id /\ c.port # d.port

DistinctPorts == Distinct(displays) /\ Distinct(topology)

\* The displays a running operation leaves in the map.
Kept == {d \in displays : d.id \notin erasing}

\* The map, once the rest of the running operation is done, is the topology.
OperationCompletesTopology ==
    /\ {AsTopologyEntry(d) : d \in Kept \cup inserting} = topology
    /\ erasing \subseteq IdsOf(displays) \ {kPrimaryDisplayId}
    /\ \A c \in inserting :
          /\ c.id # kPrimaryDisplayId
          /\ \A d \in Kept : c.id # d.id /\ c.port # d.port
    /\ PrimaryConfig \in displays

\* The ids the client has yet to be told about.
Unsettled == announcing \cup IdsOf(pending)

\* The client agrees with the map on every other id, whatever step an
\* operation has reached; only an installed callback is told anything.
ClientAgreesOnTheRest ==
    /\ callback => {a \in announced : a.id \notin Unsettled}
                      = {d \in displays : d.id \notin Unsettled}
    /\ ~callback => announced = {} /\ Unsettled = {}
    /\ announcing # {} => erasing = {} /\ inserting = {} /\ pending = {}

\* What every step of an operation preserves, and the properties above
\* follow from.
RegistryInv ==
    /\ OperationCompletesTopology
    /\ ClientAgreesOnTheRest
    /\ EventsAreTruthful
    /\ Distinct(displays)
    /\ Distinct(inserting)
    /\ Distinct(announced)

\* What the client receives is a hotplug feed.
Feed == INSTANCE HotplugFeed
            WITH feed <- announced, Config <- DisplayConfig,
                 Primary <- kPrimaryDisplayId
FeedSpec == Feed!Spec
=============================================================================
