----------------------- MODULE DisplayRegistryProofs -----------------------
(***************************************************************************)
(* Proofs about DisplayRegistry, for every set of displays, snapshots and  *)
(* offers: TypeOK, the inductive invariant RegistryInv, the safety         *)
(* properties it implies, and that the client receives a HotplugFeed.      *)
(***************************************************************************)
EXTENDS DisplayRegistry, TLAPS

----------------------------------------------------------------------------
(* What the topology operators return.                                     *)

\* Forcing the connection type changes neither id nor port (DisplayTopology).
LEMMA ExternalFields ==
    ASSUME NEW c \in DisplayConfig
    PROVE  /\ AsExternal(c) \in DisplayConfig
           /\ AsExternal(c).id = c.id
           /\ AsExternal(c).port = c.port
           /\ AsExternal(AsExternal(c)) = AsExternal(c)
  BY DEF AsExternal, DisplayConfig

\* The entry of the topology for a display has the id and port of the display.
LEMMA EntryFields ==
    ASSUME NEW c \in DisplayConfig
    PROVE  /\ AsTopologyEntry(c) \in DisplayConfig
           /\ AsTopologyEntry(c).id = c.id
           /\ AsTopologyEntry(c).port = c.port
  BY ExternalFields DEF AsTopologyEntry

\* The primary configuration is a configuration, with id 1 and port 0.
LEMMA PrimaryFields ==
    /\ PrimaryConfig \in DisplayConfig
    /\ PrimaryConfig.id = kPrimaryDisplayId
    /\ PrimaryConfig.port = 0
    /\ AsTopologyEntry(PrimaryConfig) = PrimaryConfig
<1>1. kPrimaryDisplayId \in Ids /\ 0 \in Ports /\ PrimarySpec \in Specs
  BY TopologyAssumption DEF TopologyAssumption
<1>2. QED
  BY <1>1 DEF PrimaryConfig, DisplayConfig, AsTopologyEntry

\* A snapshot gives a topology of configurations.
LEMMA TargetType ==
    ASSUME NEW t \in SUBSET DisplayConfig, NEW configs \in Snapshots
    PROVE  TargetDisplays(t, configs) \subseteq DisplayConfig
<1>1. \A i \in DOMAIN configs : configs[i] \in DisplayConfig
  BY RegistryAssumption DEF RegistryAssumption
<1>2. QED
  BY <1>1, ExternalFields DEF TargetDisplays

\* An accepted snapshot gives a topology with the primary, whose other
\* entries are external and share no id and no port (ReplaceExternalDisplays).
LEMMA TargetIsTopology ==
    ASSUME NEW t \in SUBSET DisplayConfig, NEW configs \in Snapshots,
           CanReplace(configs), PrimaryConfig \in t,
           \A c \in t : c.id = kPrimaryDisplayId => c = PrimaryConfig
    PROVE  LET target == TargetDisplays(t, configs)
           IN  /\ PrimaryConfig \in target
               /\ \A c \in target :
                     \/ c = PrimaryConfig
                     \/ c.id # kPrimaryDisplayId /\ AsTopologyEntry(c) = c
               /\ Distinct(target)
<1> DEFINE shown == {AsExternal(configs[i]) : i \in DOMAIN configs}
<1>1. TargetDisplays(t, configs) = {PrimaryConfig} \cup shown
  BY PrimaryFields DEF TargetDisplays
<1>2. \A i \in DOMAIN configs : configs[i] \in DisplayConfig
  BY RegistryAssumption DEF RegistryAssumption
<1>3. \A c \in shown : /\ c.id # kPrimaryDisplayId
                       /\ c.port # 0
                       /\ AsTopologyEntry(c) = c
  <2> SUFFICES ASSUME NEW i \in DOMAIN configs
               PROVE  LET c == AsExternal(configs[i])
                      IN  /\ c.id # kPrimaryDisplayId
                          /\ c.port # 0
                          /\ AsTopologyEntry(c) = c
    OBVIOUS
  <2>1. configs[i].id # kPrimaryDisplayId /\ configs[i].port # 0
    BY DEF CanReplace, IsValidExternalConfig
  <2>2. QED
    BY <1>2, <2>1, ExternalFields DEF AsTopologyEntry
<1>4. \A c, d \in shown : c # d => c.id # d.id /\ c.port # d.port
  <2> SUFFICES ASSUME NEW i \in DOMAIN configs, NEW j \in DOMAIN configs,
                      AsExternal(configs[i]) # AsExternal(configs[j])
               PROVE  /\ AsExternal(configs[i]).id # AsExternal(configs[j]).id
                      /\ AsExternal(configs[i]).port # AsExternal(configs[j]).port
    OBVIOUS
  <2>1. i # j
    OBVIOUS
  <2>2. configs[i].id # configs[j].id /\ configs[i].port # configs[j].port
    BY <2>1 DEF CanReplace
  <2>3. QED
    BY <1>2, <2>2, ExternalFields
<1>5. QED
  BY <1>1, <1>3, <1>4, PrimaryFields DEF Distinct

\* An event about a display is an event; there is at most one.
LEMMA EventType ==
    ASSUME NEW id \in Ids, NEW connected \in BOOLEAN
    PROVE  /\ EventIfInstalled(id, connected) \subseteq Event
           /\ \A e, f \in EventIfInstalled(id, connected) : e = f
<1>1. [id |-> id, connected |-> connected] \in Event
  BY DEF Event
<1>2. EventIfInstalled(id, connected) \subseteq Event
  BY <1>1 DEF EventIfInstalled
<1>3. \A e, f \in EventIfInstalled(id, connected) : e = f
  BY DEF EventIfInstalled
<1>4. QED
  BY <1>2, <1>3

----------------------------------------------------------------------------
(* Type correctness.                                                       *)

\* Every step keeps the variables of DisplayRegistry in their types.
THEOREM TypeCorrect == Spec => []TypeOK
<1>1. Init => TypeOK
  BY PrimaryFields DEF Init, TypeOK
<1>2. TypeOK /\ [Next]_vars => TypeOK'
  <2> SUFFICES ASSUME TypeOK, [Next]_vars PROVE TypeOK'
    OBVIOUS
  <2> USE DEF TypeOK
  <2>1. ASSUME NEW install \in BOOLEAN, SetHotplugCallback(install) PROVE TypeOK'
    BY <2>1 DEF SetHotplugCallback, IdsOf, DisplayConfig
  <2>2. ASSUME NEW config \in Offers, ConnectExternal(config) PROVE TypeOK'
    <3>1. config \in DisplayConfig /\ AsExternal(config) \in DisplayConfig
      BY RegistryAssumption, ExternalFields DEF RegistryAssumption
    <3>2. QED
      BY <2>2, <3>1 DEF ConnectExternal
  <2>3. ASSUME NEW id \in Ids, Disconnect(id) PROVE TypeOK'
    BY <2>3 DEF Disconnect, Without
  <2>4. ASSUME NEW configs \in Snapshots, ReplaceExternalDisplays(configs) PROVE TypeOK'
    <3>1. TargetDisplays(topology, configs) \subseteq DisplayConfig
      BY TargetType
    <3>2. DisconnectedIds(topology, TargetDisplays(topology, configs)) \subseteq Ids
      BY DEF DisconnectedIds, IdsOf, DisplayConfig
    <3>3. QED
      BY <2>4, <3>1, <3>2 DEF ReplaceExternalDisplays, ConnectedDisplays
  <2>5. CASE EraseNext
    <3>1. PICK id \in Ids : /\ displays' = Without(displays, id)
                            /\ erasing' = erasing \ {id}
                            /\ pending' = EventIfInstalled(id, FALSE)
      BY <2>5 DEF EraseNext
    <3>2. QED
      BY <2>5, <3>1, EventType DEF EraseNext, Without
  <2>6. CASE InsertNext
    <3>1. PICK config \in inserting :
             /\ displays' = Without(displays, config.id) \cup {config}
             /\ inserting' = inserting \ {config}
             /\ pending' = EventIfInstalled(config.id, TRUE)
      BY <2>6 DEF InsertNext
    <3>2. config.id \in Ids
      BY DEF DisplayConfig
    <3>3. /\ pending' \subseteq Event
          /\ \A e, f \in pending' : e = f
      BY <3>1, <3>2, EventType
    <3>4. QED
      BY <2>6, <3>1, <3>3 DEF InsertNext, Without
  <2>7. CASE Notify
    BY <2>7 DEF Notify, Told, Without
  <2>8. CASE AnnounceNext
    BY <2>8 DEF AnnounceNext, Told, Without
  <2>9. CASE UNCHANGED vars
    BY <2>9 DEF vars
  <2>10. QED
    BY <2>1, <2>2, <2>3, <2>4, <2>5, <2>6, <2>7, <2>8, <2>9 DEF Next
<1>3. QED
  BY <1>1, <1>2, PTL DEF Spec

----------------------------------------------------------------------------
(* The inductive invariant, one lemma for each operation and step.         *)

\* The topology inherits distinct ids and ports from the map that it is the
\* completion of, and its entry under the primary id is the primary.
LEMMA TopologyIsDistinct ==
    ASSUME TypeOK, RegistryInv
    PROVE  /\ Distinct(topology)
           /\ PrimaryConfig \in topology
           /\ \A c \in topology : c.id = kPrimaryDisplayId => c = PrimaryConfig
<1>1. \A c \in Kept \cup inserting : c \in DisplayConfig
  BY DEF TypeOK, Kept
<1>2. \A c, d \in Kept \cup inserting : c # d => c.id # d.id /\ c.port # d.port
  BY DEF RegistryInv, OperationCompletesTopology, Distinct, Kept
<1>3. topology = {AsTopologyEntry(c) : c \in Kept \cup inserting}
  BY DEF RegistryInv, OperationCompletesTopology
<1>4. Distinct(topology)
  <2> SUFFICES ASSUME NEW c \in Kept \cup inserting, NEW d \in Kept \cup inserting,
                      AsTopologyEntry(c) # AsTopologyEntry(d)
               PROVE  /\ AsTopologyEntry(c).id # AsTopologyEntry(d).id
                      /\ AsTopologyEntry(c).port # AsTopologyEntry(d).port
    BY <1>3 DEF Distinct
  <2>1. c.id # d.id /\ c.port # d.port
    BY <1>2
  <2>2. QED
    BY <1>1, <2>1, EntryFields
<1>5. PrimaryConfig \in topology
  <2>1. PrimaryConfig \in Kept
    BY PrimaryFields DEF RegistryInv, OperationCompletesTopology, Kept
  <2>2. QED
    BY <1>3, <2>1, PrimaryFields
<1>6. QED
  BY <1>4, <1>5, PrimaryFields DEF Distinct

\* Installing or removing a callback keeps the invariant: the new client
\* agrees with the map on every id it is not yet to be told about.
LEMMA SetHotplugCallbackInv ==
    ASSUME TypeOK, RegistryInv, NEW install \in BOOLEAN, SetHotplugCallback(install)
    PROVE  RegistryInv'
<1>1. /\ erasing = {} /\ inserting = {} /\ announcing = {} /\ pending = {}
      /\ erasing' = {} /\ inserting' = {} /\ pending' = {}
      /\ announced' = {}
      /\ UNCHANGED <<topology, displays>>
      /\ callback' = install
      /\ announcing' = IF install THEN IdsOf(displays) ELSE {}
  BY DEF SetHotplugCallback, Busy
<1>2. OperationCompletesTopology'
  BY <1>1 DEF RegistryInv, OperationCompletesTopology, Kept, IdsOf
<1>3. ClientAgreesOnTheRest'
  BY <1>1 DEF ClientAgreesOnTheRest, Unsettled, IdsOf
<1>4. EventsAreTruthful'
  BY <1>1 DEF EventsAreTruthful, IdsOf
<1>5. QED
  BY <1>1, <1>2, <1>3, <1>4 DEF RegistryInv, Distinct

\* A connected display is new to the map and the client: CanConnect refuses
\* an id or a port that is taken.
LEMMA ConnectExternalInv ==
    ASSUME TypeOK, RegistryInv, NEW config \in Offers, ConnectExternal(config)
    PROVE  RegistryInv'
<1>1. /\ erasing = {} /\ inserting = {} /\ announcing = {} /\ pending = {}
      /\ inserting' = {config}
      /\ topology' = topology \cup {AsExternal(config)}
      /\ CanConnect(topology, config)
      /\ UNCHANGED <<displays, callback, announced, erasing, announcing, pending>>
  BY DEF ConnectExternal, Busy
<1>2. config \in DisplayConfig
  BY RegistryAssumption DEF RegistryAssumption
<1>3. Kept = displays /\ Kept' = displays
  BY <1>1 DEF Kept
<1>4. \A d \in displays : config.id # d.id /\ config.port # d.port
  <2> SUFFICES ASSUME NEW d \in displays
               PROVE  config.id # d.id /\ config.port # d.port
    OBVIOUS
  <2>1. d \in DisplayConfig /\ AsTopologyEntry(d) \in topology
    BY <1>1, <1>3 DEF RegistryInv, OperationCompletesTopology, TypeOK
  <2>2. QED
    BY <1>1, <2>1, EntryFields DEF CanConnect
<1>5. AsTopologyEntry(config) = AsExternal(config)
  BY <1>1 DEF AsTopologyEntry, CanConnect
<1>6. {AsTopologyEntry(d) : d \in displays \cup {config}} = topology'
  BY <1>1, <1>3, <1>5 DEF RegistryInv, OperationCompletesTopology
<1>7. OperationCompletesTopology'
  BY <1>1, <1>3, <1>4, <1>6 DEF RegistryInv, OperationCompletesTopology, CanConnect, IdsOf
<1>8. ClientAgreesOnTheRest' /\ EventsAreTruthful'
  BY <1>1 DEF RegistryInv, ClientAgreesOnTheRest, EventsAreTruthful, Unsettled, IdsOf
<1>9. QED
  BY <1>1, <1>7, <1>8 DEF RegistryInv, Distinct

\* Disconnect leaves in the topology the displays it does not erase.
LEMMA DisconnectInv ==
    ASSUME TypeOK, RegistryInv, NEW id \in Ids, Disconnect(id)
    PROVE  RegistryInv'
<1>1. /\ erasing = {} /\ inserting = {} /\ announcing = {} /\ pending = {}
      /\ erasing' = {id}
      /\ topology' = Without(topology, id)
      /\ CanDisconnect(topology, id)
      /\ UNCHANGED <<displays, callback, announced, inserting, announcing, pending>>
  BY DEF Disconnect, Busy
<1>2. Kept = displays /\ Kept' = Without(displays, id)
  BY <1>1 DEF Kept, Without
<1>3. \A d \in displays : d \in DisplayConfig /\ AsTopologyEntry(d).id = d.id
  BY EntryFields DEF TypeOK
<1>4. topology = {AsTopologyEntry(d) : d \in displays}
  BY <1>1, <1>2 DEF RegistryInv, OperationCompletesTopology
<1>5. {AsTopologyEntry(d) : d \in Without(displays, id)} = topology'
  BY <1>1, <1>3, <1>4 DEF Without
<1>6. id \in IdsOf(displays) \ {kPrimaryDisplayId}
  BY <1>1, <1>3, <1>4 DEF CanDisconnect, IdsOf
<1>7. OperationCompletesTopology'
  BY <1>1, <1>2, <1>5, <1>6 DEF RegistryInv, OperationCompletesTopology, IdsOf
<1>8. ClientAgreesOnTheRest' /\ EventsAreTruthful'
  BY <1>1 DEF RegistryInv, ClientAgreesOnTheRest, EventsAreTruthful, Unsettled, IdsOf
<1>9. QED
  BY <1>1, <1>7, <1>8 DEF RegistryInv, Distinct

\* The displays a snapshot keeps and those it inserts are its target.
LEMMA ReplaceExternalDisplaysInv ==
    ASSUME TypeOK, RegistryInv, NEW configs \in Snapshots, ReplaceExternalDisplays(configs)
    PROVE  RegistryInv'
<1> DEFINE target == TargetDisplays(topology, configs)
<1>1. /\ erasing = {} /\ inserting = {} /\ announcing = {} /\ pending = {}
      /\ topology' = target
      /\ erasing' = IdsOf(topology \ target)
      /\ inserting' = target \ topology
      /\ CanReplace(configs)
      /\ UNCHANGED <<displays, callback, announced, announcing, pending>>
  BY DEF ReplaceExternalDisplays, Busy, DisconnectedIds, ConnectedDisplays
<1>2. /\ topology \subseteq DisplayConfig
      /\ displays \subseteq DisplayConfig
      /\ target \subseteq DisplayConfig
  BY TargetType DEF TypeOK
<1>3. /\ Distinct(topology)
      /\ PrimaryConfig \in topology
      /\ \A c \in topology : c.id = kPrimaryDisplayId => c = PrimaryConfig
  BY TopologyIsDistinct
<1>4. /\ PrimaryConfig \in target
      /\ \A c \in target :
            \/ c = PrimaryConfig
            \/ c.id # kPrimaryDisplayId /\ AsTopologyEntry(c) = c
      /\ Distinct(target)
  BY <1>1, <1>2, <1>3, TargetIsTopology
<1>5. topology = {AsTopologyEntry(d) : d \in displays}
  BY <1>1 DEF RegistryInv, OperationCompletesTopology, Kept
<1>6. \A d \in displays : d \in Kept' <=> AsTopologyEntry(d) \in target
  <2> SUFFICES ASSUME NEW d \in displays
               PROVE  d.id \in IdsOf(topology \ target)
                         <=> AsTopologyEntry(d) \notin target
    BY <1>1 DEF Kept
  <2>1. AsTopologyEntry(d) \in topology /\ AsTopologyEntry(d).id = d.id
    BY <1>2, <1>5, EntryFields
  <2>2. QED
    BY <1>3, <2>1 DEF IdsOf, Distinct
<1>7. \A c \in inserting' : AsTopologyEntry(c) = c /\ c.id # kPrimaryDisplayId
  BY <1>1, <1>3, <1>4
<1>8. {AsTopologyEntry(d) : d \in Kept' \cup inserting'} = topology'
  <2>1. ASSUME NEW d \in Kept' \cup inserting' PROVE AsTopologyEntry(d) \in target
    BY <1>1, <1>6, <1>7 DEF Kept
  <2>2. ASSUME NEW c \in target
        PROVE  \E d \in Kept' \cup inserting' : c = AsTopologyEntry(d)
    <3>1. CASE c \in topology
      BY <1>5, <1>6, <3>1
    <3>2. CASE c \notin topology
      BY <1>1, <1>7, <3>2
    <3>3. QED
      BY <3>1, <3>2
  <2>3. QED
    BY <1>1, <2>1, <2>2
<1>9. erasing' \subseteq IdsOf(displays) \ {kPrimaryDisplayId}
  <2> SUFFICES ASSUME NEW c \in topology, c \notin target
               PROVE  c.id \in IdsOf(displays) \ {kPrimaryDisplayId}
    BY <1>1 DEF IdsOf
  <2>1. PICK d \in displays : c = AsTopologyEntry(d)
    BY <1>5
  <2>2. c.id = d.id
    BY <1>2, <2>1, EntryFields
  <2>3. c.id # kPrimaryDisplayId
    BY <1>3, <1>4
  <2>4. QED
    BY <2>2, <2>3 DEF IdsOf
<1>10. \A c \in inserting', d \in Kept' : c.id # d.id /\ c.port # d.port
  <2> SUFFICES ASSUME NEW c \in target, c \notin topology, NEW d \in displays, d \in Kept'
               PROVE  c.id # d.id /\ c.port # d.port
    BY <1>1 DEF Kept
  <2>1. /\ AsTopologyEntry(d) \in target \cap topology
        /\ AsTopologyEntry(d).id = d.id
        /\ AsTopologyEntry(d).port = d.port
    BY <1>2, <1>5, <1>6, EntryFields
  <2>2. QED
    BY <1>4, <2>1 DEF Distinct
<1>11. OperationCompletesTopology'
  BY <1>1, <1>7, <1>8, <1>9, <1>10 DEF RegistryInv, OperationCompletesTopology, IdsOf
<1>12. ClientAgreesOnTheRest' /\ EventsAreTruthful'
  BY <1>1 DEF RegistryInv, ClientAgreesOnTheRest, EventsAreTruthful, Unsettled, IdsOf
<1>13. Distinct(inserting')
  BY <1>1, <1>4 DEF Distinct
<1>14. QED
  BY <1>1, <1>11, <1>12, <1>13 DEF RegistryInv, Distinct

\* Erasing the least id and owing its event keeps the invariant.
LEMMA EraseNextInv ==
    ASSUME TypeOK, RegistryInv, EraseNext
    PROVE  RegistryInv'
<1>1. PICK id \in Ids : /\ id \in erasing
                        /\ displays' = Without(displays, id)
                        /\ erasing' = erasing \ {id}
                        /\ pending' = EventIfInstalled(id, FALSE)
  BY DEF EraseNext, IsLeast
<1>2. /\ pending = {} /\ announcing = {}
      /\ UNCHANGED <<topology, callback, announced, inserting, announcing>>
  BY <1>1 DEF EraseNext, RegistryInv, ClientAgreesOnTheRest
<1>3. Kept' = Kept
  BY <1>1 DEF Kept, Without
<1>4. OperationCompletesTopology'
  <2>1. erasing' \subseteq IdsOf(displays') \ {kPrimaryDisplayId}
    BY <1>1 DEF RegistryInv, OperationCompletesTopology, IdsOf, Without
  <2>2. PrimaryConfig \in displays'
    BY <1>1, PrimaryFields DEF RegistryInv, OperationCompletesTopology, Without
  <2>3. QED
    BY <1>2, <1>3, <2>1, <2>2 DEF RegistryInv, OperationCompletesTopology, IdsOf
<1>5. id \in IdsOf(displays) /\ id \notin IdsOf(displays')
  BY <1>1 DEF RegistryInv, OperationCompletesTopology, IdsOf, Without
<1>6. CASE callback
  <2>1. pending' = {[id |-> id, connected |-> FALSE]} /\ Unsettled' = {id}
    BY <1>1, <1>2, <1>6 DEF EventIfInstalled, Unsettled, IdsOf
  <2>2. announced = displays
    BY <1>2, <1>6 DEF RegistryInv, ClientAgreesOnTheRest, Unsettled, IdsOf
  <2>3. ClientAgreesOnTheRest'
    BY <1>1, <1>2, <1>6, <2>1, <2>2 DEF ClientAgreesOnTheRest, Without
  <2>4. EventsAreTruthful'
    BY <1>2, <1>5, <2>1, <2>2 DEF EventsAreTruthful, IdsOf
  <2>5. QED
    BY <1>1, <1>2, <1>4, <2>3, <2>4 DEF RegistryInv, Distinct, Without
<1>7. CASE ~callback
  <2>1. pending' = {} /\ Unsettled' = {}
    BY <1>1, <1>2, <1>7 DEF EventIfInstalled, Unsettled, IdsOf
  <2>2. ClientAgreesOnTheRest' /\ EventsAreTruthful'
    BY <1>2, <1>7, <2>1 DEF RegistryInv, ClientAgreesOnTheRest, EventsAreTruthful
  <2>3. QED
    BY <1>1, <1>2, <1>4, <2>2 DEF RegistryInv, Distinct, Without
<1>8. QED
  BY <1>6, <1>7

\* So does inserting the least display that is yet to be inserted.
LEMMA InsertNextInv ==
    ASSUME TypeOK, RegistryInv, InsertNext
    PROVE  RegistryInv'
<1>1. PICK config \in inserting :
         /\ displays' = Without(displays, config.id) \cup {config}
         /\ inserting' = inserting \ {config}
         /\ pending' = EventIfInstalled(config.id, TRUE)
  BY DEF InsertNext
<1>2. /\ pending = {} /\ announcing = {} /\ erasing = {}
      /\ UNCHANGED <<topology, callback, announced, erasing, announcing>>
  BY <1>1 DEF InsertNext, RegistryInv, ClientAgreesOnTheRest
<1>3. Kept = displays /\ Kept' = displays'
  BY <1>2 DEF Kept
<1>4. config.id # kPrimaryDisplayId
      /\ \A d \in displays : config.id # d.id /\ config.port # d.port
  BY <1>1, <1>3 DEF RegistryInv, OperationCompletesTopology
<1>5. displays' = displays \cup {config}
  BY <1>1, <1>4 DEF Without
<1>6. OperationCompletesTopology'
  <2>1. displays' \cup inserting' = displays \cup inserting
    BY <1>1, <1>5
  <2>2. \A c \in inserting' : c # config
    BY <1>1
  <2>3. \A c \in inserting', d \in displays' : c.id # d.id /\ c.port # d.port
    BY <1>1, <1>3, <1>5, <2>2 DEF RegistryInv, OperationCompletesTopology, Distinct
  <2>4. QED
    BY <1>1, <1>2, <1>3, <1>5, <2>1, <2>3 DEF RegistryInv, OperationCompletesTopology, IdsOf
<1>7. Distinct(displays') /\ Distinct(inserting')
  BY <1>1, <1>4, <1>5 DEF RegistryInv, Distinct
<1>8. CASE callback
  <2>1. pending' = {[id |-> config.id, connected |-> TRUE]} /\ Unsettled' = {config.id}
    BY <1>1, <1>2, <1>8 DEF EventIfInstalled, Unsettled, IdsOf
  <2>2. announced = displays
    BY <1>2, <1>8 DEF RegistryInv, ClientAgreesOnTheRest, Unsettled, IdsOf
  <2>3. ClientAgreesOnTheRest'
    BY <1>2, <1>4, <1>5, <1>8, <2>1, <2>2 DEF ClientAgreesOnTheRest
  <2>4. EventsAreTruthful'
    BY <1>2, <1>4, <1>5, <2>1, <2>2 DEF EventsAreTruthful, IdsOf
  <2>5. QED
    BY <1>2, <1>6, <1>7, <2>3, <2>4 DEF RegistryInv, Distinct
<1>9. CASE ~callback
  <2>1. pending' = {} /\ Unsettled' = {}
    BY <1>1, <1>2, <1>9 DEF EventIfInstalled, Unsettled, IdsOf
  <2>2. ClientAgreesOnTheRest' /\ EventsAreTruthful'
    BY <1>2, <1>9, <2>1 DEF RegistryInv, ClientAgreesOnTheRest, EventsAreTruthful
  <2>3. QED
    BY <1>2, <1>6, <1>7, <2>2 DEF RegistryInv, Distinct
<1>10. QED
  BY <1>8, <1>9

\* Where a connect event is delivered, exactly one display has its id, and
\* the client adds it; a disconnect removes the one display it holds.
LEMMA NotifyEffect ==
    ASSUME TypeOK, RegistryInv, NEW event \in pending
    PROVE  /\ callback /\ announcing = {} /\ pending = {event}
           /\ Told(event) = displays
           /\ event.connected => \E d \in displays :
                 /\ Told(event) = announced \cup {d}
                 /\ \A c \in announced : c.id # d.id /\ c.port # d.port
           /\ ~event.connected => \E a \in announced :
                 /\ Told(event) = announced \ {a}
                 /\ a.id # kPrimaryDisplayId
<1>1. event \in Event /\ event.connected \in BOOLEAN
  BY DEF TypeOK, Event
<1>2. pending = {event}
  BY DEF TypeOK
<1>3. callback /\ announcing = {} /\ Unsettled = {event.id}
  BY <1>2 DEF RegistryInv, ClientAgreesOnTheRest, Unsettled, IdsOf
<1>4. {a \in announced : a.id # event.id} = {d \in displays : d.id # event.id}
  BY <1>3 DEF RegistryInv, ClientAgreesOnTheRest
<1>5. Distinct(displays) /\ Distinct(announced) /\ PrimaryConfig \in displays
  BY DEF RegistryInv, OperationCompletesTopology
<1>6. CASE event.connected
  <2>1. PICK d \in displays : d.id = event.id
    BY <1>6 DEF RegistryInv, EventsAreTruthful, IdsOf
  <2>2. \A a \in announced : a.id # event.id
    BY <1>6 DEF RegistryInv, EventsAreTruthful, IdsOf
  <2>3. {x \in displays : x.id = event.id} = {d}
    BY <1>5, <2>1 DEF Distinct
  <2>4. announced = displays \ {d}
    BY <1>4, <2>2, <2>3
  <2>5. Told(event) = announced \cup {d}
    BY <1>6, <2>3 DEF Told
  <2>6. \A c \in announced : c.id # d.id /\ c.port # d.port
    BY <1>5, <2>1, <2>4 DEF Distinct
  <2>7. QED
    BY <1>2, <1>3, <1>6, <2>1, <2>4, <2>5, <2>6
<1>7. CASE ~event.connected
  <2>1. \A d \in displays : d.id # event.id
    BY <1>7 DEF RegistryInv, EventsAreTruthful, IdsOf
  <2>2. PICK a \in announced : a.id = event.id
    BY <1>7 DEF RegistryInv, EventsAreTruthful, IdsOf
  <2>3. {x \in announced : x.id = event.id} = {a}
    BY <1>5, <2>2 DEF Distinct
  <2>4. Told(event) = {x \in announced : x.id # event.id}
    BY <1>7 DEF Told, Without
  <2>5. Told(event) = displays /\ Told(event) = announced \ {a}
    BY <1>4, <2>1, <2>3, <2>4
  <2>6. a.id # kPrimaryDisplayId
    BY <1>5, <2>1, <2>2, PrimaryFields
  <2>7. QED
    BY <1>2, <1>3, <1>7, <2>5, <2>6
<1>8. QED
  BY <1>1, <1>6, <1>7

\* A callback settles the one event it is about.
LEMMA NotifyInv ==
    ASSUME TypeOK, RegistryInv, Notify
    PROVE  RegistryInv'
<1>1. PICK event \in pending : announced' = Told(event)
  BY DEF Notify
<1>2. /\ callback /\ announcing = {} /\ pending' = {} /\ announced' = displays
      /\ UNCHANGED <<topology, displays, callback, erasing, inserting, announcing>>
  BY <1>1, NotifyEffect DEF Notify
<1>3. OperationCompletesTopology'
  BY <1>2 DEF RegistryInv, OperationCompletesTopology, Kept, IdsOf
<1>4. ClientAgreesOnTheRest' /\ EventsAreTruthful'
  BY <1>2 DEF ClientAgreesOnTheRest, EventsAreTruthful, Unsettled, IdsOf
<1>5. QED
  BY <1>2, <1>3, <1>4 DEF RegistryInv, Distinct

\* The initial snapshot adds one display, whose id and port are free.
LEMMA AnnounceEffect ==
    ASSUME TypeOK, RegistryInv, AnnounceNext
    PROVE  \E d \in displays :
              /\ announced' = announced \cup {d}
              /\ announcing' = announcing \ {d.id}
              /\ d.id \in announcing
              /\ \A c \in announced : c.id # d.id /\ c.port # d.port
              /\ announced = {c \in displays : c.id \notin announcing}
<1>1. PICK id \in announcing : /\ announced' = Told([id |-> id, connected |-> TRUE])
                               /\ announcing' = announcing \ {id}
  BY DEF AnnounceNext, IsLeast
<1>2. callback /\ pending = {} /\ Unsettled = announcing
  BY <1>1 DEF RegistryInv, ClientAgreesOnTheRest, Unsettled, IdsOf
<1>3. announcing \subseteq IdsOf(displays) \ IdsOf(announced)
  BY DEF RegistryInv, EventsAreTruthful
<1>4. announced = {c \in displays : c.id \notin announcing}
  BY <1>2, <1>3 DEF RegistryInv, ClientAgreesOnTheRest, IdsOf
<1>5. PICK d \in displays : d.id = id
  BY <1>1, <1>3 DEF IdsOf
<1>6. {c \in displays : c.id = id} = {d}
  BY <1>5 DEF RegistryInv, Distinct
<1>7. announced' = announced \cup {d}
  BY <1>1, <1>6 DEF Told
<1>8. \A c \in announced : c.id # d.id /\ c.port # d.port
  BY <1>1, <1>4, <1>5 DEF RegistryInv, Distinct
<1>9. QED
  BY <1>1, <1>4, <1>5, <1>7, <1>8

\* The initial snapshot settles one display after the other.
LEMMA AnnounceNextInv ==
    ASSUME TypeOK, RegistryInv, AnnounceNext
    PROVE  RegistryInv'
<1>1. PICK d \in displays :
         /\ announced' = announced \cup {d}
         /\ announcing' = announcing \ {d.id}
         /\ d.id \in announcing
         /\ announced = {c \in displays : c.id \notin announcing}
  BY AnnounceEffect
<1>2. /\ callback /\ pending = {} /\ erasing = {} /\ inserting = {}
      /\ UNCHANGED <<topology, displays, callback, erasing, inserting, pending>>
  BY <1>1 DEF AnnounceNext, RegistryInv, ClientAgreesOnTheRest, Unsettled, IdsOf
<1>3. announced' = {c \in displays : c.id \notin announcing'}
  BY <1>1 DEF RegistryInv, Distinct
<1>4. Unsettled' = announcing'
  BY <1>2 DEF Unsettled, IdsOf
<1>5. OperationCompletesTopology'
  BY <1>2 DEF RegistryInv, OperationCompletesTopology, Kept, IdsOf
<1>6. ClientAgreesOnTheRest'
  BY <1>2, <1>3, <1>4 DEF ClientAgreesOnTheRest
<1>7. EventsAreTruthful'
  BY <1>1, <1>2, <1>3 DEF RegistryInv, EventsAreTruthful, IdsOf
<1>8. QED
  BY <1>2, <1>3, <1>5, <1>6, <1>7 DEF RegistryInv, Distinct

\* The invariant holds initially and every step of DisplayRegistry keeps it.
THEOREM RegistryInvariant == Spec => []RegistryInv
<1>1. Init => RegistryInv
  <2> SUFFICES ASSUME Init PROVE RegistryInv
    OBVIOUS
  <2>1. OperationCompletesTopology
    BY PrimaryFields DEF Init, OperationCompletesTopology, Kept, IdsOf
  <2>2. ClientAgreesOnTheRest /\ EventsAreTruthful
    BY DEF Init, ClientAgreesOnTheRest, EventsAreTruthful, Unsettled, IdsOf
  <2>3. QED
    BY <2>1, <2>2 DEF Init, RegistryInv, Distinct
<1>2. TypeOK /\ RegistryInv /\ [Next]_vars => RegistryInv'
  <2> SUFFICES ASSUME TypeOK, RegistryInv, [Next]_vars PROVE RegistryInv'
    OBVIOUS
  <2>1. CASE Next
    BY <2>1, SetHotplugCallbackInv, ConnectExternalInv, DisconnectInv,
       ReplaceExternalDisplaysInv, EraseNextInv, InsertNextInv, NotifyInv,
       AnnounceNextInv DEF Next
  <2>2. CASE UNCHANGED vars
    BY <2>2 DEF vars, RegistryInv, OperationCompletesTopology, Kept,
       ClientAgreesOnTheRest, Unsettled, EventsAreTruthful, Distinct, IdsOf
  <2>3. QED
    BY <2>1, <2>2
<1>3. QED
  BY <1>1, <1>2, TypeCorrect, PTL DEF Spec

----------------------------------------------------------------------------
(* What the invariant implies.                                             *)

\* With no operation running, the displays are the topology's and the client
\* holds exactly them (the hotplug_mutex_ boundary of every operation).
THEOREM AgreementWhenQuiescent == Spec => []QuiescentAgreement
<1>1. RegistryInv => QuiescentAgreement
  BY DEF RegistryInv, QuiescentAgreement, Busy, OperationCompletesTopology,
     ClientAgreesOnTheRest, Unsettled, Kept, IdsOf
<1>2. QED
  BY <1>1, RegistryInvariant, PTL

\* A hotplug event is news to the client, and a lookup made while it is
\* delivered confirms it.
THEOREM EventsAreNews == Spec => []EventsAreTruthful
<1>1. RegistryInv => EventsAreTruthful
  BY DEF RegistryInv
<1>2. QED
  BY <1>1, RegistryInvariant, PTL

\* A lookup never finds a new display while the client holds a removed one
\* (the order of the two loops in ReplaceExternalDisplays).
THEOREM RemovalsComeFirst == Spec => []RemovalsBeforeArrivals
<1>1. TypeOK /\ RegistryInv => RemovalsBeforeArrivals
  <2> SUFFICES ASSUME TypeOK, RegistryInv PROVE RemovalsBeforeArrivals
    OBVIOUS
  <2>1. CASE ~callback
    BY <2>1 DEF RegistryInv, ClientAgreesOnTheRest, RemovalsBeforeArrivals
  <2>2. CASE callback /\ pending = {}
    BY <2>2 DEF RegistryInv, ClientAgreesOnTheRest, EventsAreTruthful, Unsettled,
       RemovalsBeforeArrivals, IdsOf
  <2>3. CASE pending # {}
    <3>1. PICK event \in pending : TRUE
      BY <2>3
    <3>2. event.connected \in BOOLEAN
      BY DEF TypeOK, Event
    <3>3. QED
      BY <3>2, NotifyEffect DEF RemovalsBeforeArrivals
  <2>4. QED
    BY <2>1, <2>2, <2>3
<1>2. QED
  BY <1>1, TypeCorrect, RegistryInvariant, PTL

\* No two displays share an id or a port at any step (ReplaceExternalDisplays
\* erases before it inserts; both topology checks).
THEOREM PortsAreDistinct == Spec => []DistinctPorts
<1>1. TypeOK /\ RegistryInv => DistinctPorts
  BY TopologyIsDistinct DEF RegistryInv, DistinctPorts
<1>2. QED
  BY <1>1, TypeCorrect, RegistryInvariant, PTL

\* The events the client receives form a HotplugFeed: every step of the
\* registry is a restart, an attach or a detach of one display, or nothing.
THEOREM ImplementsFeed == Spec => FeedSpec
<1>1. Init => Feed!Init
  BY DEF Init, Feed!Init
<1>2. TypeOK /\ RegistryInv /\ [Next]_vars => [Feed!Next]_announced
  <2> SUFFICES ASSUME TypeOK, RegistryInv, [Next]_vars
               PROVE  Feed!Next \/ UNCHANGED announced
    OBVIOUS
  <2>1. ASSUME NEW install \in BOOLEAN, SetHotplugCallback(install) PROVE Feed!Next
    BY <2>1 DEF SetHotplugCallback, Feed!Next, Feed!Restart
  <2>2. CASE Notify
    <3>1. PICK event \in pending : announced' = Told(event)
      BY <2>2 DEF Notify
    <3>2. CASE event.connected
      <4>1. PICK d \in displays :
               /\ announced' = announced \cup {d}
               /\ \A c \in announced : c.id # d.id /\ c.port # d.port
        BY <3>1, <3>2, NotifyEffect
      <4>2. QED
        BY <4>1 DEF TypeOK, Feed!Next, Feed!Attach
    <3>3. CASE ~event.connected
      <4>1. PICK a \in announced : /\ announced' = announced \ {a}
                                   /\ a.id # kPrimaryDisplayId
        BY <3>1, <3>3, NotifyEffect
      <4>2. QED
        BY <4>1 DEF TypeOK, Feed!Next, Feed!Detach
    <3>4. QED
      BY <3>2, <3>3
  <2>3. CASE AnnounceNext
    BY <2>3, AnnounceEffect DEF TypeOK, Feed!Next, Feed!Attach
  <2>4. ASSUME NEW config \in Offers, ConnectExternal(config) PROVE UNCHANGED announced
    BY <2>4 DEF ConnectExternal
  <2>5. ASSUME NEW id \in Ids, Disconnect(id) PROVE UNCHANGED announced
    BY <2>5 DEF Disconnect
  <2>6. ASSUME NEW configs \in Snapshots, ReplaceExternalDisplays(configs)
        PROVE  UNCHANGED announced
    BY <2>6 DEF ReplaceExternalDisplays
  <2>7. CASE EraseNext \/ InsertNext \/ UNCHANGED vars
    BY <2>7 DEF EraseNext, InsertNext, vars
  <2>8. QED
    BY <2>1, <2>2, <2>3, <2>4, <2>5, <2>6, <2>7 DEF Next
<1>3. QED
  BY <1>1, <1>2, TypeCorrect, RegistryInvariant, PTL DEF Spec, FeedSpec, Feed!Spec
=============================================================================
