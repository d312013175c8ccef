-------------------------- MODULE DisplayTopology --------------------------
(***************************************************************************)
(* The pure part of DisplayTopology (src/src/DisplayTopology.cpp): which   *)
(* display configurations are acceptable, and what a snapshot changes.     *)
(*                                                                         *)
(* A topology is a set of configurations with distinct ids: the entries of *)
(* displays_, whose key is always the id of the configuration it maps to.  *)
(* The dimensions, density, rates and name of a configuration are one      *)
(* value, its spec.  Every caller compares a DisplayTopologyResult with    *)
(* kSuccess only, so an error result is a predicate that is FALSE.         *)
(***************************************************************************)
EXTENDS Naturals, Sequences

CONSTANTS Ids,         \* display ids, 0 (never valid) and the primary included
          Ports,       \* ports, 0 (the primary's) included
          Specs,       \* everything else SameDisplayConfig compares
          ValidSpecs,  \* the specs with non-zero dimensions, dpi and period
          PrimarySpec  \* the spec of the internal display

kPrimaryDisplayId == 1

ASSUME TopologyAssumption ==
    /\ Ids \subseteq Nat
    /\ kPrimaryDisplayId \in Ids
    /\ Ports \subseteq Nat
    /\ 0 \in Ports
    /\ ValidSpecs \subseteq Specs
    /\ PrimarySpec \in Specs

DisplayConfig == [id : Ids, port : Ports, spec : Specs,
                  connection : {"internal", "external"}]

\* The constructor: whatever it is given, the primary keeps id 1 and port 0.
PrimaryConfig == [id |-> kPrimaryDisplayId, port |-> 0,
                  spec |-> PrimarySpec, connection |-> "internal"]

IdsOf(configs) == {c.id : c \in configs}

AsExternal(config) == [config EXCEPT !.connection = "external"]

AnyPortIsValid(config) ==               \* mutant: port 0 is not rejected
    /\ config.id # 0
    /\ config.spec \in ValidSpecs

IsValidExternalConfig(config) ==
    /\ config.id # 0
    /\ config.port # 0
    /\ config.spec \in ValidSpecs

----------------------------------------------------------------------------
(* ConnectExternal and Disconnect succeed, and what the topology becomes.  *)

CanConnect(topology, config) ==
    /\ config.id # kPrimaryDisplayId
    /\ IsValidExternalConfig(config)
    /\ \A c \in topology : c.id # config.id /\ c.port # config.port

AnyCanDisconnect(topology, id) ==       \* mutant: the primary is not protected
    id \in IdsOf(topology)

CanDisconnect(topology, id) ==
    /\ id # kPrimaryDisplayId
    /\ id \in IdsOf(topology)

Without(configs, id) == {c \in configs : c.id # id}

----------------------------------------------------------------------------
(* ReplaceExternalDisplays.  The snapshot is a sequence: a repeated entry  *)
(* is an error, even when both copies are the same.                        *)

CanReplace(configs) ==
    /\ \A i \in DOMAIN configs :
          /\ configs[i].id # kPrimaryDisplayId
          /\ IsValidExternalConfig(configs[i])
    /\ \A i, j \in DOMAIN configs :
          i # j => /\ configs[i].id # configs[j].id
                   /\ configs[i].port # configs[j].port

TargetDisplays(topology, configs) ==
    {c \in topology : c.id = kPrimaryDisplayId}
        \cup {AsExternal(configs[i]) : i \in DOMAIN configs}

RemovedOnly(topology, target) ==        \* mutant: a changed config is not a removal
    IdsOf(topology) \ IdsOf(target)

\* SameDisplayConfig compares every field, so it is equality; an entry of
\* the current topology that is not in the target was removed or changed.
DisconnectedIds(topology, target) == IdsOf(topology \ target)

ConnectedDisplays(topology, target) == target \ topology
=============================================================================
