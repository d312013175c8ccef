---------------------------- MODULE HotplugFeed ----------------------------
(***************************************************************************)
(* What the composer client is promised about hotplug events: a feed of    *)
(* attached displays that starts empty when a callback is installed, in    *)
(* which a display is attached only under a free id and a free port, is    *)
(* never modified in place, and the primary is never detached.             *)
(***************************************************************************)
EXTENDS Naturals

CONSTANTS Config,    \* records with the fields id and port
          Primary    \* the id that cannot be detached

VARIABLE feed        \* the configurations the client holds as connected

Init == feed = {}

\* A callback is installed or removed: the new client has seen nothing.
Restart == feed' = {}

Attach(config) ==
    /\ \A c \in feed : c.id # config.id /\ c.port # config.port
    /\ feed' = feed \cup {config}

Detach(config) ==
    /\ config \in feed
    /\ config.id # Primary
    /\ feed' = feed \ {config}

Next == Restart \/ \E config \in Config : Attach(config) \/ Detach(config)

Spec == Init /\ [][Next]_feed
=============================================================================
