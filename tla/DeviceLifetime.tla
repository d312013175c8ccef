--------------------------- MODULE DeviceLifetime ---------------------------
(***************************************************************************)
(* The threads, locks and objects of one HwcDevice (src/src/HwcDevice.cpp  *)
(* with DisplayRegistry.cpp, VsyncThread.cpp and the owners of the two     *)
(* worker threads): who may wait for whom, when a Display is destroyed,    *)
(* and what closing the device leaves behind.                              *)
(*                                                                         *)
(* Three mutexes are held across other steps and are modelled by their     *)
(* owner: TopologySnapshotApplier::mutex_ (applier), hotplug_mutex_        *)
(* (hotplug) and DisplayRegistry::mutex_ (map), the last one only while an *)
(* erase runs a destructor.  Display::mutex_, VsyncThread::mutex_ and      *)
(* callback_mutex_ protect a few statements and no call: their critical    *)
(* sections are steps.                                                     *)
(*                                                                         *)
(* A Display owns the thread that emits its vsyncs, so an object names its *)
(* thread too.  What a snapshot contains is DisplayTopology's business:    *)
(* here a snapshot drops some displays and brings some new objects.        *)
(***************************************************************************)
EXTENDS Naturals, FiniteSets

CONSTANTS
    Objects,          \* the Display objects the run may create
    IdOf,             \* the display id each of them is created for
    PrimaryObject,    \* the one the constructor creates
    Clients,          \* threads of the composer client
    Descriptors,      \* the callbacks it registers, the hotplug one apart
    Listeners,        \* binder threads that deliver topology callbacks
    TopologyWorker,   \* AidlDisplayTopologySubscription::worker_
    EndpointWorker,   \* AidlFrameConsumerEndpoint::worker_
    Closer,           \* the thread that closes the device
    None              \* no thread, no object

Appliers == Listeners \cup {TopologyWorker}
Emitters == Objects \cup {EndpointWorker}
Loops    == Emitters \cup {TopologyWorker}
Threads  == Loops \cup Clients \cup Listeners \cup {Closer}

ASSUME LifetimeAssumption ==
    /\ PrimaryObject \in Objects
    /\ IdOf \in [Objects -> Nat]
    /\ Descriptors \subseteq {"refresh", "vsync", "vsync24"}
    /\ None \notin Threads
    /\ Objects \cap (Clients \cup Listeners) = {}
    /\ Clients \cap Listeners = {}
    /\ TopologyWorker \notin Objects \cup Clients \cup Listeners
    /\ EndpointWorker \notin Objects \cup Clients \cup Appliers
    /\ Closer \notin Loops \cup Clients \cup Listeners

VARIABLES
    pc,          \* where each thread is
    object,      \* the Display a thread has a pointer to, or destroys
    applier,     \* the owner of TopologySnapshotApplier::mutex_
    hotplug,     \* the owner of hotplug_mutex_
    map,         \* the owner of DisplayRegistry::mutex_ while it destroys
    displays,    \* displays_
    erasing,     \* what the operation under hotplug_mutex_ has yet to erase,
    inserting,   \* to insert
    announcing,  \* and to announce to a new callback
    installed,   \* hotplug_callback_ is set
    callbacks,   \* the descriptors in callbacks_
    life,        \* how far each Display has come
    enabled,     \* the Displays with vsync on
    stopped      \* the threads told to stop

locks == <<applier, hotplug, map>>
work  == <<erasing, inserting, announcing>>
table == <<installed, callbacks>>
vars  == <<pc, object, locks, displays, work, table, life, enabled, stopped>>

\* An owner of hotplug_mutex_ is at one of these points.
Operating == {"collect", "change", "told", "lookup", "call", "join"}

EmitterPoint == {"unborn", "loop", "told", "exited"}
ClosePoint   == {"idle", "joinTopology", "stopApplier", "destroy", "join",
                 "joinEndpoint", "closed"}
Point == {"idle", "apply", "replace", "install"}
             \cup Operating \cup EmitterPoint \cup ClosePoint

TypeOK ==
    /\ pc \in [Threads -> Point]
    /\ object \in [Threads -> Objects \cup {None}]
    /\ applier \in Appliers \cup {None}
    /\ hotplug \in Appliers \cup Clients \cup {None}
    /\ map \in Appliers \cup Clients \cup {None}
    /\ displays \subseteq Objects
    /\ erasing \subseteq Objects
    /\ inserting \subseteq Objects
    /\ announcing \subseteq Objects
    /\ installed \in {"yes", "no"}
    /\ callbacks \subseteq Descriptors
    /\ life \in [Objects -> {"unborn", "alive", "dying", "gone"}]
    /\ enabled \subseteq Objects
    /\ stopped \subseteq Loops

Rest(t) == IF t \in Loops THEN "loop" ELSE "idle"

Init ==
    /\ pc = [t \in Threads |->
                IF t \in Objects \ {PrimaryObject} THEN "unborn" ELSE Rest(t)]
    /\ object = [t \in Threads |-> None]
    /\ applier = None /\ hotplug = None /\ map = None
    /\ displays = {PrimaryObject}
    /\ erasing = {} /\ inserting = {} /\ announcing = {}
    /\ installed = "no" /\ callbacks = {}
    /\ life = [o \in Objects |-> IF o = PrimaryObject THEN "alive" ELSE "unborn"]
    /\ enabled = {} /\ stopped = {}

\* Where a thread goes on after a call or a callback it made on the way.
Resume(t) == IF hotplug = t THEN "change" ELSE Rest(t)

\* Where an operation goes after a change of the map: to the callback, if any.
Notify == IF installed = "yes" THEN "told" ELSE "change"

GoTo(t, point) == pc' = [pc EXCEPT ![t] = point]

Moves(t, point) ==
    /\ GoTo(t, point)
    /\ UNCHANGED <<object, locks, displays, work, table, life, enabled, stopped>>

Holders(o) == {t \in Threads : pc[t] = "call" /\ object[t] = o}

HasLeastId(o, objects) ==
    o \in objects /\ \A other \in objects : IdOf[o] <= IdOf[other]

\* ~Display, on thread t: the vsync thread is told to stop and joined.
Destroy(t, o) ==
    /\ GoTo(t, "join")
    /\ object' = [object EXCEPT ![t] = o]
    /\ life' = [life EXCEPT ![o] = "dying"]
    /\ stopped' = stopped \cup {o}

----------------------------------------------------------------------------
(* The vsync thread of a Display and the endpoint's worker.                *)

CheckedEmitVsync(t) ==                  \* mutant: looks the display up first
    /\ pc[t] = "loop" /\ t \in enabled \ stopped
    /\ {"vsync", "vsync24"} \cap callbacks # {}
    /\ Moves(t, "lookup")

\* A vsync is due.  The thread decides so under its own mutex, releases it,
\* and copies the entry of callbacks_ before it calls it: one step, as what
\* comes between is as if it had come before or after (a registration, the
\* end of the display), or leaves nothing to call.
EmitVsync(t) ==
    /\ pc[t] = "loop" /\ t \in enabled \ stopped
    /\ {"vsync", "vsync24"} \cap callbacks # {}
    /\ Moves(t, "told")

\* A stream became active before the worker was told to stop.
EmitRefresh(t) ==
    /\ pc[t] = "loop" /\ t \in {EndpointWorker} \ stopped
    /\ "refresh" \in callbacks
    /\ Moves(t, "told")

HandlerReturns(t) ==
    /\ pc[t] = "told"
    /\ Moves(t, Resume(t))

Exit(t) ==
    /\ pc[t] = "loop" /\ t \in stopped
    /\ Moves(t, "exited")

----------------------------------------------------------------------------
(* Calls of the composer client.  It makes none once it closes the device. *)

Open == pc[Closer] = "idle"

CallerMayStart(t) == pc[t] = "idle" /\ t \in Clients /\ Open

RegisterCallback(t, descriptor, set) ==
    /\ CallerMayStart(t)
    /\ callbacks' = IF set THEN callbacks \cup {descriptor}
                           ELSE callbacks \ {descriptor}
    /\ UNCHANGED <<pc, object, locks, displays, work, installed, life, enabled, stopped>>

\* WithDisplay, from a client thread or from within its hotplug handler.
WithDisplay(t) ==
    /\ CallerMayStart(t) \/ (pc[t] = "told" /\ hotplug = t)
    /\ Moves(t, "lookup")

UncheckedGetDisplay(t) ==               \* mutant: a call on no display goes on
    /\ pc[t] = "lookup" /\ map = None
    /\ \E o \in displays \cup {None} : object' = [object EXCEPT ![t] = o]
    /\ GoTo(t, "call")
    /\ UNCHANGED <<locks, displays, work, table, life, enabled, stopped>>

GetDisplay(t) ==
    /\ pc[t] = "lookup" /\ map = None
    /\ \/ \E o \in displays :
             /\ GoTo(t, "call")
             /\ object' = [object EXCEPT ![t] = o]
       \/ /\ GoTo(t, Resume(t))         \* HWC2_ERROR_BAD_DISPLAY
          /\ UNCHANGED object
    /\ UNCHANGED <<locks, displays, work, table, life, enabled, stopped>>

LastPointer(t) ==
    object[t] \notin displays /\ Holders(object[t]) = {t}

LeakingReturn(t, on) ==                 \* mutant: an erase parks a Display in use,
    /\ pc[t] = "call"                   \* the call borrows it, nobody destroys it
    /\ enabled' = IF on THEN enabled \cup {object[t]} ELSE enabled \ {object[t]}
    /\ GoTo(t, Resume(t))
    /\ object' = [object EXCEPT ![t] = None]
    /\ UNCHANGED <<locks, displays, work, table, life, stopped>>

\* The method runs under Display::mutex_ and may turn vsync on or off; then
\* the pointer goes out of scope, the last one with the Display.
Return(t, on) ==
    /\ pc[t] = "call"
    /\ enabled' = IF on THEN enabled \cup {object[t]} ELSE enabled \ {object[t]}
    /\ IF LastPointer(t)
       THEN Destroy(t, object[t])
       ELSE /\ GoTo(t, Resume(t))
            /\ object' = [object EXCEPT ![t] = None]
            /\ UNCHANGED <<life, stopped>>
    /\ UNCHANGED <<locks, displays, work, table>>

UnjoinedJoin(t) ==                      \* mutant: the vsync thread is not joined
    /\ pc[t] = "join"
    /\ life' = [life EXCEPT ![object[t]] = "gone"]
    /\ object' = [object EXCEPT ![t] = None]
    /\ map' = IF map = t THEN None ELSE map
    /\ GoTo(t, IF map = t THEN Notify
               ELSE IF t = Closer THEN "destroy" ELSE Resume(t))
    /\ enabled' = enabled \ {object[t]}
    /\ UNCHANGED <<applier, hotplug, displays, work, table, stopped>>

\* The destructor returns when the vsync thread has; an erase then releases
\* mutex_ and makes its callback.
Join(t) ==
    /\ pc[t] = "join" /\ pc[object[t]] = "exited"
    /\ life' = [life EXCEPT ![object[t]] = "gone"]
    /\ object' = [object EXCEPT ![t] = None]
    /\ map' = IF map = t THEN None ELSE map
    /\ GoTo(t, IF map = t THEN Notify
               ELSE IF t = Closer THEN "destroy" ELSE Resume(t))
    /\ enabled' = enabled \ {object[t]}
    /\ UNCHANGED <<applier, hotplug, displays, work, table, stopped>>

----------------------------------------------------------------------------
(* Operations under hotplug_mutex_.                                        *)

BeginInstall(t) ==
    /\ CallerMayStart(t)
    /\ Moves(t, "install")

SetHotplugCallback(t, set) ==
    /\ pc[t] = "install" /\ hotplug = None
    /\ IF set THEN installed' = "yes" /\ hotplug' = t /\ GoTo(t, "collect")
              ELSE installed' = "no" /\ GoTo(t, "idle") /\ UNCHANGED hotplug
    /\ UNCHANGED <<object, applier, map, displays, work, callbacks, life, enabled, stopped>>

ConnectedDisplayIds(t) ==
    /\ pc[t] = "collect" /\ map = None
    /\ announcing' = displays
    /\ GoTo(t, "change")
    /\ UNCHANGED <<object, locks, displays, erasing, inserting, table, life, enabled, stopped>>

\* A topology callback arrives, or the worker polls a snapshot.
BeginApply(t) ==
    /\ t \in Appliers \ stopped /\ pc[t] = Rest(t)
    /\ Moves(t, "apply")

\* Stop has run: registry_ is null.
Detached == pc[Closer] \in {"destroy", "join", "joinEndpoint", "closed"}

\* A stale or invalid snapshot, or one that arrives after Stop, ends here.
Apply(t) ==
    /\ pc[t] = "apply" /\ applier = None
    /\ \/ /\ ~Detached
          /\ applier' = t
          /\ GoTo(t, "replace")
       \/ /\ GoTo(t, Rest(t))
          /\ UNCHANGED applier
    /\ UNCHANGED <<object, hotplug, map, displays, work, table, life, enabled, stopped>>

\* Objects are interchangeable before their construction: the next one for an
\* id is always the same.
Unborn == {o \in Objects : life[o] = "unborn"}
Constructible ==
    {o \in Unborn : o = CHOOSE other \in Unborn : IdOf[other] = IdOf[o]}

\* The new objects, with their vsync threads, exist before the first erase.
ReplaceExternalDisplays(t) ==
    /\ pc[t] = "replace" /\ hotplug = None
    /\ hotplug' = t
    /\ \E dropped \in SUBSET (displays \ {PrimaryObject}),
          new \in SUBSET Constructible :
          /\ \A o \in new, other \in displays \ dropped : IdOf[o] # IdOf[other]
          /\ erasing' = dropped
          /\ inserting' = new
          /\ life' = [o \in Objects |-> IF o \in new THEN "alive" ELSE life[o]]
          /\ pc' = [u \in Threads |-> IF u = t THEN "change"
                                      ELSE IF u \in new THEN "loop" ELSE pc[u]]
    /\ UNCHANGED <<object, applier, map, displays, announcing, table, enabled, stopped>>

OwningEraseNext(t) ==                   \* mutant: the map owns, calls only borrow
    /\ pc[t] = "change" /\ map = None
    /\ \E o \in erasing :
          /\ HasLeastId(o, erasing)
          /\ displays' = displays \ {o}
          /\ erasing' = erasing \ {o}
          /\ Destroy(t, o) /\ map' = t
    /\ UNCHANGED <<applier, hotplug, inserting, announcing, table, enabled>>

\* The erase holds mutex_: if the map had the last pointer, so does the
\* destructor.
EraseNext(t) ==
    /\ pc[t] = "change" /\ map = None
    /\ \E o \in erasing :
          /\ HasLeastId(o, erasing)
          /\ displays' = displays \ {o}
          /\ erasing' = erasing \ {o}
          /\ IF Holders(o) = {}
             THEN Destroy(t, o) /\ map' = t
             ELSE GoTo(t, Notify) /\ UNCHANGED <<object, life, stopped, map>>
    /\ UNCHANGED <<applier, hotplug, inserting, announcing, table, enabled>>

WithoutId(id) == {o \in displays : IdOf[o] # id}

\* insert_or_assign: an entry of the id is gone by then, so it overwrites none.
InsertNext(t) ==
    /\ pc[t] = "change" /\ erasing = {} /\ map = None
    /\ \E o \in inserting :
          /\ HasLeastId(o, inserting)
          /\ displays' = WithoutId(IdOf[o]) \cup {o}
          /\ inserting' = inserting \ {o}
    /\ GoTo(t, Notify)
    /\ UNCHANGED <<object, locks, erasing, announcing, table, life, enabled, stopped>>

AnnounceNext(t) ==
    /\ pc[t] = "change"
    /\ \E o \in announcing :
          /\ HasLeastId(o, announcing)
          /\ announcing' = announcing \ {o}
    /\ GoTo(t, "told")
    /\ UNCHANGED <<object, locks, displays, erasing, inserting, table, life, enabled, stopped>>

\* Both mutexes are released as the operation returns.
Finish(t) ==
    /\ pc[t] = "change"
    /\ erasing = {} /\ inserting = {} /\ announcing = {}
    /\ hotplug' = None
    /\ applier' = IF applier = t THEN None ELSE applier
    /\ GoTo(t, Rest(t))
    /\ UNCHANGED <<object, map, displays, work, table, life, enabled, stopped>>

----------------------------------------------------------------------------
(* CloseDevice: the subscription, then the registry with its displays and  *)
(* last of all the frame sink factory, which has the endpoint.             *)

HastyClose ==                           \* mutant: the subscription outlives the registry
    /\ Open /\ \A t \in Clients : pc[t] = "idle"
    /\ GoTo(Closer, "destroy")
    /\ stopped' = stopped \cup {TopologyWorker}
    /\ UNCHANGED <<object, locks, displays, work, table, life, enabled>>

Close ==
    /\ Open /\ \A t \in Clients : pc[t] = "idle"
    /\ GoTo(Closer, "joinTopology")
    /\ stopped' = stopped \cup {TopologyWorker}
    /\ UNCHANGED <<object, locks, displays, work, table, life, enabled>>

JoinTopologyWorker ==
    /\ pc[Closer] = "joinTopology" /\ pc[TopologyWorker] = "exited"
    /\ Moves(Closer, "stopApplier")

Stop ==
    /\ pc[Closer] = "stopApplier" /\ applier = None
    /\ Moves(Closer, "destroy")

DestroyNext ==
    /\ pc[Closer] = "destroy"
    /\ \E o \in displays : displays' = displays \ {o} /\ Destroy(Closer, o)
    /\ UNCHANGED <<locks, work, table, enabled>>

UnstoppedDropFactory ==                 \* mutant: the worker is joined but not stopped
    /\ pc[Closer] = "destroy" /\ displays = {}
    /\ Moves(Closer, "joinEndpoint")

DropFactory ==
    /\ pc[Closer] = "destroy" /\ displays = {}
    /\ GoTo(Closer, "joinEndpoint")
    /\ stopped' = stopped \cup {EndpointWorker}
    /\ UNCHANGED <<object, locks, displays, work, table, life, enabled>>

JoinEndpointWorker ==
    /\ pc[Closer] = "joinEndpoint" /\ pc[EndpointWorker] = "exited"
    /\ Moves(Closer, "closed")

----------------------------------------------------------------------------
\* What a thread does next in what it has begun, waiting for a mutex apart.
Step(t) ==
    \/ HandlerReturns(t) \/ Exit(t)
    \/ \E on \in BOOLEAN : Return(t, on)
    \/ Join(t)
    \/ EraseNext(t) \/ InsertNext(t) \/ AnnounceNext(t) \/ Finish(t)

LockStep(t) ==
    \/ GetDisplay(t) \/ ConnectedDisplayIds(t)
    \/ \E set \in BOOLEAN : SetHotplugCallback(t, set)
    \/ Apply(t) \/ ReplaceExternalDisplays(t)

BeginStep(t) ==
    \/ EmitVsync(t) \/ EmitRefresh(t)
    \/ \E descriptor \in Descriptors, set \in BOOLEAN :
          RegisterCallback(t, descriptor, set)
    \/ WithDisplay(t) \/ BeginInstall(t) \/ BeginApply(t)

CloseStep ==
    \/ JoinTopologyWorker \/ DestroyNext \/ DropFactory \/ JoinEndpointWorker

Next ==
    \/ \E t \in Threads : Step(t) \/ LockStep(t) \/ BeginStep(t)
    \/ Close \/ Stop \/ CloseStep

Spec == Init /\ [][Next]_vars

\* Every running thread gets on, the client's handlers return, and a thread
\* that finds a mutex free again and again gets it.  Nothing makes a client
\* call, a snapshot arrive, a vsync come due or the device close.
Fairness ==
    /\ \A t \in Threads : WF_vars(Step(t))
    /\ \A t \in Clients \cup Appliers : SF_vars(LockStep(t))
    /\ WF_vars(CloseStep) /\ SF_vars(Stop)

FairSpec == Spec /\ Fairness

----------------------------------------------------------------------------
\* The threads whose next step thread t waits for.
WaitsFor(t) ==
    {u \in Threads :
        \/ pc[t] \in {"apply", "stopApplier"} /\ applier = u
        \/ pc[t] \in {"replace", "install"} /\ hotplug = u
        \/ pc[t] \in {"lookup", "collect", "change"} /\ map = u
        \/ pc[t] = "join" /\ object[t] = u /\ pc[u] # "exited"
        \/ pc[t] = "joinTopology" /\ u = TopologyWorker /\ pc[u] # "exited"
        \/ pc[t] = "joinEndpoint" /\ u = EndpointWorker /\ pc[u] # "exited"}

\* No threads wait for each other in a ring, although the map's mutex is held
\* while a destructor joins a thread that is running a client callback, and
\* the client may look displays up from its hotplug handler
\* (DisplayRegistry.cpp:109, VsyncThread.cpp:50).
NoDeadlock ==
    \A ring \in SUBSET {t \in Threads : WaitsFor(t) # {}} :
        ring # {} => \E t \in ring : WaitsFor(t) \cap ring = {}

\* A Display's thread does not outlive it, and nothing can reach a Display
\* whose destructor has begun: no pointer, no map entry, no second destructor
\* (VsyncThread.cpp:45, DisplayRegistry.cpp:38).
DestroyedIsQuiet ==
    \A o \in Objects :
        /\ life[o] = "gone" => pc[o] = "exited"
        /\ life[o] \in {"dying", "gone"} =>
              o \notin displays \cup inserting /\ Holders(o) = {}
        /\ \A t, u \in Threads :
              /\ pc[t] = "join" /\ object[t] = o => life[o] = "dying"
              /\ pc[t] = "join" /\ pc[u] = "join" /\ object[t] = o /\ object[u] = o
                     => t = u

\* A vsync reaches the client only from a Display it could still look up or
\* is in a call on, or whose destructor still waits for that very callback:
\* once a removal is announced with no call in flight, none follows
\* (DisplayRegistry.cpp:109-115).
VsyncIsOfAKnownDisplay ==
    \A o \in Objects :
        pc[o] = "told" =>
            \/ o \in displays
            \/ \E t \in Threads :
                  object[t] = o /\ pc[t] \in {"call", "join"}

\* No Display is lost: each one that exists is in the map, about to be put
\* there, or held by a thread that will destroy it (shared_ptr ownership in
\* DisplayRegistry.cpp:104-120 and HwcDevice.cpp:43).
NoDisplayLeaks ==
    \A o \in Objects :
        /\ life[o] = "alive" => o \in displays \cup inserting \/ Holders(o) # {}
        /\ life[o] = "dying" => \E t \in Threads : pc[t] = "join" /\ object[t] = o

\* Once the registry is detached no operation is inside it, and when the
\* device is freed neither a display's thread nor a worker is left that could
\* call into it (HwcDevice.cpp:363).
NothingOutlivesTheDevice ==
    /\ Detached =>
          /\ applier = None /\ hotplug = None /\ map = None
          /\ pc[TopologyWorker] = "exited"
          /\ \A t \in Listeners \cup Clients : pc[t] \in {"idle", "apply"}
    /\ pc[Closer] \in {"joinEndpoint", "closed"} =>
          \A o \in Objects : life[o] \in {"unborn", "gone"}
    /\ pc[Closer] = "closed" => pc[EndpointWorker] = "exited"

----------------------------------------------------------------------------
(* What every step preserves, and the invariants above follow from.        *)

\* Where each kind of thread can be.
ThreadPoints ==
    /\ \A o \in Objects : pc[o] \in {"unborn", "loop", "told", "exited"}
    /\ pc[EndpointWorker] \in {"loop", "told", "exited"}
    /\ pc[TopologyWorker] \in {"loop", "exited", "apply", "replace"} \cup Operating
    /\ \A t \in Listeners : pc[t] \in {"idle", "apply", "replace"} \cup Operating
    /\ \A t \in Clients : pc[t] \in {"idle", "install"} \cup Operating
    /\ pc[Closer] \in ClosePoint

\* Who owns a mutex, from where the threads are.
Ownership ==
    /\ hotplug # None => pc[hotplug] \in Operating
    /\ applier # None => pc[applier] \in {"replace"} \cup Operating
    /\ map # None => map = hotplug /\ pc[map] = "join"
    /\ \A t \in Clients :
          pc[t] \in {"collect", "change", "told"} => hotplug = t
    /\ \A t \in Appliers :
          /\ pc[t] \in Operating => hotplug = t
          /\ pc[t] \in {"replace"} \cup Operating => applier = t
    /\ hotplug = None => erasing = {} /\ inserting = {} /\ announcing = {}

\* How far a Display has come, from who points to it.
Pointers ==
    /\ \A o \in Objects :
          /\ life[o] = "unborn" <=> pc[o] = "unborn"
          /\ life[o] = "gone" => pc[o] = "exited"
          /\ life[o] = "alive" => o \in displays \cup inserting \/ Holders(o) # {}
          /\ life[o] = "dying" => \E t \in Threads : pc[t] = "join" /\ object[t] = o
          /\ o \in displays \cup inserting => life[o] = "alive"
          /\ o \in inserting \/ life[o] = "unborn" => o \notin displays \cup enabled
          /\ o \in inserting => pc[o] \in {"loop", "exited"}
    /\ \A t \in Threads :
          /\ pc[t] = "call" =>
                object[t] \in Objects \ inserting /\ life[object[t]] = "alive"
          /\ pc[t] = "join" => object[t] \in Objects /\ life[object[t]] = "dying"
    /\ \A t, u \in Threads :
          pc[t] = "join" /\ pc[u] = "join" /\ object[t] = object[u] => t = u

\* At most one Display for an id, now and once the operation has erased.
OnePerId ==
    /\ erasing \subseteq displays
    /\ \A o, p \in displays : o # p => IdOf[o] # IdOf[p]
    /\ \A o, p \in (displays \ erasing) \cup inserting : o # p => IdOf[o] # IdOf[p]

\* How far the device has been taken down.
TakenDown ==
    /\ ~Open => \A t \in Clients : pc[t] = "idle"
    /\ pc[Closer] = "stopApplier" \/ Detached => pc[TopologyWorker] = "exited"
    /\ Detached => \A t \in Listeners : pc[t] \in {"idle", "apply"}
    /\ pc[Closer] \in {"joinEndpoint", "closed"} =>
          \A o \in Objects : life[o] \in {"unborn", "gone"}
    /\ pc[Closer] = "closed" => pc[EndpointWorker] = "exited"

LifetimeInv == ThreadPoints /\ Ownership /\ Pointers /\ OnePerId /\ TakenDown

----------------------------------------------------------------------------
Closing == pc[Closer] \notin {"idle", "closed"}

\* An operation under hotplug_mutex_ and the closing of the device both end,
\* whatever is being called, joined or destroyed meanwhile: the mutex comes
\* free, and a device once closing is closed (HwcDevice.cpp:363,
\* VsyncThread.cpp:45).
OperationsEnd ==
    (hotplug # None \/ Closing) ~> (hotplug = None /\ ~Closing)
=============================================================================
