# Verification of the Floral display HAL

TLA+ modules, TLC configurations and TLAPS proofs for `hardware_floral_display`,
the HWC2 physical-display backend in this repository. Paths below are relative
to the repository; line numbers are in `PROJECT.json`, which maps every
definition that models code to the lines it stands for.

## The system

| Component | State | Operations | Interacts with |
| --- | --- | --- | --- |
| `DisplayTopology` | the connected configurations by id | connect, disconnect, replace all external displays | called by the registry |
| `DisplayRegistry` | `Display` objects by id, the hotplug callback, two locks | the same three, install a hotplug callback, look a display up | topology, displays, composer client (callbacks) |
| `AidlDisplayTopologySubscriber` | epoch, last generation, lease, worker thread | connect, register a listener, poll, apply, expire, stop | topology service (binder calls and callbacks), registry |
| `Display` (modes), `VsyncThread` | active mode, pending period change, phase of the vsync | switch at once or at a time, enable vsync, destroy | composer client (vsync callbacks); the two call each other |
| `Display` (composition), `Layer` | layers, type changes, validated flag, client target, fences | create and destroy layers, set buffers and types, validate, accept, present | looked up through `HwcDevice`; hands frames to a sink |
| `StreamFrameSink` | buffer ids registered for a stream generation | submit a frame | endpoint |
| `AidlFrameConsumerEndpoint` | consumer binder, cached stream state, worker thread | poll, register, submit, disconnect, report activation | stream service, `HwcDevice` (refresh) |
| `HwcDevice`, `Module` | callback table, the objects above | open, dispatch by descriptor, emit vsync and refresh, close | everything |
| `DisplayConfig`, `Display::BuildModes`, `Edid`, `ConvertSnapshot`, `GraphicBufferClientTargetResolver` | none | pure conversions: rates to modes, ports to identities, snapshots to configurations, metadata to targets | the components above |

What is hard here, and what makes each component correct:

- *Registry.* Threads look displays up between the steps of an operation;
  topology, map and composer client have to agree at every step, and the client
  has to hear removals first. A callback installed in between must get exactly
  the events it missed.
- *Subscriber.* The service crashes, restarts and counts again from the
  beginning; callbacks of binder threads arrive late or out of order; polls and
  callbacks race; the lease must run whenever unconnected displays are retained;
  the registry must not be touched after the destructor.
- *Modes and vsync.* A switch races the thread that applies the previous one;
  wakes must not be lost, vsyncs be neither early nor in bursts.
- *Composition.* Calls of several threads race each other and hot-unplug; a
  frame is presented only with client layers; every fence is closed or handed on
  once.
- *Frame delivery.* Presents run concurrently outside the display's lock while
  the worker refreshes the cached stream state and the service restarts; ids,
  generations and the loan of the buffers must hold up.
- *Lifetime.* A `Display` owns a thread that calls the client, is owned by
  whoever uses it last, and may be destroyed under the registry's locks; two
  more threads belong to the device. Nobody may wait in a ring, and closing the
  device has to stop every thread before what the thread uses is gone.
- *Conversions.* Rates, periods, ports and strides are rounded and narrowed; a
  mode's id is an index that has to stay what it was.

`PROJECT.json` lists the hazards with the line where each bites and the property
that covers it, or the reason there is none yet.

## Modules

| Module | Models | Kind |
| --- | --- | --- |
| `DisplayTopology` | `DisplayTopology.cpp`: which configurations are acceptable, what a snapshot changes | operators |
| `HotplugFeed` | what a composer client is promised about hotplug events | abstract specification |
| `DisplayRegistry` | `DisplayRegistry.cpp` over `DisplayTopology`, hotplug registration | state machine, implements `HotplugFeed` |
| `TopologyMirror` | what the subscription promises about the displays it controls | abstract specification |
| `TopologySubscriber` | `AidlDisplayTopologySubscriber.cpp` and the service | state machine, implements `TopologyMirror` |
| `SubscribedRegistry` | the two above together: the snapshot the applier takes over goes through the registry's steps, under both locks | composition |
| `ModeSwitch` | what a caller of the mode switches is promised about the reported period | abstract specification |
| `DisplayModes` | mode switching of `Display.cpp` with `VsyncThread.cpp` | state machine, implements `ModeSwitch` |
| `DisplayComposition` | layers, validation, presentation and fences of `Display.cpp`, `WithDisplay` | state machine |
| `TargetHandover` | what a presentation promises about the target the service reads | abstract specification |
| `FrameDelivery` | `StreamFrameSink.cpp`, `AidlFrameConsumerEndpoint.cpp`, the service, the buffer loan | state machine, implements `TargetHandover` |
| `DeviceLifetime` | `HwcDevice.cpp` with the threads, locks and pointers of the registry, the vsync threads, the appliers and the endpoint's worker | state machine that composes them |
| `DisplayModeTable` | `DisplayConfig.cpp`, `BuildModes` and its neighbours in `Display.cpp`, the boot properties | operators, used by `DisplayModes`' instance and `SnapshotConversion` |
| `SnapshotConversion` | `ConvertDisplaySpec`, `ConvertSnapshot`, against `DisplayTopology`'s checks | operators |
| `Edid` | `Edid.cpp`: identity, texts, checksum | operators |
| `ClientTargetResolver` | `GraphicBufferClientTargetResolver.cpp` | operators |
| `MC*` | instances for TLC; those of the operators evaluate them in `ASSUME`s | |
| `*Proofs` | theorems and proofs | |

A step of a model is one critical section of the mutex that guards the state, or
one call out of the component (a binder call, a callback); whatever the code
does within it is part of the action. Operators followed by the comment
*mutant* are wrong on purpose: `PROJECT.json` pairs each property with the
mutant that it catches.

### How state and actions correspond

`DisplayRegistry`: `topology` is `topology_`, `displays` is `displays_`;
`erasing`, `inserting`, `announcing` and `pending` are the locals of the one
operation that holds `hotplug_mutex_` (`Busy`). `EraseNext` and `InsertNext` are
the two critical sections of `mutex_`, in the order of the sorted ids; `Notify`
and `AnnounceNext` are the callbacks. `announced` is the client: it asks for the
attributes of each display it is told about.

`TopologySubscriber`: `pc` follows `Run` from binder call to binder call;
`activeEpoch`, `lastGeneration` and `attached` are the applier's fields, `calls`
the callbacks in flight in any order. The lease is none, running or due: the
clock only turns running into due. A snapshot is the service instance, the
generation and a layout; an invalid layout stands for whatever
`ConvertSnapshot` rejects. `external` is the registry's external displays, which
`ReplaceExternalDisplays` replaces at once (a valid snapshot is never refused by
the registry: theorem `ConvertedIsAccepted`).

`SubscribedRegistry` takes that step apart. A step of `TopologySubscriber` that
replaces the displays starts `ReplaceExternalDisplays` of `DisplayRegistry`, and
`applying` is the thread that is in it until the registry is no longer `Busy`.
That thread holds the applier's `mutex_`: the actions that lock it
(`BinderApplies`, `WorkerApplies`, `WorkerExpires`, `WorkerChangesEpoch`,
`StopApplier`) wait, the worker waits for its own call, and the service, the
clock and the client's `SetHotplugCallback` do not. What `Apply` and its caller
write when the call returns is written when it starts, as nobody can read it
before.

`DisplayModes`: a step of the thread is one hold of `VsyncThread::mutex_`. The
generation counters that are only compared with an observed value are the flags
`woken` and `rephase`. Time is discrete and a step reads it once. The operations
of the display and of the thread are one step each, because what the thread can
do between the two locks it can also do before. For `ModeSwitch`, a change is
still to take effect while it is pending and while its report is on the way
(`SwitchDue`).

`DisplayComposition`: a call is a lookup, one critical section and a return that
may drop the last pointer. A fence is a token; `given`, `closed`, `returned` and
`abandoned` say what became of it.

`FrameDelivery`: a task per presenting thread follows `Submit`;
`registry_mutex_` is held across `registerBuffer` only (`lock`), the other
critical sections being steps. The worker's `wpc` follows `Run`. The service
has instances, a stream with a generation, registrations and the buffers it
reads. SurfaceFlinger reuses a buffer when its present fence has signalled. It
presents one frame and later those it is asked for (`refresh` is `"once"`, then
`"no"`), or goes on presenting (`"always"`). For `TargetHandover`, a call
presents the buffer of its task, and offers it until the answer to its frame
(`Offered`).

`DeviceLifetime`: `pc` says where each thread is: in a call, in a handler of the
client, waiting for a mutex, or joining another thread. `applier`, `hotplug` and
`map` are the owners of the three mutexes that are held across other steps; the
mutexes of a `Display`, a `VsyncThread` and the callback table cover a few
statements that call nothing, so their critical sections are single steps. A
`Display` object names its vsync thread too. `Holders(o)` are the
`shared_ptr`s of calls, `displays` and `inserting` those of the map and of the
operation; where the last one goes, `Destroy` begins the destructor on the
thread that dropped it, and `Join` ends it. `Close` to `JoinEndpointWorker` are
the steps of `~HwcDevice`, in the order of its statements and members.

The modules of operators have the arguments and results of the functions they
are named after. A sorted vector without repetitions is a set, a string is a
sequence of codes or only empty or not, and the allocator's answers are
arguments. Widths are constants where a run has to scale them down (`MaxInt32`,
`MaxUint32`, `MaxInt64`), and what overflows or is narrowed is taken modulo
them.

### Modelled from use (external)

The topology service, the stream service, the composer client, SurfaceFlinger's
buffers and the clock are not in this repository. They do what the calls made to
them and the tests' fakes need: a service publishes increasing generations (or
the same again if it was invalid), forgets its listeners and registrations when
it dies, and answers a call only if it is the instance that was called; the
stream service lets an id registered again name the new buffer, and refuses a
frame of another generation or with an unknown id.

The composer client of `DeviceLifetime` keeps three rules that the code relies
on without stating them: its vsync and refresh handlers make no call into the
HWC, its hotplug handler looks displays up and calls them but registers no
callback, and it closes the device with no call in flight and makes none
afterwards. A vsync handler that looks its display up deadlocks the removal of
that display, as the mutant of `NoDeadlock` shows; a hotplug handler that
registers a hotplug callback waits for the mutex its own thread holds.

## Runs

| Run | Checks | Bounds |
| --- | --- | --- |
| `registry` | agreement, truthfulness and order of events, distinct ports, refinement of `HotplugFeed` | ids 0..4, ports 0..3, snapshots of up to three displays out of overlapping configurations: port swaps, duplicates, changes in place, the primary's id |
| `subscriber_safety` | subscription and registry together: lease, refinement of `TopologyMirror`, topology, displays and client follow the snapshot, nobody is left in the registry after the join | two generations per instance, one callback in flight, two faults, one valid and one invalid layout besides none |
| `subscriber_converges` | a service that stays up is shown, displays of a lost one expire, the destructor returns | valid layouts only, two generations, one fault, one callback in flight |
| `modes` | refinement of `ModeSwitch`, agreement, early vsyncs, bursts; changes applied, destructor returns | three modes of 3, 2 and 1 ticks, two switches, six ticks |
| `composition` | current changes, fences, unplug | two threads, three fences, two layers |
| `delivery` | refinement of `TargetHandover`, generations, agreement of service and sink | two threads, two buffers; a second generation, a crash with restart, or a failed, refused or half-lost call |
| `delivery_live` | a stream that accepts is shown a frame, the loan of the buffers | one thread, two buffers; an idle client (`Clients`) with two generations and a crash; one that goes on presenting with a second generation, a restart under the same generation, or a failed or refused call |
| `device` | no ring of waiting threads, destruction after the last use, owned displays, vsyncs of known displays, a complete close; operations and the close end | one client thread, one listener thread, both workers, the primary and two objects of one further id |

The MC modules also evaluate the operators: the advertised modes of every set of
rates and every limit of 1 to 60 Hz, with periods in real nanoseconds
(`MCDisplayModes`); EDIDs of the extreme ports and names of 0 to 14 characters,
with their checksums (`MCDisplayRegistry`); which specifications and snapshots
convert, one step inside and outside every bound (`MCTopologySubscriber`); the
stride of every plane layout of small widths, compared with the one the
definition of a stride gives, and both metadata paths (`MCFrameDelivery`).

The bounds are the smallest at which the races happen: two displays to swap
ports and a third to collide; an old and a new service instance, and an old and
a new callback; a change pending, one being reported and one that supersedes
both; two threads for one lock; two buffers for one id; a display replaced by a
second object of its id while a client call, its own vsync and the closing of
the device go on. Each mutant of the code is found within them.

Four runs are expected to be violated. Each is a disagreement between the code
and what the repository says of it (`findings`):

- `subscriber_lease_gap`: displays that only a callback applied are retained for
  ever when the service dies before the first poll.
- `subscriber_lost_snapshot`: the polled snapshot is invalid while the lease runs
  out, and between the worker's `Apply` and the expiry in the same pass of its
  loop a callback applies the next, valid generation. The expiry clears the
  displays and leaves `last_generation_`, so every later poll of that generation
  counts as applied and it stays hidden until a higher one. No crash and no
  failed call is needed (`MaxFaults = 0`, generations 1 to 3).
- `composition_unplugged`: `WithDisplay` does not close the fence of a call
  that finds no display.
- `delivery_lost_answer`: if the answer to an accepted frame is lost, the buffer
  is given back while the service reads it. (`delivery_live` has no such loss,
  `AnswersLost = FALSE`, and the loan holds.)

Seen while modelling, with no statement of the repository to hold it against:
`ConnectExternal` copies the configuration before the topology makes it
external, so a display connected as internal would go on reporting an internal
connection (only the unit tests call it; snapshots are converted to external
ones); a stream that becomes active before the client registers its refresh
callback asks for no frame, then or later; the comment at `Edid.cpp:100` speaks
of a phase that advertises 60 Hz only, while the mode table offers up to three
rates; vsync can be enabled by one thread after another powered the display
off; presents reach the sink outside the display's mutex, possibly in another
order than their sequence numbers (the sink makes no use of it); a buffer set
after validation stays with the layer until the next one; a handler may still be
called just after it was unregistered; with the allocator's own metadata a
target is protected by its usage bit only, while the standard path also reads
the protected-content field;
a constrained switch that supersedes a change whose callback is in flight lets
`GetDisplayVsyncPeriod` report the old period until the new change applies
(`PeriodsAgree` says what does hold); a service that restarts with the *same*
generation costs an idle client the one frame it was asked for, since the sink
learns of it from the refusal (`delivery_live` has its idle client meet new
generations only; a client that goes on presenting is shown there too); the
endpoint's worker can store an answer after another thread has found the
service dead, and when the service lives (only the call failed) no activation
follows the reconnection, so an idle client is not asked for the frame again
(in `delivery_live` calls fail at a living service only for a client that goes
on presenting).

### Deadlock

The `registry`, `composition` and `device` runs check for deadlock; `device` has
besides its own statement, `NoDeadlock`, since some threads may wait for each
other while others go on. The remaining runs switch the check off because their
system may stop: the destructor has run, and the clock or the service stands
still at its bound.

### Fairness

`TopologySubscriber`: weak fairness of the worker, of the lease's clock and of
the destroying thread: threads are scheduled and binder calls return. Nothing
forces the service to publish, callbacks to arrive or calls to succeed.
`DisplayModes`: weak fairness of the thread and the clock.
`FrameDelivery`: weak fairness of the worker, of each presenting thread's
`Submit`, of the service finishing with a buffer it reads, and of SurfaceFlinger
presenting the frame it has or was asked for (`EmitRefresh`).
`DeviceLifetime`: weak fairness of every thread in what it has begun, the
handlers of the client included (they return), and strong fairness where a
thread waits for a mutex, since a mutex that comes free again and again is got
in the end. Nothing makes a client call, a snapshot arrive, a vsync come due or
the device close.

## Proofs

Every theorem is proved for all values of the constants, under the named
assumptions of the module (which TLC evaluates in the runs). The inductive
invariants `RegistryInv`, `SubscriberInv`, `SubscribedInv`, `ModesInv`,
`PhaseInv` and `LifetimeInv` are proved and not listed in a configuration; TLC
found them to hold on the same instances.

- `DisplayRegistryProofs`. `RegistryInv` says that the map becomes the topology
  once the rest of the running operation is done, and that the client agrees
  with the map on every id it is not about to be told of. `QuiescentAgreement`
  alone is not inductive, as it says nothing while an operation runs. From it
  follow the order of the events, distinct ports and the refinement.
- `TopologySubscriberProofs`. `SubscriberInv` ties the epoch to the connection:
  a callback that the applier would not drop comes from the instance the worker
  is connected to, and nothing in flight is newer than what is published. The
  refinement of `TopologyMirror` follows action by action. `AppliedStaysShown`
  is proved under the assumption that all layouts are valid, without which it
  is false (`subscriber_lost_snapshot`).
- `SubscribedRegistryProofs`. Every step of the composition is a step of the
  subscription or leaves it alone (`ComposedOfTheSubscription`), and a step of
  the registry or leaves it alone (`ComposedOfTheRegistry`, which shows too that
  the registry is called only with snapshots it accepts). So the theorems of
  both parts hold of the composition, without a proof of their own:
  `TopologyMirror`, the lease, and `HotplugFeed`. `SubscribedInv` couples the
  parts: the topology is always the one of the snapshot that counts as shown, a
  binder thread is in the registry only during its epoch, and the worker only
  before it ends. With the registry's agreement this gives
  `SnapshotReachesTheClient`. The promise at
  `AidlDisplayTopologySubscriber.cpp:255`, that a callback in flight finishes
  before the registry can be destroyed, is kept by `EndServiceEpoch` already: it
  locks the applier's mutex before the worker can be joined, so that `Stop`,
  whose lock the comment is about, finds nobody. The registry's
  theorems come through an `INSTANCE` of `DisplayRegistryProofs`; the lemmas
  `Same...` say that its operators are those of the model's own instance.
- `DisplayModesProofs`. `ModesInv`: the period the thread is heading for is the
  one of the active mode, and a report that will be believed is of the period
  that is running. `PhaseInv`: a phase not marked for reset began after the last
  change. `NoEarlyVsync` follows as an action property. `ImplementsModeSwitch`
  needs besides that the thread takes a change over only when it is due
  (`ReportInv`); its lemmas map the switches, the thread's steps and the clock
  to a switch, a change that takes effect no earlier than promised, and the
  passing of time.
- `FrameDeliveryProofs`. `DeliveryInvariant` proves `IdsAreUnique`,
  `GenerationScoped` and `RegistrationsAgree` together: the id a thread is about
  to submit is right because the service agrees with the cache, the service
  agrees because an id is given out once, and it is given out once because one
  thread registers at a time. `ImplementsHandover` maps every call to what it
  presents: registering is a stutter, a refusal a call that ends, and an accepted
  frame, whether its answer arrives or not, the service taking the target of that
  call, because the id names no other buffer. `BuffersStayBorrowed` is proved
  under the assumption that no answer of an accepted frame is lost
  (`~AnswersLost`), without which it is false (`delivery_lost_answer`).
- `DisplayCompositionProofs`. `FenceInv` gives each fence one owner: a call, a
  layer, the client target, or one of the ways it ended. Two parts make it
  inductive: a fence found anywhere was given before, and a call that is
  returning owns none. The hot-unplug theorem and the one on type changes are
  proved beside it from `TypeOK`.

- `DeviceLifetimeProofs`. `LifetimeInv` puts each kind of thread at its points,
  derives the owner of each mutex from them, and ties the life of a `Display`
  to its pointers: alive while the map, an insertion or a call has one, dying
  while exactly one thread is in its destructor. `OnePerId` is what makes it
  inductive: `InsertNext` has no destructor for an entry it overwrites, and needs
  none, as the id was erased before. For `NoDeadlock` every thread that waits is given a level, from the
  vsync thread (which waits for nobody) over the owner of the map's mutex up to
  the closing thread, and waits for lower levels only; a ring would have no
  lowest member. The other invariants follow from `LifetimeInv`.
- `ConversionProofs`. About the operators, for every input: the modes are a
  table whose ids are its indices, the initial configuration is in it, faster
  modes leave the ids of slower ones alone, the limit is advertised and nothing
  is faster; what `ConvertSnapshot` takes the registry takes; a resolved stride is
  exact and a resolved target usable. Attributes survive their `int32_t`, those of
  a snapshot's display as well as those of boot properties
  (`AttributesAreExact`, `ConvertedAttributesAreExact`), and an external display
  has one mode for each of its rates and starts in the active one: at most 60 Hz
  apart by at least 1 Hz, two rates never round to one period
  (`ConvertedModesAreItsRates`, for a second of at least 7200 units). For
  the EDID, of every port and name: it is 128 bytes whose sum is 0 modulo 256
  (`BuiltEdidIsValid`), displays on different ports have different ones
  (`EdidsDiffer`), and the name can be read back (`EdidTellsTheName`). The sum
  is a recursive function, and facts about it need induction over its index:
  instead of the library's induction theorem, which takes an operator, the
  proofs take the least index at which the fact fails (`LeastNatural`, from the
  well-foundedness of `<`).
- `EventsAreNews` and `NoVsyncBursts`, in the proofs of their components: the
  first follows from `RegistryInv`, the second from `BurstInv`, which says how
  far behind the clock a phase can be after each vsync of one instant.

Every invariant, action property and refinement that a passing run checks is
proved. Only the liveness properties (`ValidSnapshotIsShown`,
`VouchedDisplaysExpire`, `ShutdownCompletes`, `ChangesAreApplied`,
`DestructorReturns`, `StreamIsShown`, `OperationsEnd`) are model-checked alone:
fairness and `ENABLED` are out of the prover's reach.

## Not modelled

- The function table and capabilities of `HwcDevice` (constants), the getters
  that answer one, and the two-call protocol in which a getter first tells a
  size: they change no state.
- `Dump` and the statistics of the sinks: nothing reads them but a dump.
- Layer state that no code reads (z order, damage, transforms, colours).
- The allocator's calls themselves: `ClientTargetResolver` has what is made of
  their answers. `FrameDelivery` takes identities as distinct; whether those of
  the two metadata paths are is up to the allocators.
- Failed allocations, the wrap of 64-bit counters, build files and tests.

## Plan

The parts and their compositions are modelled: `SubscribedRegistry` for what
snapshots do to the client, `DeviceLifetime` for locks, threads and owners.
Every stateful component with a promise of its own has it as an abstract
specification: `HotplugFeed`, `TopologyMirror`, `ModeSwitch`, `TargetHandover`.
Open for later: one for the composition of a frame, whose ownership of fences is
now stated by `FenceHasOneHolder` and `FencesAreAccountedFor`.
