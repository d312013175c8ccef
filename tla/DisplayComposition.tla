------------------------ MODULE DisplayComposition ------------------------
(***************************************************************************)
(* One display between hot-plug and hot-unplug: the layers, the validated  *)
(* state and the client target of src/src/Display.cpp, under calls of      *)
(* several threads that look the display up first (WithDisplay in          *)
(* src/src/HwcDevice.cpp), and the acquire fences that come with the       *)
(* calls.  A fence is a file descriptor: whoever holds it has to close it  *)
(* or hand it on, once.                                                    *)
(*                                                                         *)
(* A call is a lookup that takes a shared_ptr, a step under the display's  *)
(* mutex_, and a return that drops the pointer; PresentDisplay also calls  *)
(* the frame sink, outside the mutex.  Whatever of a display, its layers   *)
(* or its client target only a dump or a getter of a constant reads is     *)
(* left out (modes are those of module DisplayModes).                      *)
(***************************************************************************)
EXTENDS Naturals

CONSTANTS Threads,      \* the threads of the composer
          Fences,       \* bound: the acquire fences there are
          NoFence,      \* the descriptor -1
          MaxLayers     \* bound: layers ever created

ASSUME CompositionAssumption ==
    /\ NoFence \notin Fences
    /\ MaxLayers \in Nat

VARIABLES
    attached,       \* the registry holds the display
    layers,         \* layers_: id to composition type and acquire fence
    nextLayer,      \* next_layer_id_
    typeChanges,    \* type_changes_: the layers that are to become CLIENT
    validated,      \* validated_
    targetFence,    \* client_target_acquire_fence_
    task,           \* the call of each thread
    given,          \* the fences that came with a call (history)
    closed,         \* those that were closed
    returned,       \* the present fences the client got
    abandoned       \* those of calls that returned BAD_DISPLAY

layerVars == <<layers, nextLayer, typeChanges, validated>>
fenceVars == <<given, closed, returned, abandoned>>
vars == <<attached, layerVars, targetFence, task, fenceVars>>

OptionalFence == Fences \cup {NoFence}
CompositionType == {"invalid", "client", "device"}
Layer == [type : CompositionType, fence : OptionalFence]

\* "call": the display was found; "submit": in FrameSink::Submit;
\* "return": about to drop the pointer.  The fence is the one the call owns.
Task == [pc : {"idle", "call", "submit", "return"}, fence : OptionalFence]

TypeOK ==
    /\ attached \in BOOLEAN
    /\ nextLayer \in Nat \ {0}
    /\ DOMAIN layers \subseteq 1 .. nextLayer - 1
    /\ layers \in [DOMAIN layers -> Layer]
    /\ typeChanges \subseteq DOMAIN layers
    /\ validated \in BOOLEAN
    /\ targetFence \in OptionalFence
    /\ task \in [Threads -> Task]
    /\ given \subseteq Fences
    /\ closed \subseteq Fences
    /\ returned \subseteq Fences
    /\ abandoned \subseteq Fences

NoCall == [pc |-> "idle", fence |-> NoFence]

Init ==
    /\ attached = TRUE
    /\ layers = [id \in {} |-> [type |-> "invalid", fence |-> NoFence]]
    /\ nextLayer = 1
    /\ typeChanges = {}
    /\ validated = FALSE
    /\ targetFence = NoFence
    /\ task = [t \in Threads |-> NoCall]
    /\ given = {}
    /\ closed = {}
    /\ returned = {}
    /\ abandoned = {}

----------------------------------------------------------------------------
(* Fences.                                                                 *)

LayerFences == {layers[id].fence : id \in DOMAIN layers} \cap Fences
TaskFences == {task[t].fence : t \in Threads} \cap Fences
TargetFences == {targetFence} \cap Fences
Held == LayerFences \cup TaskFences \cup TargetFences

\* unique_fd::reset, and the destructor of a unique_fd.
Close(fences) == closed' = closed \cup (fences \cap Fences)

Holders == {t \in Threads : task[t].pc # "idle"}

----------------------------------------------------------------------------
(* WithDisplay.                                                            *)

\* A call, with a fence if it takes one.
Lookup(t, fence) ==
    /\ task[t].pc = "idle"
    /\ fence \notin given
    /\ given' = given \cup ({fence} \cap Fences)
    /\ IF attached
       THEN /\ task' = [task EXCEPT ![t] = [pc |-> "call", fence |-> fence]]
            /\ UNCHANGED abandoned
       ELSE /\ abandoned' = abandoned \cup ({fence} \cap Fences)
            /\ UNCHANGED task
    /\ UNCHANGED <<attached, layerVars, targetFence, closed, returned>>

\* The last pointer is dropped: the display is destroyed.
DestroyDisplay ==
    /\ layers' = [id \in {} |-> [type |-> "invalid", fence |-> NoFence]]
    /\ typeChanges' = {}
    /\ validated' = FALSE
    /\ targetFence' = NoFence
    /\ Close(LayerFences \cup TargetFences)
    /\ UNCHANGED nextLayer

\* mutant: the registry takes the display down with calls in flight
HastyDetach ==
    /\ attached
    /\ attached' = FALSE
    /\ DestroyDisplay
    /\ UNCHANGED <<task, given, returned, abandoned>>

\* DisplayRegistry: Disconnect, or a snapshot without the display.
Detach ==
    /\ attached
    /\ attached' = FALSE
    /\ IF Holders = {}
       THEN DestroyDisplay
       ELSE UNCHANGED <<layerVars, targetFence, closed>>
    /\ UNCHANGED <<task, given, returned, abandoned>>

Return(t) ==
    /\ task[t].pc = "return"
    /\ task' = [task EXCEPT ![t] = NoCall]
    /\ IF ~attached /\ Holders = {t}
       THEN DestroyDisplay
       ELSE UNCHANGED <<layerVars, targetFence, closed>>
    /\ UNCHANGED <<attached, given, returned, abandoned>>

\* The method is through with its fence.
Done(t) == task' = [task EXCEPT ![t] = [pc |-> "return", fence |-> NoFence]]

----------------------------------------------------------------------------
(* Layers.                                                                 *)

\* A method that takes no fence, in its critical section.
Fenceless(t) == task[t].pc = "call" /\ task[t].fence = NoFence /\ Done(t)

CreateLayer(t) ==
    /\ Fenceless(t)
    /\ nextLayer <= MaxLayers
    /\ layers' = [id \in DOMAIN layers \cup {nextLayer} |->
                     IF id = nextLayer THEN [type |-> "invalid", fence |-> NoFence]
                     ELSE layers[id]]
    /\ nextLayer' = nextLayer + 1
    /\ validated' = FALSE
    /\ UNCHANGED <<attached, typeChanges, targetFence, fenceVars>>

\* mutant: the change of a layer that is gone stays in the list
DanglingChanges(layer) == typeChanges

ChangesWithout(layer) == typeChanges \ {layer}

DestroyLayer(t, layer) ==
    /\ Fenceless(t)
    /\ layer \in DOMAIN layers
    /\ layers' = [id \in DOMAIN layers \ {layer} |-> layers[id]]
    /\ typeChanges' = ChangesWithout(layer)
    /\ validated' = FALSE
    /\ Close({layers[layer].fence})
    /\ UNCHANGED <<attached, nextLayer, targetFence, given, returned, abandoned>>

\* mutant: the validated state survives a new composition type
StaleSetLayerCompositionType(t, layer, type) ==
    /\ Fenceless(t)
    /\ layer \in DOMAIN layers
    /\ layers' = [layers EXCEPT ![layer].type = type]
    /\ UNCHANGED <<attached, nextLayer, typeChanges, validated, targetFence, fenceVars>>

SetLayerCompositionType(t, layer, type) ==
    /\ Fenceless(t)
    /\ layer \in DOMAIN layers
    /\ layers' = [layers EXCEPT ![layer].type = type]
    /\ validated' = FALSE
    /\ UNCHANGED <<attached, nextLayer, typeChanges, targetFence, fenceVars>>

\* The call closes its fence when there is no such layer.
SetLayerBuffer(t, layer) ==
    /\ task[t].pc = "call"
    /\ IF layer \in DOMAIN layers
       THEN /\ layers' = [layers EXCEPT ![layer].fence = task[t].fence]
            /\ Close({layers[layer].fence})
       ELSE UNCHANGED layers /\ Close({task[t].fence})
    /\ Done(t)
    /\ UNCHANGED <<attached, nextLayer, typeChanges, validated, targetFence,
                   given, returned, abandoned>>

----------------------------------------------------------------------------
(* Composition.                                                            *)

NotClient == {id \in DOMAIN layers : layers[id].type # "client"}

\* Every layer is asked to become CLIENT, and gives its buffer up.
ValidateDisplay(t) ==
    /\ Fenceless(t)
    /\ layers' = [id \in DOMAIN layers |-> [layers[id] EXCEPT !.fence = NoFence]]
    /\ typeChanges' = NotClient
    /\ validated' = TRUE
    /\ Close(LayerFences)
    /\ UNCHANGED <<attached, nextLayer, targetFence, given, returned, abandoned>>

AcceptDisplayChanges(t) ==
    /\ Fenceless(t)
    /\ validated
    /\ layers' = [id \in DOMAIN layers |->
                     IF id \in typeChanges THEN [layers[id] EXCEPT !.type = "client"]
                     ELSE layers[id]]
    /\ typeChanges' = {}
    /\ UNCHANGED <<attached, nextLayer, validated, targetFence, fenceVars>>

\* mutant: the target before it is forgotten with its fence
ForgetfulReplace(t) == targetFence' = task[t].fence /\ UNCHANGED closed

ReplaceTarget(t) == targetFence' = task[t].fence /\ Close({targetFence})

\* The damage is rejected, and the fence is closed; or the target replaces
\* the one before it.
SetClientTarget(t) ==
    /\ task[t].pc = "call"
    /\ \/ UNCHANGED targetFence /\ Close({task[t].fence})
       \/ ReplaceTarget(t)
    /\ Done(t)
    /\ UNCHANGED <<attached, layerVars, given, returned, abandoned>>

\* There is no writeback: the release fence is closed.
SetOutputBuffer(t) ==
    /\ task[t].pc = "call"
    /\ Close({task[t].fence})
    /\ Done(t)
    /\ UNCHANGED <<attached, layerVars, targetFence, given, returned, abandoned>>

\* mutant: the fence is handed on and kept
KeptTarget == targetFence

TargetAfterTake == NoFence

\* PresentDisplay, its critical section (TakeFrameSubmissionLocked).
TakeFrameSubmission(t) ==
    /\ task[t].pc = "call"
    /\ task[t].fence = NoFence
    /\ validated
    /\ typeChanges = {}
    /\ task' = [task EXCEPT ![t] = [pc |-> "submit", fence |-> targetFence]]
    /\ targetFence' = TargetAfterTake
    /\ validated' = FALSE
    /\ UNCHANGED <<attached, layers, nextLayer, typeChanges, fenceVars>>

\* The sink owns the fence: it closes it for the fence of its consumer, or
\* returns it as the present fence.
SubmitReturns(t) ==
    /\ task[t].pc = "submit"
    /\ \/ Close({task[t].fence}) /\ UNCHANGED returned
       \/ returned' = returned \cup ({task[t].fence} \cap Fences) /\ UNCHANGED closed
    /\ Done(t)
    /\ UNCHANGED <<attached, layerVars, targetFence, given, abandoned>>

\* A method that fails, or one that changes nothing here.
NoEffect(t) == Fenceless(t) /\ UNCHANGED <<attached, layerVars, targetFence, fenceVars>>

Method(t) ==
    \/ CreateLayer(t)
    \/ \E layer \in 1 .. MaxLayers :
          \/ DestroyLayer(t, layer)
          \/ \E type \in CompositionType : SetLayerCompositionType(t, layer, type)
          \/ SetLayerBuffer(t, layer)
    \/ ValidateDisplay(t)
    \/ AcceptDisplayChanges(t)
    \/ SetClientTarget(t)
    \/ SetOutputBuffer(t)
    \/ TakeFrameSubmission(t)
    \/ SubmitReturns(t)
    \/ NoEffect(t)

Next ==
    \/ \E t \in Threads :
          \/ \E fence \in OptionalFence : Lookup(t, fence)
          \/ Method(t)
          \/ Return(t)
    \/ Detach

Spec == Init /\ [][Next]_vars

----------------------------------------------------------------------------
\* The changes a client is told of are those its layers still need: a frame
\* is only presented once every layer there is now is composed by the client,
\* whatever other threads did since it was validated (CLIENT composition only).
ChangesAreCurrent == validated => typeChanges = NotClient

\* A fence is in one place: two holders would close it twice, and the second
\* time the number may be another file (unique_fd, moved from hand to hand).
FenceHasOneHolder ==
    /\ \A t \in Threads : task[t].fence \in Fences =>
          task[t].fence \notin LayerFences \cup TargetFences \cup closed \cup returned
    /\ \A t, u \in Threads : task[t].fence = task[u].fence =>
          t = u \/ task[t].fence = NoFence
    /\ \A i, j \in DOMAIN layers : layers[i].fence = layers[j].fence =>
          i = j \/ layers[i].fence = NoFence
    /\ LayerFences \cap (TargetFences \cup closed \cup returned) = {}
    /\ TargetFences \cap (closed \cup returned) = {}
    /\ closed \cap returned = {}

\* No fence is lost: what was handed in is held, closed, or handed back, when
\* a target or a buffer is replaced, a layer goes, or the display is unplugged
\* under its calls (but for the calls that found no display).
FencesAreAccountedFor == given \subseteq Held \cup closed \cup returned \cup abandoned

\* A call in flight finds the display as it was: unplugging takes no layer
\* from it ("an in-flight HWC call can finish safely after hot-unplug").
InFlightCallsFinish ==
    [][Holders' # {} => \A id \in DOMAIN layers \ DOMAIN layers' :
          \E t \in Threads : task[t].pc = "call" /\ task'[t].pc = "return"]_vars

\* A call that fails closes the fence it was given.
FailedCallsCloseTheirFence == abandoned = {}
=============================================================================
