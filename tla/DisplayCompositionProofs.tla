---------------------- MODULE DisplayCompositionProofs ----------------------
(***************************************************************************)
(* That a validated frame stays valid only while its layers do, and that   *)
(* every acquire fence has one holder until it is closed or handed back,   *)
(* for any number of threads, layers and fences.                           *)
(***************************************************************************)
EXTENDS DisplayComposition, TLAPS

----------------------------------------------------------------------------
(* Types.                                                                  *)

LayersType ==
    /\ nextLayer \in Nat \ {0}
    /\ DOMAIN layers \subseteq 1 .. nextLayer - 1
    /\ layers \in [DOMAIN layers -> Layer]
    /\ typeChanges \subseteq DOMAIN layers
    /\ validated \in BOOLEAN

HistoryType ==
    /\ given \subseteq Fences
    /\ closed \subseteq Fences
    /\ returned \subseteq Fences
    /\ abandoned \subseteq Fences

\* The conjuncts of TypeOK, by what they are about.
LEMMA TypeParts ==
    /\ TypeOK <=> /\ attached \in BOOLEAN /\ LayersType /\ targetFence \in OptionalFence
                  /\ task \in [Threads -> Task] /\ HistoryType
    /\ TypeOK' <=> /\ attached' \in BOOLEAN /\ LayersType' /\ targetFence' \in OptionalFence
                   /\ task' \in [Threads -> Task] /\ HistoryType'
  BY Zenon DEF TypeOK, LayersType, HistoryType

LEMMA InitTypes == Init => TypeOK
<1> SUFFICES ASSUME Init PROVE TypeOK
  OBVIOUS
<1>1. LayersType
  <2>1. DOMAIN layers = {} /\ layers \in [{} -> Layer]
    BY DEF Init
  <2>2. nextLayer \in Nat \ {0} /\ typeChanges \subseteq {} /\ {} \subseteq 1 .. nextLayer - 1
    BY DEF Init
  <2>3. validated \in BOOLEAN
    BY Zenon DEF Init
  <2>4. QED
    BY <2>1, <2>2, <2>3, Zenon DEF LayersType
<1>2. task \in [Threads -> Task]
  BY DEF Init, NoCall, Task, OptionalFence
<1>3. QED
  BY <1>1, <1>2, TypeParts DEF Init, HistoryType, OptionalFence

\* A step of one thread replaces its task.
LEMMA TaskKept ==
    ASSUME task \in [Threads -> Task], NEW t \in Threads
    PROVE  /\ Done(t) => task' \in [Threads -> Task]
           /\ task' = [task EXCEPT ![t] = NoCall] => task' \in [Threads -> Task]
           /\ \A pc \in {"call", "submit"}, fence \in OptionalFence :
                 task' = [task EXCEPT ![t] = [pc |-> pc, fence |-> fence]]
                    => task' \in [Threads -> Task]
  BY DEF Done, NoCall, Task, OptionalFence

\* As far as the state goes, a writeback is a client target that is rejected.
LEMMA OutputBufferIsRejected ==
    ASSUME NEW t \in Threads
    PROVE  SetOutputBuffer(t) => SetClientTarget(t)
BY Zenon DEF SetOutputBuffer, SetClientTarget

\* What a critical section does to the layers keeps their types.
LEMMA LayersKept ==
    ASSUME TypeOK, NEW t \in Threads, Method(t)
    PROVE  LayersType'
<1>1. /\ LayersType
      /\ task[t].fence \in OptionalFence
  BY TypeParts DEF Task
<1>2. CASE UNCHANGED layerVars
  BY <1>1, <1>2, Zenon DEF LayersType, layerVars
<1>3. CASE CreateLayer(t)
  <2>1. /\ nextLayer' = nextLayer + 1 /\ typeChanges' = typeChanges
        /\ layers' = [id \in DOMAIN layers \cup {nextLayer} |->
                         IF id = nextLayer THEN [type |-> "invalid", fence |-> NoFence]
                         ELSE layers[id]]
        /\ validated' \in BOOLEAN
    BY <1>3 DEF CreateLayer
  <2>2. layers' \in [DOMAIN layers' -> Layer]
    BY <1>1, <2>1 DEF LayersType, Layer, OptionalFence, CompositionType
  <2>3. DOMAIN layers' \subseteq 1 .. nextLayer' - 1 /\ nextLayer' \in Nat \ {0}
    <3>1. nextLayer \in Nat \ {0} /\ DOMAIN layers \subseteq 1 .. nextLayer - 1
      BY <1>1 DEF LayersType
    <3>2. QED
      BY <2>1, <3>1
  <2>4. typeChanges' \subseteq DOMAIN layers'
    BY <1>1, <2>1 DEF LayersType
  <2>5. QED
    BY <2>1, <2>2, <2>3, <2>4, Zenon DEF LayersType
<1>4. ASSUME NEW layer, DestroyLayer(t, layer)
      PROVE  LayersType'
  <2>1. /\ nextLayer' = nextLayer /\ typeChanges' = typeChanges \ {layer}
        /\ layers' = [id \in DOMAIN layers \ {layer} |-> layers[id]]
        /\ validated' \in BOOLEAN
    BY <1>4 DEF DestroyLayer, ChangesWithout
  <2>2. QED
    BY <1>1, <2>1 DEF LayersType
<1>5. ASSUME NEW layer, NEW type \in CompositionType, SetLayerCompositionType(t, layer, type)
      PROVE  LayersType'
  <2>1. /\ layer \in DOMAIN layers /\ layers' = [layers EXCEPT ![layer].type = type]
        /\ UNCHANGED <<nextLayer, typeChanges>> /\ validated' \in BOOLEAN
    BY <1>5 DEF SetLayerCompositionType
  <2>2. layers' \in [DOMAIN layers -> Layer]
    BY <1>1, <2>1 DEF LayersType, Layer
  <2>3. QED
    BY <1>1, <2>1, <2>2 DEF LayersType
<1>6. ASSUME NEW layer, SetLayerBuffer(t, layer)
      PROVE  LayersType'
  <2>1. /\ \/ layers' = layers
           \/ layer \in DOMAIN layers /\ layers' = [layers EXCEPT ![layer].fence = task[t].fence]
        /\ UNCHANGED <<nextLayer, typeChanges, validated>>
    BY <1>6 DEF SetLayerBuffer
  <2>2. layers' \in [DOMAIN layers -> Layer]
    BY <1>1, <2>1 DEF LayersType, Layer
  <2>3. QED
    BY <1>1, <2>1, <2>2, Zenon DEF LayersType
<1>7. CASE ValidateDisplay(t)
  <2>1. /\ layers' = [id \in DOMAIN layers |-> [layers[id] EXCEPT !.fence = NoFence]]
        /\ typeChanges' \subseteq DOMAIN layers
        /\ nextLayer' = nextLayer /\ validated' \in BOOLEAN
    BY <1>7 DEF ValidateDisplay, NotClient
  <2>2. QED
    BY <1>1, <2>1 DEF LayersType, Layer, OptionalFence
<1>8. CASE AcceptDisplayChanges(t)
  <2>1. /\ layers' = [id \in DOMAIN layers |->
                         IF id \in typeChanges THEN [layers[id] EXCEPT !.type = "client"]
                         ELSE layers[id]]
        /\ typeChanges' = {} /\ UNCHANGED <<nextLayer, validated>>
    BY <1>8 DEF AcceptDisplayChanges
  <2>2. layers' \in [DOMAIN layers -> Layer]
    BY <1>1, <2>1 DEF LayersType, Layer, CompositionType
  <2>3. DOMAIN layers' = DOMAIN layers
    BY <2>1
  <2>4. QED
    BY <1>1, <2>1, <2>2, <2>3, Zenon DEF LayersType
<1>9. CASE TakeFrameSubmission(t)
  <2>1. UNCHANGED <<layers, nextLayer, typeChanges>> /\ validated' \in BOOLEAN
    BY <1>9 DEF TakeFrameSubmission
  <2>2. QED
    BY <1>1, <2>1, Zenon DEF LayersType
<1>10. SetClientTarget(t) \/ SubmitReturns(t) \/ NoEffect(t) => UNCHANGED layerVars
  BY Zenon DEF SetClientTarget, SubmitReturns, NoEffect
<1>11. QED
  BY <1>2, <1>3, <1>4, <1>5, <1>6, <1>7, <1>8, <1>9, <1>10,
     OutputBufferIsRejected DEF Method

LEMMA MethodTypes ==
    ASSUME TypeOK, NEW t \in Threads, Method(t)
    PROVE  TypeOK'
<1>1. /\ task \in [Threads -> Task] /\ task[t].fence \in OptionalFence
      /\ targetFence \in OptionalFence /\ HistoryType /\ LayersType
      /\ NoFence \in OptionalFence
  BY TypeParts DEF Task, OptionalFence
<1>2. UNCHANGED <<attached, given, abandoned>>
  BY Zenon DEF Method, CreateLayer, DestroyLayer, SetLayerCompositionType, SetLayerBuffer,
               ValidateDisplay, AcceptDisplayChanges, SetClientTarget, TakeFrameSubmission,
               SetOutputBuffer, SubmitReturns, NoEffect, fenceVars
<1>3. \/ UNCHANGED targetFence
      \/ targetFence' = task[t].fence
      \/ targetFence' = NoFence
  BY Zenon DEF Method, CreateLayer, DestroyLayer, SetLayerCompositionType, SetLayerBuffer,
               ValidateDisplay, AcceptDisplayChanges, SetClientTarget, ReplaceTarget,
               SetOutputBuffer, TakeFrameSubmission, TargetAfterTake, SubmitReturns, NoEffect
<1>4. UNCHANGED closed \/ \E fences : Close(fences)
  BY Zenon DEF Method, CreateLayer, DestroyLayer, SetLayerCompositionType, SetLayerBuffer,
               ValidateDisplay, AcceptDisplayChanges, SetClientTarget, ReplaceTarget,
               TakeFrameSubmission, SetOutputBuffer, SubmitReturns, NoEffect, fenceVars
<1>5. UNCHANGED returned \/ returned' = returned \cup ({task[t].fence} \cap Fences)
  BY Zenon DEF Method, CreateLayer, DestroyLayer, SetLayerCompositionType, SetLayerBuffer,
               ValidateDisplay, AcceptDisplayChanges, SetClientTarget,
               TakeFrameSubmission, SetOutputBuffer, SubmitReturns, NoEffect, fenceVars
<1>6. \/ Done(t)
      \/ task' = [task EXCEPT ![t] = [pc |-> "submit", fence |-> targetFence]]
  BY Zenon DEF Method, CreateLayer, DestroyLayer, SetLayerCompositionType, SetLayerBuffer,
               ValidateDisplay, AcceptDisplayChanges, SetClientTarget,
               TakeFrameSubmission, SetOutputBuffer, SubmitReturns, NoEffect, Fenceless
<1>7. task' \in [Threads -> Task]
  BY <1>1, <1>6, TaskKept
<1>8. HistoryType'
  BY <1>1, <1>2, <1>4, <1>5 DEF HistoryType, Close
<1>9. targetFence' \in OptionalFence
  BY <1>1, <1>3
<1>10. attached' \in BOOLEAN
  BY <1>2, TypeParts, Zenon
<1>11. QED
  BY <1>7, <1>8, <1>9, <1>10, LayersKept, TypeParts

\* The display with its layers goes, or stays as it is.
LEMMA DestroyTypes ==
    ASSUME TypeOK, DestroyDisplay \/ UNCHANGED <<layerVars, targetFence, closed>>,
           UNCHANGED <<given, returned, abandoned>>
    PROVE  LayersType' /\ targetFence' \in OptionalFence /\ HistoryType'
<1>1. LayersType /\ targetFence \in OptionalFence /\ HistoryType /\ NoFence \in OptionalFence
  BY TypeParts DEF OptionalFence
<1>2. CASE DestroyDisplay
  <2>1. /\ DOMAIN layers' = {} /\ layers' \in [{} -> Layer]
        /\ typeChanges' = {} /\ nextLayer' = nextLayer
        /\ targetFence' = NoFence
    BY <1>2 DEF DestroyDisplay
  <2>2. validated' \in BOOLEAN
    BY <1>2, Zenon DEF DestroyDisplay
  <2>3. /\ nextLayer' \in Nat \ {0} /\ typeChanges' \subseteq {}
        /\ {} \subseteq 1 .. nextLayer' - 1
    BY <1>1, <2>1 DEF LayersType
  <2>4. LayersType'
    BY <2>1, <2>2, <2>3, Zenon DEF LayersType
  <2>5. HistoryType'
    BY <1>1, <1>2 DEF DestroyDisplay, Close, HistoryType
  <2>6. QED
    BY <1>1, <2>1, <2>4, <2>5
<1>3. CASE UNCHANGED <<layerVars, targetFence, closed>>
  BY <1>1, <1>3, Zenon DEF LayersType, HistoryType, layerVars
<1>4. QED
  BY <1>2, <1>3

LEMMA TypeStep ==
    ASSUME TypeOK, [Next]_vars
    PROVE  TypeOK'
<1>1. ASSUME NEW t \in Threads, NEW fence \in OptionalFence, Lookup(t, fence)
      PROVE  TypeOK'
  <2>1. task' \in [Threads -> Task]
    BY <1>1, TaskKept, TypeParts DEF Lookup
  <2>2. HistoryType'
    BY <1>1, TypeParts DEF Lookup, HistoryType
  <2>3. UNCHANGED <<attached, layerVars, targetFence>>
    BY <1>1, Zenon DEF Lookup
  <2>4. LayersType' /\ targetFence' \in OptionalFence /\ attached' \in BOOLEAN
    BY <2>3, TypeParts, Zenon DEF LayersType, layerVars
  <2>5. QED
    BY <2>1, <2>2, <2>4, TypeParts
<1>2. ASSUME NEW t \in Threads, Return(t)
      PROVE  TypeOK'
  <2>1. /\ task' = [task EXCEPT ![t] = NoCall]
        /\ DestroyDisplay \/ UNCHANGED <<layerVars, targetFence, closed>>
        /\ UNCHANGED <<attached, given, returned, abandoned>>
    BY <1>2, Zenon DEF Return
  <2>2. attached' \in BOOLEAN
    BY <2>1, TypeParts, Zenon
  <2>3. QED
    BY <2>1, <2>2, DestroyTypes, TaskKept, TypeParts
<1>3. CASE Detach
  <2>1. /\ attached' \in BOOLEAN /\ task' = task
        /\ DestroyDisplay \/ UNCHANGED <<layerVars, targetFence, closed>>
        /\ UNCHANGED <<given, returned, abandoned>>
    BY <1>3, Zenon DEF Detach
  <2>2. QED
    BY <2>1, DestroyTypes, TypeParts
<1>4. CASE UNCHANGED vars
  BY <1>4, Zenon DEF vars, layerVars, fenceVars, TypeOK
<1>5. QED
  BY <1>1, <1>2, <1>3, <1>4, MethodTypes DEF Next

\* The state of the display, its callers and the fences has its types.
THEOREM TypeCorrect == Spec => []TypeOK
<1>1. TypeOK /\ [Next]_vars => TypeOK'
  BY TypeStep
<1>2. QED
  BY <1>1, InitTypes, PTL DEF Spec

----------------------------------------------------------------------------
(* The validated state.                                                    *)

LEMMA ChangesStep ==
    ASSUME TypeOK, ChangesAreCurrent, [Next]_vars
    PROVE  ChangesAreCurrent'
<1>1. ASSUME NEW t \in Threads, Method(t)
      PROVE  ChangesAreCurrent'
  <2>1. CASE UNCHANGED layerVars
    BY <2>1 DEF layerVars, ChangesAreCurrent, NotClient
  <2>2. CreateLayer(t) \/ TakeFrameSubmission(t) => validated' = FALSE
    BY DEF CreateLayer, TakeFrameSubmission
  <2>3. \A layer : DestroyLayer(t, layer) => validated' = FALSE
    BY DEF DestroyLayer
  <2>4. \A layer, type : SetLayerCompositionType(t, layer, type) => validated' = FALSE
    BY DEF SetLayerCompositionType
  <2>5. ASSUME NEW layer, SetLayerBuffer(t, layer)
        PROVE  ChangesAreCurrent'
    <3>1. /\ \/ layers' = layers
             \/ layer \in DOMAIN layers /\ layers' = [layers EXCEPT ![layer].fence = task[t].fence]
          /\ UNCHANGED <<typeChanges, validated>>
      BY <2>5 DEF SetLayerBuffer
    <3>2. layers \in [DOMAIN layers -> Layer]
      BY TypeParts DEF LayersType
    <3>3. DOMAIN layers' = DOMAIN layers /\ \A id \in DOMAIN layers : layers'[id].type = layers[id].type
      BY <3>1, <3>2 DEF Layer
    <3>4. QED
      BY <3>1, <3>3 DEF ChangesAreCurrent, NotClient
  <2>6. CASE ValidateDisplay(t)
    <3>1. /\ layers' = [id \in DOMAIN layers |-> [layers[id] EXCEPT !.fence = NoFence]]
          /\ typeChanges' = NotClient
      BY <2>6 DEF ValidateDisplay
    <3>2. layers \in [DOMAIN layers -> Layer]
      BY TypeParts DEF LayersType
    <3>3. DOMAIN layers' = DOMAIN layers /\ \A id \in DOMAIN layers : layers'[id].type = layers[id].type
      BY <3>1, <3>2 DEF Layer
    <3>4. QED
      BY <3>1, <3>3 DEF ChangesAreCurrent, NotClient
  <2>7. CASE AcceptDisplayChanges(t)
    <3>1. /\ layers' = [id \in DOMAIN layers |->
                           IF id \in typeChanges THEN [layers[id] EXCEPT !.type = "client"]
                           ELSE layers[id]]
          /\ typeChanges' = {} /\ validated
      BY <2>7 DEF AcceptDisplayChanges
    <3>2. layers \in [DOMAIN layers -> Layer]
      BY TypeParts DEF LayersType
    <3>3. DOMAIN layers' = DOMAIN layers
          /\ \A id \in DOMAIN layers : layers'[id].type = "client"
      BY <3>1, <3>2 DEF Layer, ChangesAreCurrent, NotClient
    <3>4. QED
      BY <3>1, <3>3 DEF ChangesAreCurrent, NotClient
  <2>8. SetClientTarget(t) \/ SubmitReturns(t) \/ NoEffect(t) => UNCHANGED layerVars
    BY Zenon DEF SetClientTarget, SubmitReturns, NoEffect
  <2>9. QED
    BY <1>1, <2>1, <2>2, <2>3, <2>4, <2>5, <2>6, <2>7, <2>8,
       OutputBufferIsRejected DEF Method, ChangesAreCurrent
<1>2. CASE UNCHANGED layerVars
  BY <1>2 DEF layerVars, ChangesAreCurrent, NotClient
<1>3. DestroyDisplay => ChangesAreCurrent'
  BY DEF DestroyDisplay, ChangesAreCurrent
<1>4. \/ \E t \in Threads : Method(t)
      \/ UNCHANGED layerVars
      \/ DestroyDisplay
  BY Zenon DEF Next, Lookup, Return, Detach, vars
<1>5. QED
  BY <1>1, <1>2, <1>3, <1>4

\* A validated frame's type changes are those its layers still need, so one
\* that is presented has only client layers.
THEOREM ChangesAlwaysCurrent == Spec => []ChangesAreCurrent
<1>1. Init => ChangesAreCurrent
  BY DEF Init, ChangesAreCurrent
<1>2. TypeOK /\ ChangesAreCurrent /\ [Next]_vars => ChangesAreCurrent'
  BY ChangesStep
<1>3. QED
  BY <1>1, <1>2, TypeCorrect, PTL DEF Spec

----------------------------------------------------------------------------
(* Fences.                                                                 *)

\* The two properties need each other, and two facts more: a fence that has
\* been anywhere was given, and a call that is over owns none.
CallsOwnTheirFence ==
    \A t \in Threads :
       /\ task[t].pc \in {"idle", "return"} => task[t].fence = NoFence
       /\ task[t].fence \in Fences =>
             /\ task[t].fence \in given \ (closed \cup returned)
             /\ task[t].fence # targetFence
             /\ \A id \in DOMAIN layers : layers[id].fence # task[t].fence
             /\ \A u \in Threads \ {t} : task[u].fence # task[t].fence

LayersOwnTheirFence ==
    \A id \in DOMAIN layers : layers[id].fence \in Fences =>
       /\ layers[id].fence \in given \ (closed \cup returned)
       /\ layers[id].fence # targetFence
       /\ \A j \in DOMAIN layers \ {id} : layers[j].fence # layers[id].fence

EndedOnce ==
    /\ targetFence \in Fences => targetFence \in given \ (closed \cup returned)
    /\ closed \cap returned = {}
    /\ closed \cup returned \subseteq given

Accounted ==
    \A f \in given :
       \/ f \in closed \cup returned \cup abandoned
       \/ f = targetFence
       \/ \E t \in Threads : task[t].fence = f
       \/ \E id \in DOMAIN layers : layers[id].fence = f

FenceInv == CallsOwnTheirFence /\ LayersOwnTheirFence /\ EndedOnce /\ Accounted

LEMMA FenceInvSuffices ==
    ASSUME TypeOK, FenceInv
    PROVE  FenceHasOneHolder /\ FencesAreAccountedFor
<1>1. /\ given \subseteq Fences /\ closed \subseteq Fences /\ returned \subseteq Fences
      /\ targetFence \in OptionalFence /\ task \in [Threads -> Task]
      /\ layers \in [DOMAIN layers -> Layer]
  BY DEF TypeOK
<1>2. /\ \A t \in Threads : task[t].fence \in OptionalFence
      /\ \A id \in DOMAIN layers : layers[id].fence \in OptionalFence
  BY <1>1 DEF Task, Layer
<1>3. FenceHasOneHolder
  BY <1>1, <1>2 DEF FenceInv, CallsOwnTheirFence, LayersOwnTheirFence, EndedOnce,
                    FenceHasOneHolder, LayerFences, TargetFences, OptionalFence
<1>4. FencesAreAccountedFor
  BY <1>1 DEF FenceInv, Accounted, FencesAreAccountedFor, Held, LayerFences, TaskFences,
              TargetFences
<1>5. QED
  BY <1>3, <1>4

\* Steps that hand no fence on: a call that owns none ends, or begins, and
\* new layers have none.
LEMMA QuietKeepsFences ==
    ASSUME TypeOK, FenceInv,
           \A t \in Threads : task'[t].fence = task[t].fence
                              /\ (task'[t].pc \in {"idle", "return"} => task[t].fence = NoFence),
           \A id \in DOMAIN layers :
              id \in DOMAIN layers' /\ layers'[id].fence = layers[id].fence,
           \A id \in DOMAIN layers' \ DOMAIN layers : layers'[id].fence = NoFence,
           UNCHANGED <<targetFence, fenceVars>>
    PROVE  FenceInv'
<1>1. UNCHANGED <<given, closed, returned, abandoned, targetFence>>
  BY DEF fenceVars
<1>2. CallsOwnTheirFence'
  BY <1>1, CompositionAssumption
     DEF CompositionAssumption, FenceInv, CallsOwnTheirFence
<1>3. LayersOwnTheirFence'
  BY <1>1, CompositionAssumption
     DEF CompositionAssumption, FenceInv, LayersOwnTheirFence
<1>4. EndedOnce' /\ Accounted'
  BY <1>1 DEF FenceInv, EndedOnce, Accounted
<1>5. QED
  BY <1>2, <1>3, <1>4 DEF FenceInv

\* A step of a thread, from the facts that the conjuncts of FenceInv share.
LEMMA TaskAfter ==
    ASSUME TypeOK, NEW t \in Threads, NEW k, task' = [task EXCEPT ![t] = k]
    PROVE  task'[t] = k /\ \A u \in Threads \ {t} : task'[u] = task[u]
  BY DEF TypeOK

LEMMA LayerStepsKeepFences ==
    ASSUME TypeOK, FenceInv, NEW t \in Threads,
           \/ CreateLayer(t)
           \/ \E layer, type : SetLayerCompositionType(t, layer, type)
           \/ AcceptDisplayChanges(t)
           \/ NoEffect(t)
    PROVE  FenceInv'
<1>1. /\ Fenceless(t) /\ UNCHANGED <<targetFence, fenceVars>>
  BY Zenon DEF CreateLayer, SetLayerCompositionType, AcceptDisplayChanges, NoEffect
<1>2. \A u \in Threads : task'[u].fence = task[u].fence
                         /\ (task'[u].pc \in {"idle", "return"} => task[u].fence = NoFence)
  BY <1>1, TaskAfter DEF Fenceless, Done, FenceInv, CallsOwnTheirFence
<1>3. layers \in [DOMAIN layers -> Layer]
  BY DEF TypeOK
<1>4. /\ \A id \in DOMAIN layers : id \in DOMAIN layers' /\ layers'[id].fence = layers[id].fence
      /\ \A id \in DOMAIN layers' \ DOMAIN layers : layers'[id].fence = NoFence
  <2>1. CASE CreateLayer(t)
    <3>1. layers' = [id \in DOMAIN layers \cup {nextLayer} |->
                        IF id = nextLayer THEN [type |-> "invalid", fence |-> NoFence]
                        ELSE layers[id]]
      BY <2>1 DEF CreateLayer
    <3>2. nextLayer \notin DOMAIN layers
      BY DEF TypeOK
    <3>3. QED
      BY <3>1, <3>2
  <2>2. ASSUME NEW layer, NEW type, SetLayerCompositionType(t, layer, type)
        PROVE  /\ DOMAIN layers' = DOMAIN layers
               /\ \A id \in DOMAIN layers : layers'[id].fence = layers[id].fence
    BY <1>3, <2>2 DEF SetLayerCompositionType, Layer
  <2>3. CASE AcceptDisplayChanges(t)
    BY <1>3, <2>3 DEF AcceptDisplayChanges, Layer
  <2>4. CASE NoEffect(t)
    BY <2>4 DEF NoEffect, layerVars
  <2>5. QED
    BY <2>1, <2>2, <2>3, <2>4
<1>5. QED
  BY <1>1, <1>2, <1>4, QuietKeepsFences

\* Steps that close fences of the display's layers and of its target, and
\* leave the tasks theirs.
LEMMA ClosingKeepsFences ==
    ASSUME TypeOK, FenceInv, NEW fences,
           \A t \in Threads : task'[t].fence = task[t].fence
                              /\ (task'[t].pc \in {"idle", "return"} => task[t].fence = NoFence),
           fences \subseteq {layers[id].fence : id \in DOMAIN layers} \cup {targetFence},
           \A id \in DOMAIN layers' : \/ layers'[id].fence = NoFence
                                      \/ /\ id \in DOMAIN layers
                                         /\ layers'[id].fence = layers[id].fence
                                         /\ layers[id].fence \notin fences,
           \A id \in DOMAIN layers : \/ layers[id].fence \in fences \cup {NoFence}
                                     \/ id \in DOMAIN layers' /\ layers'[id].fence = layers[id].fence,
           \/ targetFence' = targetFence /\ targetFence \notin fences \cap Fences
           \/ targetFence' = NoFence /\ targetFence \in fences \cup {NoFence},
           Close(fences),
           UNCHANGED <<given, returned, abandoned>>
    PROVE  FenceInv'
<1>1. /\ closed' = closed \cup (fences \cap Fences)
      /\ NoFence \notin Fences
      /\ given \subseteq Fences
  BY CompositionAssumption DEF Close, CompositionAssumption, TypeOK
<1>2. CallsOwnTheirFence'
  BY <1>1 DEF FenceInv, CallsOwnTheirFence
<1>3. LayersOwnTheirFence'
  BY <1>1 DEF FenceInv, LayersOwnTheirFence
<1>4. EndedOnce'
  BY <1>1 DEF FenceInv, EndedOnce, LayersOwnTheirFence
<1>5. Accounted'
  <2>1. \A f \in given : f \in fences => f \in closed'
    BY <1>1
  <2>2. QED
    BY <1>1, <2>1 DEF FenceInv, Accounted
<1>6. QED
  BY <1>2, <1>3, <1>4, <1>5 DEF FenceInv

LEMMA FencelessTasks ==
    ASSUME TypeOK, FenceInv, NEW t \in Threads, Fenceless(t)
    PROVE  \A u \in Threads : task'[u].fence = task[u].fence
                              /\ (task'[u].pc \in {"idle", "return"} => task[u].fence = NoFence)
  BY TaskAfter DEF Fenceless, Done, FenceInv, CallsOwnTheirFence

LEMMA DestroyLayerKeepsFences ==
    ASSUME TypeOK, FenceInv, NEW t \in Threads, NEW layer, DestroyLayer(t, layer)
    PROVE  FenceInv'
<1>1. /\ Fenceless(t) /\ layer \in DOMAIN layers
      /\ layers' = [id \in DOMAIN layers \ {layer} |-> layers[id]]
      /\ Close({layers[layer].fence})
      /\ UNCHANGED <<targetFence, given, returned, abandoned>>
  BY DEF DestroyLayer
<1>2. layers[layer].fence # NoFence => layers[layer].fence \in Fences
  BY <1>1 DEF TypeOK, Layer, OptionalFence
<1>3. /\ targetFence \notin {layers[layer].fence} \cap Fences
      /\ \A id \in DOMAIN layers' : id \in DOMAIN layers /\ layers'[id].fence = layers[id].fence
      /\ \A id \in DOMAIN layers' : \/ layers[id].fence = NoFence
                                    \/ layers[id].fence # layers[layer].fence
  BY <1>1, <1>2 DEF FenceInv, LayersOwnTheirFence
<1>4. \A id \in DOMAIN layers : \/ layers[id].fence = layers[layer].fence
                                \/ id \in DOMAIN layers' /\ layers'[id].fence = layers[id].fence
  BY <1>1
<1>5. QED
  BY <1>1, <1>3, <1>4, FencelessTasks, ClosingKeepsFences

LEMMA ValidateKeepsFences ==
    ASSUME TypeOK, FenceInv, NEW t \in Threads, ValidateDisplay(t)
    PROVE  FenceInv'
<1>1. /\ Fenceless(t)
      /\ layers' = [id \in DOMAIN layers |-> [layers[id] EXCEPT !.fence = NoFence]]
      /\ Close(LayerFences)
      /\ UNCHANGED <<targetFence, given, returned, abandoned>>
  BY DEF ValidateDisplay
<1>2. layers \in [DOMAIN layers -> Layer]
  BY DEF TypeOK
<1>3. \A id \in DOMAIN layers' : layers'[id].fence = NoFence
  BY <1>1, <1>2 DEF Layer
<1>4. \A id \in DOMAIN layers : layers[id].fence \in LayerFences \cup {NoFence}
  BY <1>2 DEF Layer, OptionalFence, LayerFences
<1>5. LayerFences \subseteq {layers[id].fence : id \in DOMAIN layers}
  BY DEF LayerFences
<1>6. targetFence \notin LayerFences \cap Fences
  BY DEF FenceInv, LayersOwnTheirFence, LayerFences
<1>7. QED
  BY <1>1, <1>3, <1>4, <1>5, <1>6, FencelessTasks, ClosingKeepsFences

\* The display goes with its layers' and its target's fences, whoever drops
\* the last pointer.
LEMMA DestroyKeepsFences ==
    ASSUME TypeOK, FenceInv, DestroyDisplay,
           \A t \in Threads : task'[t].fence = task[t].fence
                              /\ (task'[t].pc \in {"idle", "return"} => task[t].fence = NoFence),
           UNCHANGED <<given, returned, abandoned>>
    PROVE  FenceInv'
<1> DEFINE fences == LayerFences \cup TargetFences
<1>1. DOMAIN layers' = {} /\ targetFence' = NoFence /\ Close(fences)
  BY DEF DestroyDisplay
<1>2. \A id \in DOMAIN layers : layers[id].fence \in fences \cup {NoFence}
  BY DEF TypeOK, Layer, OptionalFence, LayerFences
<1>3. fences \subseteq {layers[id].fence : id \in DOMAIN layers} \cup {targetFence}
  BY DEF LayerFences, TargetFences
<1>4. targetFence \in fences \cup {NoFence}
  BY DEF TypeOK, OptionalFence, TargetFences
<1> HIDE DEF fences
<1>5. QED
  BY <1>1, <1>2, <1>3, <1>4, ClosingKeepsFences

\* Steps that move the fence of a call: to a layer, to the target, to the
\* sink, or to its end.
LEMMA SetLayerBufferKeepsFences ==
    ASSUME TypeOK, FenceInv, NEW t \in Threads, NEW layer, SetLayerBuffer(t, layer)
    PROVE  FenceInv'
<1>1. /\ task' = [task EXCEPT ![t] = [pc |-> "return", fence |-> NoFence]]
      /\ UNCHANGED <<targetFence, given, returned, abandoned>>
  BY DEF SetLayerBuffer, Done
<1>2. /\ task'[t] = [pc |-> "return", fence |-> NoFence]
      /\ \A u \in Threads \ {t} : task'[u] = task[u]
  BY <1>1, TaskAfter
<1>3. /\ NoFence \notin Fences /\ given \subseteq Fences
      /\ layers \in [DOMAIN layers -> Layer] /\ task[t].fence \in OptionalFence
  BY CompositionAssumption DEF CompositionAssumption, TypeOK, Task
<1>4. CASE layer \in DOMAIN layers
  <2>1. /\ layers' = [layers EXCEPT ![layer].fence = task[t].fence]
        /\ closed' = closed \cup ({layers[layer].fence} \cap Fences)
    BY <1>4 DEF SetLayerBuffer, Close
  <2>2. /\ DOMAIN layers' = DOMAIN layers /\ layers'[layer].fence = task[t].fence
        /\ \A id \in DOMAIN layers \ {layer} : layers'[id].fence = layers[id].fence
    BY <1>3, <1>4, <2>1 DEF Layer
  <2>3. CallsOwnTheirFence'
    BY <1>1, <1>2, <1>3, <1>4, <2>1, <2>2 DEF FenceInv, CallsOwnTheirFence
  <2>4. LayersOwnTheirFence'
    BY <1>1, <1>3, <1>4, <2>1, <2>2 DEF FenceInv, CallsOwnTheirFence, LayersOwnTheirFence
  <2>5. EndedOnce'
    BY <1>1, <1>4, <2>1 DEF FenceInv, EndedOnce, LayersOwnTheirFence
  <2>6. Accounted'
    BY <1>1, <1>2, <1>3, <1>4, <2>1, <2>2 DEF FenceInv, Accounted
  <2>7. QED
    BY <2>3, <2>4, <2>5, <2>6 DEF FenceInv
<1>5. CASE layer \notin DOMAIN layers
  <2>1. layers' = layers /\ closed' = closed \cup ({task[t].fence} \cap Fences)
    BY <1>5 DEF SetLayerBuffer, Close
  <2>2. CallsOwnTheirFence'
    BY <1>1, <1>2, <1>3, <2>1 DEF FenceInv, CallsOwnTheirFence
  <2>3. LayersOwnTheirFence'
    BY <1>1, <2>1 DEF FenceInv, CallsOwnTheirFence, LayersOwnTheirFence
  <2>4. EndedOnce'
    BY <1>1, <2>1 DEF FenceInv, EndedOnce, CallsOwnTheirFence
  <2>5. Accounted'
    BY <1>1, <1>2, <1>3, <2>1 DEF FenceInv, Accounted
  <2>6. QED
    BY <2>2, <2>3, <2>4, <2>5 DEF FenceInv
<1>6. QED
  BY <1>4, <1>5

LEMMA SetClientTargetKeepsFences ==
    ASSUME TypeOK, FenceInv, NEW t \in Threads, SetClientTarget(t)
    PROVE  FenceInv'
<1>1. /\ task' = [task EXCEPT ![t] = [pc |-> "return", fence |-> NoFence]]
      /\ UNCHANGED <<layers, given, returned, abandoned>>
      /\ \/ targetFence' = targetFence /\ closed' = closed \cup ({task[t].fence} \cap Fences)
         \/ targetFence' = task[t].fence /\ closed' = closed \cup ({targetFence} \cap Fences)
  BY DEF SetClientTarget, ReplaceTarget, Done, Close, layerVars
<1>2. /\ task'[t] = [pc |-> "return", fence |-> NoFence]
      /\ \A u \in Threads \ {t} : task'[u] = task[u]
  BY <1>1, TaskAfter
<1>3. NoFence \notin Fences /\ given \subseteq Fences
  BY CompositionAssumption DEF CompositionAssumption, TypeOK
<1>4. CallsOwnTheirFence'
  BY <1>1, <1>2, <1>3 DEF FenceInv, CallsOwnTheirFence
<1>5. LayersOwnTheirFence'
  BY <1>1, <1>3 DEF FenceInv, CallsOwnTheirFence, LayersOwnTheirFence
<1>6. EndedOnce'
  BY <1>1 DEF FenceInv, EndedOnce, CallsOwnTheirFence
<1>7. Accounted'
  BY <1>1, <1>2, <1>3 DEF FenceInv, Accounted
<1>8. QED
  BY <1>4, <1>5, <1>6, <1>7 DEF FenceInv

LEMMA TakeKeepsFences ==
    ASSUME TypeOK, FenceInv, NEW t \in Threads, TakeFrameSubmission(t)
    PROVE  FenceInv'
<1>1. /\ task' = [task EXCEPT ![t] = [pc |-> "submit", fence |-> targetFence]]
      /\ task[t].fence = NoFence /\ targetFence' = NoFence
      /\ UNCHANGED <<layers, given, closed, returned, abandoned>>
  BY DEF TakeFrameSubmission, TargetAfterTake, fenceVars
<1>2. /\ task'[t] = [pc |-> "submit", fence |-> targetFence]
      /\ \A u \in Threads \ {t} : task'[u] = task[u]
  BY <1>1, TaskAfter
<1>3. NoFence \notin Fences /\ given \subseteq Fences
  BY CompositionAssumption DEF CompositionAssumption, TypeOK
<1>4. CallsOwnTheirFence'
  BY <1>1, <1>2, <1>3 DEF FenceInv, CallsOwnTheirFence, LayersOwnTheirFence, EndedOnce
<1>5. LayersOwnTheirFence' /\ EndedOnce'
  BY <1>1, <1>3 DEF FenceInv, LayersOwnTheirFence, EndedOnce
<1>6. Accounted'
  BY <1>1, <1>2, <1>3 DEF FenceInv, Accounted
<1>7. QED
  BY <1>4, <1>5, <1>6 DEF FenceInv

LEMMA SubmitReturnsKeepsFences ==
    ASSUME TypeOK, FenceInv, NEW t \in Threads, SubmitReturns(t)
    PROVE  FenceInv'
<1>1. /\ task' = [task EXCEPT ![t] = [pc |-> "return", fence |-> NoFence]]
      /\ UNCHANGED <<layers, targetFence, given, abandoned>>
      /\ \/ returned' = returned /\ closed' = closed \cup ({task[t].fence} \cap Fences)
         \/ closed' = closed /\ returned' = returned \cup ({task[t].fence} \cap Fences)
  BY DEF SubmitReturns, Done, Close, layerVars
<1>2. /\ task'[t] = [pc |-> "return", fence |-> NoFence]
      /\ \A u \in Threads \ {t} : task'[u] = task[u]
  BY <1>1, TaskAfter
<1>3. NoFence \notin Fences /\ given \subseteq Fences
  BY CompositionAssumption DEF CompositionAssumption, TypeOK
<1>4. CallsOwnTheirFence'
  BY <1>1, <1>2, <1>3 DEF FenceInv, CallsOwnTheirFence
<1>5. LayersOwnTheirFence'
  BY <1>1 DEF FenceInv, CallsOwnTheirFence, LayersOwnTheirFence
<1>6. EndedOnce'
  BY <1>1 DEF FenceInv, EndedOnce, CallsOwnTheirFence
<1>7. Accounted'
  BY <1>1, <1>2, <1>3 DEF FenceInv, Accounted
<1>8. QED
  BY <1>4, <1>5, <1>6, <1>7 DEF FenceInv

\* A fence that nobody was given before comes with a call.
LEMMA LookupKeepsFences ==
    ASSUME TypeOK, FenceInv, NEW t \in Threads, NEW fence \in OptionalFence, Lookup(t, fence)
    PROVE  FenceInv'
<1>1. /\ task[t].pc = "idle" /\ task[t].fence = NoFence /\ fence \notin given
      /\ given' = given \cup ({fence} \cap Fences)
      /\ \/ /\ task' = [task EXCEPT ![t] = [pc |-> "call", fence |-> fence]]
            /\ abandoned' = abandoned
         \/ abandoned' = abandoned \cup ({fence} \cap Fences) /\ task' = task
      /\ UNCHANGED <<layers, targetFence, closed, returned>>
  BY DEF Lookup, layerVars, FenceInv, CallsOwnTheirFence
<1>2. /\ NoFence \notin Fences
      /\ fence \in Fences => /\ fence # targetFence /\ fence \notin closed \cup returned
                             /\ \A id \in DOMAIN layers : layers[id].fence # fence
                             /\ \A u \in Threads : task[u].fence # fence
  BY <1>1, CompositionAssumption
     DEF CompositionAssumption, FenceInv, CallsOwnTheirFence, LayersOwnTheirFence, EndedOnce
<1>3. CallsOwnTheirFence'
  <2>1. CASE task' = [task EXCEPT ![t] = [pc |-> "call", fence |-> fence]]
    BY <1>1, <1>2, <2>1, TaskAfter DEF FenceInv, CallsOwnTheirFence
  <2>2. CASE task' = task
    BY <1>1, <2>2 DEF FenceInv, CallsOwnTheirFence
  <2>3. QED
    BY <1>1, <2>1, <2>2
<1>4. LayersOwnTheirFence' /\ EndedOnce'
  BY <1>1 DEF FenceInv, LayersOwnTheirFence, EndedOnce
<1>5. Accounted'
  <2>1. CASE task' = [task EXCEPT ![t] = [pc |-> "call", fence |-> fence]]
             /\ abandoned' = abandoned
    BY <1>1, <1>2, <2>1, TaskAfter DEF FenceInv, Accounted, TypeOK
  <2>2. CASE task' = task /\ abandoned' = abandoned \cup ({fence} \cap Fences)
    BY <1>1, <2>2 DEF FenceInv, Accounted
  <2>3. QED
    BY <1>1, <2>1, <2>2
<1>6. QED
  BY <1>3, <1>4, <1>5 DEF FenceInv

LEMMA FenceStep ==
    ASSUME TypeOK, FenceInv, [Next]_vars
    PROVE  FenceInv'
<1>1. ASSUME NEW t \in Threads, Method(t)
      PROVE  FenceInv'
  BY <1>1, LayerStepsKeepFences, DestroyLayerKeepsFences, SetLayerBufferKeepsFences,
     ValidateKeepsFences, SetClientTargetKeepsFences, TakeKeepsFences,
     SubmitReturnsKeepsFences, OutputBufferIsRejected DEF Method
<1>2. ASSUME NEW t \in Threads, NEW fence \in OptionalFence, Lookup(t, fence)
      PROVE  FenceInv'
  BY <1>2, LookupKeepsFences
<1>3. ASSUME \/ DestroyDisplay
             \/ UNCHANGED <<layerVars, targetFence, closed>>,
             \A t \in Threads : task'[t].fence = task[t].fence
                                /\ (task'[t].pc \in {"idle", "return"} => task[t].fence = NoFence),
             UNCHANGED <<given, returned, abandoned>>
      PROVE  FenceInv'
  <2>1. CASE UNCHANGED <<layerVars, targetFence, closed>>
    BY <1>3, <2>1, QuietKeepsFences DEF layerVars, fenceVars
  <2>2. QED
    BY <1>3, <2>1, DestroyKeepsFences
<1>4. ASSUME NEW t \in Threads, Return(t)
      PROVE  FenceInv'
  <2>1. /\ task[t].pc = "return" /\ task' = [task EXCEPT ![t] = NoCall]
        /\ DestroyDisplay \/ UNCHANGED <<layerVars, targetFence, closed>>
        /\ UNCHANGED <<given, returned, abandoned>>
    BY <1>4, Zenon DEF Return
  <2>2. task'[t].fence = task[t].fence
    BY <2>1, TaskAfter DEF NoCall, FenceInv, CallsOwnTheirFence
  <2>3. \A u \in Threads : task'[u].fence = task[u].fence
                           /\ (task'[u].pc \in {"idle", "return"} => task[u].fence = NoFence)
    BY <2>1, <2>2, TaskAfter DEF FenceInv, CallsOwnTheirFence
  <2>4. QED
    BY <1>3, <2>1, <2>3
<1>5. CASE Detach
  <2>1. /\ task' = task
        /\ DestroyDisplay \/ UNCHANGED <<layerVars, targetFence, closed>>
        /\ UNCHANGED <<given, returned, abandoned>>
    BY <1>5, Zenon DEF Detach
  <2>2. QED
    BY <1>3, <2>1 DEF FenceInv, CallsOwnTheirFence
<1>6. CASE UNCHANGED vars
  <2>1. task' = task /\ UNCHANGED <<layers, targetFence, fenceVars>>
    BY <1>6 DEF vars, layerVars
  <2>2. QED
    BY <2>1, QuietKeepsFences DEF FenceInv, CallsOwnTheirFence
<1>7. QED
  BY <1>1, <1>2, <1>4, <1>5, <1>6 DEF Next

LEMMA InitFences == Init => FenceInv
  BY CompositionAssumption
     DEF CompositionAssumption, Init, FenceInv, CallsOwnTheirFence, LayersOwnTheirFence,
         EndedOnce, Accounted, NoCall

\* A fence is with its call, with a layer or the client target, or has ended in
\* one way only.
THEOREM FenceInvariant == Spec => []FenceInv
<1>1. TypeOK /\ FenceInv /\ [Next]_vars => FenceInv'
  BY FenceStep
<1>2. QED
  BY <1>1, InitFences, TypeCorrect, PTL DEF Spec

\* A fence has one holder, so nobody closes a descriptor twice.
THEOREM OneHolderPerFence == Spec => []FenceHasOneHolder
<1>1. TypeOK /\ FenceInv => FenceHasOneHolder
  BY FenceInvSuffices
<1>2. QED
  BY <1>1, TypeCorrect, FenceInvariant, PTL

\* A fence is held, closed or handed back, but for those of calls that found
\* no display.
THEOREM NoFenceIsLost == Spec => []FencesAreAccountedFor
<1>1. TypeOK /\ FenceInv => FencesAreAccountedFor
  BY FenceInvSuffices
<1>2. QED
  BY <1>1, TypeCorrect, FenceInvariant, PTL

----------------------------------------------------------------------------
(* Hot-unplug.                                                             *)

\* A call in flight keeps the layers: only a call that destroys one takes it
\* away, and the display goes with the last call.
THEOREM CallsFinishOnTheirDisplay == Spec => InFlightCallsFinish
<1> DEFINE Kept == Holders' # {} => \A id \in DOMAIN layers \ DOMAIN layers' :
                      \E t \in Threads : task[t].pc = "call" /\ task'[t].pc = "return"
<1>1. ASSUME TypeOK, [Next]_vars
      PROVE  Kept \/ UNCHANGED vars
  <2>1. ASSUME NEW t \in Threads, NEW layer, DestroyLayer(t, layer)
        PROVE  Kept
    <3>1. task[t].pc = "call" /\ task' = [task EXCEPT ![t] = [pc |-> "return", fence |-> NoFence]]
      BY <2>1 DEF DestroyLayer, Fenceless, Done
    <3>2. task'[t] = [pc |-> "return", fence |-> NoFence]
      BY <1>1, <3>1 DEF TypeOK
    <3>3. QED
      BY <3>1, <3>2
  <2>2. ASSUME NEW t \in Threads, Method(t), \A layer : ~DestroyLayer(t, layer)
        PROVE  DOMAIN layers \subseteq DOMAIN layers'
    <3>1. CASE CreateLayer(t)
      BY <3>1 DEF CreateLayer
    <3>2. CASE \E layer, type : SetLayerCompositionType(t, layer, type)
      BY <3>2 DEF SetLayerCompositionType
    <3>3. CASE \E layer : SetLayerBuffer(t, layer)
      BY <3>3 DEF SetLayerBuffer
    <3>4. CASE ValidateDisplay(t) \/ AcceptDisplayChanges(t)
      BY <3>4 DEF ValidateDisplay, AcceptDisplayChanges
    <3>5. CASE SetClientTarget(t) \/ TakeFrameSubmission(t) \/ SubmitReturns(t) \/ NoEffect(t)
      BY <3>5 DEF SetClientTarget, TakeFrameSubmission, SubmitReturns, NoEffect, layerVars
    <3>6. QED
      BY <2>2, <3>1, <3>2, <3>3, <3>4, <3>5, OutputBufferIsRejected DEF Method
  <2>3. ASSUME NEW t \in Threads, NEW fence \in OptionalFence, Lookup(t, fence)
        PROVE  DOMAIN layers \subseteq DOMAIN layers'
    BY <2>3 DEF Lookup, layerVars
  <2>4. ASSUME NEW t \in Threads, Return(t)
        PROVE  Kept
    <3>1. CASE Holders = {t}
      <4>1. task'[t] = NoCall /\ \A u \in Threads \ {t} : task'[u] = task[u]
        BY <1>1, <2>4 DEF Return, TypeOK
      <4>2. Holders' = {}
        BY <3>1, <4>1 DEF Holders, NoCall
      <4>3. QED
        BY <4>2
    <3>2. CASE Holders # {t}
      BY <2>4, <3>2 DEF Return, layerVars
    <3>3. QED
      BY <3>1, <3>2
  <2>5. CASE Detach
    <3>1. CASE Holders = {}
      BY <2>5, <3>1 DEF Detach, Holders
    <3>2. CASE Holders # {}
      BY <2>5, <3>2 DEF Detach, layerVars
    <3>3. QED
      BY <3>1, <3>2
  <2>6. ASSUME NEW t \in Threads, Method(t)
        PROVE  Kept
    BY <2>1, <2>2, <2>6
  <2>7. QED
    BY <1>1, <2>3, <2>4, <2>5, <2>6 DEF Next
<1>2. TypeOK /\ [Next]_vars => [Kept]_vars
  BY <1>1
<1>3. QED
  BY <1>2, TypeCorrect, PTL DEF Spec, InFlightCallsFinish
=============================================================================
