------------------------ MODULE DeviceLifetimeProofs ------------------------
(***************************************************************************)
(* Theorems about the lifetime of a device, for any number of client and   *)
(* binder threads and of Display objects: LifetimeInv is an invariant, and *)
(* the safety properties of DeviceLifetime follow from it.                 *)
(***************************************************************************)
EXTENDS DeviceLifetime, TLAPS

\* No two objects that may be built next are for the same id.
LEMMA OneConstructible ==
    \A o, p \in Constructible : IdOf[o] = IdOf[p] => o = p
<1>1. SUFFICES ASSUME NEW o \in Constructible, NEW p \in Constructible,
                      IdOf[o] = IdOf[p]
               PROVE  o = p
  OBVIOUS
<1>2. o = CHOOSE other \in Unborn : IdOf[other] = IdOf[o]
  BY DEF Constructible
<1>3. p = CHOOSE other \in Unborn : IdOf[other] = IdOf[p]
  BY DEF Constructible
<1>4. QED
  BY <1>1, <1>2, <1>3

\* What a snapshot leaves and brings has an id each.
LEMMA ReplaceKeepsOnePerId ==
    ASSUME TypeOK, ThreadPoints, Ownership, Pointers, OnePerId,
           NEW t \in Threads, ReplaceExternalDisplays(t)
    PROVE  OnePerId'
<1>1. PICK dropped \in SUBSET (displays \ {PrimaryObject}),
           new \in SUBSET Constructible :
        /\ \A o \in new, other \in displays \ dropped : IdOf[o] # IdOf[other]
        /\ erasing' = dropped
        /\ inserting' = new
  BY DEF ReplaceExternalDisplays
<1>2. displays' = displays
  BY DEF ReplaceExternalDisplays
<1>3. \A o, p \in new : o # p => IdOf[o] # IdOf[p]
  BY <1>1, OneConstructible
<1>4. QED
  BY <1>1, <1>2, <1>3 DEF OnePerId

\* Constructing the new displays takes no pointer to the others away.
LEMMA ReplaceKeepsPointers ==
    ASSUME TypeOK, ThreadPoints, Ownership, Pointers, OnePerId,
           NEW t \in Threads, ReplaceExternalDisplays(t)
    PROVE  Pointers'
<1>1. PICK new \in SUBSET Unborn :
        /\ inserting' = new
        /\ life' = [o \in Objects |-> IF o \in new THEN "alive" ELSE life[o]]
        /\ pc' = [u \in Threads |-> IF u = t THEN "change"
                                    ELSE IF u \in new THEN "loop" ELSE pc[u]]
  BY DEF ReplaceExternalDisplays, Constructible
<1>2. /\ pc[t] = "replace" /\ inserting = {}
      /\ UNCHANGED <<object, displays, enabled>>
  BY DEF ReplaceExternalDisplays, Ownership
<1>3. t \notin Objects /\ Objects \subseteq Threads
  BY <1>2 DEF ThreadPoints, Threads, Loops, Emitters
<1>4. \A o \in new : o \in Objects /\ life[o] = "unborn" /\ pc[o] = "unborn"
  BY DEF Unborn, Pointers
<1>5. \A u \in Threads :
        pc'[u] \in {"call", "join"} \/ pc[u] \in {"call", "join"}
            => pc'[u] = pc[u] /\ u \notin new /\ u # t
  BY <1>1, <1>2, <1>4
<1>6. \A o \in Objects : Holders(o)' = Holders(o)
  BY <1>2, <1>5 DEF Holders
<1>7. \A o \in Objects : o \notin new => life'[o] = life[o] /\ pc'[o] = pc[o]
  BY <1>1, <1>3
<1>8. \A o \in new : life'[o] = "alive" /\ pc'[o] = "loop"
  BY <1>1, <1>3, <1>4
<1>9. ASSUME NEW o \in Objects
      PROVE  /\ life'[o] = "unborn" <=> pc'[o] = "unborn"
             /\ life'[o] = "gone" => pc'[o] = "exited"
             /\ life'[o] = "alive" =>
                   o \in displays' \cup inserting' \/ Holders(o)' # {}
             /\ life'[o] = "dying" =>
                   \E u \in Threads : pc'[u] = "join" /\ object'[u] = o
             /\ o \in displays' \cup inserting' => life'[o] = "alive"
             /\ o \in inserting' \/ life'[o] = "unborn" =>
                   o \notin displays' \cup enabled'
             /\ o \in inserting' => pc'[o] \in {"loop", "exited"}
  <2>1. CASE o \in new
    BY <1>1, <1>2, <1>4, <1>8, <2>1 DEF Pointers
  <2>2. CASE o \notin new
    BY <1>1, <1>2, <1>5, <1>6, <1>7, <2>2 DEF Pointers
  <2>3. QED
    BY <2>1, <2>2
<1>10. ASSUME NEW u \in Threads
       PROVE  /\ pc'[u] = "call" =>
                    /\ object'[u] \in Objects \ inserting'
                    /\ life'[object'[u]] = "alive"
              /\ pc'[u] = "join" =>
                    object'[u] \in Objects /\ life'[object'[u]] = "dying"
  BY <1>1, <1>2, <1>4, <1>5, <1>7 DEF Pointers
<1>11. \A u, w \in Threads :
          pc'[u] = "join" /\ pc'[w] = "join" /\ object'[u] = object'[w] => u = w
  BY <1>2, <1>5 DEF Pointers
<1>12. QED
  BY <1>9, <1>10, <1>11 DEF Pointers

-----------------------------------------------------------------------------
(* Each part of LifetimeInv is preserved, given the others.                *)

\* A call works on a Display, so every pointer dropped is one.
LEMMA TypeStep ==
    ASSUME TypeOK, ThreadPoints, Pointers, [Next]_vars
    PROVE  TypeOK'
<1> USE LifetimeAssumption
    DEF LifetimeAssumption, Threads, Loops, Emitters, Appliers, TypeOK,
        ThreadPoints, Pointers, Operating, Point, EmitterPoint, ClosePoint,
        vars, locks, work, table
<1>1. ASSUME NEW t \in Threads, EmitVsync(t)
      PROVE  TypeOK'
  BY <1>1 DEF EmitVsync, Moves, GoTo
<1>2. ASSUME NEW t \in Threads, EmitRefresh(t)
      PROVE  TypeOK'
  BY <1>2 DEF EmitRefresh, Moves, GoTo
<1>3. ASSUME NEW t \in Threads, HandlerReturns(t)
      PROVE  TypeOK'
  BY <1>3 DEF HandlerReturns, Moves, GoTo, Resume, Rest
<1>4. ASSUME NEW t \in Threads, Exit(t)
      PROVE  TypeOK'
  BY <1>4 DEF Exit, Moves, GoTo
<1>5. ASSUME NEW t \in Threads, NEW on \in BOOLEAN, Return(t, on)
      PROVE  TypeOK'
  BY <1>5 DEF Return, GoTo, Destroy, Resume, Rest, LastPointer
<1>6. ASSUME NEW t \in Threads, Join(t)
      PROVE  TypeOK'
  BY <1>6 DEF Join, GoTo, Resume, Rest, Notify
<1>7. ASSUME NEW t \in Threads, EraseNext(t)
      PROVE  TypeOK'
  BY <1>7 DEF EraseNext, GoTo, Notify, Destroy, HasLeastId
<1>8. ASSUME NEW t \in Threads, InsertNext(t)
      PROVE  TypeOK'
  BY <1>8 DEF InsertNext, GoTo, Notify, HasLeastId, WithoutId
<1>9. ASSUME NEW t \in Threads, AnnounceNext(t)
      PROVE  TypeOK'
  BY <1>9 DEF AnnounceNext, GoTo, HasLeastId
<1>10. ASSUME NEW t \in Threads, Finish(t)
      PROVE  TypeOK'
  BY <1>10 DEF Finish, GoTo, Rest
<1>11. ASSUME NEW t \in Threads, GetDisplay(t)
      PROVE  TypeOK'
  BY <1>11 DEF GetDisplay, GoTo, Resume, Rest
<1>12. ASSUME NEW t \in Threads, ConnectedDisplayIds(t)
      PROVE  TypeOK'
  BY <1>12 DEF ConnectedDisplayIds, GoTo
<1>13. ASSUME NEW t \in Threads, NEW on \in BOOLEAN, SetHotplugCallback(t, on)
      PROVE  TypeOK'
  BY <1>13 DEF SetHotplugCallback, GoTo
<1>14. ASSUME NEW t \in Threads, Apply(t)
      PROVE  TypeOK'
  BY <1>14 DEF Apply, GoTo, Rest, Detached
<1>15. ASSUME NEW t \in Threads, ReplaceExternalDisplays(t)
      PROVE  TypeOK'
  BY <1>15 DEF ReplaceExternalDisplays, Constructible, Unborn
<1>16. ASSUME NEW t \in Threads,
             NEW descriptor \in Descriptors, NEW on \in BOOLEAN,
             RegisterCallback(t, descriptor, on)
      PROVE  TypeOK'
  BY <1>16 DEF RegisterCallback, CallerMayStart, Open
<1>17. ASSUME NEW t \in Threads, WithDisplay(t)
      PROVE  TypeOK'
  BY <1>17 DEF WithDisplay, CallerMayStart, Open, Moves, GoTo
<1>18. ASSUME NEW t \in Threads, BeginInstall(t)
      PROVE  TypeOK'
  BY <1>18 DEF BeginInstall, CallerMayStart, Open, Moves, GoTo
<1>19. ASSUME NEW t \in Threads, BeginApply(t)
      PROVE  TypeOK'
  BY <1>19 DEF BeginApply, Moves, GoTo, Rest
<1>20. CASE Close
  BY <1>20 DEF Close, GoTo, Open
<1>21. CASE Stop
  BY <1>21 DEF Stop, Moves, GoTo
<1>22. CASE JoinTopologyWorker
  BY <1>22 DEF JoinTopologyWorker, Moves, GoTo
<1>23. CASE DestroyNext
  BY <1>23 DEF DestroyNext, GoTo, Destroy
<1>24. CASE DropFactory
  BY <1>24 DEF DropFactory, GoTo
<1>25. CASE JoinEndpointWorker
  BY <1>25 DEF JoinEndpointWorker, Moves, GoTo
<1>26. CASE UNCHANGED vars
  BY <1>26
<1>27. QED
  BY <1>1, <1>2, <1>3, <1>4, <1>5, <1>6, <1>7, <1>8, <1>9, <1>10, <1>11,
      <1>12, <1>13, <1>14, <1>15, <1>16, <1>17, <1>18, <1>19, <1>20, <1>21,
      <1>22, <1>23, <1>24, <1>25, <1>26 DEF Next, Step, LockStep, BeginStep,
      CloseStep

\* Only the holder of hotplug_mutex_ resumes an operation.
LEMMA PointsStep ==
    ASSUME TypeOK, ThreadPoints, Ownership, Pointers, [Next]_vars
    PROVE  ThreadPoints'
<1> USE LifetimeAssumption
    DEF LifetimeAssumption, Threads, Loops, Emitters, Appliers, TypeOK,
        ThreadPoints, Ownership, Pointers, Operating, ClosePoint, vars, locks,
        work, table
<1>1. ASSUME NEW t \in Threads, EmitVsync(t)
      PROVE  ThreadPoints'
  BY <1>1 DEF EmitVsync, Moves, GoTo
<1>2. ASSUME NEW t \in Threads, EmitRefresh(t)
      PROVE  ThreadPoints'
  BY <1>2 DEF EmitRefresh, Moves, GoTo
<1>3. ASSUME NEW t \in Threads, HandlerReturns(t)
      PROVE  ThreadPoints'
  BY <1>3 DEF HandlerReturns, Moves, GoTo, Resume, Rest
<1>4. ASSUME NEW t \in Threads, Exit(t)
      PROVE  ThreadPoints'
  BY <1>4 DEF Exit, Moves, GoTo
<1>5. ASSUME NEW t \in Threads, NEW on \in BOOLEAN, Return(t, on)
      PROVE  ThreadPoints'
  BY <1>5 DEF Return, GoTo, Destroy, Resume, Rest, LastPointer
<1>6. ASSUME NEW t \in Threads, Join(t)
      PROVE  ThreadPoints'
  BY <1>6 DEF Join, GoTo, Resume, Rest, Notify
<1>7. ASSUME NEW t \in Threads, EraseNext(t)
      PROVE  ThreadPoints'
  BY <1>7 DEF EraseNext, GoTo, Notify, Destroy, HasLeastId
<1>8. ASSUME NEW t \in Threads, InsertNext(t)
      PROVE  ThreadPoints'
  BY <1>8 DEF InsertNext, GoTo, Notify, HasLeastId, WithoutId
<1>9. ASSUME NEW t \in Threads, AnnounceNext(t)
      PROVE  ThreadPoints'
  BY <1>9 DEF AnnounceNext, GoTo, HasLeastId
<1>10. ASSUME NEW t \in Threads, Finish(t)
      PROVE  ThreadPoints'
  BY <1>10 DEF Finish, GoTo, Rest
<1>11. ASSUME NEW t \in Threads, GetDisplay(t)
      PROVE  ThreadPoints'
  BY <1>11 DEF GetDisplay, GoTo, Resume, Rest
<1>12. ASSUME NEW t \in Threads, ConnectedDisplayIds(t)
      PROVE  ThreadPoints'
  BY <1>12 DEF ConnectedDisplayIds, GoTo
<1>13. ASSUME NEW t \in Threads, NEW on \in BOOLEAN, SetHotplugCallback(t, on)
      PROVE  ThreadPoints'
  BY <1>13 DEF SetHotplugCallback, GoTo
<1>14. ASSUME NEW t \in Threads, Apply(t)
      PROVE  ThreadPoints'
  BY <1>14 DEF Apply, GoTo, Rest, Detached
<1>15. ASSUME NEW t \in Threads, ReplaceExternalDisplays(t)
      PROVE  ThreadPoints'
  BY <1>15 DEF ReplaceExternalDisplays, Constructible, Unborn
<1>16. ASSUME NEW t \in Threads,
             NEW descriptor \in Descriptors, NEW on \in BOOLEAN,
             RegisterCallback(t, descriptor, on)
      PROVE  ThreadPoints'
  BY <1>16 DEF RegisterCallback, CallerMayStart, Open
<1>17. ASSUME NEW t \in Threads, WithDisplay(t)
      PROVE  ThreadPoints'
  BY <1>17 DEF WithDisplay, CallerMayStart, Open, Moves, GoTo
<1>18. ASSUME NEW t \in Threads, BeginInstall(t)
      PROVE  ThreadPoints'
  BY <1>18 DEF BeginInstall, CallerMayStart, Open, Moves, GoTo
<1>19. ASSUME NEW t \in Threads, BeginApply(t)
      PROVE  ThreadPoints'
  BY <1>19 DEF BeginApply, Moves, GoTo, Rest
<1>20. CASE Close
  BY <1>20 DEF Close, GoTo, Open
<1>21. CASE Stop
  BY <1>21 DEF Stop, Moves, GoTo
<1>22. CASE JoinTopologyWorker
  BY <1>22 DEF JoinTopologyWorker, Moves, GoTo
<1>23. CASE DestroyNext
  BY <1>23 DEF DestroyNext, GoTo, Destroy
<1>24. CASE DropFactory
  BY <1>24 DEF DropFactory, GoTo
<1>25. CASE JoinEndpointWorker
  BY <1>25 DEF JoinEndpointWorker, Moves, GoTo
<1>26. CASE UNCHANGED vars
  BY <1>26
<1>27. QED
  BY <1>1, <1>2, <1>3, <1>4, <1>5, <1>6, <1>7, <1>8, <1>9, <1>10, <1>11,
      <1>12, <1>13, <1>14, <1>15, <1>16, <1>17, <1>18, <1>19, <1>20, <1>21,
      <1>22, <1>23, <1>24, <1>25, <1>26 DEF Next, Step, LockStep, BeginStep,
      CloseStep

\* A mutex is released where the operation that took it ends.
LEMMA OwnershipStep ==
    ASSUME TypeOK, ThreadPoints, Ownership, TakenDown, [Next]_vars
    PROVE  Ownership'
<1> USE LifetimeAssumption
    DEF LifetimeAssumption, Threads, Loops, Emitters, Appliers, TypeOK,
        ThreadPoints, Ownership, Operating, ClosePoint, vars, locks, work,
        table
<1>1. ASSUME NEW t \in Threads, EmitVsync(t)
      PROVE  Ownership'
  BY <1>1 DEF EmitVsync, Moves, GoTo
<1>2. ASSUME NEW t \in Threads, EmitRefresh(t)
      PROVE  Ownership'
  BY <1>2 DEF EmitRefresh, Moves, GoTo
<1>3. ASSUME NEW t \in Threads, HandlerReturns(t)
      PROVE  Ownership'
  BY <1>3 DEF HandlerReturns, Moves, GoTo, Resume, Rest
<1>4. ASSUME NEW t \in Threads, Exit(t)
      PROVE  Ownership'
  BY <1>4 DEF Exit, Moves, GoTo
<1>5. ASSUME NEW t \in Threads, NEW on \in BOOLEAN, Return(t, on)
      PROVE  Ownership'
  BY <1>5 DEF Return, GoTo, Destroy, Resume, Rest, LastPointer
<1>6. ASSUME NEW t \in Threads, Join(t)
      PROVE  Ownership'
  BY <1>6 DEF Join, GoTo, Resume, Rest, Notify
<1>7. ASSUME NEW t \in Threads, EraseNext(t)
      PROVE  Ownership'
  BY <1>7 DEF EraseNext, GoTo, Notify, Destroy, HasLeastId
<1>8. ASSUME NEW t \in Threads, InsertNext(t)
      PROVE  Ownership'
  BY <1>8 DEF InsertNext, GoTo, Notify, HasLeastId, WithoutId
<1>9. ASSUME NEW t \in Threads, AnnounceNext(t)
      PROVE  Ownership'
  BY <1>9 DEF AnnounceNext, GoTo, HasLeastId
<1>10. ASSUME NEW t \in Threads, Finish(t)
      PROVE  Ownership'
  BY <1>10 DEF Finish, GoTo, Rest
<1>11. ASSUME NEW t \in Threads, GetDisplay(t)
      PROVE  Ownership'
  BY <1>11 DEF GetDisplay, GoTo, Resume, Rest
<1>12. ASSUME NEW t \in Threads, ConnectedDisplayIds(t)
      PROVE  Ownership'
  BY <1>12 DEF ConnectedDisplayIds, GoTo
<1>13. ASSUME NEW t \in Threads, NEW on \in BOOLEAN, SetHotplugCallback(t, on)
      PROVE  Ownership'
  BY <1>13 DEF SetHotplugCallback, GoTo
<1>14. ASSUME NEW t \in Threads, Apply(t)
      PROVE  Ownership'
  BY <1>14 DEF Apply, GoTo, Rest, Detached
<1>15. ASSUME NEW t \in Threads, ReplaceExternalDisplays(t)
      PROVE  Ownership'
  BY <1>15 DEF ReplaceExternalDisplays, Constructible, Unborn
<1>16. ASSUME NEW t \in Threads,
             NEW descriptor \in Descriptors, NEW on \in BOOLEAN,
             RegisterCallback(t, descriptor, on)
      PROVE  Ownership'
  BY <1>16 DEF RegisterCallback, CallerMayStart, Open
<1>17. ASSUME NEW t \in Threads, WithDisplay(t)
      PROVE  Ownership'
  BY <1>17 DEF WithDisplay, CallerMayStart, Open, Moves, GoTo
<1>18. ASSUME NEW t \in Threads, BeginInstall(t)
      PROVE  Ownership'
  BY <1>18 DEF BeginInstall, CallerMayStart, Open, Moves, GoTo
<1>19. ASSUME NEW t \in Threads, BeginApply(t)
      PROVE  Ownership'
  BY <1>19 DEF BeginApply, Moves, GoTo, Rest
<1>20. CASE Close
  BY <1>20 DEF Close, GoTo, Open
<1>21. CASE Stop
  BY <1>21 DEF Stop, Moves, GoTo
<1>22. CASE JoinTopologyWorker
  BY <1>22 DEF JoinTopologyWorker, Moves, GoTo
<1>23. CASE DestroyNext
  BY <1>23 DEF DestroyNext, GoTo, Destroy
<1>24. CASE DropFactory
  BY <1>24 DEF DropFactory, GoTo
<1>25. CASE JoinEndpointWorker
  BY <1>25 DEF JoinEndpointWorker, Moves, GoTo
<1>26. CASE UNCHANGED vars
  BY <1>26
<1>27. QED
  BY <1>1, <1>2, <1>3, <1>4, <1>5, <1>6, <1>7, <1>8, <1>9, <1>10, <1>11,
      <1>12, <1>13, <1>14, <1>15, <1>16, <1>17, <1>18, <1>19, <1>20, <1>21,
      <1>22, <1>23, <1>24, <1>25, <1>26 DEF Next, Step, LockStep, BeginStep,
      CloseStep

\* A destructor begins only where the last pointer goes.
LEMMA PointersStep ==
    ASSUME TypeOK, ThreadPoints, Ownership, Pointers,
           OnePerId, TakenDown, [Next]_vars
    PROVE  Pointers'
<1> USE LifetimeAssumption
    DEF LifetimeAssumption, Threads, Loops, Emitters, Appliers, TypeOK,
        ThreadPoints, Ownership, Pointers, OnePerId, TakenDown, Holders, Open,
        Detached, Operating, ClosePoint, vars, locks, work, table
<1>1. ASSUME NEW t \in Threads, EmitVsync(t)
      PROVE  Pointers'
  BY <1>1 DEF EmitVsync, Moves, GoTo
<1>2. ASSUME NEW t \in Threads, EmitRefresh(t)
      PROVE  Pointers'
  BY <1>2 DEF EmitRefresh, Moves, GoTo
<1>3. ASSUME NEW t \in Threads, HandlerReturns(t)
      PROVE  Pointers'
  BY <1>3 DEF HandlerReturns, Moves, GoTo, Resume, Rest
<1>4. ASSUME NEW t \in Threads, Exit(t)
      PROVE  Pointers'
  BY <1>4 DEF Exit, Moves, GoTo
<1>5. ASSUME NEW t \in Threads, NEW on \in BOOLEAN, Return(t, on)
      PROVE  Pointers'
  BY <1>5 DEF Return, GoTo, Destroy, Resume, Rest, LastPointer
<1>6. ASSUME NEW t \in Threads, Join(t)
      PROVE  Pointers'
  BY <1>6 DEF Join, GoTo, Resume, Rest, Notify
<1>7. ASSUME NEW t \in Threads, EraseNext(t)
      PROVE  Pointers'
  BY <1>7 DEF EraseNext, GoTo, Notify, Destroy, HasLeastId
<1>8. ASSUME NEW t \in Threads, InsertNext(t)
      PROVE  Pointers'
  BY <1>8 DEF InsertNext, GoTo, Notify, HasLeastId, WithoutId
<1>9. ASSUME NEW t \in Threads, AnnounceNext(t)
      PROVE  Pointers'
  BY <1>9 DEF AnnounceNext, GoTo, HasLeastId
<1>10. ASSUME NEW t \in Threads, Finish(t)
      PROVE  Pointers'
  BY <1>10 DEF Finish, GoTo, Rest
<1>11. ASSUME NEW t \in Threads, GetDisplay(t)
      PROVE  Pointers'
  BY <1>11 DEF GetDisplay, GoTo, Resume, Rest
<1>12. ASSUME NEW t \in Threads, ConnectedDisplayIds(t)
      PROVE  Pointers'
  BY <1>12 DEF ConnectedDisplayIds, GoTo
<1>13. ASSUME NEW t \in Threads, NEW on \in BOOLEAN, SetHotplugCallback(t, on)
      PROVE  Pointers'
  BY <1>13 DEF SetHotplugCallback, GoTo
<1>14. ASSUME NEW t \in Threads, Apply(t)
      PROVE  Pointers'
  BY <1>14 DEF Apply, GoTo, Rest
<1>15. ASSUME NEW t \in Threads, ReplaceExternalDisplays(t)
      PROVE  Pointers'
  BY <1>15, ReplaceKeepsPointers
<1>16. ASSUME NEW t \in Threads,
             NEW descriptor \in Descriptors, NEW on \in BOOLEAN,
             RegisterCallback(t, descriptor, on)
      PROVE  Pointers'
  BY <1>16 DEF RegisterCallback, CallerMayStart
<1>17. ASSUME NEW t \in Threads, WithDisplay(t)
      PROVE  Pointers'
  BY <1>17 DEF WithDisplay, CallerMayStart, Moves, GoTo
<1>18. ASSUME NEW t \in Threads, BeginInstall(t)
      PROVE  Pointers'
  BY <1>18 DEF BeginInstall, CallerMayStart, Moves, GoTo
<1>19. ASSUME NEW t \in Threads, BeginApply(t)
      PROVE  Pointers'
  BY <1>19 DEF BeginApply, Moves, GoTo, Rest
<1>20. CASE Close
  BY <1>20 DEF Close, GoTo
<1>21. CASE Stop
  BY <1>21 DEF Stop, Moves, GoTo
<1>22. CASE JoinTopologyWorker
  BY <1>22 DEF JoinTopologyWorker, Moves, GoTo
<1>23. CASE DestroyNext
  BY <1>23 DEF DestroyNext, GoTo, Destroy
<1>24. CASE DropFactory
  BY <1>24 DEF DropFactory, GoTo
<1>25. CASE JoinEndpointWorker
  BY <1>25 DEF JoinEndpointWorker, Moves, GoTo
<1>26. CASE UNCHANGED vars
  BY <1>26
<1>27. QED
  BY <1>1, <1>2, <1>3, <1>4, <1>5, <1>6, <1>7, <1>8, <1>9, <1>10, <1>11,
      <1>12, <1>13, <1>14, <1>15, <1>16, <1>17, <1>18, <1>19, <1>20, <1>21,
      <1>22, <1>23, <1>24, <1>25, <1>26 DEF Next, Step, LockStep, BeginStep,
      CloseStep

\* An insertion never overwrites an entry.
LEMMA OnePerIdStep ==
    ASSUME TypeOK, ThreadPoints, Ownership, Pointers,
           OnePerId, TakenDown, [Next]_vars
    PROVE  OnePerId'
<1> USE LifetimeAssumption
    DEF LifetimeAssumption, Threads, Loops, Emitters, Appliers, TypeOK,
        ThreadPoints, Ownership, Pointers, OnePerId, TakenDown, Open,
        Detached, Operating, ClosePoint, vars, locks, work, table
<1>1. ASSUME NEW t \in Threads, EmitVsync(t)
      PROVE  OnePerId'
  BY <1>1 DEF EmitVsync, Moves, GoTo
<1>2. ASSUME NEW t \in Threads, EmitRefresh(t)
      PROVE  OnePerId'
  BY <1>2 DEF EmitRefresh, Moves, GoTo
<1>3. ASSUME NEW t \in Threads, HandlerReturns(t)
      PROVE  OnePerId'
  BY <1>3 DEF HandlerReturns, Moves, GoTo, Resume, Rest
<1>4. ASSUME NEW t \in Threads, Exit(t)
      PROVE  OnePerId'
  BY <1>4 DEF Exit, Moves, GoTo
<1>5. ASSUME NEW t \in Threads, NEW on \in BOOLEAN, Return(t, on)
      PROVE  OnePerId'
  BY <1>5 DEF Return, GoTo, Destroy, Resume, Rest, LastPointer
<1>6. ASSUME NEW t \in Threads, Join(t)
      PROVE  OnePerId'
  BY <1>6 DEF Join, GoTo, Resume, Rest, Notify
<1>7. ASSUME NEW t \in Threads, EraseNext(t)
      PROVE  OnePerId'
  BY <1>7 DEF EraseNext, GoTo, Notify, Destroy, HasLeastId
<1>8. ASSUME NEW t \in Threads, InsertNext(t)
      PROVE  OnePerId'
  BY <1>8 DEF InsertNext, GoTo, Notify, HasLeastId, WithoutId
<1>9. ASSUME NEW t \in Threads, AnnounceNext(t)
      PROVE  OnePerId'
  BY <1>9 DEF AnnounceNext, GoTo, HasLeastId
<1>10. ASSUME NEW t \in Threads, Finish(t)
      PROVE  OnePerId'
  BY <1>10 DEF Finish, GoTo, Rest
<1>11. ASSUME NEW t \in Threads, GetDisplay(t)
      PROVE  OnePerId'
  BY <1>11 DEF GetDisplay, GoTo, Resume, Rest
<1>12. ASSUME NEW t \in Threads, ConnectedDisplayIds(t)
      PROVE  OnePerId'
  BY <1>12 DEF ConnectedDisplayIds, GoTo
<1>13. ASSUME NEW t \in Threads, NEW on \in BOOLEAN, SetHotplugCallback(t, on)
      PROVE  OnePerId'
  BY <1>13 DEF SetHotplugCallback, GoTo
<1>14. ASSUME NEW t \in Threads, Apply(t)
      PROVE  OnePerId'
  BY <1>14 DEF Apply, GoTo, Rest
<1>15. ASSUME NEW t \in Threads, ReplaceExternalDisplays(t)
      PROVE  OnePerId'
  BY <1>15, ReplaceKeepsOnePerId
<1>16. ASSUME NEW t \in Threads,
             NEW descriptor \in Descriptors, NEW on \in BOOLEAN,
             RegisterCallback(t, descriptor, on)
      PROVE  OnePerId'
  BY <1>16 DEF RegisterCallback, CallerMayStart
<1>17. ASSUME NEW t \in Threads, WithDisplay(t)
      PROVE  OnePerId'
  BY <1>17 DEF WithDisplay, CallerMayStart, Moves, GoTo
<1>18. ASSUME NEW t \in Threads, BeginInstall(t)
      PROVE  OnePerId'
  BY <1>18 DEF BeginInstall, CallerMayStart, Moves, GoTo
<1>19. ASSUME NEW t \in Threads, BeginApply(t)
      PROVE  OnePerId'
  BY <1>19 DEF BeginApply, Moves, GoTo, Rest
<1>20. CASE Close
  BY <1>20 DEF Close, GoTo
<1>21. CASE Stop
  BY <1>21 DEF Stop, Moves, GoTo
<1>22. CASE JoinTopologyWorker
  BY <1>22 DEF JoinTopologyWorker, Moves, GoTo
<1>23. CASE DestroyNext
  BY <1>23 DEF DestroyNext, GoTo, Destroy
<1>24. CASE DropFactory
  BY <1>24 DEF DropFactory, GoTo
<1>25. CASE JoinEndpointWorker
  BY <1>25 DEF JoinEndpointWorker, Moves, GoTo
<1>26. CASE UNCHANGED vars
  BY <1>26
<1>27. QED
  BY <1>1, <1>2, <1>3, <1>4, <1>5, <1>6, <1>7, <1>8, <1>9, <1>10, <1>11,
      <1>12, <1>13, <1>14, <1>15, <1>16, <1>17, <1>18, <1>19, <1>20, <1>21,
      <1>22, <1>23, <1>24, <1>25, <1>26 DEF Next, Step, LockStep, BeginStep,
      CloseStep

\* What has been stopped or joined stays so.
LEMMA TakenDownStep ==
    ASSUME TypeOK, ThreadPoints, Ownership, Pointers,
           TakenDown, [Next]_vars
    PROVE  TakenDown'
<1> USE LifetimeAssumption
    DEF LifetimeAssumption, Threads, Loops, Emitters, Appliers, TypeOK,
        ThreadPoints, Ownership, Pointers, TakenDown, Open, Detached, Holders,
        Operating, ClosePoint, vars, locks, work, table
<1>1. ASSUME NEW t \in Threads, EmitVsync(t)
      PROVE  TakenDown'
  BY <1>1 DEF EmitVsync, Moves, GoTo
<1>2. ASSUME NEW t \in Threads, EmitRefresh(t)
      PROVE  TakenDown'
  BY <1>2 DEF EmitRefresh, Moves, GoTo
<1>3. ASSUME NEW t \in Threads, HandlerReturns(t)
      PROVE  TakenDown'
  BY <1>3 DEF HandlerReturns, Moves, GoTo, Resume, Rest
<1>4. ASSUME NEW t \in Threads, Exit(t)
      PROVE  TakenDown'
  BY <1>4 DEF Exit, Moves, GoTo
<1>5. ASSUME NEW t \in Threads, NEW on \in BOOLEAN, Return(t, on)
      PROVE  TakenDown'
  BY <1>5 DEF Return, GoTo, Destroy, Resume, Rest, LastPointer
<1>6. ASSUME NEW t \in Threads, Join(t)
      PROVE  TakenDown'
  BY <1>6 DEF Join, GoTo, Resume, Rest, Notify
<1>7. ASSUME NEW t \in Threads, EraseNext(t)
      PROVE  TakenDown'
  BY <1>7 DEF EraseNext, GoTo, Notify, Destroy, HasLeastId
<1>8. ASSUME NEW t \in Threads, InsertNext(t)
      PROVE  TakenDown'
  BY <1>8 DEF InsertNext, GoTo, Notify, HasLeastId, WithoutId
<1>9. ASSUME NEW t \in Threads, AnnounceNext(t)
      PROVE  TakenDown'
  BY <1>9 DEF AnnounceNext, GoTo, HasLeastId
<1>10. ASSUME NEW t \in Threads, Finish(t)
      PROVE  TakenDown'
  BY <1>10 DEF Finish, GoTo, Rest
<1>11. ASSUME NEW t \in Threads, GetDisplay(t)
      PROVE  TakenDown'
  BY <1>11 DEF GetDisplay, GoTo, Resume, Rest
<1>12. ASSUME NEW t \in Threads, ConnectedDisplayIds(t)
      PROVE  TakenDown'
  BY <1>12 DEF ConnectedDisplayIds, GoTo
<1>13. ASSUME NEW t \in Threads, NEW on \in BOOLEAN, SetHotplugCallback(t, on)
      PROVE  TakenDown'
  BY <1>13 DEF SetHotplugCallback, GoTo
<1>14. ASSUME NEW t \in Threads, Apply(t)
      PROVE  TakenDown'
  BY <1>14 DEF Apply, GoTo, Rest
<1>15. ASSUME NEW t \in Threads, ReplaceExternalDisplays(t)
      PROVE  TakenDown'
  BY <1>15 DEF ReplaceExternalDisplays, Constructible, Unborn
<1>16. ASSUME NEW t \in Threads,
             NEW descriptor \in Descriptors, NEW on \in BOOLEAN,
             RegisterCallback(t, descriptor, on)
      PROVE  TakenDown'
  BY <1>16 DEF RegisterCallback, CallerMayStart
<1>17. ASSUME NEW t \in Threads, WithDisplay(t)
      PROVE  TakenDown'
  BY <1>17 DEF WithDisplay, CallerMayStart, Moves, GoTo
<1>18. ASSUME NEW t \in Threads, BeginInstall(t)
      PROVE  TakenDown'
  BY <1>18 DEF BeginInstall, CallerMayStart, Moves, GoTo
<1>19. ASSUME NEW t \in Threads, BeginApply(t)
      PROVE  TakenDown'
  BY <1>19 DEF BeginApply, Moves, GoTo, Rest
<1>20. CASE Close
  BY <1>20 DEF Close, GoTo
<1>21. CASE Stop
  BY <1>21 DEF Stop, Moves, GoTo
<1>22. CASE JoinTopologyWorker
  BY <1>22 DEF JoinTopologyWorker, Moves, GoTo
<1>23. CASE DestroyNext
  BY <1>23 DEF DestroyNext, GoTo, Destroy
<1>24. CASE DropFactory
  BY <1>24 DEF DropFactory, GoTo
<1>25. CASE JoinEndpointWorker
  BY <1>25 DEF JoinEndpointWorker, Moves, GoTo
<1>26. CASE UNCHANGED vars
  BY <1>26
<1>27. QED
  BY <1>1, <1>2, <1>3, <1>4, <1>5, <1>6, <1>7, <1>8, <1>9, <1>10, <1>11,
      <1>12, <1>13, <1>14, <1>15, <1>16, <1>17, <1>18, <1>19, <1>20, <1>21,
      <1>22, <1>23, <1>24, <1>25, <1>26 DEF Next, Step, LockStep, BeginStep,
      CloseStep

-----------------------------------------------------------------------------
\* The device as its constructor leaves it: one Display, the primary.
LEMMA InitInv == Init => TypeOK /\ LifetimeInv
<1> USE LifetimeAssumption
    DEF LifetimeAssumption, Threads, Loops, Emitters, Appliers, Init
<1>1. Init => TypeOK
  BY DEF TypeOK, Rest, Point, EmitterPoint, ClosePoint
<1>2. Init => ThreadPoints /\ Ownership
  BY DEF ThreadPoints, Ownership, Rest, Operating, ClosePoint
<1>3. Init => Pointers
  BY DEF Pointers, Holders, Rest
<1>4. Init => OnePerId /\ TakenDown
  BY DEF OnePerId, TakenDown, Open, Detached, Rest
<1>5. QED
  BY <1>1, <1>2, <1>3, <1>4 DEF LifetimeInv

\* What every step preserves holds in every state of the device.
THEOREM LifetimeInvariance == Spec => [](TypeOK /\ LifetimeInv)
<1>1. TypeOK /\ LifetimeInv /\ [Next]_vars => (TypeOK /\ LifetimeInv)'
  BY TypeStep, PointsStep, OwnershipStep, PointersStep, OnePerIdStep, TakenDownStep
     DEF LifetimeInv
<1>2. QED
  BY InitInv, <1>1, PTL DEF Spec

\* Every variable keeps its type.
THEOREM TypeCorrect == Spec => []TypeOK
BY LifetimeInvariance, PTL

-----------------------------------------------------------------------------
(* No ring of waiting threads: along the order of the mutexes, with the    *)
(* joins below them, each thread waits for one further down.               *)

Level(point) ==
    CASE point \in {"joinTopology", "stopApplier", "joinEndpoint"} -> 5
      [] point = "apply" -> 4
      [] point \in {"replace", "install"} -> 3
      [] point \in {"lookup", "collect", "change"} -> 2
      [] point = "join" -> 1
      [] OTHER -> 0

\* Whatever a thread waits for, the one it waits for is nearer to running.
LEMMA WaitsForALowerLevel ==
    ASSUME TypeOK, ThreadPoints, Ownership, Pointers,
           NEW t \in Threads, NEW u \in WaitsFor(t)
    PROVE  Level(pc[u]) < Level(pc[t])
<1> USE DEF Level
<1>0. u \in Threads /\ None \notin Threads
  BY LifetimeAssumption DEF WaitsFor, LifetimeAssumption
<1>1. CASE pc[t] \in {"apply", "stopApplier"} /\ applier = u
  BY <1>0, <1>1 DEF Ownership, Operating
<1>2. CASE pc[t] \in {"replace", "install"} /\ hotplug = u
  BY <1>0, <1>2 DEF Ownership, Operating
<1>3. CASE pc[t] \in {"lookup", "collect", "change"} /\ map = u
  BY <1>0, <1>3 DEF Ownership
<1>4. CASE pc[t] = "join" /\ object[t] = u
  BY <1>4 DEF Pointers, ThreadPoints
<1>5. CASE pc[t] = "joinTopology" /\ u = TopologyWorker
  BY <1>5 DEF ThreadPoints, Operating
<1>6. CASE pc[t] = "joinEndpoint" /\ u = EndpointWorker
  BY <1>6 DEF ThreadPoints
<1>7. QED
  BY <1>1, <1>2, <1>3, <1>4, <1>5, <1>6 DEF WaitsFor

\* So a set of threads that wait has one that waits for none of them.
LEMMA NoRing == TypeOK /\ LifetimeInv => NoDeadlock
<1>1. SUFFICES ASSUME TypeOK, LifetimeInv,
                      NEW ring \in SUBSET Threads, ring # {},
                      \A t \in ring : WaitsFor(t) \cap ring # {}
               PROVE  FALSE
  BY DEF NoDeadlock
<1>2. \A t \in ring : \E u \in ring : Level(pc[u]) < Level(pc[t])
  BY <1>1, WaitsForALowerLevel DEF LifetimeInv
<1>3. \A t \in ring : Level(pc[t]) \in 0..5
  BY DEF Level
<1>4. \A t \in ring : Level(pc[t]) >= 1
  BY <1>2, <1>3
<1>5. \A t \in ring : Level(pc[t]) >= 2
  BY <1>2, <1>3, <1>4
<1>6. \A t \in ring : Level(pc[t]) >= 3
  BY <1>2, <1>3, <1>5
<1>7. \A t \in ring : Level(pc[t]) >= 4
  BY <1>2, <1>3, <1>6
<1>8. \A t \in ring : Level(pc[t]) >= 5
  BY <1>2, <1>3, <1>7
<1>9. QED
  BY <1>1, <1>2, <1>3, <1>8

\* No threads wait for each other, however many call, apply snapshots or emit.
THEOREM DeadlockFreedom == Spec => []NoDeadlock
BY LifetimeInvariance, NoRing, PTL

-----------------------------------------------------------------------------
(* The lifetime of a Display, and of the device.                           *)

\* Nothing reaches a Display once its destructor has begun, and its thread
\* has ended when the destructor has.
THEOREM DestructionIsFinal == Spec => []DestroyedIsQuiet
<1>1. TypeOK /\ LifetimeInv => DestroyedIsQuiet
  BY DEF TypeOK, LifetimeInv, Pointers, DestroyedIsQuiet, Holders
<1>2. QED
  BY LifetimeInvariance, <1>1, PTL

\* Every Display that exists has an owner that will destroy it.
THEOREM DisplaysAreOwned == Spec => []NoDisplayLeaks
<1>1. TypeOK /\ LifetimeInv => NoDisplayLeaks
  BY DEF LifetimeInv, Pointers, NoDisplayLeaks
<1>2. QED
  BY LifetimeInvariance, <1>1, PTL

\* A vsync comes from a Display in the map, in a call or in its destructor.
THEOREM VsyncsAreKnown == Spec => []VsyncIsOfAKnownDisplay
<1>1. TypeOK /\ LifetimeInv => VsyncIsOfAKnownDisplay
  BY DEF TypeOK, LifetimeInv, Pointers, VsyncIsOfAKnownDisplay, Holders
<1>2. QED
  BY LifetimeInvariance, <1>1, PTL

\* A detached registry is in no operation, a closed device has no thread.
THEOREM CloseIsComplete == Spec => []NothingOutlivesTheDevice
<1>1. TypeOK /\ LifetimeInv => NothingOutlivesTheDevice
  BY LifetimeAssumption
     DEF TypeOK, LifetimeInv, ThreadPoints, Ownership, TakenDown, Open, Detached,
         NothingOutlivesTheDevice, Operating, Appliers, Threads, Loops, Emitters,
         LifetimeAssumption
<1>2. QED
  BY LifetimeInvariance, <1>1, PTL
=============================================================================
