--------------------------- MODULE TargetHandover ---------------------------
(***************************************************************************)
(* What a call of PresentDisplay promises the stream service and           *)
(* SurfaceFlinger about its client target: the service comes to read the   *)
(* buffer of the call and no other, once per call at most, and only while  *)
(* the call lasts; and no two calls at once present the same buffer.  The  *)
(* ids, registrations, generations and connections that bring this about   *)
(* are invisible.                                                          *)
(***************************************************************************)
CONSTANTS Threads, Buffers, NoBuffer

VARIABLES presented, \* the buffer each thread presents
          offered,   \* whether the service may yet take it
          reading    \* the buffers the service reads

handoverVars == <<presented, offered, reading>>

Init ==
    /\ presented = [t \in Threads |-> NoBuffer]
    /\ offered = [t \in Threads |-> FALSE]
    /\ reading = {}

Present(t, buffer) ==
    /\ presented[t] = NoBuffer
    /\ \A u \in Threads : presented[u] # buffer
    /\ presented' = [presented EXCEPT ![t] = buffer]
    /\ offered' = [offered EXCEPT ![t] = TRUE]
    /\ UNCHANGED reading

\* The call is over, or has yet to tidy up.
Leave(t) == presented' \in {presented, [presented EXCEPT ![t] = NoBuffer]}

\* A frame the service takes is read now, or until its release fence signals.
Take(t) ==
    /\ offered[t]
    /\ offered' = [offered EXCEPT ![t] = FALSE]
    /\ reading' \in {reading, reading \cup {presented[t]}}
    /\ Leave(t)

Return(t) ==
    /\ offered' = [offered EXCEPT ![t] = FALSE]
    /\ Leave(t)
    /\ UNCHANGED reading

\* The service is done with buffers, or is gone.
Finish ==
    /\ reading' \in SUBSET reading
    /\ UNCHANGED <<presented, offered>>

Next ==
    \/ \E t \in Threads : Take(t) \/ Return(t) \/ \E buffer \in Buffers : Present(t, buffer)
    \/ Finish

Spec == Init /\ [][Next]_handoverVars
=============================================================================
