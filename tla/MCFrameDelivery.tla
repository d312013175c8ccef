-------------------------- MODULE MCFrameDelivery --------------------------
EXTENDS FrameDelivery, ClientTargetResolver, TLC

Symmetry == Permutations(Threads) \cup Permutations(Buffers)

\* A second generation, a crash or a fault.
OneTrouble(busy, generation, crashes_, faults_) == generation + crashes_ + faults_ <= 2

\* An idle client: a crash, and generations that follow each other.  One that
\* goes on presenting: a second generation, or a crash, or a fault.
OneCrash(busy, generation, crashes_, faults_) ==
    IF busy THEN OneTrouble(busy, generation, crashes_, faults_)
            ELSE crashes_ <= 1 /\ faults_ = 0
----------------------------------------------------------------------------
(* The metadata of a client target, with words of 4 and 8 bits.            *)

Planes == [strideInBytes : {-128, -1, 127} \cup 0 .. 20, sampleIncrementInBits : Int64]

\* The stride is the quotient, wherever it is one and fits.
ASSUME
    \A plane \in Planes :
        LET bits    == 8 * plane.strideInBytes
            strides == {n \in 1 .. MaxUint32 : n * plane.sampleIncrementInBits = bits}
        IN  IF bits \in 1 .. MaxInt64 /\ strides # {}
            THEN ResolveStride(plane) \in strides
            ELSE ResolveStride(plane) = None

Floral ==
    {None} \cup [known : BOOLEAN, buffer_id : {0, 1}, width : {4}, height : {2, 3},
                 layers : {0, 1}, format : {1}, stride : {0, 4}, protected : BOOLEAN]

Standard ==
    {None} \cup [buffer_id : {2}, width : {4, 20}, height : {2}, layers : {1}, format : {0, 1},
                 plane : {None, [strideInBytes |-> 16, sampleIncrementInBits |-> 32],
                                [strideInBytes |-> 8, sampleIncrementInBits |-> 16]},
                 usageProtected : BOOLEAN, protected : BOOLEAN]

\* What resolves has the display's size and comes from one of the two.
ASSUME
    \A floral \in Floral, standard \in Standard :
        LET target == Resolve(floral, standard, 4, 2)
        IN  target # None =>
                /\ target.width = 4 /\ target.height = 2
                /\ target.layers = 1 /\ target.stride = 4
                /\ target.identity = 1 <=> ResolveFloralMetadata(floral, 4, 2) # None
=============================================================================
