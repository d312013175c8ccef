------------------------ MODULE ClientTargetResolver ------------------------
(***************************************************************************)
(* How a client target's handle becomes the identity and the descriptor    *)
(* under which it is registered                                            *)
(* (src/src/GraphicBufferClientTargetResolver.cpp): from the allocator's   *)
(* own metadata or, if that fails, from the standard metadata.             *)
(*                                                                         *)
(* What the two metadata interfaces answer is an argument: a record of the *)
(* fields of one answer, and None where a call failed.  A plane layout is  *)
(* only read when there is one; a result of None is a return of false.     *)
(***************************************************************************)
EXTENDS Integers

CONSTANTS MaxUint32, \* the largest uint32_t; a run may scale them down
          MaxInt64,  \* the largest int64_t
          None       \* a failed call, no result

ASSUME ResolverAssumption ==
    /\ MaxUint32 \in Nat \ {0}
    /\ MaxInt64 \in Nat
    /\ MaxUint32 <= MaxInt64

Uint32 == 0 .. MaxUint32
Int64 == -(MaxInt64 + 1) .. MaxInt64
Uint64 == 0 .. 2 * MaxInt64 + 1

PlaneLayout == [strideInBytes : Int64, sampleIncrementInBits : Int64]

FloralMetadata ==
    [known : BOOLEAN, \* the size and version of the structure came back
     buffer_id : Uint64, width : Uint32, height : Uint32, layers : Uint32,
     format : Uint32, stride : Uint32, protected : BOOLEAN]

\* usageProtected is the bit in the usage, protected the separate metadata,
\* FALSE when it is not supported.
StandardMetadata ==
    [buffer_id : Uint64, width : Uint64, height : Uint64, layers : Uint64,
     format : Int64, plane : PlaneLayout \cup {None},
     usageProtected : BOOLEAN, protected : BOOLEAN]

ToPositiveUint32(value) == IF value \in 1 .. MaxUint32 THEN value ELSE None

\* Pixels per row, of the first plane; both operands of / are positive.
ResolveStride(plane) ==
    LET strideBits == (plane.strideInBytes * 8) % (2 * (MaxInt64 + 1))
    IN  IF /\ plane # None
           /\ plane.strideInBytes > 0 /\ plane.sampleIncrementInBits > 0
           /\ plane.strideInBytes <= MaxInt64 \div 8
           /\ strideBits % plane.sampleIncrementInBits = 0
        THEN ToPositiveUint32(strideBits \div plane.sampleIncrementInBits)
        ELSE None

Target(metadata, stride, isProtected) ==
    [identity |-> metadata.buffer_id, width |-> metadata.width,
     height |-> metadata.height, layers |-> metadata.layers,
     format |-> metadata.format, stride |-> stride, protected |-> isProtected]

ResolveFloralMetadata(metadata, width, height) ==
    IF /\ metadata # None
       /\ metadata.known
       /\ metadata.width # 0 /\ metadata.height # 0 /\ metadata.layers # 0
       /\ metadata.format # 0 /\ metadata.stride # 0 /\ metadata.buffer_id # 0
       /\ metadata.width = width /\ metadata.height = height
    THEN Target(metadata, metadata.stride, metadata.protected)
    ELSE None

ResolveStandardMetadata(metadata, width, height) ==
    IF /\ metadata # None
       /\ ToPositiveUint32(metadata.width) # None
       /\ ToPositiveUint32(metadata.height) # None
       /\ ToPositiveUint32(metadata.layers) # None
       /\ ResolveStride(metadata.plane) # None
       /\ metadata.width = width /\ metadata.height = height
       /\ metadata.format # 0 /\ metadata.buffer_id # 0
    THEN Target(metadata, ResolveStride(metadata.plane),
                metadata.protected \/ metadata.usageProtected)
    ELSE None

Resolve(floral, standard, width, height) ==
    IF ResolveFloralMetadata(floral, width, height) # None
    THEN ResolveFloralMetadata(floral, width, height)
    ELSE ResolveStandardMetadata(standard, width, height)
=============================================================================
