-------------------------------- MODULE Edid --------------------------------
(***************************************************************************)
(* The identity and checksum of a display's EDID (src/src/Edid.cpp).  The  *)
(* 128 bytes are a function; the fields that are the same for every        *)
(* display, the timings and the monitor range, are the constant Fixed.     *)
(* A name is a sequence of the codes of its characters.                    *)
(***************************************************************************)
EXTENDS Integers, Sequences

CONSTANT Fixed \* the bytes of kEdidHeader, the vendor, timings and ranges

Offsets == 0 .. 127
Byte == 0 .. 255

ASSUME EdidAssumption == Fixed \in [Offsets -> Byte]

\* The low and the high byte of a 16-bit value.
Bytes16(value) == <<value % 256, (value \div 256) % 256>>

Product(port) == (4096 + port) % 65536

\* 0x464c0000u + port + 1, the high half apart.
SerialHigh(port) == 17996 + (port + 1) \div 65536
SerialLow(port) == (port + 1) % 65536

\* Bytes 10 to 15.
Identity(port) ==
    Bytes16(Product(port)) \o Bytes16(SerialLow(port)) \o Bytes16(SerialHigh(port))

\* A descriptor ends its text with a line feed and fills up with spaces.
Text(name) ==
    LET length == IF Len(name) < 12 THEN Len(name) ELSE 12
    IN  [i \in 1 .. 13 |-> IF i <= length THEN name[i]
                           ELSE IF i = length + 1 THEN 10 ELSE 32]

WriteTextDescriptor(edid, offset, type, name) ==
    [i \in Offsets |->
        IF i \notin offset .. offset + 17 THEN edid[i]
        ELSE IF i >= offset + 5 THEN Text(name)[i - offset - 4]
        ELSE IF i = offset + 3 THEN type ELSE 0]

\* std::accumulate over the first bytes, in 8 bits.
Accumulate(edid, count) ==
    LET sum[n \in 0 .. count] == IF n = 0 THEN 0 ELSE (sum[n - 1] + edid[n - 1]) % 256
    IN  sum[count]

\* "FLR-PRIMARY" and "FLR-DISPLAY".
SerialText(port) ==
    <<70, 76, 82, 45>> \o (IF port = 0 THEN <<80, 82, 73, 77, 65, 82, 89>>
                                       ELSE <<68, 73, 83, 80, 76, 65, 89>>)

BuildEdid(port, displayName) ==
    LET identified == [i \in Offsets |->
            IF i \in 10 .. 15 THEN Identity(port)[i - 9] ELSE Fixed[i]]
        named == WriteTextDescriptor(identified, 72, 252, displayName)
        edid  == WriteTextDescriptor(named, 90, 255, SerialText(port))
    IN  [edid EXCEPT ![127] = (256 - Accumulate(edid, 127)) % 256]

HasValidEdidChecksum(edid) ==
    /\ \A i \in 0 .. 7 : edid[i] = Fixed[i]
    /\ Accumulate(edid, 128) = 0
=============================================================================
