------------------------- MODULE MCDisplayRegistry -------------------------
EXTENDS DisplayRegistry, Edid, SequencesExt

Shown(id, port, spec) ==
    [id |-> id, port |-> port, spec |-> spec, connection |-> "external"]

\* Valid displays that contend for the ports, one of them with two specs, and
\* one of each kind the code rejects.
MCConfigs ==
    {Shown(2, p, s) : p \in {1, 2}, s \in {"hd", "uhd"}}
        \cup {Shown(3, p, "hd") : p \in {1, 2, 3}}
        \cup {Shown(4, p, "hd") : p \in {1, 3}}
        \cup {Shown(kPrimaryDisplayId, 1, "hd"), Shown(0, 1, "hd"),
              Shown(3, 0, "hd"), Shown(2, 1, "empty")}

\* Up to three displays: enough for a snapshot that rotates their ports.
MCSnapshots == SeqOf(MCConfigs, 3)

MCOffers ==
    MCConfigs \cup {[Shown(3, 2, "hd") EXCEPT !.connection = "internal"]}

----------------------------------------------------------------------------
\* The header; the rest of the fixed bytes, as a pattern.
MCFixed ==
    [i \in Offsets |-> IF i \in 1 .. 6 THEN 255 ELSE IF i < 8 THEN 0 ELSE (i * 37) % 256]

Name(length) == [i \in 1 .. length |-> 64 + i]

\* Every port has an EDID of its own, with a valid checksum and a terminated
\* name, whatever the length of the name.
ASSUME
    /\ \A port \in {0, 1, 254, 255}, length \in 0 .. 14 :
          LET edid == BuildEdid(port, Name(length))
          IN  /\ edid \in [Offsets -> Byte]
              /\ HasValidEdidChecksum(edid)
              /\ \E i \in 77 .. 89 :
                    edid[i] = 10 /\ \A j \in 77 .. i - 1 : edid[j] = Name(length)[j - 76]
    /\ Cardinality({Identity(port) : port \in 0 .. 255}) = 256
=============================================================================
