-------------------------- MODULE MCDeviceLifetime --------------------------
EXTENDS DeviceLifetime

\* The primary, a display, and a second object for the same display id: a
\* snapshot that changes its configuration replaces one by the other.
MCIdOf == [o \in Objects |-> IF o = PrimaryObject THEN 1 ELSE 2]
=============================================================================
