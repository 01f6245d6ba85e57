----------------------------- MODULE MCCallFrames -----------------------------
EXTENDS CallFrames

CONSTANTS o, a1, s1

MCAddrs == {a1}
MCSlots == {s1}
=============================================================================
