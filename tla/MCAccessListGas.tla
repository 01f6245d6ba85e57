-------------------------- MODULE MCAccessListGas --------------------------
EXTENDS AccessListGas

CONSTANTS a1, a2, s1, s2

\* a1 is an empty account, a2 is not
MCOthers    == {a1, a2}
MCEmptyInit == {a1}
MCSlots     == {s1}
=============================================================================
