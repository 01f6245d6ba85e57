---------------------------- MODULE MCInitcodeGas ----------------------------
EXTENDS InitcodeGas

MCLengths == {0, 1, 33}
MCOffsets == {0, 31, 70}
MCStoreOffsets == {0, 40}
\* CREATE operands: zero, one word, two words, and past the size limit
MCWords == {0, 32, 64, 1500}
====
