--------------------------- MODULE MCMemoryCopy ---------------------------
EXTENDS MemoryCopy

\* zero, one byte, a word and a byte, and a word whose low 64 bits are 1
MCLengths == {0, 1, 33, U64 + 1}
\* in the first word, in the third, past the memory ceiling, at the top of
\* the uint64 range
MCOffsets == {0, 31, 70, MaxMemSize + 1, U64 - 1}
MCStoreOffsets == {0, 40}
=============================================================================
