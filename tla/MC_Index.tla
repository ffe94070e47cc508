------------------------------ MODULE MC_Index ------------------------------
EXTENDS IndexCalls

\* Names are only compared for equality.
NameSymmetry == Permutations(FileName)
=============================================================================
