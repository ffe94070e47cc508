------------------------------ MODULE MC_Store ------------------------------
EXTENDS StoreProps

\* Names are only compared for equality.  (Used by the safety run only: TLC's
\* symmetry reduction is not sound for liveness.)
NameSymmetry == Permutations(Name)
=============================================================================
