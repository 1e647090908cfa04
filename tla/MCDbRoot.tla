------------------------------ MODULE MCDbRoot ------------------------------
EXTENDS DbRoot, TLC

CONSTANTS p1, p2, w1

Symmetry == Permutations({p1, p2})
=============================================================================
