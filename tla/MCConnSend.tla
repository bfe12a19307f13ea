----------------------------- MODULE MCConnSend -----------------------------
EXTENDS ConnSend, TLC
CONSTANTS a1, a2, ticker, handler, b1, b2, b3
ArraySymmetry == Permutations(Arrays)
Symmetry == Permutations(Arrays) \cup Permutations(Apps)
=============================================================================
