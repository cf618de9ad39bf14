--------------------------- MODULE MCJobDelivery ---------------------------
\* Small instances of JobDelivery for TLC.
EXTENDS JobDelivery, TLC

CONSTANTS j1, j2

JobSymmetry == Permutations({j1, j2})
=============================================================================
