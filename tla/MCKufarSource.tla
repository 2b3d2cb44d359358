---------------------------- MODULE MCKufarSource ----------------------------
\* Two monitors whose runs find the same two listings.
EXTENDS KufarSource

CONSTANTS r1, r2, l1, l2
=============================================================================
