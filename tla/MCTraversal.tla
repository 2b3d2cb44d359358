----------------------------- MODULE MCTraversal -----------------------------
\* A short feed with ties, and pages small enough for gaps, cuts and overlaps.
EXTENDS Traversal

MCTimeOf == [l \in Listing |-> CASE l = 1 -> 1 [] l = 2 -> 2 [] l = 3 -> 2
                                 [] l = 4 -> 3 [] l = 5 -> 3 [] OTHER -> l]
=============================================================================
