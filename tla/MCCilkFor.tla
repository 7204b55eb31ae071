----------------------------- MODULE MCCilkFor -----------------------------
EXTENDS CilkFor

\* No request (zero or negative), small ones, and one above every trip count.
RequestedGrains == {-1, 0, 1, 3, 5, 40}
=============================================================================
