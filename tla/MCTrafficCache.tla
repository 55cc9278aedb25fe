--------------------------- MODULE MCTrafficCache ---------------------------
(* A small instance of TrafficCache.  The two savers do the same steps.    *)
EXTENDS TrafficCache, TLC

Symmetry == Permutations(Savers)

(* Once two saves have overlapped nothing is claimed of the file.          *)
SavesApart == ~overlapped.save
=============================================================================
