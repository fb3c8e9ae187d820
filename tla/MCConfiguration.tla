--------------------------- MODULE MCConfiguration ---------------------------
\* One definition the engine loads, one whose weights and one whose bands it refuses.
EXTENDS Configuration, TLC

CONSTANTS sound, heavy, gapped, p1, p2, t1

ProcessSymmetry == Permutations(Process)
=============================================================================
