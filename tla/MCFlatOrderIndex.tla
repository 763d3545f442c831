---- MODULE MCFlatOrderIndex ----
EXTENDS FlatOrderIndex, TLC

MCSymmetry == Permutations(Keys) \cup Permutations(Values)
====
