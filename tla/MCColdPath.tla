------------------------------ MODULE MCColdPath ------------------------------
EXTENDS ColdPath, TLC

MCSymmetry == Permutations(Client) \cup Permutations(Room)
=============================================================================
