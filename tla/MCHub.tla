-------------------------------- MODULE MCHub --------------------------------
EXTENDS Hub, FiniteSets, TLC

MCSymmetry == Permutations(Client)
=============================================================================
