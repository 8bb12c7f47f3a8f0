-------------------------------- MODULE MCBus --------------------------------
EXTENDS Bus, TLC

MCSymmetry == Permutations(Publisher) \cup Permutations(Subscription)
=============================================================================
