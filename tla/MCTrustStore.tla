---------------------------- MODULE MCTrustStore ----------------------------
EXTENDS TrustStore, TLC

KeySymmetry == Permutations(Keys)
=============================================================================
