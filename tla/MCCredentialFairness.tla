------------------------ MODULE MCCredentialFairness ------------------------
EXTENDS CredentialFairness, TLC
MCTiers == <<1, 2>>
Symmetry == Permutations(Attempts)
=============================================================================
