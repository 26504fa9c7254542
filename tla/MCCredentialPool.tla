-------------------------- MODULE MCCredentialPool --------------------------
EXTENDS CredentialPool, TLC
MCTiers == <<1, 2>>
Symmetry == Permutations(Attempts) \cup Permutations(ApiCalls)
=============================================================================
