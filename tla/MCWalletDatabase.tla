-------------------------- MODULE MCWalletDatabase --------------------------
EXTENDS WalletDatabase, TLC

\* The callers are interchangeable.
CallerSymmetry == Permutations(Callers)
=============================================================================
