-------------------------- MODULE MCDirectoryCache --------------------------
EXTENDS DirectoryCache, TLC

CONSTANTS alpha, beta

(* Workers are interchangeable.                                            *)
Swap == Permutations(Workers)
=============================================================================
