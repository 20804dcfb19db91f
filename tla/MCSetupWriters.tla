---------------------------- MODULE MCSetupWriters ----------------------------
(* Small instances of SetupWriters.  Sessions, file contents and break times  *)
(* are compared for equality only, so their permutations are a symmetry.      *)
EXTENDS SetupWriters, TLC

ValueSymmetry == Permutations(Requests) \cup Permutations(Facts) \cup Permutations(Breaks)
===============================================================================
