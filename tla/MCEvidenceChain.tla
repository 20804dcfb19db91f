---------------------------- MODULE MCEvidenceChain ----------------------------
(* Small instances of EvidenceChain.  Requests are interchangeable, and no run of this module *)
(* checks a liveness property, so the permutations of the requests are a symmetry.            *)
EXTENDS EvidenceReports, TLC

RequestSymmetry == Permutations(Requests)
================================================================================
