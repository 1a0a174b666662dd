---------------------------- MODULE MCVisitStream ----------------------------
EXTENDS VisitStream, TLC

(***************************************************************************)
(* Workers and tractors are interchangeable (safety runs only).            *)
(***************************************************************************)
Interchangeable == Permutations(Worker) \cup Permutations(Tractor)
=============================================================================
