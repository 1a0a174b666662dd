---------------------------- MODULE MCVideoBudget ----------------------------
EXTENDS VideoBudget, TLC

(***************************************************************************)
(* Videos and tickers are interchangeable (safety runs only).              *)
(***************************************************************************)
Interchangeable == Permutations(Video) \cup Permutations(Ticker)
=============================================================================
