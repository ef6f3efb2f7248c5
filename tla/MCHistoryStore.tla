---------------------------- MODULE MCHistoryStore ----------------------------
(* Two processes that share the files, or one with more sessions than the index keeps. *)
EXTENDS HistoryStore, TLC

Symmetry == Permutations(Processes) \cup Permutations(Sessions)
=============================================================================
