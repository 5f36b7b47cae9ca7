---------------------------- MODULE MCRunService ----------------------------
(***************************************************************************)
(* Small instances of RunService.                                          *)
(***************************************************************************)
EXTENDS RunService, TLC

\* Threads and clients are interchangeable; used by the runs without liveness.
Interchangeable == Permutations(Threads) \cup Permutations(Clients)

=============================================================================
