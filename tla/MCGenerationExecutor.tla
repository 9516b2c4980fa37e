-------------------------- MODULE MCGenerationExecutor --------------------------
(* Small instances of GenerationExecutor for TLC.                               *)
EXTENDS GenerationExecutor, TLC

CONSTANTS a1, a2, a3, k1, k2, small, large

\* A large estimate and a small one fit together; two large ones do not.
MCReserve == (small :> 1) @@ (large :> 2)

\* Attempts and keys are interchangeable, payloads are not.
MCSymmetry == Permutations(Attempts) \cup Permutations(Keys)
=================================================================================
