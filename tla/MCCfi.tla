---------------------------------- MODULE MCCfi ----------------------------------
(* Two keys that share a bucket, and a pool with room for three entries. *)
EXTENDS Cfi, TLC

CONSTANTS k1, k2

MCBucket == (k1 :> 0) @@ (k2 :> 0)

Symmetry == Permutations(Threads)
==================================================================================
