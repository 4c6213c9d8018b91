----------------------------- MODULE MCBatches -----------------------------
(***************************************************************************)
(* An instance of Batches for TLC: trees of up to three contents in every  *)
(* shape, three holders of keys, of whom two never had the admin.          *)
(***************************************************************************)
EXTENDS Batches

CONSTANTS l1, l2, l3, k1, k2, k3

SomeContents == Permutations({l1, l2, l3})

=============================================================================
