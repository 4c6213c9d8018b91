---------------------------- MODULE MCCollection ----------------------------
(***************************************************************************)
(* An instance of Collection for TLC, on the constants of MCBridge.        *)
(***************************************************************************)
EXTENDS MCBridge, Collection

CollectionMessages == {<<k1, RotationContent(k2)>>}

=============================================================================
