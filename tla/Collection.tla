----------------------------- MODULE Collection -----------------------------
(***************************************************************************)
(* MintCollection of the bridge program: process_create_collection makes a *)
(* mint at the address of a token seed and gives its one token to the      *)
(* bridge admin.                                                           *)
(***************************************************************************)
EXTENDS Bridge

\* An account may be created at an address that signs the transaction or that the
\* program derives from seeds it passes on.  A derived address has no private key
\* and never signs by itself.
CanCreateAt(address, seedsPassed) == address \in {Pda(seed) : seed \in seedsPassed}

\* call_create_account is given no seeds: &[].
CollectionSeeds(t) == {}

MintCollection(s, t, meta) ==
  LET m == Pda(t) IN
  /\ admin[s] # None
  /\ CanCreateAt(m, CollectionSeeds(t))
  /\ ~Occupied(m, mint)
  /\ mint' = [mint EXCEPT ![m] = [authority |-> s, decimals |-> 0, supply |-> 1]]
  /\ custody' = [custody EXCEPT ![s][m] = @ + 1]
  /\ metadata' = [metadata EXCEPT ![m] = MetadataOf(meta)]
  /\ UNCHANGED <<admin, wallets, withdraw, signed, payouts, inflow>>

Collect == \E s \in Seeds, t \in TokenSeeds, meta \in SignedMetas : MintCollection(s, t, meta)

\* The caller tries again until the collection is there.
CollectionFairSpec == Init /\ [][Next \/ Collect]_vars /\ WF_vars(Collect)

\* bridge/README.md of process_create_collection: "Creates a collection with bridge
\* admin owner".  With an admin initialised, the address of a token seed does not
\* stay free for ever when somebody keeps asking for a collection there.
CollectionCreated ==
  ~<>[]((\E s \in Seeds : admin[s] # None) /\ \E t \in TokenSeeds : ~Occupied(Pda(t), mint))

=============================================================================
