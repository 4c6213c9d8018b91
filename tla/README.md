# TLA+ verification of the Rarimo Solana bridge programs

Three Solana programs and a library move assets between Solana and the networks
Rarimo connects: users deposit, the Rarimo core sees the deposit and signs a
withdrawal elsewhere, and withdrawals on Solana are paid against such signatures.
This directory models the programs in TLA+, checks small instances with TLC and
proves their safety properties and two refinements with TLAPS.

Source paths below are relative to the repository (`src/`).

## The system

| Component | State it keeps | Operations |
|---|---|---|
| Bridge (`bridge/program`) | one `BridgeAdmin` account per 32-byte seed: threshold public key, commission program, and (as its lamports and associated token accounts) all deposits; one `Withdraw` account per origin; the mints and metadata it creates at addresses of token seeds | InitializeAdmin, TransferOwnership, DepositNative/FT/NFT, WithdrawNative/FT/NFT, MintCollection |
| Commission (`commission/program`) | one `CommissionAdmin` per bridge admin: the list of acceptable fee tokens with prices, four nonces; the fees | InitializeAdmin, ChargeCommission, AddFeeToken, RemoveFeeToken, UpdateFeeToken, Withdraw |
| Upgrade (`upgrade/program`) | one `UpgradeAdmin` per upgradeable program: public key, nonce | InitializeAdmin, TransferOwnership, Upgrade |
| Library (`lib`) | none | signature recovery, Merkle paths, account creation, argument types, instruction builders |

**How they interact.** A deposit is one transaction of two instructions:
`ChargeCommission` of the commission program, then a deposit of the bridge, which
reads the instruction before it from the instructions sysvar
(`verify_commission_charged`). The commission program reads the bridge admin's key
to check signatures on its own list changes. A withdrawal is one instruction with a
signature of the key in the bridge admin over a Merkle root that contains the content
(origin, receiver, program, amount or token data). The signers themselves, the
deposits on other networks, SPL Token, Metaplex and the Solana runtime are outside.

**What is atomic.** The runtime runs an instruction completely or undoes it, and
orders instructions that write the same account. So a handler is one action, its
early returns and the failures of the calls it makes are guards, and all concurrency
is in the order of whole instructions of independent callers, of signatures (public
once made, usable late, twice, in any order) and of the owners of foreign metadata.

**What is hard.** Everything that spans transactions: one payment per origin
although signatures can be replayed; keys that rotate between signing and use;
mints that are created from unsigned arguments and verified afterwards through what
they left on chain; payments out of a mix of custody and fresh mint; the rent of the
account that is at once the bridge's data and its purse; nonces that count apart
for each kind of operation; lists with duplicate entries. `PROJECT.json`, "hazards",
names each of these at its line with the property that covers it.

**What makes each component correct.**

* Bridge: each origin paid once, to whom the key in force when it is paid has signed, in
  full, for one of the readings of the signed bytes; no asset created or lost; wrapped
  mints carry only texts that such a reading names; records and mints never share an address.
* Commission: every signed operation carried out at most once and in nonce order; no
  price nobody set; fees conserved and withdrawable as signed.
* Deposits: every instruction that deposits has a charge of its own, and no deposit is
  made before a price has reached the commission of the admin deposited with.
* Upgrade: only reviewed code is ever deployed, once per nonce; the signers keep control
  of every program passed to them; what they sign can be carried out.
* Library: a path leads from a content to a signed root exactly if the content was
  batched by the key in force; control passes only to keys that were named.

## Modules

| Module | What it is |
|---|---|
| `Bridge` | the bridge program: accounts, contents, all handlers but MintCollection, the environment |
| `Collection` | MintCollection (`process_create_collection`) on the state of `Bridge` |
| `Claims` | abstract specification: claims approved by keys and paid once per origin |
| `BridgeClaims` | the refinement mapping from `Bridge` to `Claims` |
| `Commission` | the commission program; the bridge admin's key is an input that may change at any time |
| `DepositTx` | transactions of charges and deposits, over `Bridge` and an instance of `Commission` that shares its wallets and reads its keys |
| `Upgrade` | the upgrade program, the loader's buffers, deployer and signers |
| `Batches` | what a signed Merkle root stands for: trees, paths and rotations at one admin account |
| `Approvals` | abstract specification: a key approves contents and names successors, an account accepts and passes on accordingly |
| `MCBridge`, `MCCollection`, `MCCommission`, `MCDepositTx`, `MCUpgrade`, `MCBatches` | instances for TLC |
| `BridgeProofs`, `ConservationProofs`, `BridgeClaimsProofs` | theorems about `Bridge`: accounts, sums of money, the refinement of `Claims` |
| `CommissionProofs`, `DepositTxProofs`, `UpgradeProofs`, `BatchesProofs` | theorems about the module of that name, for `Batches` with the refinement of `Approvals` |
| `SumTheorems` | lemmas those proofs share: induction over numbers and finite sets, sums over finite sets |

### Bridge

`admin[s]` is the data of the admin account of seed `s` (or `None`), `custody[s][a]`
what it holds of asset `a`: its lamports if `a` is `Sol`, else its associated token
account. `wallets[a]` is what everybody else holds together: which wallet pays is the
business of SPL Token and the system program, and no handler looks at it beyond "is
there enough". `mint`, `metadata` and `withdraw` are the accounts of those kinds.
`signed` are the pairs <<key, content>> that have been signed: a Merkle root, its
path and an ECDSA signature enter the handlers only through the question whether the
content is a leaf of a root the key signed. `payouts` and `inflow` are history.

Addresses derived from 32-byte strings are `Pda(seed)`, for origins and token seeds
alike, so the model has the collision the code has: `Origins` and `TokenSeeds` may
overlap.

Contents are records of the fields a signer signs; `Operation` is what `get_operation`
makes of them. Bytes are sequences of pieces: an address, the 32 bytes of an amount
(`AmountBytes`), the byte of the decimals, and pieces of text. The code concatenates the
fields there are, without lengths and without a tag of the kind, and so does `Operation`;
`Hashed` adds the origin and the receiver, whose length is fixed. Three things follow, and
the model has them all: the name and the URI of a fungible token (of a non-fungible one
the URI and the symbol) are told apart only in their concatenation; the decimals of a
non-fungible token are not signed; and the bytes of a fungible content are those of a
non-fungible one with the same mint, no collection, an empty name and texts that contain the
amount and the decimals, and the reverse. For the last, texts may contain the pieces
of amounts and decimals (`TextPieces`). A symbol has 10 bytes and no room for an amount
(`SymbolPieces`), which is why the last amount in the bytes of a fungible content is the one
signed. What is left out is that the 32 bytes of an address might be text
(`TextAssumption`), so that mint and collection keep their places.

Left out: the transaction fees and rents of accounts other than the admin's; network
and receiver strings of a deposit (only their length is looked at); lamports sent by a
plain transfer to an admin account or to an address that is not in use yet; several
token accounts of one owner; frozen accounts, closed mints and metadata of foreign
mints that is deleted.

### Commission

`commission[s]` is the account data; the list is a sequence because its order
matters (the first entry of a token is the one charged, updated, removed). A charge is
paid by a wallet (`Collect`) or by the commission admin itself (`PaySelf`): the transfer is
signed with the admin's seeds and nobody looks at whose token account it comes from. The
account's size is modelled by the Borsh length of what it holds. `Hashed` is what
the content hash keeps of a content: the mint of a token but not whether it is FT or NFT.
`key` is what the commission program reads of the bridge admin; `ChangeKey` lets the
bridge program change it between any two instructions. `applied` is history.

### DepositTx

`tx` is the transaction in progress: its top-level instructions so far (`done`), each
with what the instructions sysvar shows of it and what it charged and deposited, itself
or through the programs it called. `Prior` computes what `verify_commission_charged` finds:
the current top-level index (a nested call sees its caller's), less one in 16 bits. A
transaction that fails leaves nothing behind, so only prefixes of successful ones are
states: `End` may come after any of them. Transactions that write the same accounts
are serialised, so none of another kind comes in between. Those other kinds are all in
`Between`, one instruction each: the bridge's rotations, new admins and withdrawals, its
signers and owners of metadata, the commission's initialisation and its signed operations.
Left out are transactions that mix them with deposits; the rest of a deposit
transaction is charges, deposits, calls of other programs and what these call. The commission
instance has `key <- KeyInForce` and `purse <- wallets`: a fee and a deposit compete for the
same tokens.

What counts as charged is an instruction, as in the code. A program that makes several
deposits by nested calls in one top-level instruction pays for them with the one charge
before it; `DepositsCharged` counts instructions and says so.

### Upgrade

`upgradeAdmin[c]` is the account of program `c`, `handedOver` the programs whose upgrade
authority it has become. The loader is external: `buffer[b]` has an authority, who alone
may write it, pass it on or close it, and it is consumed by an upgrade. Whether the
scheme is safe depends on what people do outside the program, so they are in the
model: the deployer hands a program over only when he has seen a key of the signers there;
the signers (`Trusted`) sign for the nonce that is next and a buffer that already belongs to
the admin, and name only their own keys as successors; everybody else signs anything.
`reviewed` and `deployed` are history.

### Batches

Keccak is taken free of collisions, a digest stands for what was hashed. `Concat` puts the
larger of two hashes first: the unordered pair. `HashesAlong` are the hashes the loop of
`get_merkle_root` goes through, the last of them its result. The caller's path is any
sequence of `SignedHashes`, nodes of the signers' trees and hashes of rotations. An inner
node and a rotation are both keccak of 64 bytes, so the module keeps both as inputs: `Rotate`
accepts the input of any inner node whose hash was signed. That leaves the admin with a key nobody can sign with, which `OnlyNamedKeys` admits
and the code does not prevent; contents are longer than 64 bytes and never meet either form.

`Approvals` says the same without hashes: what a key approves is accepted while that key
is in force (`Accept`), a successor it names may follow (`PassOn`), and an account may
be lost to bytes that are no key once its key has approved two contents (`Lose`).
`Batches` implements it with `approved` as what has been batched; this is the ground on which
`Bridge`, `Commission` and `Upgrade` keep <<key, content>> pairs and no digests.

## Runs

Bounds are the constants in the `.cfg` files; nothing else cuts the state space.
Origins that are paid and messages that are signed stay so, nonces are bounded by the
messages there are, balances by the genesis: `Bridge` and `Commission` are finite by
themselves. The other modules name their bounds: `MaxInstructions` (top-level instructions
of a transaction: 3 fit a charge, a deposit and one more of either, in any order; charges and
deposits are of `DepositAmounts`, withdrawals and terms of `Amounts`),
`MaxNonce` (upgrades of a program: 2, so that signatures for a past, a current and a future
nonce exist), `MaxDepth` and `MaxSigned` (trees of two levels and three signed digests: every
shape of three contents, batches under two keys and a rotation between them).
`CHECK_DEADLOCK FALSE` in these runs and the bridge's: once all messages are signed and
claimed, the wallets empty or the bounds reached, nothing need happen. The commission run
keeps deadlock checking (keys can always change).

| Run | Result | What it shows |
|---|---|---|
| `claims` | pass | native claims: two admins, two keys, rotations both ways, one origin signed by both keys for different receivers and amounts, an origin whose amount can empty an admin |
| `tokens` | pass | two admins under one key; a wrapped mint, signed with two sets of decimals and in fungible and non-fungible contents whose bytes can be read as the other kind, texts that split elsewhere; a non-fungible token of a collection whose metadata change after signing; two origins for one token, an origin that equals the token seed, payments out of part custody and part fresh mint, `U64Max` small enough for a mint to hit it |
| `commission` | pass | a mint listed twice at different prices, updated, removed under the price it had first; the account filled to its last byte and one entry too many |
| `upgrade` | pass | two programs that share buffers and rotations; a buffer deployed and filled again, signatures for it used late, rotations back and forth, an admin created with a stranger's key; signed upgrades land |
| `deposit` | pass | charges, self-payments, deposits and look-alike charges of another program, at top level and nested, for two admins that name either program; fees and deposits out of the same wallets, in lamports and in a wrapped token that a withdrawal mints in between; a fee withdrawn; an admin emptied |
| `batches` | pass | every tree of up to three contents, every path of nodes and rotation hashes, rotations among three keys, batches as rotations and the reverse; the refinement of `Approvals` |
| `rent` | violation | `AdminPersists`: withdrawing the whole balance deletes the admin account (the `TODO check rent`) |
| `misread` | violation | `SignedDataVerified`: bytes signed for an amount of a fungible token are redeemed as one non-fungible token, with decimals and texts nobody signed |
| `free_deposit` | violation | `NoFreeDeposit`: the commission admin pays a price to itself, and the deposit is accepted |
| `fee_withdrawal` | violation | `WithdrawAmountSigned`: the amount withdrawn is not the amount signed |
| `native_fees` | violation | `NativeFeesWithdrawable`: native fees are stuck |
| `collection` | violation | `CollectionCreated`: MintCollection always fails |

Two of each are enough where two are used: the properties relate one origin to
another, one admin to another, the key before to the key after, one entry of the list to
the one that shadows it; nothing in the code counts further. In `deposit` the lamports
suffice for the rent of one bridge admin at a time (which may be emptied, and the other
one opened), while the commissions of both are there all along: charges of one
commission and deposits with the other admin meet in every transaction. Every invariant, action property
and refinement that the passing runs check is proved for all values of the constants
besides; only `SignedUpgradeLands` is not.

**Fairness.** Three specifications assume any. `UpgradeFairSpec`: weak fairness of each
upgrade; a signature is public, anybody can submit it, so somebody does. With it
`SignedUpgradeLands`: what is signed is carried out, unless another upgrade takes the nonce or the
key is replaced; nobody outside can spoil the buffer. `CollectionFairSpec`: someone
keeps calling MintCollection (weak fairness of `Collect`); the caller is free to
retry, so a handler that could succeed would. `CommissionFairSpec`: weak fairness of
fee withdrawals for each commission admin; receivers submit what is signed for them.
Those two runs show that even so the code never gets there.

Every property has a mutant: an operator `Faulty...` beside the definition it
replaces (a dropped check, a balance overwritten, a nonce not spent, an update of
the wrong entry), with which TLC finds the property violated.

## Theorems

Eight modules hold the theorems, one for every safety property and refinement of the
passing runs; `PROJECT.json`, "theorems", lists them. They rest on the assumptions named in the modules,
which TLC evaluates for the instances: absent values are none of the present ones, the
native asset is no mint, foreign mints are not derived addresses, amounts are naturals, rent
is positive, genesis and inputs are well typed. `Seeds` and `Origins` are finite (both are
32-byte strings); nothing else is bounded, except that a transaction has fewer than 65535
instructions and that the bounds of `DepositTx`, `Upgrade` and `Batches` are some naturals.

Each invariant is proved inductive, alone or with what it leans on: one lemma per handler, a
lemma that joins them over the next-state relation, and the theorem by temporal logic.

**Induction.** The induction theorems of the library take a predicate as a parameter,
which the provers cannot instantiate. `SumTheorems` states them for sets instead: a set with 0
that is closed under successor has all numbers (`NatSetInduction`, from the
well-foundedness of `<`), and a family of sets with the empty one that is closed under
adding an element of S has S (`FiniteSetInduction`). A statement to be proved by induction
becomes the set of numbers, or the family of sets, of which it holds. In the same way it
proves that the functions defined by recursion exist and unfold: the table behind
the library's `SumFunctionOnSet`, `Trees` and `HashesAlong` of `Batches`. From the table follow the laws
of sums that the rest needs: a sum is natural, does not depend on what lies
outside its set, and changes by as much as one summand does (`SumChange`).

`BridgeProofs`:

* `TypeCorrect`: `Spec => []TypeOK`. The non-obvious part is that balances stay
  natural: a payment first takes what it mints into custody.
* `ClaimedOnce`: `Spec => []ClaimOnce`, inductive once `TypeOK` is known: every
  withdrawal goes through `CreateWithdraw`, whose guard makes the count 0 before.
* `AddressesExclusive`: `Spec => []AddressExclusive`. Both ways an address comes into
  use look at `Occupied`; the withdrawal that creates a mint looks at it again after
  the mint is there (`minted.mint`), which is what excludes an origin
  equal to the token seed in the very step that creates both.
* `MintingCoversShortfall`: `Spec => MintsOnlyShortfall`, an action property; that
  the minting admin is the mint's authority comes from `CanMint`.
* `WrappedMetadataSigned`: `Spec => []WrappedMetaSigned`; a mint that is created is checked in
  the same step through the content built from what was created, and neither decimals nor
  metadata of a wrapped mint change afterwards. What equal hashes tell is in the lemmas on
  "the signed bytes": a token content ends, after its only mint that is not a collection, in
  texts and bytes that are no mint (`MintIsLast`), so that the bytes name the mint
  (`MintTold`), whatever kind they are read as.

`ConservationProofs`, on the same assumptions:

* `SupplyIsConserved`: `Spec => []SupplyConserved`. For each asset every step leaves
  `wallets + InCustody - Supply` as it is (`Balanced`): deposits move from wallets to one
  summand of the custody, burns take as much from the supply as from the wallets, mints add as
  much to it as to the minting admin's custody, payments move from there to the wallets. The joint theorem of `DepositTxProofs` uses the same lemmas.
* `BooksAlwaysBalance`: `Spec => []BooksBalance`. A withdrawal creates one
  record, of an origin that had none (`CreateWithdraw`), for what the wallets receive
  (`RecordBooked`); no other step touches the records, and deposits move both `wallets` and
  `inflow`. It depends on the wallets receiving the recorded amount whatever mix of
  custody and fresh mint they receive it from.

`BridgeClaimsProofs`:

* `BridgeImplementsClaims`: `Spec => ImplementsClaims`. Initial states map to
  initial states; TransferOwnership is `Rotate`, InitializeAdmin is
  `Open`, Sign is `Approve`, each withdrawal is `Pay` with the approval its
  signature stands for, everything else stutters. A signed content approves what its
  bytes can be read as (`Entitlements`): the claim it states, one non-fungible token in
  place of an amount, or, for a nameless non-fungible one, an amount that its URI spells
  out. The proof that there is nothing else (`BytesEntitle`) finds the amount in the bytes: a
  symbol and a byte of decimals contain none, so it is the last (`AmountTold`). It uses `TypeCorrect`.

`CommissionProofs`:

* `CommissionTypeCorrect`: `CommissionSpec => []CommissionTypeOK`; the lemmas say what
  `Removed` and `Updated` do to the entries of a list.
* `PricesAgreed`: `[]PricesSigned`: the list after an operation has the entries it had, and at
  most one with the amount of the content just carried out.
* `OperationsOnceInOrder`: `[]AppliedOnceInOrder`: the content carried out has the
  current nonce and all earlier ones of its kind have smaller ones, so it is new, and the
  cardinality grows with the nonce.
* `UpdatedPriceCounts`: `CommissionSpec => UpdateSetsPrice`, an action property: update and charge
  both take the first entry of the token, and an update moves no entry before it.
* `FeesAreConserved`: `[]FeesConserved`: what a charge adds to one admin's fees the purse
  loses, and a withdrawal the reverse.

`DepositTxProofs` joins the two programs. It uses `CommissionProofs` through an instance under
the same substitution as the one in `DepositTx` (`FP`), so that each of its lemmas holds of
the composition once `CommissionApplies` has shown that the assumptions carry over. A step
of a transaction, or between two, is one of the bridge program that leaves the commission
accounts alone, or one of the commission program that leaves alone of the bridge all but the
wallets (`WhoActs`).

* `TxTypeCorrect`: `TxSpec => []TxTypeOK`: types of both programs and of the transaction.
* `ChargeServesOneInstruction`: `TxSpec => []DepositsCharged`. The strengthening `TxInv` says
  that what the sysvar shows as a charge was one, and that each deposit stands right after a
  charge of its terms; moving every position down by one maps deposits into charges
  injectively. That the wrapped index of the first instruction finds nothing is where the
  bound on instructions is needed.
* `DepositsPaid`: `TxSpec => []CommissionReached`. Besides `TxInv` it needs that within a
  transaction no fee balance falls below what it was at the beginning (`FeesKept`), and
  that each admin of a charge that was executed has received a listed price since, or holds
  one in a fungible token that it could pay to itself (`ChargesPaid`); the lists do not change
  within a transaction. A list may hold a price of 0, and then no more than that is owed:
  the property promises the listed price, not a positive one. That each deposit is paid for
  in its own transaction is false of the code: `NoFreeDeposit`.
* `TokensJointlyConserved`: `TxSpec => []JointlyConserved`: each program keeps the sum of what it
  holds and the wallets, or, minting and burning, changes it by as much as the supply, and leaves
  what the other holds alone; for all transactions of `TxNext`.

`UpgradeProofs` rests also on the rules of `HandOver`, `SignUpgrade` and
`SignRotation`, which are actions of the model.

* `UpgradeTypeCorrect`, `SignersInControl`: inductive with the fact that keys of the signers
  name only keys of the signers as successors.
* `OnlyReviewedCodeRuns`: `[]OnlyReviewedCode`. The strengthening (`SignedFrozen`) says that a
  signature of the signers is never for a nonce ahead of the admin's, and that while its nonce
  is the current one the buffer belongs to the admin, with the code that was reviewed: nobody
  else can write or close it, and the upgrade that consumes it moves the nonce on.
* `NonceUsedOnce`: `[]OneReleasePerNonce`.

`BatchesProofs` holds for any contents, keys, heights of trees and lengths of paths. The digests
are values of the model, so that equal digests have equal inputs is a fact of set theory here
and the freedom of collisions is in the modelling, not in an assumption.

* Two lemmas carry the rest. `RootsTellContents`: if the hashes along a path from a content
  end in the root of a tree, the tree has that content, by induction over the tree: a root
  of a leaf is the end of no proper path, and the last step into an inner node comes out of
  one of its two subtrees, since a path adds one level at a time. `ContentsHavePaths`: each
  content of a tree has a path to its root no longer than the tree is high.
* `BatchTypeCorrect`, `OnlyBatchedAccepted`, `EveryBatchedAcceptable`, `KeysNamed`. The inductive
  invariant `BatchInv` says that each digest signed is the root of a tree all of whose contents
  are batched, or a rotation that is named (`DigestsMeant`), and that each batched content is
  in a tree whose root is signed (`BatchesSigned`).
* `BatchesImplementApprovals`: `BatchSpec => ImplementsApprovals`. A batch is `Approve`, a signed
  successor is `Name`, a content that gets through is `Accept` by `RootsTellContents`; a
  rotation is `PassOn`, unless its bytes are an inner node's: then the tree with that root has
  two contents at least, and it is `Lose`.

**Model-checked only.** Liveness under fairness is beyond the prover: `SignedUpgradeLands` holds in
the `upgrade` run, `CollectionCreated` and `NativeFeesWithdrawable` fail in theirs. The other four
properties that fail (`AdminPersists`, `SignedDataVerified`, `WithdrawAmountSigned`, `NoFreeDeposit`) have
no theorem because they are false.

## Not modelled

* Error codes, entrypoints and logging: no state; an instruction that fails is a step that
  changes nothing, whatever its code.
* The instruction builders (`lib/src/instructions`): client-side lists of accounts, without
  state; a wrong list makes the processor fail.
* The deployment script (`scripts/process_init_admin.js`), which does not run as it stands.
* secp256k1, keccak, SPL Token, Metaplex, the loader and the runtime themselves: external,
  modelled from how the programs use them.
* The Rarimo core, which observes deposits and decides what is signed: its code is not in this
  repository, so `Sign` is free to sign any message of the instance. Whether custody covers
  the claims, or every deposit is paid elsewhere, is a question about that code.
* Optional details: lengths of strings, rents of token accounts, lamports somebody sends to an
  address before it is created.

## What could follow

Abstract specifications of the commission's list and of upgrades, with refinements like those
of `Claims` and `Approvals`; `Bridge`, `Commission` and `Upgrade` over `Approvals` itself, with
a digest per signature in place of a pair; list changes inside a deposit transaction; a model
of the core if its code becomes part of this repository.
