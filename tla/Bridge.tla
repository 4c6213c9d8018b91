------------------------------- MODULE Bridge -------------------------------
(***************************************************************************)
(* The Rarimo bridge program (bridge/program) on Solana.                   *)
(*                                                                         *)
(* A bridge-admin account, one per 32-byte seed, holds the deposits and    *)
(* the threshold public key whose signatures authorise withdrawals.  Every *)
(* withdrawal names an origin and leaves a Withdraw account at the address *)
(* derived from it.  The runtime executes an instruction completely or     *)
(* undoes it, and serialises instructions that write the same accounts:    *)
(* each handler is therefore one atomic action whose early returns are     *)
(* its guards, a failing instruction being a step that changes nothing.    *)
(*                                                                         *)
(* A token account is a number: custody[s][a] is what admin s holds of     *)
(* asset a (its lamports, its associated token account), wallets[a] is     *)
(* what all other holders have together.  A token account that does not    *)
(* exist yet holds 0.  Transaction fees and the rent of accounts other     *)
(* than the admin's come out of lamports this module does not count.       *)
(***************************************************************************)
EXTENDS Naturals, Sequences, FiniteSetsExt

CONSTANTS
  Seeds,              \* seeds of bridge-admin accounts whose address is off the curve
  PublicKeys,         \* threshold ECDSA public keys
  Programs,           \* commission programs an admin may name
  Receivers,          \* wallets that sign a withdrawal as its owner
  Origins,            \* hashes of deposit events on other chains
  TokenSeeds,         \* seeds of the mints the bridge creates
  ForeignMints,       \* mints the bridge did not create
  Characters,         \* what texts are made of, besides bytes that mean something
  Names, Symbols, Uris,  \* of tokens: texts, each a sequence of pieces
  Decimals,           \* mint decimals
  Amounts,            \* amounts an instruction may carry, 0 included
  Messages,           \* the <<key, content>> pairs the signers may sign
  MintArguments,      \* the <<token_seed, signed_meta>> options callers withdraw with
  MetadataUpdates,    \* the <<mint, metadata>> pairs its owner may replace it by
  PriorInstructions,  \* what may precede a deposit in its transaction, None included
  Genesis,            \* [ForeignMints -> supply, decimals and metadata at the start]
  GenesisLamports,    \* lamports in wallets at the start
  RentMin,            \* rent-exempt minimum of a bridge-admin account
  U64Max,             \* largest token supply
  Sol,                \* the native asset
  None                \* an absent account, option or instruction

VARIABLES
  admin,      \* [Seeds -> BridgeAdmin data, or None]
  custody,    \* [Seeds -> [Assets -> Nat]], what each admin holds
  wallets,    \* [Assets -> Nat], what everybody else holds
  mint,       \* [Mints -> mint account, or None]
  metadata,   \* [Mints -> Metaplex metadata, or None]
  withdraw,   \* [Origins -> Withdraw data, or None]
  signed,     \* the messages signed so far
  payouts,    \* history: how many times each origin has been paid out
  inflow      \* history: what wallets have paid in of each asset

vars == <<admin, custody, wallets, mint, metadata, withdraw, signed, payouts, inflow>>

-----------------------------------------------------------------------------
(* Accounts. *)

\* find_program_address(&[seed], program_id): origins and token seeds are both
\* 32-byte strings and share this one address space.
Pda(seed) == <<"pda", seed>>

WrappedMints == {Pda(t) : t \in TokenSeeds}
Mints  == ForeignMints \cup WrappedMints
Assets == {Sol} \cup Mints

TokenTypes == {"Native", "FT", "NFT"}

Admins        == [public_key : PublicKeys, commission_program : Programs]
MintAccounts  == [authority : Seeds \cup {None}, decimals : Decimals, supply : Nat]
Metadatas     == [name : Names, symbol : Symbols, uri : Uris,
                  collection : ForeignMints \cup {None}]
SignedMetas   == [name : Names, symbol : Symbols, uri : Uris, decimals : Decimals]
Withdraws     == [token_type : TokenTypes, mint : Mints \cup {None}, amount : Nat,
                  origin : Origins, receiver : Receivers]

\* The address [COMMISSION_ADMIN_PDA_SEED, admin key] of the commission program.
CommissionKey(program, s) == <<"commission_admin", program, s>>

(* The Instructions-sysvar entry before the current one, as far as it is read. *)
Instructions ==
  [program_id : Programs, account : {CommissionKey(p, s) : p \in Programs, s \in Seeds},
   name : {"ChargeCommission", "AddFeeToken"},
   deposit_token : TokenTypes, deposit_token_amount : Amounts]

ASSUME NoneAssumption ==
  /\ None \notin Seeds \cup PublicKeys \cup TokenSeeds \cup Mints
  /\ None \notin Admins \cup MintAccounts \cup Metadatas \cup SignedMetas \cup Withdraws
ASSUME AssetAssumption ==
  /\ Sol \notin Mints
  /\ ForeignMints \cap WrappedMints = {}
ASSUME AmountAssumption ==
  /\ Amounts \subseteq Nat
  /\ RentMin \in Nat \ {0}
  /\ U64Max \in Nat
  /\ GenesisLamports \in Nat
ASSUME FinitenessAssumption ==  \* 32-byte strings
  IsFiniteSet(Seeds) /\ IsFiniteSet(Origins)
ASSUME GenesisAssumption ==
  Genesis \in [ForeignMints -> [supply : Nat, decimals : Decimals,
                                metadata : Metadatas \cup {None}]]
ASSUME InstructionAssumption ==
  PriorInstructions \subseteq Instructions \cup {None}
ASSUME UpdateAssumption ==
  /\ MetadataUpdates \subseteq ForeignMints \X Metadatas
  /\ MintArguments \subseteq (TokenSeeds \cup {None}) \X (SignedMetas \cup {None})

-----------------------------------------------------------------------------
(* Signed contents.  A signature covers a Merkle root; the leaf of a content *)
(* under a signed root is what the pair <<key, content>> stands for.         *)

Contents ==
  [kind : {"Native"}, origin : Origins, receiver : Receivers, amount : Amounts]
  \cup [kind : {"FT"}, origin : Origins, receiver : Receivers, mint : Mints, amount : Amounts,
        name : Names, symbol : Symbols, uri : Uris, decimals : Decimals]
  \cup [kind : {"NFT"}, origin : Origins, receiver : Receivers, mint : Mints,
        collection : ForeignMints \cup {None}, name : Names, symbol : Symbols, uri : Uris]
  \cup [kind : {"Rotation"}, public_key : PublicKeys]

ASSUME MessageAssumption == Messages \subseteq PublicKeys \X Contents

NativeContent(o, u, amt) ==
  [kind |-> "Native", origin |-> o, receiver |-> u, amount |-> amt]

FTContent(o, u, m, amt, data, decimals) ==
  [kind |-> "FT", origin |-> o, receiver |-> u, mint |-> m, amount |-> amt,
   name |-> data.name, symbol |-> data.symbol, uri |-> data.uri, decimals |-> decimals]

\* With a collection the name and the symbol come from the collection's metadata;
\* the decimals are no part of an NFT content.
NFTContent(o, u, m, datas) ==
  LET c == datas[m].collection
      named == datas[IF c # None THEN c ELSE m]
  IN
  [kind |-> "NFT", origin |-> o, receiver |-> u, mint |-> m, collection |-> c,
   name |-> named.name, symbol |-> named.symbol, uri |-> datas[m].uri]

RotationContent(k) == [kind |-> "Rotation", public_key |-> k]

\* The 32 bytes of an amount and the byte of the decimals.
AmountBytes(amt) == <<"amount", amt>>
DecimalsByte(d) == <<"decimals", d>>

\* A text may contain those bytes too, but no symbol has room for an amount (10
\* bytes).  An address is the only thing that has the 32 bytes of that address.
SymbolPieces == Characters \cup {DecimalsByte(d) : d \in Decimals}
TextPieces == SymbolPieces \cup {AmountBytes(amt) : amt \in Amounts}

ASSUME TextAssumption ==
  /\ Names \cup Uris \subseteq Seq(TextPieces)
  /\ Symbols \subseteq Seq(SymbolPieces)
  /\ TextPieces \cap Mints = {}
  /\ SymbolPieces \cap {AmountBytes(amt) : amt \in Amounts} = {}

\* get_operation: the fields there are, one after the other, without lengths, texts
\* without padding, and nothing that says of which kind the content is.
Operation(c) ==
  CASE c.kind = "Native" -> <<AmountBytes(c.amount)>>
    [] c.kind = "FT" ->
         <<c.mint>> \o ((c.name \o c.uri)
           \o (<<AmountBytes(c.amount)>> \o (c.symbol \o <<DecimalsByte(c.decimals)>>)))
    [] c.kind = "NFT" ->
         ((IF c.collection = None THEN <<>> ELSE <<c.collection>>) \o c.name)
           \o (<<c.mint>> \o (c.uri \o c.symbol))

\* Faulty variant: the origin is left out of the bytes.
FaultyHashed(c) ==
  IF c.kind = "Rotation" THEN c ELSE [receiver |-> c.receiver, operation |-> Operation(c)]

\* Content::hash appends what is fixed in length.  A rotation hashes the key alone,
\* which is shorter than any content.
Hashed(c) ==
  IF c.kind = "Rotation" THEN c
  ELSE [origin |-> c.origin, receiver |-> c.receiver, operation |-> Operation(c)]

\* Faulty variants: any key that ever signed is accepted; the root is taken from
\* the caller instead of being computed from the content.
FaultyAnyKey(k, content) == \E message \in signed : message[2] = content
FaultyAnyLeaf(k, content) ==
  \E message \in signed : message[1] = k /\ message[2].kind = content.kind

VerifyEcdsaSignature(k, content) ==
  LET bytes == Hashed(content) IN
  \E message \in signed : message[1] = k /\ Hashed(message[2]) = bytes

-----------------------------------------------------------------------------
(* Parts shared by the handlers. *)

\* Faulty variant: Withdraw accounts are not looked at.
FaultyOccupied(address, mints) == address \in Mints /\ mints[address] # None

\* system_instruction::create_account refuses an address that is in use,
\* whatever kind of account is there.
Occupied(address, mints) ==
  \/ \E o \in Origins : address = Pda(o) /\ withdraw[o] # None
  \/ address \in Mints /\ mints[address] # None

\* The runtime lets an account stay rent exempt or be emptied, nothing between.
RentStateAllowed(lamports) == lamports = 0 \/ lamports >= RentMin

\* Rent::minimum_balance(BRIDGE_ADMIN_SIZE).
AdminRent == RentMin

\* Faulty variant: the charged account is not compared.
FaultyVerifyCommissionCharged(s, prior, type, amt) ==
  /\ prior # None
  /\ prior.program_id = admin[s].commission_program
  /\ prior.name = "ChargeCommission"
  /\ prior.deposit_token = type
  /\ prior.deposit_token_amount = amt

VerifyCommissionCharged(s, prior, type, amt) ==
  /\ prior # None
  /\ prior.program_id = admin[s].commission_program
  /\ prior.account = CommissionKey(prior.program_id, s)
  /\ prior.name = "ChargeCommission"
  /\ prior.deposit_token = type
  /\ prior.deposit_token_amount = amt

\* CreateMetadataAccountV3 with the caller's texts and no collection.
MetadataOf(meta) ==
  [name |-> meta.name, symbol |-> meta.symbol, uri |-> meta.uri, collection |-> None]

\* Faulty variant: the mint is initialised again when it exists.
FaultyTryMint(s, m, seed, meta) ==
  IF seed # None
  THEN [mint |-> [mint EXCEPT ![m] = [authority |-> s, decimals |-> meta.decimals,
                                      supply |-> 0]],
        metadata |-> [metadata EXCEPT ![m] = MetadataOf(meta)]]
  ELSE [mint |-> mint, metadata |-> metadata]

\* Only a mint that does not exist is created, with the caller's metadata.
TryMintTokenWithMeta(s, m, seed, meta) ==
  IF seed # None /\ ~Occupied(m, mint)
  THEN [mint |-> [mint EXCEPT ![m] = [authority |-> s, decimals |-> meta.decimals,
                                      supply |-> 0]],
        metadata |-> [metadata EXCEPT ![m] = MetadataOf(meta)]]
  ELSE [mint |-> mint, metadata |-> metadata]

\* Faulty variant: custody is not drawn on.
FaultyShortfall(held, amt) == amt

\* What has to be minted before amt can be paid out of a balance of held.
Shortfall(held, amt) == IF held < amt THEN amt - held ELSE 0

\* spl_token mint_to by admin s.
CanMint(account, s, amt) ==
  amt > 0 => account.authority = s /\ account.supply + amt <= U64Max

\* Faulty variant: the balance is replaced instead of increased.
FaultyPayIn(s, a, amt) ==
  /\ wallets[a] >= amt
  /\ wallets' = [wallets EXCEPT ![a] = @ - amt]
  /\ custody' = [custody EXCEPT ![s][a] = amt]
  /\ inflow' = [inflow EXCEPT ![a] = @ + amt]

\* A wallet pays amt of asset a into the custody of admin s.
PayIn(s, a, amt) ==
  /\ wallets[a] >= amt
  /\ wallets' = [wallets EXCEPT ![a] = @ - amt]
  /\ custody' = [custody EXCEPT ![s][a] = @ + amt]
  /\ inflow' = [inflow EXCEPT ![a] = @ + amt]

\* spl_token burn by a wallet.
Burn(m, amt) ==
  /\ wallets[m] >= amt /\ mint[m].supply >= amt
  /\ mint' = [mint EXCEPT ![m].supply = @ - amt]
  /\ wallets' = [wallets EXCEPT ![m] = @ - amt]
  /\ inflow' = [inflow EXCEPT ![m] = @ + amt]
  /\ UNCHANGED custody

\* Faulty variant: two 32-byte fields swapped.
FaultyWithdrawRecord(type, m, amt, o, u) ==
  [token_type |-> type, mint |-> m, amount |-> amt, origin |-> u, receiver |-> o]

WithdrawRecord(type, m, amt, o, u) ==
  [token_type |-> type, mint |-> m, amount |-> amt, origin |-> o, receiver |-> u]

\* The tail of every withdrawal: the Withdraw account is created and filled.
CreateWithdraw(type, m, amt, o, u, mints) ==
  /\ ~Occupied(Pda(o), mints)
  /\ withdraw' = [withdraw EXCEPT ![o] = WithdrawRecord(type, m, amt, o, u)]
  /\ payouts' = [payouts EXCEPT ![o] = @ + 1]

-----------------------------------------------------------------------------
(* Handlers. *)

InitializeAdmin(s, k, p) ==
  /\ custody[s][Sol] = 0
  /\ admin[s] = None
  /\ admin' = [admin EXCEPT ![s] = [public_key |-> k, commission_program |-> p]]
  /\ PayIn(s, Sol, AdminRent)
  /\ UNCHANGED <<mint, metadata, withdraw, signed, payouts>>

TransferOwnership(s, k) ==
  /\ admin[s] # None
  /\ VerifyEcdsaSignature(admin[s].public_key, RotationContent(k))
  /\ admin' = [admin EXCEPT ![s].public_key = k]
  /\ UNCHANGED <<custody, wallets, mint, metadata, withdraw, signed, payouts, inflow>>

DepositNative(s, amt, prior) ==
  /\ amt > 0
  /\ admin[s] # None
  /\ VerifyCommissionCharged(s, prior, "Native", amt)
  /\ PayIn(s, Sol, amt)
  /\ UNCHANGED <<admin, mint, metadata, withdraw, signed, payouts>>

\* With a token seed the mint must be the bridge's own and the tokens are
\* burned; without one they move into custody, whatever mint they are of.
DepositToken(s, m, amt, seed, prior, type) ==
  /\ admin[s] # None
  /\ VerifyCommissionCharged(s, prior, type, amt)
  /\ mint[m] # None
  /\ \/ seed # None /\ m = Pda(seed) /\ Burn(m, amt)
     \/ seed = None /\ PayIn(s, m, amt) /\ UNCHANGED mint
  /\ UNCHANGED <<admin, metadata, withdraw, signed, payouts>>

DepositFT(s, m, amt, seed, prior) ==
  amt > 0 /\ DepositToken(s, m, amt, seed, prior, "FT")

DepositNFT(s, m, seed, prior) == DepositToken(s, m, 1, seed, prior, "NFT")

\* An admin account emptied to its last lamport is gone, and its data with it.
WithdrawNative(s, o, u, amt) ==
  LET left == custody[s][Sol] - amt IN
  /\ amt > 0
  /\ admin[s] # None
  /\ VerifyEcdsaSignature(admin[s].public_key, NativeContent(o, u, amt))
  /\ custody[s][Sol] >= amt
  /\ RentStateAllowed(left)
  /\ CreateWithdraw("Native", None, amt, o, u, mint)
  /\ custody' = [custody EXCEPT ![s][Sol] = left]
  /\ wallets' = [wallets EXCEPT ![Sol] = @ + amt]
  /\ admin' = IF left = 0 THEN [admin EXCEPT ![s] = None] ELSE admin
  /\ UNCHANGED <<mint, metadata, signed, inflow>>

\* What the two token withdrawals share.  The mint and its metadata are created
\* before the signature is checked: minted is what is then on chain, and content
\* what the program makes of it.
WithdrawToken(s, o, u, m, amt, minted, type, content) ==
  LET short == Shortfall(custody[s][m], amt) IN
  /\ admin[s] # None
  /\ minted.mint[m] # None
  /\ minted.metadata[m] # None
  /\ VerifyEcdsaSignature(admin[s].public_key, content)
  /\ CanMint(minted.mint[m], s, short)
  /\ CreateWithdraw(type, m, amt, o, u, minted.mint)
  /\ mint' = [minted.mint EXCEPT ![m].supply = @ + short]
  /\ metadata' = minted.metadata
  /\ custody' = [custody EXCEPT ![s][m] = @ + short - amt]
  /\ wallets' = [wallets EXCEPT ![m] = @ + amt]
  /\ UNCHANGED <<admin, signed, inflow>>

\* A token seed comes with metadata and must be the seed of the mint.
SeedMatches(m, seed, meta) == seed # None => m = Pda(seed) /\ meta # None

WithdrawFT(s, o, u, m, amt, seed, meta) ==
  LET minted == TryMintTokenWithMeta(s, m, seed, meta) IN
  /\ amt > 0
  /\ SeedMatches(m, seed, meta)
  /\ WithdrawToken(s, o, u, m, amt, minted, "FT",
       FTContent(o, u, m, amt, minted.metadata[m], minted.mint[m].decimals))

\* The metadata of the collection, if the token names one, must exist.
WithdrawNFT(s, o, u, m, seed, meta) ==
  LET minted == TryMintTokenWithMeta(s, m, seed, meta) IN
  /\ SeedMatches(m, seed, meta)
  /\ metadata[m] # None /\ metadata[m].collection # None
       => metadata[metadata[m].collection] # None
  /\ WithdrawToken(s, o, u, m, 1, minted, "NFT", NFTContent(o, u, m, minted.metadata))

-----------------------------------------------------------------------------
(* The environment. *)

\* The holders of a threshold key sign a message.  A signature is public from
\* then on and may be used late, in any order, by anyone, again, or never.
Sign(message) ==
  /\ message \notin signed
  /\ signed' = signed \cup {message}
  /\ UNCHANGED <<admin, custody, wallets, mint, metadata, withdraw, payouts, inflow>>

\* The metadata of a mint the bridge did not create belongs to somebody else.
\* (The bridge creates its own with is_mutable false.)
UpdateMetadata(m, data) ==
  /\ metadata[m] # None
  /\ metadata[m] # data
  /\ metadata' = [metadata EXCEPT ![m] = data]
  /\ UNCHANGED <<admin, custody, wallets, mint, withdraw, signed, payouts, inflow>>

-----------------------------------------------------------------------------
InitialWallets(a) ==
  CASE a = Sol -> GenesisLamports
    [] a \in ForeignMints -> Genesis[a].supply
    [] OTHER -> 0

Init ==
  /\ admin = [s \in Seeds |-> None]
  /\ custody = [s \in Seeds |-> [a \in Assets |-> 0]]
  /\ wallets = [a \in Assets |-> InitialWallets(a)]
  /\ mint = [m \in Mints |->
       IF m \in ForeignMints
       THEN [authority |-> None, decimals |-> Genesis[m].decimals,
             supply |-> Genesis[m].supply]
       ELSE None]
  /\ metadata = [m \in Mints |-> IF m \in ForeignMints THEN Genesis[m].metadata ELSE None]
  /\ withdraw = [o \in Origins |-> None]
  /\ signed = {}
  /\ payouts = [o \in Origins |-> 0]
  /\ inflow = [a \in Assets |-> 0]

Manage ==
  \E s \in Seeds, k \in PublicKeys :
    \/ \E p \in Programs : InitializeAdmin(s, k, p)
    \/ TransferOwnership(s, k)

Deposit ==
  \E s \in Seeds, prior \in PriorInstructions :
    \/ \E amt \in Amounts : DepositNative(s, amt, prior)
    \/ \E m \in Mints, seed \in TokenSeeds \cup {None} :
         \/ \E amt \in Amounts : DepositFT(s, m, amt, seed, prior)
         \/ DepositNFT(s, m, seed, prior)

Withdraw ==
  \E s \in Seeds, o \in Origins, u \in Receivers :
    \/ \E amt \in Amounts : WithdrawNative(s, o, u, amt)
    \/ \E m \in Mints, arg \in MintArguments :
         \/ \E amt \in Amounts : WithdrawFT(s, o, u, m, amt, arg[1], arg[2])
         \/ WithdrawNFT(s, o, u, m, arg[1], arg[2])

Environment ==
  \/ \E message \in Messages : Sign(message)
  \/ \E update \in MetadataUpdates : UpdateMetadata(update[1], update[2])

Next == Manage \/ Deposit \/ Withdraw \/ Environment

Spec == Init /\ [][Next]_vars

-----------------------------------------------------------------------------
(* Properties. *)

\* Content c is for the wrapped mint w, and its bytes are those of a content made
\* of these accounts, fungible (for some amount) or not.
Vouches(c, w, account, data) ==
  /\ c.kind \in {"FT", "NFT"} /\ c.mint = w
  /\ \/ \E amt \in Amounts :
          Operation(c) = Operation(FTContent(c.origin, c.receiver, w, amt, data, account.decimals))
     \/ Operation(c) = Operation(NFTContent(c.origin, c.receiver, w, [m \in {w} |-> data]))

\* Every variable holds what its declaration says: the accounts carry data of
\* their own layout (bridge/program/src/state.rs), balances never go negative.
TypeOK ==
  /\ admin \in [Seeds -> Admins \cup {None}]
  /\ custody \in [Seeds -> [Assets -> Nat]]
  /\ wallets \in [Assets -> Nat]
  /\ mint \in [Mints -> MintAccounts \cup {None}]
  /\ metadata \in [Mints -> Metadatas \cup {None}]
  /\ withdraw \in [Origins -> Withdraws \cup {None}]
  /\ signed \subseteq Messages
  /\ payouts \in [Origins -> Nat]
  /\ inflow \in [Assets -> Nat]

\* An origin is paid out at most once, over all bridge admins, token types and
\* receivers, and exactly when its Withdraw account exists: the only thing that
\* stops a second withdrawal is that account creation fails in the middle of
\* the handler, after the signature has verified again.
ClaimOnce ==
  \A o \in Origins : payouts[o] = IF withdraw[o] = None THEN 0 ELSE 1

RecordAsset(record) == IF record.mint = None THEN Sol ELSE record.mint

\* What the record of an origin says was paid of asset a.
Paid(record, a) == IF record # None /\ RecordAsset(record) = a THEN record.amount ELSE 0

PaidOut(a) == SumFunctionOnSet([o \in Origins |-> Paid(withdraw[o], a)], Origins)

InCustody(a) == SumFunctionOnSet([s \in Seeds |-> custody[s][a]], Seeds)

\* The Withdraw accounts are a complete account of what left the bridge: what
\* wallets hold of an asset is what they started with, less what they paid in,
\* plus the amounts the records of that asset name, whatever mix of custody
\* and freshly minted tokens each payment came out of.
BooksBalance ==
  \A a \in Assets : wallets[a] + inflow[a] = InitialWallets(a) + PaidOut(a)

\* What there is of an asset: lamports are constant, mints have a supply.
Supply(a) ==
  IF a = Sol THEN GenesisLamports ELSE IF mint[a] = None THEN 0 ELSE mint[a].supply

\* Nothing is created or lost in transfers, mints and burns: custody and wallets
\* together hold the supply of every mint and all the lamports there are.
SupplyConserved == \A a \in Assets : wallets[a] + InCustody(a) = Supply(a)

\* A withdrawal draws on custody first: when the supply of a mint grows, the
\* admin that is its authority ends with none of it in custody.
MintsOnlyShortfall ==
  [][\A m \in Mints :
       mint[m] # None /\ mint'[m] # None /\ mint'[m].supply > mint[m].supply
         => mint[m].authority # None /\ custody'[mint[m].authority][m] = 0]_vars

\* For every mint the bridge created a threshold key signed bytes that, read as one
\* of the two kinds of token content, name this mint and the texts (and, if read as
\* fungible, the decimals) it carries, though the accounts were created from the
\* caller's argument before any signature was looked at.
WrappedMetaSigned ==
  \A w \in WrappedMints : mint[w] # None =>
    /\ metadata[w] # None
    /\ \E message \in signed : Vouches(message[2], w, mint[w], metadata[w])

\* Origins and token seeds are hashes into one address space: an address never
\* serves as the record of a withdrawal and as a mint.
AddressExclusive ==
  \A o \in Origins : Pda(o) \in Mints => withdraw[o] = None \/ mint[Pda(o)] = None

\* bridge/README.md: the admin entry "will hold all deposited tokens"; the TODO
\* in process_withdraw_native leaves its rent unprotected.  An initialised admin
\* account never disappears.
AdminPersists ==
  [][\A s \in Seeds : admin[s] # None => admin'[s] # None]_vars

\* bridge/README.md of withdrawals: "Verifies the provided signature and data".  A
\* Withdraw account records the kind and the amount of a signed content, and a mint
\* is created, field by field, with the SignedMetadata of a signed content.
SignedDataVerified ==
  /\ \A o \in Origins : withdraw[o] # None =>
       \E message \in signed :
         LET c == message[2] IN
         /\ c.kind = withdraw[o].token_type /\ c.origin = o
         /\ c.kind # "NFT" => c.amount = withdraw[o].amount
  /\ \A w \in WrappedMints : mint[w] # None =>
       \E message \in signed :
         LET c == message[2] IN
         /\ c.kind \in {"FT", "NFT"} /\ c.mint = w
         /\ c.name = metadata[w].name /\ c.uri = metadata[w].uri
         /\ c.symbol = metadata[w].symbol
         /\ c.kind = "FT" => c.decimals = mint[w].decimals

=============================================================================
