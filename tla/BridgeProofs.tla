---------------------------- MODULE BridgeProofs ----------------------------
(***************************************************************************)
(* Theorems about Bridge for every value of its constants.                 *)
(***************************************************************************)
EXTENDS Bridge, SequenceTheorems, TLAPS

\* The options of a withdrawal are of their type.
LEMMA ArgumentTypes ==
  \A arg \in MintArguments :
    arg[1] \in TokenSeeds \cup {None} /\ arg[2] \in SignedMetas \cup {None}
BY UpdateAssumption

\* What a withdrawal mints covers what custody lacks and no more.
LEMMA ShortfallIsNat ==
  ASSUME NEW held \in Nat, NEW amt \in Nat
  PROVE  /\ Shortfall(held, amt) \in Nat
         /\ held + Shortfall(held, amt) - amt \in Nat
         /\ Shortfall(held, amt) > 0 => held + Shortfall(held, amt) - amt = 0
BY DEF Shortfall

\* The mint and metadata a token withdrawal works on are accounts of their type.
LEMMA TryMintType ==
  ASSUME TypeOK, NEW s \in Seeds, NEW m \in Mints, NEW seed \in TokenSeeds \cup {None},
         NEW meta \in SignedMetas \cup {None}, SeedMatches(m, seed, meta)
  PROVE  /\ TryMintTokenWithMeta(s, m, seed, meta).mint \in [Mints -> MintAccounts \cup {None}]
         /\ TryMintTokenWithMeta(s, m, seed, meta).metadata \in [Mints -> Metadatas \cup {None}]
<1>1. CASE seed # None /\ ~Occupied(m, mint)
  <2>1. meta \in SignedMetas
    BY <1>1 DEF SeedMatches
  <2>2. [authority |-> s, decimals |-> meta.decimals, supply |-> 0] \in MintAccounts
    BY <2>1 DEF SignedMetas, MintAccounts
  <2>3. MetadataOf(meta) \in Metadatas
    BY <2>1 DEF SignedMetas, Metadatas, MetadataOf
  <2> QED
    BY <1>1, <2>2, <2>3 DEF TryMintTokenWithMeta, TypeOK
<1>2. CASE ~(seed # None /\ ~Occupied(m, mint))
  BY <1>2 DEF TryMintTokenWithMeta, TypeOK
<1> QED
  BY <1>1, <1>2

\* A payment into custody keeps balances natural.
LEMMA PayInType ==
  ASSUME TypeOK, NEW s \in Seeds, NEW a \in Assets, NEW amt \in Nat, PayIn(s, a, amt)
  PROVE  /\ custody' \in [Seeds -> [Assets -> Nat]]
         /\ wallets' \in [Assets -> Nat]
         /\ inflow' \in [Assets -> Nat]
BY DEF TypeOK, PayIn

\* A Withdraw account is written with data of its layout.
LEMMA CreateWithdrawType ==
  ASSUME TypeOK, NEW type \in TokenTypes, NEW m \in Mints \cup {None}, NEW amt \in Nat,
         NEW o \in Origins, NEW u \in Receivers, NEW mints,
         CreateWithdraw(type, m, amt, o, u, mints)
  PROVE  /\ withdraw' \in [Origins -> Withdraws \cup {None}]
         /\ payouts' \in [Origins -> Nat]
<1>1. WithdrawRecord(type, m, amt, o, u) \in Withdraws
  BY DEF WithdrawRecord, Withdraws
<1> QED
  BY <1>1 DEF CreateWithdraw, TypeOK

\* The part the two token withdrawals share keeps every account's type.
LEMMA WithdrawTokenType ==
  ASSUME TypeOK, NEW s \in Seeds, NEW o \in Origins, NEW u \in Receivers, NEW m \in Mints,
         NEW amt \in Nat, NEW minted, NEW type \in TokenTypes, NEW content,
         minted.mint \in [Mints -> MintAccounts \cup {None}],
         minted.metadata \in [Mints -> Metadatas \cup {None}],
         WithdrawToken(s, o, u, m, amt, minted, type, content)
  PROVE  TypeOK'
<1> DEFINE short == Shortfall(custody[s][m], amt)
<1>1. m \in Assets /\ custody[s][m] \in Nat
  BY DEF TypeOK, Assets
<1>2. short \in Nat /\ custody[s][m] + short - amt \in Nat
  BY <1>1, ShortfallIsNat
<1>3. withdraw' \in [Origins -> Withdraws \cup {None}] /\ payouts' \in [Origins -> Nat]
  BY CreateWithdrawType DEF WithdrawToken
<1>4. mint' \in [Mints -> MintAccounts \cup {None}]
  <2>1. minted.mint[m] \in MintAccounts
    BY DEF WithdrawToken
  <2>2. [minted.mint[m] EXCEPT !.supply = @ + short] \in MintAccounts
    BY <1>2, <2>1 DEF MintAccounts
  <2>3. mint' = [minted.mint EXCEPT ![m] = [minted.mint[m] EXCEPT !.supply = @ + short]]
    BY DEF WithdrawToken
  <2> QED
    BY <2>2, <2>3
<1>5. custody' \in [Seeds -> [Assets -> Nat]] /\ wallets' \in [Assets -> Nat]
  <2>1. custody' = [custody EXCEPT ![s][m] = @ + short - amt]
    BY DEF WithdrawToken
  <2>2. wallets' = [wallets EXCEPT ![m] = @ + amt]
    BY DEF WithdrawToken
  <2> HIDE DEF short
  <2> QED
    BY <1>1, <1>2, <2>1, <2>2 DEF TypeOK
<1>6. metadata' \in [Mints -> Metadatas \cup {None}]
  BY DEF WithdrawToken
<1>7. UNCHANGED <<admin, signed, inflow>>
  BY DEF WithdrawToken
<1> QED
  BY <1>3, <1>4, <1>5, <1>6, <1>7 DEF TypeOK

\* A deposit keeps every account's type, whatever instruction was before it.
LEMMA DepositNativeType ==
  ASSUME TypeOK, NEW s \in Seeds, NEW amt \in Amounts, NEW prior, DepositNative(s, amt, prior)
  PROVE  TypeOK'
<1>1. Sol \in Assets /\ amt \in Nat
  BY AmountAssumption DEF Assets
<1> QED
  BY <1>1, PayInType DEF DepositNative, TypeOK

\* So does a deposit of tokens, whether they are burned or kept.
LEMMA DepositTokenType ==
  ASSUME TypeOK, NEW s \in Seeds, NEW m \in Mints, NEW amt \in Nat, NEW seed, NEW prior, NEW type,
         DepositToken(s, m, amt, seed, prior, type)
  PROVE  TypeOK'
<1>1. m \in Assets
  BY DEF Assets
<1>2. CASE PayIn(s, m, amt) /\ UNCHANGED mint
  BY <1>1, <1>2, PayInType DEF DepositToken, TypeOK
<1>3. CASE Burn(m, amt)
  <2>1. mint[m] \in MintAccounts /\ mint[m].supply \in Nat /\ mint[m].supply >= amt
    BY <1>3 DEF DepositToken, Burn, TypeOK, MintAccounts
  <2>2. [mint[m] EXCEPT !.supply = @ - amt] \in MintAccounts
    BY <2>1 DEF MintAccounts
  <2>3. wallets' \in [Assets -> Nat] /\ inflow' \in [Assets -> Nat] /\ UNCHANGED custody
    BY <1>1, <1>3 DEF Burn, TypeOK
  <2> QED
    BY <1>3, <2>2, <2>3 DEF DepositToken, Burn, TypeOK
<1> QED
  BY <1>2, <1>3 DEF DepositToken

\* The accounts the program starts from are of their type.
LEMMA InitType == Init => TypeOK
<1> SUFFICES ASSUME Init PROVE TypeOK
  OBVIOUS
<1>1. wallets \in [Assets -> Nat]
  <2>1. \A a \in Assets : InitialWallets(a) \in Nat
    BY AmountAssumption, GenesisAssumption, AssetAssumption DEF InitialWallets, Assets, Mints
  <2> QED
    BY <2>1 DEF Init
<1>2. mint \in [Mints -> MintAccounts \cup {None}]
  BY GenesisAssumption DEF Init, MintAccounts
<1>3. metadata \in [Mints -> Metadatas \cup {None}]
  BY GenesisAssumption DEF Init
<1> QED
  BY <1>1, <1>2, <1>3 DEF Init, TypeOK

\* No handler and no step of the environment breaks the layout of an account.
LEMMA NextType == TypeOK /\ [Next]_vars => TypeOK'
<1> SUFFICES ASSUME TypeOK, [Next]_vars PROVE TypeOK'
  OBVIOUS
<1> USE AmountAssumption
<1>1. ASSUME NEW s \in Seeds, NEW k \in PublicKeys, NEW p \in Programs,
             InitializeAdmin(s, k, p)
      PROVE  TypeOK'
  <2>1. Sol \in Assets /\ AdminRent \in Nat
    BY DEF Assets, AdminRent
  <2>2. [public_key |-> k, commission_program |-> p] \in Admins
    BY DEF Admins
  <2> QED
    BY <1>1, <2>1, <2>2, PayInType DEF InitializeAdmin, TypeOK
<1>2. ASSUME NEW s \in Seeds, NEW k \in PublicKeys, TransferOwnership(s, k)
      PROVE  TypeOK'
  <2>1. admin[s] \in Admins
    BY <1>2 DEF TransferOwnership, TypeOK
  <2>2. [admin[s] EXCEPT !.public_key = k] \in Admins
    BY <2>1 DEF Admins
  <2> QED
    BY <1>2, <2>2 DEF TransferOwnership, TypeOK
<1>3. ASSUME NEW s \in Seeds, NEW o \in Origins, NEW u \in Receivers, NEW amt \in Amounts,
             WithdrawNative(s, o, u, amt)
      PROVE  TypeOK'
  <2>1. Sol \in Assets /\ amt \in Nat
    BY DEF Assets
  <2>2. custody[s][Sol] \in Nat /\ custody[s][Sol] - amt \in Nat
    BY <1>3, <2>1 DEF WithdrawNative, TypeOK
  <2>3. withdraw' \in [Origins -> Withdraws \cup {None}] /\ payouts' \in [Origins -> Nat]
    BY <1>3, <2>1, CreateWithdrawType DEF WithdrawNative, TokenTypes
  <2>4. custody' \in [Seeds -> [Assets -> Nat]] /\ wallets' \in [Assets -> Nat]
    BY <1>3, <2>1, <2>2 DEF WithdrawNative, TypeOK
  <2>5. admin' \in [Seeds -> Admins \cup {None}]
    BY <1>3 DEF WithdrawNative, TypeOK
  <2> QED
    BY <1>3, <2>3, <2>4, <2>5 DEF WithdrawNative, TypeOK
<1>4. ASSUME NEW s \in Seeds, NEW o \in Origins, NEW u \in Receivers, NEW m \in Mints,
             NEW seed \in TokenSeeds \cup {None}, NEW meta \in SignedMetas \cup {None},
             NEW amt \in Amounts, WithdrawFT(s, o, u, m, amt, seed, meta)
      PROVE  TypeOK'
  BY <1>4, TryMintType, WithdrawTokenType DEF WithdrawFT, TokenTypes
<1>5. ASSUME NEW s \in Seeds, NEW o \in Origins, NEW u \in Receivers, NEW m \in Mints,
             NEW seed \in TokenSeeds \cup {None}, NEW meta \in SignedMetas \cup {None},
             WithdrawNFT(s, o, u, m, seed, meta)
      PROVE  TypeOK'
  BY <1>5, TryMintType, WithdrawTokenType DEF WithdrawNFT, TokenTypes
<1>6. ASSUME NEW message \in Messages, Sign(message)
      PROVE  TypeOK'
  BY <1>6 DEF Sign, TypeOK
<1>7. ASSUME NEW update \in MetadataUpdates, UpdateMetadata(update[1], update[2])
      PROVE  TypeOK'
  BY <1>7, UpdateAssumption DEF UpdateMetadata, TypeOK
<1>8. CASE UNCHANGED vars
  BY <1>8 DEF vars, TypeOK
<1>9. CASE Manage
  BY <1>1, <1>2, <1>9 DEF Manage
<1>10. CASE Deposit
  BY <1>10, DepositNativeType, DepositTokenType DEF Deposit, DepositFT, DepositNFT
<1>11. CASE Withdraw
  BY <1>3, <1>4, <1>5, <1>11, ArgumentTypes DEF Withdraw
<1>12. CASE Environment
  BY <1>6, <1>7, <1>12 DEF Environment
<1> QED
  BY <1>8, <1>9, <1>10, <1>11, <1>12 DEF Next

\* Every reachable state is of its type: no balance, supply or counter ever goes
\* below zero and every account carries data of its own layout.
THEOREM TypeCorrect == Spec => []TypeOK
BY InitType, NextType, PTL DEF Spec

-----------------------------------------------------------------------------
(* Withdraw accounts are the only ones an origin is settled by. *)

\* A Withdraw account that exists is told from one that does not.
LEMMA RecordIsNotNone == None \notin Withdraws
BY NoneAssumption

\* Every withdrawal ends in the creation of its Withdraw account.
LEMMA WithdrawCreatesRecord ==
  ASSUME Withdraw
  PROVE  \E type \in TokenTypes, m \in Mints \cup {None}, amt \in Nat, o \in Origins,
            u \in Receivers : \E mints : CreateWithdraw(type, m, amt, o, u, mints)
<1> USE AmountAssumption DEF TokenTypes
<1>1. PICK s \in Seeds, o \in Origins, u \in Receivers :
        \/ \E amt \in Amounts : WithdrawNative(s, o, u, amt)
        \/ \E m \in Mints, arg \in MintArguments :
             \/ \E amt \in Amounts : WithdrawFT(s, o, u, m, amt, arg[1], arg[2])
             \/ WithdrawNFT(s, o, u, m, arg[1], arg[2])
  BY DEF Withdraw
<1>2. CASE \E amt \in Amounts : WithdrawNative(s, o, u, amt)
  BY <1>2 DEF WithdrawNative
<1>3. ASSUME NEW m \in Mints, NEW seed, NEW meta, NEW amt \in Amounts,
             WithdrawFT(s, o, u, m, amt, seed, meta)
      PROVE  \E mints : CreateWithdraw("FT", m, amt, o, u, mints)
  BY <1>3 DEF WithdrawFT, WithdrawToken
<1>4. ASSUME NEW m \in Mints, NEW seed, NEW meta, WithdrawNFT(s, o, u, m, seed, meta)
      PROVE  \E mints : CreateWithdraw("NFT", m, 1, o, u, mints)
  BY <1>4 DEF WithdrawNFT, WithdrawToken
<1> QED
  BY <1>1, <1>2, <1>3, <1>4

\* Nothing but a withdrawal touches the Withdraw accounts.
LEMMA OthersKeepRecords ==
  ASSUME Manage \/ Deposit \/ Environment \/ UNCHANGED vars
  PROVE  UNCHANGED <<withdraw, payouts>>
<1>1. CASE Manage
  BY <1>1 DEF Manage, InitializeAdmin, TransferOwnership
<1>2. CASE Deposit
  BY <1>2 DEF Deposit, DepositNative, DepositFT, DepositNFT, DepositToken
<1>3. CASE Environment
  BY <1>3 DEF Environment, Sign, UpdateMetadata
<1>4. CASE UNCHANGED vars
  BY <1>4 DEF vars
<1> QED
  BY <1>1, <1>2, <1>3, <1>4

\* No step pays an origin that has been paid.
LEMMA NextClaimOnce == TypeOK /\ ClaimOnce /\ [Next]_vars => ClaimOnce'
<1> SUFFICES ASSUME TypeOK, ClaimOnce, [Next]_vars PROVE ClaimOnce'
  OBVIOUS
<1>1. CASE Withdraw
  <2>1. PICK type \in TokenTypes, m \in Mints \cup {None}, amt \in Nat, o \in Origins,
             u \in Receivers : \E mints : CreateWithdraw(type, m, amt, o, u, mints)
    BY <1>1, WithdrawCreatesRecord
  <2>2. PICK mints : CreateWithdraw(type, m, amt, o, u, mints)
    BY <2>1
  <2>3. withdraw[o] = None /\ payouts[o] = 0
    BY <2>2 DEF CreateWithdraw, Occupied, ClaimOnce
  <2>4. WithdrawRecord(type, m, amt, o, u) # None
    BY RecordIsNotNone DEF WithdrawRecord, Withdraws
  <2> QED
    BY <2>2, <2>3, <2>4 DEF CreateWithdraw, ClaimOnce, TypeOK
<1>2. CASE Manage \/ Deposit \/ Environment \/ UNCHANGED vars
  BY <1>2, OthersKeepRecords DEF ClaimOnce
<1> QED
  BY <1>1, <1>2 DEF Next

\* No origin is ever paid out twice, whatever admins, keys, messages and mints
\* there are, and every payment leaves its Withdraw account behind.
THEOREM ClaimedOnce == Spec => []ClaimOnce
<1>1. Init => ClaimOnce
  BY DEF Init, ClaimOnce
<1> QED
  BY <1>1, NextClaimOnce, TypeCorrect, PTL DEF Spec

-----------------------------------------------------------------------------
(* Two of the bridge's own account kinds share one address space. *)

\* A deposit never creates or removes a mint.
LEMMA OthersKeepMints ==
  ASSUME TypeOK, Manage \/ Deposit \/ Environment \/ UNCHANGED vars, NEW m \in Mints
  PROVE  mint'[m] = None <=> mint[m] = None
<1>1. CASE Manage
  BY <1>1 DEF Manage, InitializeAdmin, TransferOwnership
<1>2. CASE Deposit
  <2>1. CASE UNCHANGED mint
    BY <2>1
  <2>2. ASSUME NEW b \in Mints, NEW amt \in Nat, Burn(b, amt), mint[b] # None
        PROVE  mint'[m] = None <=> mint[m] = None
    <3>1. mint[b] \in MintAccounts /\ mint[b].supply \in Nat /\ mint[b].supply >= amt
      BY <2>2 DEF TypeOK, Burn, MintAccounts
    <3>2. [mint[b] EXCEPT !.supply = @ - amt] \in MintAccounts
      BY <3>1 DEF MintAccounts
    <3>3. [mint[b] EXCEPT !.supply = @ - amt] # None
      BY <3>2, NoneAssumption
    <3> QED
      BY <2>2, <3>3 DEF Burn, TypeOK
  <2> QED
    BY <1>2, <2>1, <2>2, AmountAssumption DEF Deposit, PayIn, DepositNative, DepositFT, DepositNFT, DepositToken
<1>3. CASE Environment
  BY <1>3 DEF Environment, Sign, UpdateMetadata
<1>4. CASE UNCHANGED vars
  BY <1>4 DEF vars
<1> QED
  BY <1>1, <1>2, <1>3, <1>4

\* After a token withdrawal the mints that exist are those that existed and at
\* most one new one, at an address that held no Withdraw account.
LEMMA TryMintAddresses ==
  ASSUME TypeOK, NEW s \in Seeds, NEW m \in Mints, NEW seed \in TokenSeeds \cup {None},
         NEW meta \in SignedMetas \cup {None}, NEW b \in Mints,
         TryMintTokenWithMeta(s, m, seed, meta).mint[b] # None
  PROVE  mint[b] # None \/ (b = m /\ ~Occupied(m, mint))
BY DEF TryMintTokenWithMeta, TypeOK

\* The record of a withdrawal avoids also the mint made in the same step.
LEMMA WithdrawTokenAddresses ==
  ASSUME TypeOK, AddressExclusive, NEW s \in Seeds, NEW m \in Mints, NEW o \in Origins,
         NEW seed \in TokenSeeds \cup {None}, NEW meta \in SignedMetas \cup {None},
         NEW u, NEW amt, NEW type, NEW content, NEW minted,
         minted = TryMintTokenWithMeta(s, m, seed, meta),
         minted.mint \in [Mints -> MintAccounts \cup {None}],
         WithdrawToken(s, o, u, m, amt, minted, type, content)
  PROVE  AddressExclusive'
<1> SUFFICES ASSUME NEW q \in Origins, Pda(q) \in Mints, withdraw'[q] # None,
                    mint'[Pda(q)] # None
             PROVE  FALSE
  BY DEF AddressExclusive, Mints, WrappedMints
<1>1. minted.mint[m] # None
  BY DEF WithdrawToken
<1>2. minted.mint[Pda(q)] # None
  <2>1. CASE Pda(q) = m
    BY <1>1, <2>1
  <2>2. CASE Pda(q) # m
    BY <2>2 DEF WithdrawToken
  <2> QED
    BY <2>1, <2>2
<1>3. CASE q = o
  BY <1>2, <1>3 DEF WithdrawToken, CreateWithdraw, Occupied
<1>4. CASE q # o
  <2>1. withdraw[q] # None
    BY <1>4 DEF WithdrawToken, CreateWithdraw, TypeOK
  <2>2. mint[Pda(q)] # None \/ (Pda(q) = m /\ ~Occupied(m, mint))
    BY <1>2, TryMintAddresses
  <2> QED
    BY <2>1, <2>2 DEF AddressExclusive, Occupied
<1> QED
  BY <1>3, <1>4

\* No step puts a record and a mint at one address.
LEMMA NextAddressExclusive == TypeOK /\ AddressExclusive /\ [Next]_vars => AddressExclusive'
<1> SUFFICES ASSUME TypeOK, AddressExclusive, [Next]_vars PROVE AddressExclusive'
  OBVIOUS
<1>1. CASE Manage \/ Deposit \/ Environment \/ UNCHANGED vars
  <2>1. withdraw' = withdraw
    BY <1>1, OthersKeepRecords
  <2>2. \A m \in Mints : mint'[m] = None <=> mint[m] = None
    BY <1>1, OthersKeepMints
  <2> QED
    BY <2>1, <2>2 DEF AddressExclusive, Mints, WrappedMints
<1>2. ASSUME NEW s \in Seeds, NEW o \in Origins, NEW u \in Receivers, NEW amt \in Amounts,
             WithdrawNative(s, o, u, amt)
      PROVE  AddressExclusive'
  <2>1. Pda(o) \in Mints => mint[Pda(o)] = None
    BY <1>2 DEF WithdrawNative, CreateWithdraw, Occupied
  <2>2. mint' = mint /\ \A q \in Origins : q # o => withdraw'[q] = withdraw[q]
    BY <1>2 DEF WithdrawNative, CreateWithdraw, TypeOK
  <2> QED
    BY <2>1, <2>2 DEF AddressExclusive, Mints, WrappedMints
<1>3. ASSUME NEW s \in Seeds, NEW o \in Origins, NEW u \in Receivers, NEW m \in Mints,
             NEW seed \in TokenSeeds \cup {None}, NEW meta \in SignedMetas \cup {None},
             NEW amt \in Amounts, WithdrawFT(s, o, u, m, amt, seed, meta)
      PROVE  AddressExclusive'
  BY <1>3, TryMintType, WithdrawTokenAddresses DEF WithdrawFT
<1>4. ASSUME NEW s \in Seeds, NEW o \in Origins, NEW u \in Receivers, NEW m \in Mints,
             NEW seed \in TokenSeeds \cup {None}, NEW meta \in SignedMetas \cup {None},
             WithdrawNFT(s, o, u, m, seed, meta)
      PROVE  AddressExclusive'
  BY <1>4, TryMintType, WithdrawTokenAddresses DEF WithdrawNFT
<1>5. CASE Withdraw
  BY <1>2, <1>3, <1>4, <1>5, ArgumentTypes DEF Withdraw
<1> QED
  BY <1>1, <1>5 DEF Next

\* An address derived from a 32-byte string is a Withdraw account or a mint and
\* never both, even if a token seed is also the origin of a deposit.
THEOREM AddressesExclusive == Spec => []AddressExclusive
<1>1. Init => AddressExclusive
  BY DEF Init, AddressExclusive
<1> QED
  BY <1>1, NextAddressExclusive, TypeCorrect, PTL DEF Spec

-----------------------------------------------------------------------------
(* Custody before minting. *)

\* A token withdrawal that leaves existing mints as they are mints a shortfall.
LEMMA WithdrawTokenShortfall ==
  ASSUME TypeOK, NEW s \in Seeds, NEW m \in Mints, NEW o, NEW u, NEW amt \in Nat, NEW type,
         NEW content, NEW minted, NEW b \in Mints,
         minted.mint \in [Mints -> MintAccounts \cup {None}],
         mint[b] # None => minted.mint[b] = mint[b],
         WithdrawToken(s, o, u, m, amt, minted, type, content),
         mint[b] # None, mint'[b].supply > mint[b].supply
  PROVE  mint[b].authority # None /\ custody'[mint[b].authority][b] = 0
<1> DEFINE short == Shortfall(custody[s][m], amt)
<1>1. mint' = [minted.mint EXCEPT ![m].supply = @ + short]
  BY DEF WithdrawToken
<1>2. mint[b] \in MintAccounts /\ mint[b].supply \in Nat
  BY DEF TypeOK, MintAccounts
<1>3. b = m
  <2>1. CASE b # m
    BY <1>1, <1>2, <2>1
  <2> QED
    BY <2>1
<1>4. minted.mint[m] = mint[m] /\ mint'[m] = [mint[m] EXCEPT !.supply = @ + short]
  BY <1>1, <1>3
<1>5. mint'[m].supply = mint[m].supply + short /\ mint'[m].authority = mint[m].authority
  BY <1>2, <1>3, <1>4 DEF MintAccounts
<1>6. m \in Assets /\ custody[s][m] \in Nat
  BY DEF TypeOK, Assets
<1>7. short \in Nat /\ (short > 0 => custody[s][m] + short - amt = 0)
  BY <1>6, ShortfallIsNat
<1>8. short > 0
  BY <1>2, <1>3, <1>5, <1>7
<1>9. mint[m].authority = s
  BY <1>4, <1>8 DEF WithdrawToken, CanMint
<1>10. custody'[s][m] = custody[s][m] + short - amt
  BY <1>6 DEF WithdrawToken, TypeOK
<1>11. s # None
  BY NoneAssumption
<1> QED
  BY <1>3, <1>5, <1>7, <1>8, <1>9, <1>10, <1>11

\* An existing mint is not created again.
LEMMA TryMintKeepsMints ==
  ASSUME TypeOK, NEW s \in Seeds, NEW m \in Mints, NEW seed, NEW meta, NEW b \in Mints,
         mint[b] # None
  PROVE  TryMintTokenWithMeta(s, m, seed, meta).mint[b] = mint[b]
BY DEF TryMintTokenWithMeta, Occupied, TypeOK

\* Deposits burn tokens and never mint any.
LEMMA OthersMintNothing ==
  ASSUME TypeOK, Manage \/ Deposit \/ Environment \/ UNCHANGED vars, NEW b \in Mints,
         mint[b] # None
  PROVE  ~(mint'[b].supply > mint[b].supply)
<1>1. mint[b] \in MintAccounts /\ mint[b].supply \in Nat
  BY DEF TypeOK, MintAccounts
<1>2. CASE mint' = mint
  BY <1>1, <1>2
<1>3. ASSUME NEW m \in Mints, NEW amt \in Nat, Burn(m, amt)
      PROVE  ~(mint'[b].supply > mint[b].supply)
  <2>1. mint' = [mint EXCEPT ![m] = [mint[m] EXCEPT !.supply = @ - amt]]
    BY <1>3 DEF Burn
  <2>2. CASE m = b
    BY <1>1, <2>1, <2>2 DEF TypeOK, MintAccounts
  <2>3. CASE m # b
    BY <1>1, <2>1, <2>3 DEF TypeOK
  <2> QED
    BY <2>2, <2>3
<1>4. CASE Deposit
  BY <1>2, <1>3, <1>4, AmountAssumption
     DEF Deposit, DepositNative, DepositFT, DepositNFT, DepositToken
<1>5. CASE Manage \/ Environment \/ UNCHANGED vars
  BY <1>2, <1>5 DEF Manage, InitializeAdmin, TransferOwnership, Environment, Sign,
                    UpdateMetadata, vars
<1> QED
  BY <1>4, <1>5

\* Supply grows only to cover what the authority's custody lacks, in every state.
THEOREM MintingCoversShortfall == Spec => MintsOnlyShortfall
<1>1. ASSUME TypeOK, [Next]_vars, NEW b \in Mints, mint[b] # None, mint'[b] # None,
             mint'[b].supply > mint[b].supply
      PROVE  mint[b].authority # None /\ custody'[mint[b].authority][b] = 0
  <2>1. ~(Manage \/ Deposit \/ Environment \/ UNCHANGED vars)
    BY <1>1, OthersMintNothing
  <2>2. ASSUME NEW s \in Seeds, NEW o \in Origins, NEW u \in Receivers, NEW m \in Mints,
               NEW seed \in TokenSeeds \cup {None}, NEW meta \in SignedMetas \cup {None},
               NEW amt \in Amounts, WithdrawFT(s, o, u, m, amt, seed, meta)
        PROVE  mint[b].authority # None /\ custody'[mint[b].authority][b] = 0
    BY <1>1, <2>2, AmountAssumption, TryMintType, TryMintKeepsMints, WithdrawTokenShortfall
       DEF WithdrawFT
  <2>3. ASSUME NEW s \in Seeds, NEW o \in Origins, NEW u \in Receivers, NEW m \in Mints,
               NEW seed \in TokenSeeds \cup {None}, NEW meta \in SignedMetas \cup {None},
               WithdrawNFT(s, o, u, m, seed, meta)
        PROVE  mint[b].authority # None /\ custody'[mint[b].authority][b] = 0
    <3> DEFINE minted == TryMintTokenWithMeta(s, m, seed, meta)
    <3>1. WithdrawToken(s, o, u, m, 1, minted, "NFT", NFTContent(o, u, m, minted.metadata))
      BY <2>3 DEF WithdrawNFT
    <3>2. minted.mint \in [Mints -> MintAccounts \cup {None}]
      BY <1>1, <2>3, TryMintType DEF WithdrawNFT
    <3>3. minted.mint[b] = mint[b]
      BY <1>1, TryMintKeepsMints
    <3> HIDE DEF minted
    <3> QED
      BY <1>1, <3>1, <3>2, <3>3, WithdrawTokenShortfall
  <2>4. ASSUME NEW s \in Seeds, NEW o \in Origins, NEW u \in Receivers, NEW amt \in Amounts,
               WithdrawNative(s, o, u, amt)
        PROVE  FALSE
    <3>1. mint' = mint /\ mint[b].supply \in Nat
      BY <1>1, <2>4 DEF WithdrawNative, TypeOK, MintAccounts
    <3> QED
      BY <1>1, <3>1
  <2> QED
    BY <1>1, <2>1, <2>2, <2>3, <2>4, ArgumentTypes DEF Next, Withdraw
<1>2. TypeOK /\ [Next]_vars =>
        [\A m \in Mints :
           mint[m] # None /\ mint'[m] # None /\ mint'[m].supply > mint[m].supply
             => mint[m].authority # None /\ custody'[mint[m].authority][m] = 0]_vars
  BY <1>1
<1> QED
  BY <1>2, TypeCorrect, PTL DEF Spec, MintsOnlyShortfall

-----------------------------------------------------------------------------
(* The signed bytes. *)

Pieces == Mints \cup TextPieces

\* Where the parts of a concatenation are.
LEMMA MiddleOfConcat ==
  ASSUME NEW P, NEW s \in Seq(P), NEW e \in P, NEW t \in Seq(P)
  PROVE  /\ Len(s \o (<<e>> \o t)) = Len(s) + 1 + Len(t)
         /\ (s \o (<<e>> \o t))[Len(s) + 1] = e
         /\ \A i \in 1 .. Len(t) : (s \o (<<e>> \o t))[Len(s) + 1 + i] = t[i]
<1>1. <<e>> \in Seq(P) /\ Len(<<e>>) = 1 /\ <<e>>[1] = e
  OBVIOUS
<1>2. Len(s) \in Nat /\ Len(t) \in Nat
  BY LenProperties
<1>3. /\ <<e>> \o t \in Seq(P) /\ Len(<<e>> \o t) = 1 + Len(t)
      /\ \A i \in 1 .. 1 + Len(t) : (<<e>> \o t)[i] = IF i <= 1 THEN <<e>>[i] ELSE t[i - 1]
  BY <1>1, ConcatProperties
<1>4. PICK r : r = <<e>> \o t
  OBVIOUS
<1>5. r \in Seq(P) /\ Len(r) = 1 + Len(t) /\ r[1] = e
  BY <1>1, <1>2, <1>3, <1>4
<1>6. \A i \in 1 .. Len(t) : r[i + 1] = t[i]
  BY <1>2, <1>3, <1>4
<1>7. Len(s \o r) = Len(s) + Len(r)
  BY <1>5, ConcatProperties
<1>8. \A i \in 1 .. Len(s) + Len(r) : (s \o r)[i] = IF i <= Len(s) THEN s[i] ELSE r[i - Len(s)]
  BY <1>5, ConcatProperties
<1>9. Len(s \o r) = Len(s) + 1 + Len(t) /\ (s \o r)[Len(s) + 1] = e
  BY <1>2, <1>5, <1>7, <1>8
<1>10. ASSUME NEW i \in 1 .. Len(t) PROVE (s \o r)[Len(s) + 1 + i] = t[i]
  <2>1. (s \o r)[Len(s) + 1 + i] = r[i + 1]
    BY <1>2, <1>5, <1>8
  <2> QED
    BY <1>6, <2>1
<1> QED
  BY <1>4, <1>9, <1>10

\* The sequence z is s, then a piece e in Q, then t, which has none in Q.
LastIn(Q, z, s, e, t) ==
  /\ s \in Seq(Pieces) /\ e \in Pieces /\ t \in Seq(Pieces)
  /\ z = s \o (<<e>> \o t)
  /\ e \in Q /\ \A i \in 1 .. Len(t) : t[i] \notin Q

\* The last piece of a kind is told by the bytes, and so is what is behind it.
LEMMA LastIsOne ==
  ASSUME NEW Q, NEW z, NEW s1, NEW s2, NEW a, NEW b, NEW t1, NEW t2,
         LastIn(Q, z, s1, a, t1), LastIn(Q, z, s2, b, t2)
  PROVE  a = b /\ t1 = t2 /\ Len(s1) = Len(s2)
<1>1. /\ s1 \in Seq(Pieces) /\ a \in Pieces /\ t1 \in Seq(Pieces) /\ z = s1 \o (<<a>> \o t1)
      /\ s2 \in Seq(Pieces) /\ b \in Pieces /\ t2 \in Seq(Pieces) /\ z = s2 \o (<<b>> \o t2)
      /\ a \in Q /\ b \in Q
      /\ \A i \in 1 .. Len(t1) : t1[i] \notin Q
      /\ \A i \in 1 .. Len(t2) : t2[i] \notin Q
  BY DEF LastIn
<1>2. Len(s1) \in Nat /\ Len(s2) \in Nat /\ Len(t1) \in Nat /\ Len(t2) \in Nat
  BY <1>1, LenProperties
<1>3. /\ Len(z) = Len(s1) + 1 + Len(t1) /\ z[Len(s1) + 1] = a
      /\ \A i \in 1 .. Len(t1) : z[Len(s1) + 1 + i] = t1[i]
  <2>1. /\ Len(s1 \o (<<a>> \o t1)) = Len(s1) + 1 + Len(t1)
        /\ (s1 \o (<<a>> \o t1))[Len(s1) + 1] = a
        /\ \A i \in 1 .. Len(t1) : (s1 \o (<<a>> \o t1))[Len(s1) + 1 + i] = t1[i]
    BY <1>1, MiddleOfConcat
  <2> QED
    BY <1>1, <2>1
<1>4. /\ Len(z) = Len(s2) + 1 + Len(t2) /\ z[Len(s2) + 1] = b
      /\ \A i \in 1 .. Len(t2) : z[Len(s2) + 1 + i] = t2[i]
  <2>1. /\ Len(s2 \o (<<b>> \o t2)) = Len(s2) + 1 + Len(t2)
        /\ (s2 \o (<<b>> \o t2))[Len(s2) + 1] = b
        /\ \A i \in 1 .. Len(t2) : (s2 \o (<<b>> \o t2))[Len(s2) + 1 + i] = t2[i]
    BY <1>1, MiddleOfConcat
  <2> QED
    BY <1>1, <2>1
<1>5. ~(Len(s1) < Len(s2))
  <2> SUFFICES ASSUME Len(s1) < Len(s2) PROVE FALSE
    OBVIOUS
  <2> DEFINE i == Len(s2) - Len(s1)
  <2>1. i \in 1 .. Len(t1) /\ Len(s1) + 1 + i = Len(s2) + 1
    BY <1>2, <1>3, <1>4
  <2> QED
    BY <1>1, <1>3, <1>4, <2>1
<1>6. ~(Len(s2) < Len(s1))
  <2> SUFFICES ASSUME Len(s2) < Len(s1) PROVE FALSE
    OBVIOUS
  <2> DEFINE i == Len(s1) - Len(s2)
  <2>1. i \in 1 .. Len(t2) /\ Len(s2) + 1 + i = Len(s1) + 1
    BY <1>2, <1>3, <1>4
  <2> QED
    BY <1>1, <1>3, <1>4, <2>1
<1>7. Len(s1) = Len(s2) /\ Len(t1) = Len(t2) /\ a = b
  BY <1>2, <1>3, <1>4, <1>5, <1>6
<1>8. \A i \in 1 .. Len(t1) : t1[i] = t2[i]
  BY <1>3, <1>4, <1>7
<1> QED
  BY <1>1, <1>7, <1>8, SeqEqual

\* What a piece or a text is a sequence of.
LEMMA PieceTypes ==
  /\ \A m \in Mints : <<m>> \in Seq(Pieces)
  /\ \A amt \in Amounts : AmountBytes(amt) \in TextPieces /\ <<AmountBytes(amt)>> \in Seq(Pieces)
  /\ \A d \in Decimals : DecimalsByte(d) \in SymbolPieces
  /\ SymbolPieces \subseteq TextPieces /\ TextPieces \subseteq Pieces
  /\ \A m \in Mints : m \in Pieces
BY DEF Pieces, TextPieces, SymbolPieces

\* Texts are pieces of bytes.
LEMMA TextTypes == Seq(SymbolPieces) \subseteq Seq(TextPieces) /\ Seq(TextPieces) \subseteq Seq(Pieces)
BY PieceTypes

\* The bytes of a fungible content: the mint and texts; and among the texts the amount,
\* behind which there is no other.
LEMMA FTBytes ==
  ASSUME NEW c \in Contents, c.kind = "FT"
  PROVE  /\ c.mint \in Mints /\ c.amount \in Amounts
         /\ \E s, t : /\ s \in Seq(TextPieces) /\ t \in Seq(SymbolPieces)
                      /\ s \o (<<AmountBytes(c.amount)>> \o t) \in Seq(TextPieces)
                      /\ Operation(c) = <<c.mint>> \o (s \o (<<AmountBytes(c.amount)>> \o t))
<1>1. /\ c.mint \in Mints /\ c.amount \in Amounts /\ c.name \in Names /\ c.uri \in Uris
      /\ c.symbol \in Symbols /\ c.decimals \in Decimals
  BY DEF Contents
<1> DEFINE A == <<AmountBytes(c.amount)>>
           D == <<DecimalsByte(c.decimals)>>
           n == c.name
           r == c.uri
           y == c.symbol
<1>2. n \in Seq(TextPieces) /\ r \in Seq(TextPieces) /\ y \in Seq(SymbolPieces)
  BY <1>1, TextAssumption
<1>3. A \in Seq(TextPieces) /\ D \in Seq(SymbolPieces)
  BY <1>1, PieceTypes
<1>4. Operation(c) = <<c.mint>> \o ((n \o r) \o (A \o (y \o D)))
  BY DEF Operation
<1> HIDE DEF A, D, n, r, y
<1>5. Seq(SymbolPieces) \subseteq Seq(TextPieces) /\ Seq(TextPieces) \subseteq Seq(Pieces)
  BY TextTypes
<1>6. y \o D \in Seq(SymbolPieces) /\ n \o r \in Seq(TextPieces)
  BY <1>2, <1>3, ConcatProperties
<1>7. A \o (y \o D) \in Seq(TextPieces)
  BY <1>3, <1>5, <1>6, ConcatProperties
<1>8. (n \o r) \o (A \o (y \o D)) \in Seq(TextPieces)
  BY <1>6, <1>7, ConcatProperties
<1> QED
  BY <1>1, <1>4, <1>6, <1>8 DEF A

\* The bytes of a non-fungible content: the mint, behind it its URI and symbol, before
\* it nothing exactly if there is neither a collection nor a name.
LEMMA NFTBytes ==
  ASSUME NEW c \in Contents, c.kind = "NFT"
  PROVE  /\ c.mint \in Mints /\ c.uri \in Seq(TextPieces) /\ c.symbol \in Seq(SymbolPieces)
         /\ c.uri \o c.symbol \in Seq(TextPieces)
         /\ \E s \in Seq(Pieces) :
              /\ Operation(c) = s \o (<<c.mint>> \o (c.uri \o c.symbol))
              /\ Len(s) = 0 => c.collection = None /\ c.name = <<>>
<1>1. /\ c.mint \in Mints /\ c.name \in Names /\ c.uri \in Uris /\ c.symbol \in Symbols
      /\ c.collection \in ForeignMints \cup {None}
  BY DEF Contents
<1> DEFINE K == IF c.collection = None THEN <<>> ELSE <<c.collection>>
           n == c.name
           M == <<c.mint>>
           r == c.uri
           y == c.symbol
<1>2. n \in Seq(TextPieces) /\ r \in Seq(TextPieces) /\ y \in Seq(SymbolPieces)
  BY <1>1, TextAssumption
<1>3. Seq(SymbolPieces) \subseteq Seq(TextPieces) /\ Seq(TextPieces) \subseteq Seq(Pieces)
  BY TextTypes
<1>4. K \in Seq(Pieces) /\ M \in Seq(Pieces) /\ (c.collection # None => Len(K) = 1)
  <2>1. CASE c.collection = None
    BY <1>1, <2>1, PieceTypes
  <2>2. CASE c.collection # None
    BY <1>1, <2>2, PieceTypes DEF Mints
  <2> QED
    BY <2>1, <2>2
<1>5. Operation(c) = (K \o n) \o (M \o (r \o y))
  BY DEF Operation
<1> HIDE DEF K, n, M, r, y
<1>7. n \in Seq(Pieces) /\ r \in Seq(Pieces) /\ y \in Seq(Pieces) /\ y \in Seq(TextPieces)
  BY <1>2, <1>3
<1>8. r \o y \in Seq(TextPieces)
  BY <1>2, <1>7, ConcatProperties
<1>9. K \o n \in Seq(Pieces) /\ Len(K \o n) = Len(K) + Len(n)
  BY <1>4, <1>7, ConcatProperties
<1>6. Len(K \o n) = 0 => c.collection = None /\ n = <<>>
  <2>1. Len(K) \in Nat /\ Len(n) \in Nat
    BY <1>4, <1>7, LenProperties
  <2>2. Len(n) = 0 => n = <<>>
    BY <1>7, EmptySeq, SeqEqual
  <2>3. Len(K \o n) = 0 => Len(K) = 0 /\ Len(n) = 0
    BY <1>9, <2>1
  <2>4. c.collection # None => Len(K) = 1
    BY <1>4
  <2> QED
    BY <2>2, <2>3, <2>4
<1> QED
  BY <1>1, <1>2, <1>5, <1>6, <1>8, <1>9 DEF M, r, y, n

-----------------------------------------------------------------------------
(* The metadata of wrapped tokens. *)

\* What is hashed is what all its parts are; a rotation is hashed like nothing else.
LEMMA HashedParts ==
  ASSUME NEW c \in Contents, NEW d \in Contents, d.kind # "Rotation", Hashed(c) = Hashed(d)
  PROVE  /\ c.kind # "Rotation" /\ c.origin = d.origin /\ c.receiver = d.receiver
         /\ Operation(c) = Operation(d)
<1>1. Hashed(d) = [origin |-> d.origin, receiver |-> d.receiver, operation |-> Operation(d)]
  BY DEF Hashed
<1>2. c.kind # "Rotation"
  <2> SUFFICES ASSUME c.kind = "Rotation" PROVE FALSE
    OBVIOUS
  <2>1. c \in [kind : {"Rotation"}, public_key : PublicKeys]
    BY DEF Contents
  <2>2. "origin" \notin DOMAIN c /\ "origin" \in DOMAIN Hashed(d)
    BY <1>1, <2>1
  <2> QED
    BY <2>2 DEF Hashed
<1>3. Hashed(c) = [origin |-> c.origin, receiver |-> c.receiver, operation |-> Operation(c)]
  BY <1>2 DEF Hashed
<1> HIDE DEF Hashed
<1> QED
  BY <1>1, <1>2, <1>3

\* No text of a token is a mint.
LEMMA TextIsNoMint == \A t \in Seq(TextPieces) : \A i \in 1 .. Len(t) : t[i] \notin Mints
BY TextAssumption, ElementOfSeq

\* The mint is the last there is in the bytes of a token content.
LEMMA MintIsLast ==
  ASSUME NEW c \in Contents, c.kind \in {"FT", "NFT"}
  PROVE  \E s, t : LastIn(Mints, Operation(c), s, c.mint, t)
<1>1. PICK s \in Seq(Pieces), t \in Seq(TextPieces) :
        c.mint \in Mints /\ Operation(c) = s \o (<<c.mint>> \o t)
  <2>1. CASE c.kind = "FT"
    <3>1. PICK t \in Seq(TextPieces) : c.mint \in Mints /\ Operation(c) = <<c.mint>> \o t
      BY <2>1, FTBytes
    <3>2. <<c.mint>> \in Seq(Pieces) /\ t \in Seq(Pieces)
      BY <3>1, PieceTypes, TextTypes
    <3>3. <<c.mint>> \o t \in Seq(Pieces)
      BY <3>2, ConcatProperties
    <3>4. <<>> \o (<<c.mint>> \o t) = <<c.mint>> \o t /\ <<>> \in Seq(Pieces)
      BY <3>3, ConcatEmptySeq, EmptySeq
    <3> QED
      BY <3>1, <3>4
  <2>2. CASE c.kind = "NFT"
    BY <2>2, NFTBytes
  <2> QED
    BY <2>1, <2>2
<1>2. c.mint \in Pieces /\ t \in Seq(Pieces)
  BY <1>1, PieceTypes, TextTypes
<1> QED
  BY <1>1, <1>2, TextIsNoMint DEF LastIn

\* Contents with the bytes of a token content are token contents of the same mint.
LEMMA MintTold ==
  ASSUME NEW c \in Contents, NEW d \in Contents, c.kind # "Rotation",
         d.kind \in {"FT", "NFT"}, Operation(c) = Operation(d)
  PROVE  c.kind \in {"FT", "NFT"} /\ c.mint = d.mint
<1>1. PICK s, t : LastIn(Mints, Operation(d), s, d.mint, t)
  BY MintIsLast
<1>2. /\ s \in Seq(Pieces) /\ d.mint \in Pieces /\ t \in Seq(Pieces) /\ d.mint \in Mints
      /\ Operation(d) = s \o (<<d.mint>> \o t)
  BY <1>1 DEF LastIn
<1>3. c.kind # "Native"
  <2> SUFFICES ASSUME c.kind = "Native" PROVE FALSE
    OBVIOUS
  <2>1. c.amount \in Amounts
    BY DEF Contents
  <2>2. Operation(d) = <<AmountBytes(c.amount)>>
    BY DEF Operation
  <2>3. Len(Operation(d)) = 1 /\ Operation(d)[1] = AmountBytes(c.amount)
    BY <2>2
  <2>4. Len(Operation(d)) = Len(s) + 1 + Len(t) /\ Operation(d)[Len(s) + 1] = d.mint
    BY <1>2, MiddleOfConcat
  <2>5. Len(s) \in Nat /\ Len(t) \in Nat
    BY <1>2, LenProperties
  <2>6. \A i, j \in Nat : 1 = i + 1 + j => i + 1 = 1
    OBVIOUS
  <2>7. Len(s) + 1 = 1
    BY <2>3, <2>4, <2>5, <2>6
  <2>8. AmountBytes(c.amount) \in Mints
    BY <1>2, <2>3, <2>4, <2>7
  <2> QED
    BY <2>1, <2>8, PieceTypes, TextAssumption
<1>4. c.kind \in {"FT", "NFT"}
  BY <1>3 DEF Contents
<1>5. PICK r, u : LastIn(Mints, Operation(c), r, c.mint, u)
  BY <1>4, MintIsLast
<1>6. c.mint = d.mint
  BY <1>1, <1>5, LastIsOne
<1> QED
  BY <1>4, <1>6

\* A signature for the contents a withdrawal from the accounts of w builds vouches for
\* these accounts.
LEMMA VerifiedVouches ==
  ASSUME NEW content \in Contents, NEW k, NEW w, NEW account, NEW data,
         signed \subseteq Messages, VerifyEcdsaSignature(k, content), content.kind # "Rotation",
         Vouches(content, w, account, data)
  PROVE  \E message \in signed : Vouches(message[2], w, account, data)
<1>1. PICK message \in signed : Hashed(message[2]) = Hashed(content)
  BY DEF VerifyEcdsaSignature
<1>2. PICK c \in Contents : c = message[2]
  BY MessageAssumption
<1>3. /\ c.kind # "Rotation" /\ c.origin = content.origin /\ c.receiver = content.receiver
      /\ Operation(c) = Operation(content)
  BY <1>1, <1>2, HashedParts
<1>4. content.kind \in {"FT", "NFT"} /\ content.mint = w
  BY DEF Vouches
<1>5. c.kind \in {"FT", "NFT"} /\ c.mint = w
  BY <1>3, <1>4, MintTold
<1> HIDE DEF Operation
<1>6. Vouches(c, w, account, data)
  BY <1>3, <1>5 DEF Vouches
<1> QED
  BY <1>2, <1>6

\* Vouching in the next state is vouching for the accounts of the next state.
LEMMA VouchesPrimed ==
  ASSUME NEW c, NEW w
  PROVE  Vouches(c, w, mint[w], metadata[w])' <=> Vouches(c, w, mint'[w], metadata'[w])
BY DEF Vouches, Operation, FTContent, NFTContent, AmountBytes, DecimalsByte

\* No metadata of a wrapped mint changes outside a withdrawal, nor its decimals.
LEMMA OthersKeepWrapped ==
  ASSUME TypeOK, Manage \/ Deposit \/ Environment \/ UNCHANGED vars, NEW w \in WrappedMints,
         mint[w] # None
  PROVE  metadata'[w] = metadata[w] /\ mint'[w].decimals = mint[w].decimals
<1>1. w \in Mints /\ w \notin ForeignMints /\ mint[w] \in MintAccounts
  BY AssetAssumption DEF Mints, TypeOK
<1>2. CASE Deposit
  <2>1. metadata' = metadata
    BY <1>2 DEF Deposit, DepositNative, DepositFT, DepositNFT, DepositToken
  <2>2. ASSUME NEW m \in Mints, NEW amt, Burn(m, amt)
        PROVE  mint'[w].decimals = mint[w].decimals
    <3>1. mint' = [mint EXCEPT ![m] = [mint[m] EXCEPT !.supply = @ - amt]]
      BY <2>2 DEF Burn
    <3> QED
      BY <1>1, <3>1 DEF TypeOK, MintAccounts
  <2> QED
    BY <1>2, <2>1, <2>2 DEF Deposit, DepositNative, DepositFT, DepositNFT, DepositToken
<1>3. CASE Manage \/ UNCHANGED vars
  BY <1>3 DEF Manage, InitializeAdmin, TransferOwnership, vars
<1>4. CASE Environment
  <2>1. ASSUME NEW update \in MetadataUpdates, UpdateMetadata(update[1], update[2])
        PROVE  metadata'[w] = metadata[w] /\ mint' = mint
    BY <1>1, <2>1, UpdateAssumption DEF UpdateMetadata, TypeOK
  <2> QED
    BY <1>4, <2>1 DEF Environment, Sign
<1> QED
  BY <1>2, <1>3, <1>4

\* The accounts of a wrapped mint a token withdrawal works on: what was there, or
\* the new ones of the mint withdrawn.
LEMMA TryMintWrapped ==
  ASSUME TypeOK, NEW s \in Seeds, NEW m \in Mints, NEW seed, NEW meta, NEW w \in WrappedMints,
         TryMintTokenWithMeta(s, m, seed, meta).mint[w] # None, w # m \/ mint[w] # None
  PROVE  /\ mint[w] # None
         /\ TryMintTokenWithMeta(s, m, seed, meta).mint[w] = mint[w]
         /\ TryMintTokenWithMeta(s, m, seed, meta).metadata[w] = metadata[w]
<1>1. w \in Mints
  BY DEF Mints
<1> QED
  BY <1>1 DEF TryMintTokenWithMeta, Occupied, TypeOK

\* What the handlers build is a content the signers could have signed.
LEMMA FTContentType ==
  ASSUME NEW o \in Origins, NEW u \in Receivers, NEW m \in Mints, NEW amt \in Amounts,
         NEW data \in Metadatas, NEW decimals \in Decimals
  PROVE  FTContent(o, u, m, amt, data, decimals) \in Contents
BY DEF FTContent, Contents, Metadatas

\* What is hashed for a non-fungible token is a content.
LEMMA NFTContentType ==
  ASSUME NEW o \in Origins, NEW u \in Receivers, NEW m \in Mints, NEW datas,
         datas[m] \in Metadatas,
         datas[m].collection # None => datas[datas[m].collection] \in Metadatas
  PROVE  NFTContent(o, u, m, datas) \in Contents
<1> DEFINE c == datas[m].collection
           named == datas[IF c # None THEN c ELSE m]
<1>1. c \in ForeignMints \cup {None} /\ datas[m].uri \in Uris
  BY DEF Metadatas
<1>2. named.name \in Names /\ named.symbol \in Symbols
  BY DEF Metadatas
<1> HIDE DEF c, named
<1> QED
  BY <1>1, <1>2 DEF NFTContent, Contents, c, named

\* A mint made by a withdrawal carries what its signed content says.
LEMMA WithdrawTokenMeta ==
  ASSUME TypeOK, WrappedMetaSigned, NEW s \in Seeds, NEW m \in Mints, NEW o, NEW u,
         NEW amt \in Nat, NEW type, NEW content, NEW minted, NEW seed, NEW meta,
         minted = TryMintTokenWithMeta(s, m, seed, meta),
         minted.mint \in [Mints -> MintAccounts \cup {None}],
         mint[m] = None =>
           content \in Contents /\ Vouches(content, m, minted.mint[m], minted.metadata[m]),
         WithdrawToken(s, o, u, m, amt, minted, type, content)
  PROVE  WrappedMetaSigned'
<1> DEFINE short == Shortfall(custody[s][m], amt)
<1>1. /\ mint' = [minted.mint EXCEPT ![m] = [minted.mint[m] EXCEPT !.supply = @ + short]]
      /\ metadata' = minted.metadata /\ signed' = signed
      /\ minted.mint[m] # None /\ minted.metadata[m] # None
      /\ VerifyEcdsaSignature(admin[s].public_key, content)
  BY DEF WithdrawToken
<1>2. mint'[m].decimals = minted.mint[m].decimals
  BY <1>1 DEF MintAccounts
<1> SUFFICES ASSUME NEW w \in WrappedMints, mint'[w] # None
             PROVE  /\ metadata'[w] # None
                    /\ \E message \in signed' : Vouches(message[2], w, mint'[w], metadata'[w])
  BY VouchesPrimed DEF WrappedMetaSigned
<1>3. CASE w = m /\ mint[m] = None
  <2>1. /\ content \in Contents /\ content.kind # "Rotation"
        /\ Vouches(content, m, minted.mint[m], minted.metadata[m])
    BY <1>3 DEF Vouches
  <2>2. \E message \in signed : Vouches(message[2], m, minted.mint[m], minted.metadata[m])
    BY <1>1, <2>1, VerifiedVouches DEF TypeOK
  <2> QED
    BY <1>1, <1>2, <1>3, <2>2 DEF Vouches
<1>4. CASE ~(w = m /\ mint[m] = None)
  <2>1. w \in Mints /\ minted.mint[w] # None
    BY <1>1 DEF Mints
  <2>2. mint[w] # None /\ minted.mint[w] = mint[w] /\ minted.metadata[w] = metadata[w]
    BY <1>4, <2>1, TryMintWrapped
  <2>3. mint'[w].decimals = mint[w].decimals /\ metadata'[w] = metadata[w]
    BY <1>1, <1>2, <2>1, <2>2
  <2>4. PICK message \in signed : Vouches(message[2], w, mint[w], metadata[w])
    BY <2>2 DEF WrappedMetaSigned, Vouches
  <2>5. Vouches(message[2], w, mint'[w], metadata'[w])
    BY <2>3, <2>4 DEF Vouches
  <2> QED
    BY <1>1, <2>2, <2>3, <2>5 DEF WrappedMetaSigned
<1> QED
  BY <1>3, <1>4

\* No step leaves a wrapped mint with anything unsigned.
LEMMA NextWrappedMetaSigned ==
  TypeOK /\ WrappedMetaSigned /\ [Next]_vars => WrappedMetaSigned'
<1> SUFFICES ASSUME TypeOK, WrappedMetaSigned, [Next]_vars PROVE WrappedMetaSigned'
  OBVIOUS
<1>1. CASE Manage \/ Deposit \/ Environment \/ UNCHANGED vars
  <2>1. signed \subseteq signed'
    BY <1>1 DEF Manage, InitializeAdmin, TransferOwnership, Deposit, DepositNative, DepositFT,
                DepositNFT, DepositToken, Environment, Sign, UpdateMetadata, vars
  <2>2. \A w \in WrappedMints : mint'[w] # None => mint[w] # None
    BY <1>1, OthersKeepMints DEF Mints
  <2>3. \A w \in WrappedMints : mint[w] # None =>
          metadata'[w] = metadata[w] /\ mint'[w].decimals = mint[w].decimals
    BY <1>1, OthersKeepWrapped
  <2> SUFFICES ASSUME NEW w \in WrappedMints, mint'[w] # None
               PROVE  /\ metadata'[w] # None
                      /\ \E message \in signed' : Vouches(message[2], w, mint'[w], metadata'[w])
    BY VouchesPrimed DEF WrappedMetaSigned
  <2>4. metadata[w] # None
    BY <2>2 DEF WrappedMetaSigned
  <2>5. PICK message \in signed : Vouches(message[2], w, mint[w], metadata[w])
    BY <2>2 DEF WrappedMetaSigned
  <2>6. Vouches(message[2], w, mint'[w], metadata'[w])
    BY <2>2, <2>3, <2>5 DEF Vouches
  <2> QED
    BY <2>1, <2>2, <2>3, <2>4, <2>6
<1>2. ASSUME NEW s \in Seeds, NEW o \in Origins, NEW u \in Receivers, NEW amt \in Amounts,
             WithdrawNative(s, o, u, amt)
      PROVE  WrappedMetaSigned'
  BY <1>2 DEF WithdrawNative, WrappedMetaSigned
<1>3. ASSUME NEW s \in Seeds, NEW o \in Origins, NEW u \in Receivers, NEW m \in Mints,
             NEW seed \in TokenSeeds \cup {None}, NEW meta \in SignedMetas \cup {None},
             NEW amt \in Amounts, WithdrawFT(s, o, u, m, amt, seed, meta)
      PROVE  WrappedMetaSigned'
  <2> DEFINE minted == TryMintTokenWithMeta(s, m, seed, meta)
             content == FTContent(o, u, m, amt, minted.metadata[m], minted.mint[m].decimals)
  <2>1. WithdrawToken(s, o, u, m, amt, minted, "FT", content)
    BY <1>3 DEF WithdrawFT
  <2>2. minted.mint \in [Mints -> MintAccounts \cup {None}]
    BY <1>3, TryMintType DEF WithdrawFT
  <2>3. Vouches(content, m, minted.mint[m], minted.metadata[m])
    BY DEF Vouches, FTContent
  <2>4. minted.mint[m] \in MintAccounts /\ minted.metadata[m] \in Metadatas
    BY <1>3, <2>1, TryMintType DEF WithdrawFT, WithdrawToken
  <2>5. content \in Contents
    BY <2>4, FTContentType DEF MintAccounts
  <2> HIDE DEF content, minted
  <2> QED
    BY <2>1, <2>2, <2>3, <2>5, AmountAssumption, WithdrawTokenMeta DEF minted
<1>4. ASSUME NEW s \in Seeds, NEW o \in Origins, NEW u \in Receivers, NEW m \in Mints,
             NEW seed \in TokenSeeds \cup {None}, NEW meta \in SignedMetas \cup {None},
             WithdrawNFT(s, o, u, m, seed, meta)
      PROVE  WrappedMetaSigned'
  <2> DEFINE minted == TryMintTokenWithMeta(s, m, seed, meta)
             content == NFTContent(o, u, m, minted.metadata)
  <2>1. WithdrawToken(s, o, u, m, 1, minted, "NFT", content)
    BY <1>4 DEF WithdrawNFT
  <2>2. minted.mint \in [Mints -> MintAccounts \cup {None}]
    BY <1>4, TryMintType DEF WithdrawNFT
  <2>3. mint[m] = None => minted.metadata[m].collection = None
    BY <2>1 DEF WithdrawToken, TryMintTokenWithMeta, MetadataOf, TypeOK
  <2>4. mint[m] = None => content \in Contents
    <3>1. minted.metadata[m] \in Metadatas
      BY <1>4, <2>1, TryMintType DEF WithdrawNFT, WithdrawToken
    <3> HIDE DEF minted
    <3> QED
      BY <2>3, <3>1, NFTContentType
  <2>5. mint[m] = None => Vouches(content, m, minted.mint[m], minted.metadata[m])
    BY <2>3 DEF Vouches, NFTContent
  <2> HIDE DEF content, minted
  <2> QED
    BY <2>1, <2>2, <2>4, <2>5, WithdrawTokenMeta DEF minted
<1>5. CASE Withdraw
  BY <1>2, <1>3, <1>4, <1>5, ArgumentTypes DEF Withdraw
<1> QED
  BY <1>1, <1>5 DEF Next

\* No wrapped mint exists for which no key has signed anything: there are bytes signed
\* for that very mint which, read as a fungible or as a non-fungible content, name the
\* texts it carries and, if read as fungible, its decimals.  (Which of the two readings
\* was meant, and where one text ends and the next begins, the bytes do not tell.)
THEOREM WrappedMetadataSigned == Spec => []WrappedMetaSigned
<1>1. Init => WrappedMetaSigned
  BY AssetAssumption DEF Init, WrappedMetaSigned, Mints
<1> QED
  BY <1>1, NextWrappedMetaSigned, TypeCorrect, PTL DEF Spec

=============================================================================
