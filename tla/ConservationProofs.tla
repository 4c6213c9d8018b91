------------------------- MODULE ConservationProofs -------------------------
(***************************************************************************)
(* What there is of an asset and who holds it: the theorems about Bridge   *)
(* that sum over all admins and over all Withdraw accounts.                *)
(***************************************************************************)
EXTENDS BridgeProofs, SumTheorems

-----------------------------------------------------------------------------
(* Custody. *)

\* When the holdings of one admin change, all custody changes by as much.
LEMMA CustodyChange ==
  ASSUME custody \in [Seeds -> [Assets -> Nat]], custody' \in [Seeds -> [Assets -> Nat]],
         NEW s \in Seeds, \A r \in Seeds \ {s} : custody'[r] = custody[r], NEW a \in Assets
  PROVE  /\ InCustody(a) \in Nat /\ InCustody(a)' \in Nat
         /\ InCustody(a)' + custody[s][a] = InCustody(a) + custody'[s][a]
<1> DEFINE before == [r \in Seeds |-> custody[r][a]]
           after == [r \in Seeds |-> custody'[r][a]]
<1>1. \A r \in Seeds : before[r] \in Nat /\ after[r] \in Nat
  OBVIOUS
<1>2. \A r \in Seeds \ {s} : before[r] = after[r]
  OBVIOUS
<1>3. before[s] = custody[s][a] /\ after[s] = custody'[s][a]
  OBVIOUS
<1>4. InCustody(a) = SumFunctionOnSet(before, Seeds)
  BY DEF InCustody
<1>5. InCustody(a)' = SumFunctionOnSet(after, Seeds)
  BY DEF InCustody
<1> HIDE DEF before, after
<1>6. SumFunctionOnSet(after, Seeds) + before[s] = SumFunctionOnSet(before, Seeds) + after[s]
  BY <1>1, <1>2, FinitenessAssumption, SumChange
<1>7. SumFunctionOnSet(before, Seeds) \in Nat /\ SumFunctionOnSet(after, Seeds) \in Nat
  BY <1>1, FinitenessAssumption, SumIsNat
<1> QED
  BY <1>3, <1>4, <1>5, <1>6, <1>7

\* Custody in all is a number, and the same number when nothing is moved.
LEMMA CustodyIsNat ==
  ASSUME custody \in [Seeds -> [Assets -> Nat]], NEW a \in Assets
  PROVE  InCustody(a) \in Nat
<1> DEFINE held == [r \in Seeds |-> custody[r][a]]
<1>1. \A r \in Seeds : held[r] \in Nat
  OBVIOUS
<1>2. InCustody(a) = SumFunctionOnSet(held, Seeds)
  BY DEF InCustody
<1> HIDE DEF held
<1> QED
  BY <1>1, <1>2, FinitenessAssumption, SumIsNat

\* Custody that is not touched adds up to what it did.
LEMMA CustodyKept ==
  ASSUME UNCHANGED custody, NEW a
  PROVE  InCustody(a)' = InCustody(a)
BY DEF InCustody

\* The supply of an asset is a number.
LEMMA SupplyIsNat ==
  ASSUME mint \in [Mints -> MintAccounts \cup {None}], NEW a \in Assets
  PROVE  Supply(a) \in Nat
<1>1. CASE a = Sol
  BY <1>1, AmountAssumption DEF Supply
<1>2. CASE a # Sol /\ mint[a] # None
  <2>1. mint[a] \in MintAccounts
    BY <1>2 DEF Assets
  <2> QED
    BY <1>2, <2>1 DEF Supply, MintAccounts
<1>3. CASE a # Sol /\ mint[a] = None
  BY <1>3 DEF Supply
<1> QED
  BY <1>1, <1>2, <1>3

\* What there is beyond the supply, if anything, stays what it is.
Balanced ==
  \A a \in Assets : (wallets[a] + InCustody(a))' + Supply(a) = wallets[a] + InCustody(a) + Supply(a)'

\* A payment into custody moves tokens and makes none.
LEMMA PayInBalanced ==
  ASSUME TypeOK, NEW s \in Seeds, NEW b \in Assets, NEW amt \in Nat, PayIn(s, b, amt),
         UNCHANGED mint
  PROVE  Balanced
<1> SUFFICES ASSUME NEW a \in Assets
             PROVE  (wallets[a] + InCustody(a))' + Supply(a) = wallets[a] + InCustody(a) + Supply(a)'
  BY DEF Balanced
<1>1. custody \in [Seeds -> [Assets -> Nat]] /\ custody' \in [Seeds -> [Assets -> Nat]]
  BY PayInType DEF TypeOK
<1>2. \A r \in Seeds \ {s} : custody'[r] = custody[r]
  BY DEF PayIn, TypeOK
<1>3. /\ InCustody(a) \in Nat /\ InCustody(a)' \in Nat
      /\ InCustody(a)' + custody[s][a] = InCustody(a) + custody'[s][a]
  BY <1>1, <1>2, CustodyChange
<1>4. wallets'[a] + custody'[s][a] = wallets[a] + custody[s][a]
  BY DEF PayIn, TypeOK
<1>5. Supply(a)' = Supply(a)
  BY DEF Supply
<1>6. wallets[a] \in Nat /\ wallets'[a] \in Nat /\ custody[s][a] \in Nat /\ custody'[s][a] \in Nat
  BY <1>1, PayInType DEF TypeOK
<1>7. Supply(a) \in Nat
  BY SupplyIsNat DEF TypeOK
<1> QED
  BY <1>3, <1>4, <1>5, <1>6, <1>7

\* A burn takes from a wallet what it takes from the supply.
LEMMA BurnBalanced ==
  ASSUME TypeOK, NEW m \in Mints, mint[m] # None, NEW amt \in Nat, Burn(m, amt)
  PROVE  Balanced
<1> SUFFICES ASSUME NEW a \in Assets
             PROVE  (wallets[a] + InCustody(a))' + Supply(a) = wallets[a] + InCustody(a) + Supply(a)'
  BY DEF Balanced
<1>1. InCustody(a)' = InCustody(a) /\ InCustody(a) \in Nat
  BY CustodyKept, CustodyIsNat DEF Burn, TypeOK
<1>2. /\ m \in Assets /\ m # Sol
      /\ mint[m] \in MintAccounts /\ mint[m].supply \in Nat
      /\ wallets[a] \in Nat /\ wallets[m] >= amt /\ mint[m].supply >= amt
  BY AssetAssumption DEF Burn, TypeOK, MintAccounts, Assets
<1>3. mint' = [mint EXCEPT ![m] = [mint[m] EXCEPT !.supply = @ - amt]]
      /\ wallets' = [wallets EXCEPT ![m] = @ - amt]
  BY DEF Burn
<1>4. CASE a = m
  <2>1. mint'[m] = [mint[m] EXCEPT !.supply = @ - amt]
    BY <1>3 DEF TypeOK
  <2>2. mint'[m].supply = mint[m].supply - amt /\ mint'[m] \in MintAccounts
    BY <1>2, <2>1 DEF MintAccounts
  <2>3. Supply(m) = mint[m].supply /\ Supply(m)' = mint[m].supply - amt
    BY <1>2, <2>2, NoneAssumption DEF Supply
  <2>4. wallets'[m] = wallets[m] - amt
    BY <1>2, <1>3 DEF TypeOK
  <2> QED
    BY <1>1, <1>2, <1>4, <2>3, <2>4
<1>5. CASE a # m
  <2>1. Supply(a)' = Supply(a)
    BY <1>3, <1>5 DEF Supply, TypeOK, Assets
  <2>2. wallets'[a] = wallets[a]
    BY <1>3, <1>5 DEF TypeOK
  <2> QED
    BY <1>1, <2>1, <2>2
<1> QED
  BY <1>4, <1>5

\* A deposit of tokens burns or moves them.
LEMMA DepositTokenBalanced ==
  ASSUME TypeOK, NEW s \in Seeds, NEW m \in Mints, NEW amt \in Nat, NEW seed, NEW prior, NEW type,
         DepositToken(s, m, amt, seed, prior, type)
  PROVE  Balanced
<1>1. m \in Assets /\ mint[m] # None
  BY DEF Assets, DepositToken
<1> QED
  BY <1>1, PayInBalanced, BurnBalanced DEF DepositToken

\* A native withdrawal moves lamports.
LEMMA WithdrawNativeBalanced ==
  ASSUME TypeOK, NEW s \in Seeds, NEW o, NEW u, NEW amt \in Nat, WithdrawNative(s, o, u, amt)
  PROVE  Balanced
<1> SUFFICES ASSUME NEW a \in Assets
             PROVE  (wallets[a] + InCustody(a))' + Supply(a) = wallets[a] + InCustody(a) + Supply(a)'
  BY DEF Balanced
<1>1. Sol \in Assets /\ custody[s][Sol] \in Nat /\ custody[s][Sol] - amt \in Nat
  BY DEF Assets, WithdrawNative, TypeOK
<1>2. custody' = [custody EXCEPT ![s][Sol] = custody[s][Sol] - amt]
      /\ wallets' = [wallets EXCEPT ![Sol] = @ + amt] /\ UNCHANGED mint
  BY DEF WithdrawNative
<1>3. custody \in [Seeds -> [Assets -> Nat]] /\ custody' \in [Seeds -> [Assets -> Nat]]
  BY <1>1, <1>2 DEF TypeOK
<1>4. \A r \in Seeds \ {s} : custody'[r] = custody[r]
  BY <1>2 DEF TypeOK
<1>5. /\ InCustody(a) \in Nat /\ InCustody(a)' \in Nat
      /\ InCustody(a)' + custody[s][a] = InCustody(a) + custody'[s][a]
  BY <1>3, <1>4, CustodyChange
<1>6. wallets[a] \in Nat /\ wallets'[a] \in Nat /\ custody[s][a] \in Nat /\ custody'[s][a] \in Nat
  BY <1>2, <1>3 DEF TypeOK
<1>7. wallets'[a] + custody'[s][a] = wallets[a] + custody[s][a]
  BY <1>1, <1>2 DEF TypeOK
<1>8. Supply(a)' = Supply(a) /\ Supply(a) \in Nat
  BY <1>2, SupplyIsNat DEF Supply, TypeOK
<1> QED
  BY <1>5, <1>6, <1>7, <1>8

\* A mint created on the way is created empty.
LEMMA TryMintSupply ==
  ASSUME TypeOK, NEW s \in Seeds, NEW m \in Mints, NEW seed, NEW meta, NEW b \in Mints
  PROVE  \/ TryMintTokenWithMeta(s, m, seed, meta).mint[b] = mint[b]
         \/ mint[b] = None /\ TryMintTokenWithMeta(s, m, seed, meta).mint[b].supply = 0
<1>1. CASE seed # None /\ ~Occupied(m, mint) /\ b = m
  <2>1. mint[b] = None
    BY <1>1 DEF Occupied
  <2>2. TryMintTokenWithMeta(s, m, seed, meta).mint[b]
          = [authority |-> s, decimals |-> meta.decimals, supply |-> 0]
    BY <1>1 DEF TryMintTokenWithMeta, TypeOK
  <2> QED
    BY <2>1, <2>2
<1>2. CASE ~(seed # None /\ ~Occupied(m, mint)) \/ b # m
  BY <1>2 DEF TryMintTokenWithMeta, TypeOK
<1> QED
  BY <1>1, <1>2

\* What a token withdrawal mints is what custody lacked: it goes to the wallet.
LEMMA WithdrawTokenBalanced ==
  ASSUME TypeOK, NEW s \in Seeds, NEW o, NEW u, NEW m \in Mints, NEW amt \in Nat, NEW minted,
         NEW type, NEW content,
         minted.mint \in [Mints -> MintAccounts \cup {None}],
         \A b \in Mints :
           minted.mint[b] = mint[b] \/ (mint[b] = None /\ minted.mint[b].supply = 0),
         WithdrawToken(s, o, u, m, amt, minted, type, content)
  PROVE  Balanced
<1> SUFFICES ASSUME NEW a \in Assets
             PROVE  (wallets[a] + InCustody(a))' + Supply(a) = wallets[a] + InCustody(a) + Supply(a)'
  BY DEF Balanced
<1> DEFINE short == Shortfall(custody[s][m], amt)
<1>1. m \in Assets /\ m # Sol /\ custody[s][m] \in Nat
  BY AssetAssumption DEF Assets, TypeOK
<1>2. short \in Nat /\ custody[s][m] + short - amt \in Nat
  BY <1>1, ShortfallIsNat
<1>3. /\ mint' = [minted.mint EXCEPT ![m] = [minted.mint[m] EXCEPT !.supply = @ + short]]
      /\ custody' = [custody EXCEPT ![s][m] = custody[s][m] + short - amt]
      /\ wallets' = [wallets EXCEPT ![m] = @ + amt]
      /\ minted.mint[m] # None
  BY <1>1 DEF WithdrawToken, TypeOK
<1> HIDE DEF short
<1>4. custody \in [Seeds -> [Assets -> Nat]] /\ custody' \in [Seeds -> [Assets -> Nat]]
  BY <1>1, <1>2, <1>3 DEF TypeOK
<1>5. \A r \in Seeds \ {s} : custody'[r] = custody[r]
  BY <1>3 DEF TypeOK
<1>6. /\ InCustody(a) \in Nat /\ InCustody(a)' \in Nat
      /\ InCustody(a)' + custody[s][a] = InCustody(a) + custody'[s][a]
  BY <1>4, <1>5, CustodyChange
<1>7. wallets[a] \in Nat /\ wallets'[a] \in Nat /\ custody[s][a] \in Nat /\ custody'[s][a] \in Nat
  BY <1>3, <1>4 DEF TypeOK
<1>8. CASE a = m
  <2>1. custody'[s][m] = custody[s][m] + short - amt /\ wallets'[m] = wallets[m] + amt
    BY <1>1, <1>3 DEF TypeOK
  <2>2. minted.mint[m] \in MintAccounts /\ minted.mint[m].supply \in Nat
    BY <1>3 DEF MintAccounts
  <2>3. mint'[m].supply = minted.mint[m].supply + short /\ mint'[m] \in MintAccounts
    BY <1>2, <1>3, <2>2 DEF MintAccounts
  <2>4. Supply(m) = minted.mint[m].supply
    BY <1>1, <1>3 DEF Supply
  <2>5. Supply(m)' = minted.mint[m].supply + short
    BY <1>1, <2>3, NoneAssumption DEF Supply
  <2> QED
    BY <1>1, <1>2, <1>6, <1>7, <1>8, <2>1, <2>2, <2>4, <2>5
<1>9. CASE a # m
  <2>1. custody'[s][a] = custody[s][a] /\ wallets'[a] = wallets[a]
    BY <1>1, <1>3, <1>9 DEF TypeOK
  <2>2. Supply(a)' = Supply(a)
    <3>1. CASE a = Sol
      BY <3>1 DEF Supply
    <3>2. CASE a # Sol
      <4>1. a \in Mints /\ mint'[a] = minted.mint[a]
        BY <1>3, <1>9, <3>2 DEF Assets
      <4> QED
        BY <3>2, <4>1 DEF Supply
    <3> QED
      BY <3>1, <3>2
  <2>3. Supply(a) \in Nat
    BY SupplyIsNat DEF TypeOK
  <2> QED
    BY <1>6, <1>7, <2>1, <2>2, <2>3
<1> QED
  BY <1>8, <1>9


\* Every step is balanced.
LEMMA NextBalanced == TypeOK /\ [Next]_vars => Balanced
<1> SUFFICES ASSUME TypeOK, [Next]_vars PROVE Balanced
  OBVIOUS
<1> USE AmountAssumption
<1>1. ASSUME NEW s \in Seeds, NEW k, NEW p, InitializeAdmin(s, k, p)
      PROVE  Balanced
  BY <1>1, PayInBalanced DEF InitializeAdmin, AdminRent, Assets
<1>2. ASSUME NEW s \in Seeds, NEW amt \in Amounts, NEW prior, DepositNative(s, amt, prior)
      PROVE  Balanced
  BY <1>2, PayInBalanced DEF DepositNative, Assets
<1>3. ASSUME NEW s \in Seeds, NEW o, NEW u, NEW m \in Mints, NEW amt \in Nat,
             NEW seed \in TokenSeeds \cup {None}, NEW meta \in SignedMetas \cup {None},
             SeedMatches(m, seed, meta), NEW type, NEW content,
             WithdrawToken(s, o, u, m, amt, TryMintTokenWithMeta(s, m, seed, meta), type, content)
      PROVE  Balanced
  <2> DEFINE minted == TryMintTokenWithMeta(s, m, seed, meta)
  <2>1. minted.mint \in [Mints -> MintAccounts \cup {None}]
    BY <1>3, TryMintType
  <2>2. \A b \in Mints :
          minted.mint[b] = mint[b] \/ (mint[b] = None /\ minted.mint[b].supply = 0)
    BY TryMintSupply
  <2>3. WithdrawToken(s, o, u, m, amt, minted, type, content)
    BY <1>3
  <2> HIDE DEF minted
  <2> QED
    BY <1>3, <2>1, <2>2, <2>3, WithdrawTokenBalanced
<1>4. CASE UNCHANGED <<wallets, custody, mint>>
  <2>1. \A a \in Assets : InCustody(a)' = InCustody(a) /\ Supply(a)' = Supply(a)
    BY <1>4, CustodyKept DEF Supply
  <2> QED
    BY <1>4, <2>1 DEF Balanced
<1>5. CASE Manage
  BY <1>1, <1>4, <1>5 DEF Manage, TransferOwnership
<1>6. CASE Deposit
  BY <1>2, <1>6, DepositTokenBalanced DEF Deposit, DepositFT, DepositNFT
<1>7. CASE Withdraw
  BY <1>3, <1>7, WithdrawNativeBalanced, ArgumentTypes DEF Withdraw, WithdrawFT, WithdrawNFT
<1>8. CASE Environment \/ UNCHANGED vars
  BY <1>4, <1>8 DEF Environment, Sign, UpdateMetadata, vars
<1> QED
  BY <1>5, <1>6, <1>7, <1>8 DEF Next

\* At the start wallets hold all there is.
LEMMA InitSupply == Init => SupplyConserved
<1> SUFFICES ASSUME Init, NEW a \in Assets
             PROVE  wallets[a] + InCustody(a) = Supply(a)
  BY DEF SupplyConserved
<1> DEFINE held == [r \in Seeds |-> custody[r][a]]
<1>1. \A r \in Seeds : held[r] = 0
  BY DEF Init
<1>2. InCustody(a) = SumFunctionOnSet(held, Seeds)
  BY DEF InCustody
<1> HIDE DEF held
<1>3. InCustody(a) = 0
  BY <1>1, <1>2, FinitenessAssumption, SumOfZeros
<1>4. wallets[a] = InitialWallets(a) /\ wallets[a] \in Nat
  BY InitType DEF Init, TypeOK
<1>5. CASE a = Sol
  BY <1>3, <1>4, <1>5, AssetAssumption DEF InitialWallets, Supply, Mints
<1>6. CASE a \in ForeignMints
  <2>1. a # Sol /\ mint[a].supply = Genesis[a].supply /\ mint[a] # None
    <3>1. [authority |-> None, decimals |-> Genesis[a].decimals,
           supply |-> Genesis[a].supply] \in MintAccounts
      BY <1>6, GenesisAssumption DEF MintAccounts
    <3>2. mint[a] = [authority |-> None, decimals |-> Genesis[a].decimals,
                     supply |-> Genesis[a].supply]
      BY <1>6 DEF Init, Mints
    <3> QED
      BY <1>6, <3>1, <3>2, AssetAssumption, NoneAssumption DEF Mints
  <2> QED
    BY <1>3, <1>4, <1>6, <2>1 DEF InitialWallets, Supply
<1>7. CASE a # Sol /\ a \notin ForeignMints
  <2>1. mint[a] = None
    BY <1>7 DEF Init, Assets
  <2> QED
    BY <1>3, <1>4, <1>7, <2>1 DEF InitialWallets, Supply
<1> QED
  BY <1>5, <1>6, <1>7

Quantities ==
  \A a \in Assets : wallets[a] \in Nat /\ InCustody(a) \in Nat /\ Supply(a) \in Nat

\* Whatever is deposited, burned, minted and paid out, by however many admins: wallets
\* and custody together hold the supply of every mint and all lamports.
THEOREM SupplyIsConserved == Spec => []SupplyConserved
<1>1. TypeOK => Quantities
  BY CustodyIsNat, SupplyIsNat DEF Quantities, TypeOK
<1>2. SupplyConserved /\ Balanced /\ Quantities /\ Quantities' => SupplyConserved'
  <2> SUFFICES ASSUME Quantities, Quantities', SupplyConserved, Balanced, NEW a \in Assets
               PROVE  (wallets[a] + InCustody(a))' = Supply(a)'
    BY DEF SupplyConserved
  <2>1. /\ wallets'[a] \in Nat /\ InCustody(a)' \in Nat
        /\ Supply(a) \in Nat /\ Supply(a)' \in Nat
    BY DEF Quantities
  <2>2. wallets[a] + InCustody(a) = Supply(a)
    BY DEF SupplyConserved
  <2>3. (wallets[a] + InCustody(a))' + Supply(a) = Supply(a) + Supply(a)'
    BY <2>2 DEF Balanced
  <2> QED
    BY <2>1, <2>3
<1> QED
  BY <1>1, <1>2, InitSupply, NextBalanced, TypeCorrect, PTL DEF Spec

-----------------------------------------------------------------------------
(* The Withdraw accounts as a ledger. *)

\* What records say was paid is a number, each and together.
LEMMA PaidIsNat ==
  ASSUME withdraw \in [Origins -> Withdraws \cup {None}], NEW a
  PROVE  /\ \A o \in Origins : Paid(withdraw[o], a) \in Nat
         /\ PaidOut(a) \in Nat
<1> DEFINE paid == [o \in Origins |-> Paid(withdraw[o], a)]
<1>1. \A o \in Origins : Paid(withdraw[o], a) \in Nat
  BY DEF Paid, Withdraws
<1>2. \A o \in Origins : paid[o] \in Nat
  BY <1>1
<1>3. PaidOut(a) = SumFunctionOnSet(paid, Origins)
  BY DEF PaidOut
<1> HIDE DEF paid
<1> QED
  BY <1>1, <1>2, <1>3, FinitenessAssumption, SumIsNat

\* Without a new record they say what they said.
LEMMA PaidOutKept ==
  ASSUME UNCHANGED withdraw, NEW a
  PROVE  PaidOut(a)' = PaidOut(a)
BY DEF PaidOut

\* A new record adds its amount to what was paid of its asset, and to nothing else.
LEMMA RecordBooked ==
  ASSUME TypeOK, NEW type \in TokenTypes, NEW m \in Mints \cup {None}, NEW amt \in Nat,
         NEW o \in Origins, NEW u \in Receivers, NEW mints,
         CreateWithdraw(type, m, amt, o, u, mints), NEW a \in Assets
  PROVE  /\ PaidOut(a) \in Nat
         /\ (IF m = None THEN Sol ELSE m) = a => PaidOut(a)' = PaidOut(a) + amt
         /\ (IF m = None THEN Sol ELSE m) # a => PaidOut(a)' = PaidOut(a)
<1> DEFINE before == [q \in Origins |-> Paid(withdraw[q], a)]
           after == [q \in Origins |-> Paid(withdraw'[q], a)]
           record == WithdrawRecord(type, m, amt, o, u)
<1>1. withdraw[o] = None /\ withdraw' = [withdraw EXCEPT ![o] = record]
  BY DEF CreateWithdraw, Occupied
<1>2. withdraw' \in [Origins -> Withdraws \cup {None}] /\ record # None
  <2>1. record \in Withdraws
    BY DEF WithdrawRecord, Withdraws
  <2> QED
    BY <1>1, <2>1, RecordIsNotNone DEF TypeOK
<1>3. withdraw'[o] = record /\ \A q \in Origins \ {o} : withdraw'[q] = withdraw[q]
  BY <1>1 DEF TypeOK
<1>4. \A q \in Origins : before[q] \in Nat /\ after[q] \in Nat
  BY <1>2 DEF TypeOK, Paid, Withdraws
<1>5. \A q \in Origins \ {o} : before[q] = after[q]
  BY <1>3
<1>6. before[o] = 0
  BY <1>1 DEF Paid
<1>7. record.mint = m /\ record.amount = amt
  BY DEF WithdrawRecord
<1>8. after[o] = IF (IF m = None THEN Sol ELSE m) = a THEN amt ELSE 0
  <2>1. after[o] = Paid(record, a)
    BY <1>3
  <2> HIDE DEF record
  <2> QED
    BY <1>2, <1>7, <2>1 DEF Paid, RecordAsset
<1>9. PaidOut(a) = SumFunctionOnSet(before, Origins)
  BY DEF PaidOut
<1>10. PaidOut(a)' = SumFunctionOnSet(after, Origins)
  BY DEF PaidOut, Paid, RecordAsset
<1> HIDE DEF before, after
<1>11. SumFunctionOnSet(after, Origins) + before[o] = SumFunctionOnSet(before, Origins) + after[o]
  BY <1>4, <1>5, FinitenessAssumption, SumChange
<1>12. SumFunctionOnSet(after, Origins) \in Nat /\ SumFunctionOnSet(before, Origins) \in Nat
  BY <1>4, FinitenessAssumption, SumIsNat
<1> QED
  BY <1>6, <1>8, <1>9, <1>10, <1>11, <1>12

\* What wallets gain beyond what they paid in, and what the records say, grow alike.
Booked ==
  \A a \in Assets :
    wallets'[a] + inflow'[a] + PaidOut(a) = wallets[a] + inflow[a] + PaidOut(a)'

\* What a wallet pays or burns is booked as inflow.
LEMMA PaidInBooked ==
  ASSUME TypeOK, NEW b \in Assets, NEW amt \in Nat, wallets[b] >= amt,
         wallets' = [wallets EXCEPT ![b] = @ - amt], inflow' = [inflow EXCEPT ![b] = @ + amt],
         UNCHANGED withdraw
  PROVE  Booked
<1> SUFFICES ASSUME NEW a \in Assets
             PROVE  wallets'[a] + inflow'[a] + PaidOut(a) = wallets[a] + inflow[a] + PaidOut(a)'
  BY DEF Booked
<1>1. PaidOut(a)' = PaidOut(a) /\ PaidOut(a) \in Nat
  BY PaidOutKept, PaidIsNat DEF TypeOK
<1>2. wallets[a] \in Nat /\ inflow[a] \in Nat
  BY DEF TypeOK
<1>3. wallets'[a] + inflow'[a] = wallets[a] + inflow[a] /\ wallets'[a] \in Nat /\ inflow'[a] \in Nat
  BY DEF TypeOK
<1> QED
  BY <1>1, <1>2, <1>3

\* What a wallet gets is booked in a record.
LEMMA PaidOutBooked ==
  ASSUME TypeOK, NEW type \in TokenTypes, NEW m \in Mints \cup {None}, NEW amt \in Nat,
         NEW o \in Origins, NEW u \in Receivers, NEW mints,
         CreateWithdraw(type, m, amt, o, u, mints), NEW b \in Assets,
         b = IF m = None THEN Sol ELSE m,
         wallets' = [wallets EXCEPT ![b] = @ + amt], UNCHANGED inflow
  PROVE  Booked
<1> SUFFICES ASSUME NEW a \in Assets
             PROVE  wallets'[a] + inflow'[a] + PaidOut(a) = wallets[a] + inflow[a] + PaidOut(a)'
  BY DEF Booked
<1>1. /\ PaidOut(a) \in Nat
      /\ b = a => PaidOut(a)' = PaidOut(a) + amt
      /\ b # a => PaidOut(a)' = PaidOut(a)
  BY RecordBooked
<1>2. wallets[a] \in Nat /\ inflow[a] \in Nat /\ inflow'[a] = inflow[a]
  BY DEF TypeOK
<1>3. wallets'[a] = IF b = a THEN wallets[a] + amt ELSE wallets[a]
  BY DEF TypeOK
<1> QED
  BY <1>1, <1>2, <1>3

\* Every step is booked.
LEMMA NextBooked == TypeOK /\ [Next]_vars => Booked
<1> SUFFICES ASSUME TypeOK, [Next]_vars PROVE Booked
  OBVIOUS
<1> USE AmountAssumption
<1>1. ASSUME NEW s, NEW b \in Assets, NEW amt \in Nat, PayIn(s, b, amt), UNCHANGED withdraw
      PROVE  Booked
  BY <1>1, PaidInBooked DEF PayIn
<1>2. ASSUME NEW m \in Mints, NEW amt \in Nat, Burn(m, amt), UNCHANGED withdraw
      PROVE  Booked
  BY <1>2, PaidInBooked DEF Burn, Assets
<1>3. ASSUME NEW s, NEW o \in Origins, NEW u \in Receivers, NEW m \in Mints, NEW amt \in Nat,
             NEW minted, NEW type \in TokenTypes, NEW content,
             WithdrawToken(s, o, u, m, amt, minted, type, content)
      PROVE  Booked
  <2>1. m # None /\ m \in Assets
    BY NoneAssumption DEF Assets
  <2> QED
    BY <1>3, <2>1, PaidOutBooked DEF WithdrawToken
<1>4. ASSUME NEW s, NEW o \in Origins, NEW u \in Receivers, NEW amt \in Amounts,
             WithdrawNative(s, o, u, amt)
      PROVE  Booked
  BY <1>4, PaidOutBooked DEF WithdrawNative, TokenTypes, Assets
<1>5. CASE UNCHANGED <<wallets, inflow, withdraw>>
  BY <1>5, PaidOutKept DEF Booked
<1>6. CASE Manage
  BY <1>1, <1>5, <1>6 DEF Manage, InitializeAdmin, TransferOwnership, AdminRent, Assets
<1>7. CASE Deposit
  <2>1. ASSUME NEW s, NEW m \in Mints, NEW amt \in Nat, NEW seed, NEW prior, NEW type,
               DepositToken(s, m, amt, seed, prior, type)
        PROVE  Booked
    BY <1>1, <1>2, <2>1 DEF DepositToken, Assets
  <2>2. ASSUME NEW s, NEW amt \in Amounts, NEW prior, DepositNative(s, amt, prior)
        PROVE  Booked
    BY <1>1, <2>2 DEF DepositNative, Assets
  <2> QED
    BY <1>7, <2>1, <2>2 DEF Deposit, DepositFT, DepositNFT
<1>8. CASE Withdraw
  <2>1. ASSUME NEW s, NEW o \in Origins, NEW u \in Receivers, NEW m \in Mints,
               NEW amt \in Amounts, NEW seed, NEW meta, WithdrawFT(s, o, u, m, amt, seed, meta)
        PROVE  Booked
    BY <1>3, <2>1 DEF WithdrawFT, TokenTypes
  <2>2. ASSUME NEW s, NEW o \in Origins, NEW u \in Receivers, NEW m \in Mints,
               NEW seed, NEW meta, WithdrawNFT(s, o, u, m, seed, meta)
        PROVE  Booked
    BY <1>3, <2>2 DEF WithdrawNFT, TokenTypes
  <2> QED
    BY <1>4, <1>8, <2>1, <2>2 DEF Withdraw
<1>9. CASE Environment \/ UNCHANGED vars
  BY <1>5, <1>9 DEF Environment, Sign, UpdateMetadata, vars
<1> QED
  BY <1>6, <1>7, <1>8, <1>9 DEF Next

\* At the start nothing has come in or gone out.
LEMMA InitBooks == Init => BooksBalance
<1> SUFFICES ASSUME Init, NEW a \in Assets
             PROVE  wallets[a] + inflow[a] = InitialWallets(a) + PaidOut(a)
  BY DEF BooksBalance
<1> DEFINE paid == [o \in Origins |-> Paid(withdraw[o], a)]
<1>1. \A o \in Origins : paid[o] = 0
  BY DEF Init, Paid
<1>2. PaidOut(a) = SumFunctionOnSet(paid, Origins)
  BY DEF PaidOut
<1> HIDE DEF paid
<1>3. PaidOut(a) = 0
  BY <1>1, <1>2, FinitenessAssumption, SumOfZeros
<1>4. wallets[a] = InitialWallets(a) /\ wallets[a] \in Nat /\ inflow[a] = 0
  BY InitType DEF Init, TypeOK
<1> QED
  BY <1>3, <1>4

BookQuantities ==
  \A a \in Assets :
    /\ wallets[a] \in Nat /\ inflow[a] \in Nat /\ PaidOut(a) \in Nat /\ InitialWallets(a) \in Nat

\* The Withdraw accounts account for everything that ever left the bridge, for any
\* number of admins, assets, origins and signatures.
THEOREM BooksAlwaysBalance == Spec => []BooksBalance
<1>1. TypeOK => BookQuantities
  <2>1. \A a \in Assets : InitialWallets(a) \in Nat
    BY AmountAssumption, GenesisAssumption, AssetAssumption DEF InitialWallets, Assets, Mints
  <2> QED
    BY <2>1, PaidIsNat DEF BookQuantities, TypeOK
<1>2. BooksBalance /\ Booked /\ BookQuantities /\ BookQuantities' => BooksBalance'
  <2> SUFFICES ASSUME BookQuantities, BookQuantities', BooksBalance, Booked, NEW a \in Assets
               PROVE  wallets'[a] + inflow'[a] = InitialWallets(a) + PaidOut(a)'
    BY DEF BooksBalance, InitialWallets
  <2>1. /\ wallets[a] \in Nat /\ inflow[a] \in Nat /\ PaidOut(a) \in Nat
        /\ wallets'[a] \in Nat /\ inflow'[a] \in Nat /\ PaidOut(a)' \in Nat
        /\ InitialWallets(a) \in Nat
    BY DEF BookQuantities
  <2>2. wallets[a] + inflow[a] = InitialWallets(a) + PaidOut(a)
    BY DEF BooksBalance
  <2>3. wallets'[a] + inflow'[a] + PaidOut(a) = wallets[a] + inflow[a] + PaidOut(a)'
    BY DEF Booked
  <2> QED
    BY <2>1, <2>2, <2>3
<1> QED
  BY <1>1, <1>2, InitBooks, NextBooked, TypeCorrect, PTL DEF Spec

=============================================================================
