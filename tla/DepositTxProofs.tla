--------------------------- MODULE DepositTxProofs ---------------------------
(***************************************************************************)
(* Theorems about DepositTx for every value of its constants.              *)
(***************************************************************************)
EXTENDS DepositTx, ConservationProofs

-----------------------------------------------------------------------------
(* The instructions of a transaction.                                        *)

\* What the sysvar shows as a charge by the modelled program was one, and a deposit
\* follows a charge of its terms.
Shown(call, t) ==
  /\ call # None
  /\ call.program_id = Charger
  /\ call.account = CommissionKey(Charger, t.seed)
  /\ call.name = "ChargeCommission"
  /\ call.deposit_token = t.type
  /\ call.deposit_token_amount = t.amount

TxSeq ==
  tx # None =>
    /\ tx \in Transactions
    /\ Len(tx.done) <= MaxInstructions
    /\ (tx.nested => Len(tx.done) > 0)

ShownExecuted ==
  tx # None => \A i \in DOMAIN tx.done, t \in Terms :
    Shown(tx.done[i].call, t) => t \in tx.done[i].charges

DepositFollowsCharge ==
  tx # None => \A i \in DOMAIN tx.done, t \in Terms :
    t.seed \in Charged /\ t \in tx.done[i].deposits => i > 1 /\ t \in tx.done[i - 1].charges

TxInv == TxSeq /\ ShownExecuted /\ DepositFollowsCharge

\* A transaction is told from there being none.
LEMMA NoneIsNoTransaction == None \notin Transactions
BY TxAssumption

\* The parts of a transaction in progress.
LEMMA TxFields ==
  ASSUME TxInv, tx # None
  PROVE  /\ tx \in Transactions /\ tx.done \in Seq(Executed)
         /\ Len(tx.done) \in Nat /\ Len(tx.done) <= MaxInstructions
         /\ DOMAIN tx.done = 1 .. Len(tx.done)
         /\ tx.nested \in BOOLEAN /\ (tx.nested => Len(tx.done) > 0)
         /\ tx.fees \in [Seeds -> [Assets -> Nat]]
<1>1. tx \in Transactions /\ Len(tx.done) <= MaxInstructions /\ (tx.nested => Len(tx.done) > 0)
  BY DEF TxInv, TxSeq
<1>2. /\ tx.done \in Seq(Executed) /\ tx.nested \in BOOLEAN
      /\ tx.fees \in [Seeds -> [Assets -> Nat]]
  BY <1>1 DEF Transactions
<1> QED
  BY <1>1, <1>2

\* Positions of deposits move down by one into positions of charges.
LEMMA FollowingCounts == TxInv => DepositsCharged
<1> SUFFICES ASSUME TxInv, tx # None, NEW t \in Terms, t.seed \in Charged
             PROVE  Cardinality({i \in DOMAIN tx.done : t \in tx.done[i].deposits})
                      <= Cardinality({i \in DOMAIN tx.done : t \in tx.done[i].charges})
  BY DEF DepositsCharged
<1> DEFINE D == {i \in DOMAIN tx.done : t \in tx.done[i].deposits}
           C == {i \in DOMAIN tx.done : t \in tx.done[i].charges}
           down == [i \in D |-> i - 1]
<1>1. tx.done \in Seq(Executed) /\ DOMAIN tx.done = 1 .. Len(tx.done) /\ Len(tx.done) \in Nat
  BY TxFields
<1>2. IsFiniteSet(C)
  <2>1. IsFiniteSet(1 .. Len(tx.done))
    BY <1>1, FS_Interval
  <2> QED
    BY <1>1, <2>1, FS_Subset
<1>3. \A i \in D : i - 1 \in C
  BY <1>1 DEF TxInv, DepositFollowsCharge
<1>4. \A i, j \in D : i - 1 = j - 1 => i = j
  BY <1>1
<1>5. down \in Injection(D, C)
  <2> HIDE DEF C, D
  <2> QED
    BY <1>3, <1>4 DEF Injection, IsInjective
<1>6. Cardinality(D) <= Cardinality(C)
  <2> HIDE DEF C, D, down
  <2> QED
    BY <1>2, <1>5, FS_Injection
<1> QED
  BY <1>6

\* The 16-bit subtraction gives the position before, or one beyond every end.
LEMMA PreviousPosition ==
  ASSUME NEW n \in Nat, n <= MaxInstructions
  PROVE  /\ n > 0 => PreviousIndex(n) = n - 1
         /\ n = 0 => PreviousIndex(n) = 65535
BY TxAssumption DEF PreviousIndex

\* Every charge of the transaction is one of before or one of these.
ChargesFrom(charges) ==
  \A i \in DOMAIN tx'.done : \A t \in tx'.done[i].charges :
    t \in charges \/ \E j \in DOMAIN tx.done : t \in tx.done[j].charges

\* A transaction goes on: the invariant holds, and the fees it began with are noted.
Continues(charges) == TxInv' /\ tx' # None /\ tx'.fees = tx.fees /\ ChargesFrom(charges)

\* A new top-level instruction continues the transaction, if a charge it shows is one
\* and what it deposits has been charged by the one before.
LEMMA AppendStep ==
  ASSUME TxInv, tx # None, UNCHANGED admin, NEW new \in Executed, NEW nested \in BOOLEAN,
         Len(tx.done) < MaxInstructions,
         tx' = [tx EXCEPT !.done = Append(@, new), !.nested = nested],
         \A t \in Terms : Shown(new.call, t) => t \in new.charges,
         \A t \in new.deposits : t.seed \in Charged =>
           Len(tx.done) > 0 /\ t \in tx.done[Len(tx.done)].charges
  PROVE  Continues(new.charges)
<1> DEFINE last == Len(tx.done)
<1>1. /\ tx \in Transactions /\ tx.done \in Seq(Executed)
      /\ last \in Nat /\ DOMAIN tx.done = 1 .. last
  BY TxFields
<1>2. Append(tx.done, new) \in Seq(Executed)
  BY <1>1
<1>3. /\ tx' \in Transactions /\ tx'.done = Append(tx.done, new)
      /\ tx'.nested = nested /\ tx'.fees = tx.fees
  BY <1>1, <1>2 DEF Transactions
<1>4. /\ Len(tx'.done) = last + 1 /\ tx'.done[last + 1] = new
      /\ DOMAIN tx'.done = 1 .. (last + 1)
      /\ \A i \in 1 .. last : tx'.done[i] = tx.done[i]
  BY <1>1, <1>3
<1>5. tx' # None
  BY <1>3, NoneIsNoTransaction
<1> HIDE DEF last
<1>6. \A i \in 1 .. (last + 1) : i = last + 1 \/ i \in 1 .. last
  BY <1>1
<1>7. TxSeq'
  <2>1. last + 1 <= MaxInstructions /\ last + 1 > 0
    BY <1>1, TxAssumption DEF last
  <2> QED
    BY <1>3, <1>4, <2>1 DEF TxSeq
<1>8. ShownExecuted'
  <2> SUFFICES ASSUME NEW i \in 1 .. (last + 1), NEW t \in Terms, Shown(tx'.done[i].call, t)
               PROVE  t \in tx'.done[i].charges
    BY <1>4 DEF ShownExecuted
  <2>1. CASE i = last + 1
    BY <1>4, <2>1
  <2>2. CASE i \in 1 .. last
    BY <1>1, <1>4, <2>2 DEF TxInv, ShownExecuted
  <2> QED
    BY <1>6, <2>1, <2>2
<1>9. DepositFollowsCharge'
  <2>1. Charged' = Charged
    BY DEF Charged
  <2> SUFFICES ASSUME NEW i \in 1 .. (last + 1), NEW t \in Terms, t.seed \in Charged,
                      t \in tx'.done[i].deposits
               PROVE  i > 1 /\ t \in tx'.done[i - 1].charges
    BY <1>4, <2>1 DEF DepositFollowsCharge
  <2>2. CASE i = last + 1
    <3>1. last > 0 /\ t \in tx.done[last].charges
      BY <1>4, <2>2 DEF last
    <3>2. last \in 1 .. last /\ i - 1 = last /\ i > 1
      BY <1>1, <2>2, <3>1
    <3> QED
      BY <1>4, <3>1, <3>2
  <2>3. CASE i \in 1 .. last
    <3>1. i > 1 /\ t \in tx.done[i - 1].charges
      BY <1>1, <1>4, <2>3 DEF TxInv, DepositFollowsCharge
    <3>2. i - 1 \in 1 .. last
      BY <1>1, <2>3, <3>1
    <3> QED
      BY <1>4, <3>1, <3>2
  <2> QED
    BY <1>6, <2>2, <2>3
<1>10. ChargesFrom(new.charges)
  BY <1>1, <1>4, <1>6 DEF ChargesFrom
<1> QED
  BY <1>3, <1>5, <1>7, <1>8, <1>9, <1>10 DEF Continues, TxInv

\* The running instruction is credited with what the programs it calls do.
LEMMA NestedStep ==
  ASSUME TxInv, tx # None, UNCHANGED admin, tx.nested,
         NEW deposits \in SUBSET Terms, NEW charges \in SUBSET Terms, NEW more, NEW last,
         last = Len(tx.done),
         more = [call |-> tx.done[last].call, deposits |-> tx.done[last].deposits \cup deposits,
                 charges |-> tx.done[last].charges \cup charges],
         tx' = [tx EXCEPT !.done[last] = more],
         \A t \in deposits : t.seed \in Charged =>
           last > 1 /\ t \in tx.done[last - 1].charges
  PROVE  Continues(charges)
<1>1. /\ tx \in Transactions /\ tx.done \in Seq(Executed)
      /\ last \in Nat /\ DOMAIN tx.done = 1 .. last /\ last \in 1 .. last
      /\ last <= MaxInstructions
  BY TxFields
<1>2. \A i \in 1 .. last : tx.done[i] \in Executed
  BY <1>1
<1>3. /\ more.call = tx.done[last].call
      /\ more.deposits = tx.done[last].deposits \cup deposits
      /\ more.charges = tx.done[last].charges \cup charges
  OBVIOUS
<1>4. more \in Executed
  BY <1>1, <1>2 DEF Executed
<1>5. [tx.done EXCEPT ![last] = more] \in Seq(Executed)
  BY <1>1, <1>4
<1>6. /\ tx' \in Transactions /\ tx'.done = [tx.done EXCEPT ![last] = more]
      /\ tx'.nested = tx.nested /\ tx'.fees = tx.fees
  <2>1. tx' = [tx EXCEPT !.done = [tx.done EXCEPT ![last] = more]]
    BY <1>1 DEF Transactions
  <2> QED
    BY <1>1, <1>5, <2>1 DEF Transactions
<1>7. /\ Len(tx'.done) = last /\ tx'.done[last] = more
      /\ DOMAIN tx'.done = 1 .. last
      /\ \A i \in 1 .. last : i # last => tx'.done[i] = tx.done[i]
  BY <1>1, <1>4, <1>5, <1>6
<1>8. tx' # None
  BY <1>6, NoneIsNoTransaction
<1>9. TxSeq'
  BY <1>1, <1>6, <1>7 DEF TxSeq, TxInv
<1>10. \A i \in 1 .. last : tx'.done[i].call = tx.done[i].call
                            /\ tx.done[i].charges \subseteq tx'.done[i].charges
  BY <1>3, <1>7
<1>11. ShownExecuted'
  <2> SUFFICES ASSUME NEW i \in 1 .. last, NEW t \in Terms, Shown(tx'.done[i].call, t)
               PROVE  t \in tx'.done[i].charges
    BY <1>7 DEF ShownExecuted
  <2>1. Shown(tx.done[i].call, t)
    BY <1>10
  <2> QED
    BY <1>1, <1>10, <2>1 DEF TxInv, ShownExecuted
<1>12. DepositFollowsCharge'
  <2>1. Charged' = Charged
    BY DEF Charged
  <2> SUFFICES ASSUME NEW i \in 1 .. last, NEW t \in Terms, t.seed \in Charged,
                      t \in tx'.done[i].deposits
               PROVE  i > 1 /\ t \in tx'.done[i - 1].charges
    BY <1>7, <2>1 DEF DepositFollowsCharge
  <2>2. i > 1 /\ t \in tx.done[i - 1].charges
    <3>1. CASE t \in tx.done[i].deposits
      BY <1>1, <3>1 DEF TxInv, DepositFollowsCharge
    <3>2. CASE t \notin tx.done[i].deposits
      <4>1. i = last /\ t \in deposits
        BY <1>3, <1>7, <3>2
      <4> QED
        BY <4>1
    <3> QED
      BY <3>1, <3>2
  <2>3. i - 1 \in 1 .. last
    BY <1>1, <2>2
  <2> QED
    BY <1>10, <2>2, <2>3
<1>13. ChargesFrom(charges)
  BY <1>1, <1>3, <1>7 DEF ChargesFrom
<1> QED
  BY <1>6, <1>8, <1>9, <1>11, <1>12, <1>13 DEF Continues, TxInv

\* What a call adds to the transaction keeps the invariant, if a charge it shows is
\* one and a deposit finds its charge.
LEMMA CallStep ==
  ASSUME TxInv, tx # None, UNCHANGED admin, NEW nested \in BOOLEAN,
         NEW call \in Instructions \cup {None},
         NEW deposits \in SUBSET Terms, NEW charges \in SUBSET Terms,
         Call(nested, call, deposits, charges),
         \A t \in Terms : Shown(call, t) => t \in charges,
         \A t \in deposits : t.seed \in Charged => Shown(Prior(nested), t)
  PROVE  Continues(charges)
<1> DEFINE last == Len(tx.done)
           n == CurrentIndex(nested)
<1>1. /\ tx.done \in Seq(Executed) /\ last \in Nat /\ last <= MaxInstructions
      /\ DOMAIN tx.done = 1 .. last
      /\ tx.nested => last > 0
  BY TxFields
<1>2. n \in Nat /\ n <= last
  BY <1>1 DEF CurrentIndex, Call
<1>3. ASSUME NEW t \in deposits, t.seed \in Charged
      PROVE  n > 0 /\ t \in tx.done[n].charges
  <2> DEFINE i == PreviousIndex(n)
  <2>1. Shown(Prior(nested), t)
    BY <1>3
  <2>2. i < last /\ Shown(tx.done[i + 1].call, t)
    BY <2>1 DEF Prior, Shown
  <2>3. n <= MaxInstructions /\ last < 65535
    BY <1>1, <1>2, TxAssumption
  <2> HIDE DEF n, last
  <2>4. n > 0 /\ i = n - 1
    <3>1. n = 0 => i = 65535
      BY <1>2, <2>3, PreviousPosition
    <3>2. n > 0
      BY <1>1, <1>2, <2>2, <2>3, <3>1
    <3> QED
      BY <1>2, <2>3, <3>2, PreviousPosition
  <2> HIDE DEF i
  <2>5. i + 1 = n /\ n \in 1 .. last
    BY <1>1, <1>2, <2>4
  <2> QED
    BY <1>1, <2>2, <2>4, <2>5 DEF TxInv, ShownExecuted
<1>4. CASE nested
  <2> DEFINE more == [call |-> tx.done[last].call,
                      deposits |-> tx.done[last].deposits \cup deposits,
                      charges |-> tx.done[last].charges \cup charges]
  <2>1. tx.nested /\ tx' = [tx EXCEPT !.done[last] = more] /\ n = last - 1
    BY <1>4 DEF Call, CurrentIndex
  <2>2. \A t \in deposits : t.seed \in Charged => last > 1 /\ t \in tx.done[last - 1].charges
    <3> HIDE DEF n, last
    <3> QED
      BY <1>1, <1>3, <2>1
  <2>3. last = Len(tx.done)
    OBVIOUS
  <2>4. more = [call |-> tx.done[last].call,
                deposits |-> tx.done[last].deposits \cup deposits,
                charges |-> tx.done[last].charges \cup charges]
    OBVIOUS
  <2> HIDE DEF more, last
  <2> QED
    BY <2>1, <2>2, <2>3, <2>4, NestedStep
<1>5. CASE ~nested
  <2> DEFINE new == [call |-> call, deposits |-> deposits, charges |-> charges]
  <2>1. /\ tx' = [tx EXCEPT !.done = Append(@, new), !.nested = FALSE]
        /\ Len(tx.done) < MaxInstructions /\ n = Len(tx.done)
    BY <1>5 DEF Call, CurrentIndex
  <2>2. new \in Executed /\ FALSE \in BOOLEAN
    BY DEF Executed
  <2>3. new.call = call /\ new.deposits = deposits /\ new.charges = charges
    OBVIOUS
  <2> HIDE DEF new, n
  <2>4. \A t \in new.deposits : t.seed \in Charged =>
          Len(tx.done) > 0 /\ t \in tx.done[Len(tx.done)].charges
    BY <1>3, <2>1, <2>3
  <2>5. \A t \in Terms : Shown(new.call, t) => t \in new.charges
    BY <2>3
  <2>6. Continues(new.charges)
    BY <2>1, <2>2, <2>4, <2>5, AppendStep
  <2> QED
    BY <2>3, <2>6
<1> QED
  BY <1>4, <1>5

-----------------------------------------------------------------------------
(* The commission program on the wallets of the bridge.  DepositTx makes an  *)
(* instance of Commission, here is the same one of its proofs: the           *)
(* definitions of the two have the same bodies.                              *)

FP == INSTANCE CommissionProofs WITH key <- KeyInForce, purse <- wallets,
                                     FeeMints <- Mints, Funds <- GenesisWallets

\* The two instances have the same tokens, lists and contents; a fee may be paid in
\* every asset.
LEMMA SameConstants ==
  /\ F!FeeTokens = FP!FeeTokens /\ F!FeeAssets = FP!FeeAssets
  /\ F!FeeAssets = Assets
  /\ F!OperationTypes = FP!OperationTypes
  /\ F!CommissionTokens = FP!CommissionTokens
  /\ F!CommissionAdmins = FP!CommissionAdmins
  /\ F!CommissionContents = FP!CommissionContents
BY DEF F!FeeAssets, FP!FeeAssets, F!FeeTokens, FP!FeeTokens, F!OperationTypes,
       FP!OperationTypes, F!CommissionTokens, FP!CommissionTokens, F!CommissionAdmins,
       FP!CommissionAdmins, F!CommissionContents, FP!CommissionContents, Assets

\* What Commission assumes of its constants holds of those it is given here.
LEMMA CommissionApplies == FP!CommissionAssumption
<1>1. F!CommissionAssumption
  BY TxAssumption
<1>2. FP!IsFiniteSet(Seeds)
  BY FinitenessAssumption DEF IsFiniteSet, FP!IsFiniteSet
<1> QED
  BY <1>1, <1>2, SameConstants DEF F!CommissionAssumption, FP!CommissionAssumption

\* The same states are well typed in both, ...
LEMMA SameTypes == F!CommissionTypeOK <=> FP!CommissionTypeOK
BY SameConstants DEF F!CommissionTypeOK, FP!CommissionTypeOK

\* ... after a step too.
LEMMA SameTypesNext == F!CommissionTypeOK' <=> FP!CommissionTypeOK'
BY SameConstants DEF F!CommissionTypeOK, FP!CommissionTypeOK

\* Both add up the same fees.
LEMMA SameFees ==
  ASSUME NEW a
  PROVE  F!FeesOf(a) = FP!FeesOf(a) /\ F!FeesOf(a)' = FP!FeesOf(a)'
BY DEF F!FeesOf, FP!FeesOf, F!SumFunctionOnSet, FP!SumFunctionOnSet, F!FoldFunctionOnSet,
       FP!FoldFunctionOnSet, F!MapThenFoldSet, FP!MapThenFoldSet

\* Both look prices up in the same way.
LEMMA SamePrices ==
  ASSUME NEW tokens, NEW token
  PROVE  /\ F!Acceptable(tokens, token) = FP!Acceptable(tokens, token)
         /\ F!Price(tokens, token) = FP!Price(tokens, token)
         /\ F!AssetOf(token) = FP!AssetOf(token)
BY DEF F!Acceptable, FP!Acceptable, F!Price, FP!Price, F!Min, FP!Min, F!AssetOf, FP!AssetOf

\* Both charge in the same way.
LEMMA SameCharge ==
  ASSUME NEW s, NEW token
  PROVE  F!ChargeCommission(s, token) <=> FP!ChargeCommission(s, token)
BY SamePrices DEF F!ChargeCommission, FP!ChargeCommission, F!Collect, FP!Collect,
                  F!PaySelf, FP!PaySelf

\* Both accept the same signatures.
LEMMA SameAuthorised ==
  ASSUME NEW s, NEW u, NEW op, NEW entry
  PROVE  F!Authorised(s, u, op, entry) <=> FP!Authorised(s, u, op, entry)
BY DEF F!Authorised, FP!Authorised, F!CommissionContent, FP!CommissionContent,
       F!VerifyContent, FP!VerifyContent, F!Hashed, FP!Hashed, F!AssetOf, FP!AssetOf

\* Both change lists in the same way.
LEMMA SameLists ==
  ASSUME NEW list, NEW entry
  PROVE  /\ F!Fits(list) <=> FP!Fits(list)
         /\ F!Removed(list, entry) = FP!Removed(list, entry)
         /\ F!Updated(list, entry) = FP!Updated(list, entry)
<1>1. F!Fits(list) <=> FP!Fits(list)
  BY DEF F!Fits, FP!Fits, F!SerializedSize, FP!SerializedSize
<1>2. F!Removed(list, entry) = FP!Removed(list, entry)
  BY DEF F!Removed, FP!Removed, F!RemoveAt, FP!RemoveAt, F!Min, FP!Min
<1>3. F!Updated(list, entry) = FP!Updated(list, entry)
  BY DEF F!Updated, FP!Updated, F!Acceptable, FP!Acceptable, F!Min, FP!Min
<1> QED
  BY <1>1, <1>2, <1>3

\* Both carry the same changes of lists out.
LEMMA SameChanges ==
  ASSUME NEW s, NEW entry
  PROVE  /\ F!AddToken(s, entry) <=> FP!AddToken(s, entry)
         /\ F!RemoveToken(s, entry) <=> FP!RemoveToken(s, entry)
         /\ F!UpdateToken(s, entry) <=> FP!UpdateToken(s, entry)
<1>1. F!Tokens(s) = FP!Tokens(s)
  BY DEF F!Tokens, FP!Tokens
<1>2. \A account, op : F!Spend(account, op) = FP!Spend(account, op)
  BY DEF F!Spend, FP!Spend
<1>3. \A op, list : F!ChangeList(s, op, entry, list) <=> FP!ChangeList(s, op, entry, list)
  BY <1>2, SameLists, SameAuthorised DEF F!ChangeList, FP!ChangeList
<1> QED
  BY <1>1, <1>3, SameLists
     DEF F!AddToken, FP!AddToken, F!RemoveToken, FP!RemoveToken, F!UpdateToken, FP!UpdateToken

\* Both carry the same operations out.
LEMMA SameOperate == F!Operate <=> FP!Operate
<1>1. F!SignedEntries = FP!SignedEntries
  BY SameConstants DEF F!SignedEntries, FP!SignedEntries
<1>2. ASSUME NEW s, NEW u, NEW entry, NEW w
      PROVE  F!WithdrawFees(s, u, entry, w) <=> FP!WithdrawFees(s, u, entry, w)
  BY SameAuthorised DEF F!WithdrawFees, FP!WithdrawFees, F!PayOut, FP!PayOut, F!AssetOf,
                        FP!AssetOf, F!Spend, FP!Spend
<1> QED
  BY <1>1, <1>2, SameChanges DEF F!Operate, FP!Operate

\* What the commission program does in this system is a step of Commission.
LEMMA FeeStep ==
  ASSUME \/ \E s \in Seeds, token \in F!FeeTokens : F!ChargeCommission(s, token)
         \/ \E s \in Seeds, list \in InitialLists : F!InitializeCommission(s, list)
         \/ \E message \in FeeMessages : F!SignFee(message)
         \/ F!Operate
  PROVE  FP!CommissionNext
<1>1. ASSUME NEW s, NEW list
      PROVE  F!InitializeCommission(s, list) <=> FP!InitializeCommission(s, list)
  BY SameLists, SameConstants DEF F!InitializeCommission, FP!InitializeCommission
<1>2. ASSUME NEW message
      PROVE  F!SignFee(message) <=> FP!SignFee(message)
  BY DEF F!SignFee, FP!SignFee
<1> QED
  BY <1>1, <1>2, SameConstants, SameCharge, SameOperate DEF FP!CommissionNext

-----------------------------------------------------------------------------
(* Steps of a transaction.                                                   *)

\* A deposit with an admin of the modelled commission program has found a charge.
LEMMA DepositShown ==
  ASSUME NEW nested \in BOOLEAN, NEW s \in Seeds, NEW type \in TokenTypes, NEW m \in Mints,
         NEW amt \in Amounts, DepositIn(nested, s, type, m, amt), s \in Charged
  PROVE  Shown(Prior(nested), TermsOf(s, type, amt))
<1>1. VerifyCommissionCharged(s, Prior(nested), type, amt)
  BY DEF DepositIn, DepositNative, DepositFT, DepositNFT, DepositToken
<1> QED
  BY <1>1 DEF VerifyCommissionCharged, Shown, TermsOf, Charged

\* Calling a program of somebody else continues the transaction.
LEMMA WrapperContinues ==
  ASSUME TxInv, CallWrapper
  PROVE  Continues({})
<1> DEFINE new == [call |-> None, deposits |-> {}, charges |-> {}]
<1>1. /\ tx # None /\ Len(tx.done) < MaxInstructions /\ UNCHANGED admin
      /\ tx' = [tx EXCEPT !.done = Append(@, new), !.nested = TRUE]
  BY DEF CallWrapper, vars
<1>2. new \in Executed /\ TRUE \in BOOLEAN
  BY DEF Executed
<1>3. new.call = None /\ new.deposits = {} /\ new.charges = {}
  OBVIOUS
<1> HIDE DEF new
<1>4. \A t \in Terms : Shown(new.call, t) => t \in new.charges
  BY <1>3 DEF Shown
<1>5. \A t \in new.deposits : t.seed \in Charged =>
        Len(tx.done) > 0 /\ t \in tx.done[Len(tx.done)].charges
  BY <1>3
<1>6. Continues(new.charges)
  BY <1>1, <1>2, <1>4, <1>5, AppendStep
<1> QED
  BY <1>3, <1>6

\* So does an instruction of another program that looks like a charge.
LEMMA OtherContinues ==
  ASSUME TxInv, NEW i \in ForeignCalls, CallOther(i)
  PROVE  Continues({})
<1>1. tx # None /\ UNCHANGED admin /\ Call(FALSE, i, {}, {})
  BY DEF CallOther, vars
<1>2. i \in Instructions \cup {None} /\ \A t \in Terms : Shown(i, t) => t \in {}
  BY TxAssumption DEF Shown
<1>3. FALSE \in BOOLEAN /\ {} \in SUBSET Terms
      /\ \A t \in {} : t.seed \in Charged => Shown(Prior(FALSE), t)
  OBVIOUS
<1> QED
  BY <1>1, <1>2, <1>3, CallStep

\* A charge continues the transaction by a charge of its terms.
LEMMA ChargeContinues ==
  ASSUME TxInv, NEW nested \in BOOLEAN, NEW s \in Seeds, NEW type \in TokenTypes,
         NEW amt \in Amounts, NEW token, Charge(nested, s, token, type, amt)
  PROVE  Continues({TermsOf(s, type, amt)})
<1> DEFINE call == [program_id |-> Charger, account |-> CommissionKey(Charger, s),
                    name |-> "ChargeCommission", deposit_token |-> type,
                    deposit_token_amount |-> amt]
           charges == {TermsOf(s, type, amt)}
<1>1. tx # None /\ UNCHANGED admin /\ Call(nested, call, {}, charges)
  BY DEF Charge, bridgeOnly
<1>2. charges \in SUBSET Terms
  BY DEF TermsOf, Terms
<1>3. call \in Instructions \cup {None}
  BY TxAssumption DEF Instructions
<1>4. \A t \in Terms : Shown(call, t) => t \in charges
  <2> SUFFICES ASSUME NEW t \in Terms, Shown(call, t) PROVE t = TermsOf(s, type, amt)
    OBVIOUS
  <2>1. t.seed = s /\ t.type = type /\ t.amount = amt
    BY DEF Shown, CommissionKey
  <2>2. t = [seed |-> t.seed, type |-> t.type, amount |-> t.amount]
    BY DEF Terms
  <2> QED
    BY <2>1, <2>2 DEF TermsOf
<1> HIDE DEF call, charges
<1>5. Continues(charges)
  BY <1>1, <1>2, <1>3, <1>4, CallStep
<1> QED
  BY <1>5 DEF charges

\* A deposit continues the transaction, for it has found its charge.
LEMMA DepositContinues ==
  ASSUME TxInv, NEW nested \in BOOLEAN, NEW s \in Seeds, NEW type \in TokenTypes, NEW m \in Mints,
         NEW amt \in Amounts, DepositIn(nested, s, type, m, amt)
  PROVE  Continues({})
<1>1. tx # None /\ Call(nested, None, {TermsOf(s, type, amt)}, {})
  BY DEF DepositIn
<1>2. UNCHANGED admin
  BY DEF DepositIn, DepositNative, DepositFT, DepositNFT, DepositToken
<1>3. {TermsOf(s, type, amt)} \in SUBSET Terms /\ TermsOf(s, type, amt).seed = s
  BY DEF TermsOf, Terms
<1>4. \A t \in {TermsOf(s, type, amt)} : t.seed \in Charged => Shown(Prior(nested), t)
  BY <1>3, DepositShown
<1>5. (\A t \in Terms : ~Shown(None, t)) /\ {} \in SUBSET Terms /\ None \in Instructions \cup {None}
  BY DEF Shown
<1> QED
  BY <1>1, <1>2, <1>3, <1>4, <1>5, CallStep

\* What is charged for and deposited are amounts.
LEMMA AmountsDeposited == DepositAmounts \subseteq Amounts
BY TxAssumption

\* A charge of the commission of admin s by the commission program.
ChargedNow(s) == \E token \in F!FeeTokens : FP!ChargeCommission(s, token)

\* While a transaction lasts the commission program does nothing but charge.
GoesOn ==
  \/ UNCHANGED feeVars /\ Continues({})
  \/ \E s \in Seeds : ChargedNow(s) /\ \E charges : Continues(charges) /\ \A t \in charges : t.seed = s

Begins ==
  /\ tx' = [done |-> <<>>, nested |-> FALSE, fees |-> fees]
  /\ UNCHANGED feeVars

\* A transaction ends, begins or goes on.
LEMMA TxCases ==
  ASSUME TxInv, [TxNext]_txVars
  PROVE  tx' = None \/ Begins \/ (tx # None /\ GoesOn)
<1>1. CASE Begin
  BY <1>1 DEF Begin, Begins
<1>2. CASE CallWrapper
  BY <1>2, WrapperContinues DEF CallWrapper, GoesOn
<1>3. CASE \E i \in ForeignCalls : CallOther(i)
  BY <1>3, OtherContinues DEF CallOther, GoesOn
<1>4. ASSUME NEW nested \in BOOLEAN, NEW s \in Seeds, NEW type \in TokenTypes,
             NEW amt \in DepositAmounts, NEW token \in F!FeeTokens,
             Charge(nested, s, token, type, amt)
      PROVE  tx # None /\ GoesOn
  <2>1. tx # None /\ F!ChargeCommission(s, token)
    BY <1>4 DEF Charge
  <2>2. ChargedNow(s)
    BY <2>1, SameCharge DEF ChargedNow
  <2>3. Continues({TermsOf(s, type, amt)})
    BY <1>4, AmountsDeposited, ChargeContinues
  <2>4. \A t \in {TermsOf(s, type, amt)} : t.seed = s
    BY DEF TermsOf
  <2> QED
    BY <2>1, <2>2, <2>3, <2>4 DEF GoesOn
<1>5. ASSUME NEW nested \in BOOLEAN, NEW s \in Seeds, NEW type \in TokenTypes, NEW m \in Mints,
             NEW amt \in DepositAmounts, DepositIn(nested, s, type, m, amt)
      PROVE  tx # None /\ GoesOn
  BY <1>5, AmountsDeposited, DepositContinues DEF DepositIn, GoesOn
<1>6. CASE UNCHANGED txVars
  <2>1. UNCHANGED tx /\ UNCHANGED feeVars /\ UNCHANGED admin
    BY <1>6 DEF txVars, vars
  <2>2. tx # None => Continues({})
    BY <2>1 DEF Continues, ChargesFrom, TxInv, TxSeq, ShownExecuted, DepositFollowsCharge, Charged
  <2> QED
    BY <2>1, <2>2 DEF GoesOn
<1>7. CASE End \/ Between
  BY <1>7 DEF End, Between
<1> QED
  BY <1>1, <1>2, <1>3, <1>4, <1>5, <1>6, <1>7 DEF TxNext

\* The invariant is inductive.
LEMMA TxStep ==
  ASSUME TxInv, fees \in [Seeds -> [Assets -> Nat]], [TxNext]_txVars
  PROVE  TxInv'
<1>1. CASE tx' = None
  BY <1>1 DEF TxInv, TxSeq, ShownExecuted, DepositFollowsCharge
<1>2. CASE Begins
  <2>1. tx' = [done |-> <<>>, nested |-> FALSE, fees |-> fees]
    BY <1>2 DEF Begins
  <2>2. tx'.done = <<>> /\ tx'.nested = FALSE
    BY <2>1
  <2>3. DOMAIN tx'.done = {} /\ <<>> \in Seq(Executed) /\ Len(tx'.done) = 0
    BY <2>2
  <2>4. tx' \in Transactions
    BY <2>1, <2>3 DEF Transactions
  <2>5. 0 <= MaxInstructions
    BY TxAssumption
  <2> QED
    BY <2>2, <2>3, <2>4, <2>5 DEF TxInv, TxSeq, ShownExecuted, DepositFollowsCharge
<1>3. CASE GoesOn
  BY <1>3 DEF GoesOn, Continues
<1> QED
  BY <1>1, <1>2, <1>3, TxCases

-----------------------------------------------------------------------------
(* What the two programs do to each other's accounts.                        *)

\* What there is: numbers, as soon as the types are right.
JointQuantities ==
  \A a \in Assets :
    wallets[a] \in Nat /\ InCustody(a) \in Nat /\ F!FeesOf(a) \in Nat /\ Supply(a) \in Nat

\* With the right types all balances and their sums are numbers.
LEMMA JointNumbers == TypeOK /\ F!CommissionTypeOK => JointQuantities
<1> SUFFICES ASSUME TypeOK, F!CommissionTypeOK, NEW a \in Assets
             PROVE  /\ wallets[a] \in Nat /\ InCustody(a) \in Nat
                    /\ F!FeesOf(a) \in Nat /\ Supply(a) \in Nat
  BY DEF JointQuantities
<1>1. fees \in [Seeds -> [FP!FeeAssets -> Nat]] /\ a \in FP!FeeAssets
  BY SameConstants DEF F!CommissionTypeOK
<1>2. FP!FeesOf(a) \in Nat
  BY <1>1, FP!FeesIsNat, CommissionApplies
<1> QED
  BY <1>2, SameFees, CustodyIsNat, SupplyIsNat DEF TypeOK

\* What a bridge admin shows of its key is a key or nothing.
LEMMA KeysTypedNext ==
  ASSUME admin' \in [Seeds -> Admins \cup {None}]
  PROVE  KeyInForce' \in [Seeds -> PublicKeys \cup {None}]
BY DEF KeyInForce, Admins

\* What the bridge program does leaves the commission admins alone.
BridgeDoes == TypeOK' /\ Balanced /\ UNCHANGED feeVars

\* What the commission program does leaves everything of the bridge alone but wallets.
CommissionDoes == FP!CommissionNext /\ UNCHANGED bridgeOnly

\* A deposit is a matter of the bridge.
LEMMA DepositDoes ==
  ASSUME TypeOK, NEW nested \in BOOLEAN, NEW s \in Seeds, NEW type \in TokenTypes, NEW m \in Mints,
         NEW amt \in Amounts, DepositIn(nested, s, type, m, amt)
  PROVE  BridgeDoes
<1>1. UNCHANGED feeVars
  BY DEF DepositIn
<1>2. amt \in Nat /\ 1 \in Nat /\ Sol \in Assets
  BY AmountAssumption DEF Assets
<1>3. CASE DepositNative(s, amt, Prior(nested))
  <2>1. PayIn(s, Sol, amt) /\ UNCHANGED mint
    BY <1>3 DEF DepositNative
  <2> QED
    BY <1>1, <1>2, <1>3, <2>1, PayInBalanced, DepositNativeType DEF BridgeDoes
<1>4. CASE \E n \in {amt, 1} : \E seed, kind : DepositToken(s, m, n, seed, Prior(nested), kind)
  BY <1>1, <1>2, <1>4, DepositTokenBalanced, DepositTokenType DEF BridgeDoes
<1> QED
  BY <1>3, <1>4 DEF DepositIn, DepositFT, DepositNFT

\* So is every other transaction of the bridge program, its signers and the owners of
\* metadata.
LEMMA OthersDo ==
  ASSUME TypeOK, Manage \/ Withdraw \/ Environment, UNCHANGED feeVars
  PROVE  BridgeDoes
<1>1. Next
  BY DEF Next
<1> QED
  BY <1>1, NextType, NextBalanced DEF BridgeDoes

\* Each step is a matter of one of the programs, or of none.
LEMMA WhoActs ==
  ASSUME TypeOK, [TxNext]_txVars
  PROVE  UNCHANGED <<vars, feeVars>> \/ BridgeDoes \/ CommissionDoes
<1>1. CASE Begin \/ CallWrapper \/ End \/ (\E i \in ForeignCalls : CallOther(i)) \/ UNCHANGED txVars
  BY <1>1 DEF Begin, CallWrapper, End, CallOther, txVars
<1>2. ASSUME NEW nested \in BOOLEAN, NEW s \in Seeds, NEW type \in TokenTypes,
             NEW amt \in DepositAmounts, NEW token \in F!FeeTokens,
             Charge(nested, s, token, type, amt)
      PROVE  CommissionDoes
  <2>1. F!ChargeCommission(s, token) /\ UNCHANGED bridgeOnly
    BY <1>2 DEF Charge
  <2> QED
    BY <2>1, FeeStep DEF CommissionDoes
<1>3. ASSUME NEW nested \in BOOLEAN, NEW s \in Seeds, NEW type \in TokenTypes, NEW m \in Mints,
             NEW amt \in DepositAmounts, DepositIn(nested, s, type, m, amt)
      PROVE  BridgeDoes
  BY <1>3, AmountsDeposited, DepositDoes
<1>4. CASE Between
  <2>1. CASE (Manage \/ Withdraw \/ Environment) /\ UNCHANGED feeVars
    BY <2>1, OthersDo
  <2>2. CASE /\ UNCHANGED <<bridgeOnly, wallets>>
             /\ \/ \E s \in Seeds, list \in InitialLists : F!InitializeCommission(s, list)
                \/ \E message \in FeeMessages : F!SignFee(message)
    BY <2>2, FeeStep DEF CommissionDoes
  <2>3. CASE UNCHANGED bridgeOnly /\ F!Operate
    BY <2>3, FeeStep DEF CommissionDoes
  <2> QED
    BY <1>4, <2>1, <2>2, <2>3 DEF Between
<1> QED
  BY <1>1, <1>2, <1>3, <1>4 DEF TxNext

\* Either program keeps the types of both.
LEMMA JointTypes ==
  ASSUME TypeOK, F!CommissionTypeOK, [TxNext]_txVars
  PROVE  TypeOK' /\ F!CommissionTypeOK'
<1>1. CASE UNCHANGED <<vars, feeVars>>
  <2>1. TypeOK'
    BY <1>1 DEF TypeOK, vars
  <2>2. F!CommissionTypeOK'
    BY <1>1 DEF F!CommissionTypeOK, vars, feeVars, KeyInForce
  <2> QED
    BY <2>1, <2>2
<1>2. CASE BridgeDoes
  <2>1. TypeOK' /\ UNCHANGED feeVars
    BY <1>2 DEF BridgeDoes
  <2>2. wallets' \in [Assets -> Nat] /\ KeyInForce' \in [Seeds -> PublicKeys \cup {None}]
    BY <2>1, KeysTypedNext DEF TypeOK
  <2>3. F!CommissionTypeOK'
    BY <2>1, <2>2, SameConstants DEF F!CommissionTypeOK, feeVars
  <2> QED
    BY <2>1, <2>3
<1>3. CASE CommissionDoes
  <2>1. FP!CommissionNext /\ UNCHANGED bridgeOnly /\ FP!CommissionTypeOK
    BY <1>3, SameTypes DEF CommissionDoes
  <2>2. FP!CommissionTypeOK'
    BY <2>1, FP!CommissionTypeStep, CommissionApplies
  <2>3. wallets' \in [Assets -> Nat]
    BY <2>2, SameConstants DEF FP!CommissionTypeOK
  <2>4. TypeOK'
    BY <2>1, <2>3 DEF TypeOK, bridgeOnly
  <2> QED
    BY <2>2, <2>4, SameTypesNext
<1> QED
  BY <1>1, <1>2, <1>3, WhoActs

\* Of three balances the two that change do so by as much as the supply.
LEMMA Moved ==
  ASSUME NEW w \in Nat, NEW c \in Nat, NEW f \in Nat, NEW all \in Nat,
         NEW w2 \in Nat, NEW c2 \in Nat, NEW all2 \in Nat,
         w + c + f = all, w2 + c2 + all = w + c + all2
  PROVE  w2 + c2 + f = all2
OBVIOUS

\* Either program keeps what there is in all: what the other holds does not move.
LEMMA JointBalance ==
  ASSUME TypeOK, F!CommissionTypeOK, JointQuantities, JointQuantities', JointlyConserved,
         [TxNext]_txVars
  PROVE  JointlyConserved'
<1> SUFFICES ASSUME NEW a \in Assets
             PROVE  wallets'[a] + InCustody(a)' + F!FeesOf(a)' = Supply(a)'
  BY DEF JointlyConserved
<1>1. /\ wallets[a] \in Nat /\ InCustody(a) \in Nat /\ F!FeesOf(a) \in Nat /\ Supply(a) \in Nat
      /\ wallets'[a] \in Nat /\ InCustody(a)' \in Nat /\ F!FeesOf(a)' \in Nat
      /\ Supply(a)' \in Nat
  BY DEF JointQuantities
<1>2. wallets[a] + InCustody(a) + F!FeesOf(a) = Supply(a)
  BY DEF JointlyConserved
<1>3. CASE UNCHANGED <<vars, feeVars>>
  <2>1. /\ wallets'[a] = wallets[a] /\ InCustody(a)' = InCustody(a)
        /\ F!FeesOf(a)' = F!FeesOf(a) /\ Supply(a)' = Supply(a)
    BY <1>3 DEF vars, feeVars, InCustody, F!FeesOf, Supply
  <2> QED
    BY <1>2, <2>1
<1>4. CASE BridgeDoes
  <2>1. F!FeesOf(a)' = F!FeesOf(a)
    BY <1>4 DEF BridgeDoes, feeVars, F!FeesOf
  <2>2. wallets'[a] + InCustody(a)' + Supply(a) = wallets[a] + InCustody(a) + Supply(a)'
    BY <1>4 DEF BridgeDoes, Balanced
  <2>3. wallets'[a] + InCustody(a)' + F!FeesOf(a) = Supply(a)'
    BY <1>1, <1>2, <2>2, Moved
  <2> QED
    BY <2>1, <2>3
<1>5. CASE CommissionDoes
  <2>1. FP!CommissionNext /\ UNCHANGED bridgeOnly /\ FP!CommissionTypeOK
    BY <1>5, SameTypes DEF CommissionDoes
  <2>2. FP!FeesBalanced
    BY <2>1, FP!NextFeesBalanced, CommissionApplies
  <2>3. InCustody(a)' = InCustody(a) /\ Supply(a)' = Supply(a)
    BY <2>1, CustodyKept DEF bridgeOnly, Supply
  <2>4. wallets'[a] + F!FeesOf(a)' = wallets[a] + F!FeesOf(a)
    BY <2>2, SameFees, SameConstants DEF FP!FeesBalanced
  <2> QED
    BY ONLY <1>1, <1>2, <2>3, <2>4
<1> QED
  BY <1>3, <1>4, <1>5, WhoActs

-----------------------------------------------------------------------------
(* What a deposit has cost.                                                  *)

\* Within a transaction the fees of no commission admin shrink.
FeesKept ==
  tx # None => \A s \in Seeds, a \in Assets : fees[s][a] >= tx.fees[s][a]

\* A price on the list of admin s came in, or its commission could pay it to itself.
Reached(s) ==
  \E token \in F!FeeTokens : Asked(s, token) /\ (CommissionPaid(s, token) \/ CommissionHeld(s, token))

\* A charge that was executed has been paid, if only by the commission admin itself.
ChargesPaid ==
  tx # None => \A i \in DOMAIN tx.done : \A t \in tx.done[i].charges : Reached(t.seed)

\* A deposit stands after a charge, and that has been paid.
LEMMA ChargesServed == TxInv /\ ChargesPaid => CommissionReached
<1> SUFFICES ASSUME TxInv, ChargesPaid, tx # None, NEW i \in DOMAIN tx.done,
                    NEW t \in tx.done[i].deposits, t.seed \in Charged
             PROVE  Reached(t.seed)
  BY DEF CommissionReached, Deposited, Reached
<1>1. /\ tx.done \in Seq(Executed) /\ DOMAIN tx.done = 1 .. Len(tx.done) /\ Len(tx.done) \in Nat
  BY TxFields
<1>2. t \in Terms
  <2>1. tx.done[i] \in Executed
    BY <1>1
  <2> QED
    BY <2>1 DEF Executed
<1>3. i > 1 /\ t \in tx.done[i - 1].charges
  BY <1>2 DEF TxInv, DepositFollowsCharge
<1>4. i - 1 \in DOMAIN tx.done
  BY <1>1, <1>3
<1> QED
  BY <1>3, <1>4 DEF ChargesPaid

\* Fees are numbers, now and when the transaction began.
LEMMA FeeNumbers ==
  ASSUME F!CommissionTypeOK, TxInv, tx # None, NEW s \in Seeds, NEW a \in Assets
  PROVE  fees[s][a] \in Nat /\ tx.fees[s][a] \in Nat
<1>1. fees \in [Seeds -> [Assets -> Nat]]
  BY SameConstants DEF F!CommissionTypeOK
<1> QED
  BY <1>1, TxFields

\* The list of prices of admin s.
Listed(s) == commission[s].acceptable_tokens

\* A token that is asked for is an asset and its price a number.
LEMMA AskedPrice ==
  ASSUME F!CommissionTypeOK, NEW s \in Seeds, NEW token \in F!FeeTokens, Asked(s, token)
  PROVE  F!AssetOf(token) \in Assets /\ PriceOf(s, token) \in Nat
<1>1. F!AssetOf(token) \in Assets
  BY SameConstants DEF F!AssetOf, F!FeeTokens, F!FeeAssets
<1>2. commission[s] \in F!CommissionAdmins
  BY DEF F!CommissionTypeOK, Asked
<1>3. Listed(s) \in Seq(FP!CommissionTokens)
  BY <1>2, SameConstants DEF F!CommissionAdmins, Listed
<1>4. FP!Acceptable(Listed(s), token) # {}
  BY SamePrices DEF Asked, Listed
<1>5. FP!Price(Listed(s), token) \in Nat
  BY <1>3, <1>4, FP!PriceType, CommissionApplies
<1> QED
  BY <1>1, <1>5, SamePrices DEF PriceOf, Listed

\* What a charge does to the fees: it adds its price, or finds as much there.
LEMMA ChargeEffect ==
  ASSUME F!CommissionTypeOK, NEW s \in Seeds, NEW token \in F!FeeTokens,
         FP!ChargeCommission(s, token)
  PROVE  /\ commission' = commission /\ Asked(s, token)
         /\ \/ fees'[s][F!AssetOf(token)] = fees[s][F!AssetOf(token)] + PriceOf(s, token)
            \/ fees' = fees /\ CommissionHeld(s, token)
         /\ \A r \in Seeds, a \in Assets : fees'[r][a] >= fees[r][a]
<1> DEFINE b == FP!AssetOf(token)
           price == FP!Price(Listed(s), token)
<1>1. FP!CommissionTypeOK /\ token \in FP!FeeTokens
  BY SameTypes, SameConstants
<1>2. /\ commission' = commission /\ commission[s] # None
      /\ FP!Acceptable(FP!Tokens(s), token) # {}
      /\ b \in FP!FeeAssets /\ FP!Price(FP!Tokens(s), token) \in Nat
      /\ FP!Paid(s, token, FP!Price(FP!Tokens(s), token))
  BY <1>1, FP!ChargeStep, CommissionApplies
<1>3. FP!Tokens(s) = Listed(s)
  BY DEF FP!Tokens, Listed
<1>4. /\ b \in Assets /\ price \in Nat
      /\ \/ token[1] # "NFT" /\ fees' = [fees EXCEPT ![s][b] = @ + price]
         \/ token[1] = "FT" /\ fees' = fees /\ fees[s][b] >= price
  BY <1>2, <1>3, SameConstants DEF FP!Paid, FP!Collect, FP!PaySelf
<1>5. fees \in [Seeds -> [Assets -> Nat]]
  BY SameConstants DEF F!CommissionTypeOK
<1>6. b = F!AssetOf(token) /\ price = PriceOf(s, token)
  BY SamePrices DEF PriceOf, Listed
<1>7. Asked(s, token)
  <2>1. F!Acceptable(commission[s].acceptable_tokens, token) # {}
    BY <1>2, <1>3, SamePrices DEF Listed
  <2>2. token[1] # "NFT"
    BY <1>4
  <2> QED
    BY <1>2, <2>1, <2>2 DEF Asked
<1> HIDE DEF b, price
<1>8. CASE fees' = [fees EXCEPT ![s][b] = @ + price]
  <2>1. fees'[s][b] = fees[s][b] + price
    BY <1>4, <1>5, <1>8
  <2>2. ASSUME NEW r \in Seeds, NEW a \in Assets
        PROVE  fees'[r][a] >= fees[r][a]
    <3>1. fees[r][a] \in Nat
      BY <1>5
    <3>2. r # s \/ a # b => fees'[r][a] = fees[r][a]
      BY <1>4, <1>5, <1>8
    <3> QED
      BY <1>4, <2>1, <3>1, <3>2
  <2> QED
    BY <1>2, <1>6, <1>7, <2>1, <2>2
<1>9. CASE token[1] = "FT" /\ fees' = fees /\ fees[s][b] >= price
  <2>1. CommissionHeld(s, token)
    BY <1>6, <1>9 DEF CommissionHeld
  <2>2. \A r \in Seeds, a \in Assets : fees'[r][a] >= fees[r][a]
    BY <1>5, <1>9
  <2> QED
    BY <1>2, <1>7, <1>9, <2>1, <2>2
<1> QED
  BY <1>4, <1>8, <1>9

\* A charge takes no fees from anybody.
LEMMA FeesGrow ==
  ASSUME F!CommissionTypeOK, NEW s \in Seeds, ChargedNow(s)
  PROVE  UNCHANGED commission /\ \A r \in Seeds, a \in Assets : fees'[r][a] >= fees[r][a]
BY ChargeEffect DEF ChargedNow

\* Inside a transaction fees only grow.
LEMMA FeesKeptStep ==
  ASSUME F!CommissionTypeOK, F!CommissionTypeOK', TxInv, FeesKept, [TxNext]_txVars
  PROVE  FeesKept'
<1>1. CASE tx' = None
  BY <1>1 DEF FeesKept
<1>2. CASE Begins
  <2>1. tx'.fees = fees /\ fees' = fees
    BY <1>2 DEF Begins, feeVars
  <2>2. \A s \in Seeds, a \in Assets : fees[s][a] \in Nat
    BY SameConstants DEF F!CommissionTypeOK
  <2> QED
    BY <2>1, <2>2 DEF FeesKept
<1>3. CASE tx # None /\ UNCHANGED feeVars /\ Continues({})
  BY <1>3 DEF FeesKept, Continues, feeVars
<1>4. ASSUME tx # None, NEW s \in Seeds, ChargedNow(s), NEW charges, Continues(charges)
      PROVE  FeesKept'
  <2>1. \A r \in Seeds, a \in Assets : fees'[r][a] >= fees[r][a]
    BY <1>4, FeesGrow
  <2>2. tx'.fees = tx.fees
    BY <1>4 DEF Continues
  <2> SUFFICES ASSUME NEW r \in Seeds, NEW a \in Assets
               PROVE  fees'[r][a] >= tx'.fees[r][a]
    BY DEF FeesKept
  <2>3. fees[r][a] >= tx.fees[r][a]
    BY <1>4 DEF FeesKept
  <2>4. fees[r][a] \in Nat /\ tx.fees[r][a] \in Nat /\ fees'[r][a] \in Nat
    BY <1>4, FeeNumbers, SameConstants DEF F!CommissionTypeOK
  <2> QED
    BY <2>1, <2>2, <2>3, <2>4
<1> QED
  BY <1>1, <1>2, <1>3, <1>4, TxCases DEF GoesOn

\* What has been paid stays paid, and what could be paid can be.
LEMMA StaysReached ==
  ASSUME F!CommissionTypeOK, F!CommissionTypeOK', TxInv, tx # None, tx'.fees = tx.fees,
         UNCHANGED commission, \A r \in Seeds, a \in Assets : fees'[r][a] >= fees[r][a],
         NEW s \in Seeds, Reached(s)
  PROVE  Reached(s)'
<1>1. PICK token \in F!FeeTokens :
        Asked(s, token) /\ (CommissionPaid(s, token) \/ CommissionHeld(s, token))
  BY DEF Reached
<1> DEFINE a == F!AssetOf(token)
           price == PriceOf(s, token)
<1>2. a \in Assets /\ price \in Nat
  BY <1>1, AskedPrice
<1>3. Asked(s, token)' /\ PriceOf(s, token)' = price
  BY <1>1 DEF Asked, PriceOf
<1>4. /\ CommissionPaid(s, token) => fees[s][a] >= tx.fees[s][a] + price
      /\ CommissionHeld(s, token) => token[1] = "FT" /\ fees[s][a] >= price
  BY DEF CommissionPaid, CommissionHeld
<1>5. /\ fees'[s][a] >= tx'.fees[s][a] + price => CommissionPaid(s, token)'
      /\ token[1] = "FT" /\ fees'[s][a] >= price => CommissionHeld(s, token)'
  BY <1>3 DEF CommissionPaid, CommissionHeld
<1> HIDE DEF a, price
<1>6. /\ fees[s][a] \in Nat /\ tx.fees[s][a] \in Nat /\ fees'[s][a] \in Nat
      /\ fees'[s][a] >= fees[s][a]
  BY <1>2, FeeNumbers, SameConstants DEF F!CommissionTypeOK
<1>7. /\ fees[s][a] >= tx.fees[s][a] + price => fees'[s][a] >= tx'.fees[s][a] + price
      /\ fees[s][a] >= price => fees'[s][a] >= price
  BY <1>2, <1>6
<1>8. CommissionPaid(s, token)' \/ CommissionHeld(s, token)'
  BY <1>1, <1>4, <1>5, <1>7
<1> QED
  BY <1>3, <1>8 DEF Reached

\* A charge pays, or shows that the commission admin could.
LEMMA ChargePays ==
  ASSUME F!CommissionTypeOK, F!CommissionTypeOK', TxInv, FeesKept, tx # None, tx'.fees = tx.fees,
         NEW s \in Seeds, ChargedNow(s)
  PROVE  Reached(s)'
<1>1. PICK token \in F!FeeTokens : FP!ChargeCommission(s, token)
  BY DEF ChargedNow
<1> DEFINE a == F!AssetOf(token)
           price == PriceOf(s, token)
<1>2. /\ commission' = commission /\ Asked(s, token)
      /\ fees'[s][a] = fees[s][a] + price \/ (fees' = fees /\ CommissionHeld(s, token))
  BY <1>1, ChargeEffect
<1>3. a \in Assets /\ price \in Nat
  BY <1>2, AskedPrice
<1>4. Asked(s, token)' /\ PriceOf(s, token)' = price
  BY <1>2 DEF Asked, PriceOf
<1>5. CASE fees'[s][a] = fees[s][a] + price
  <2>1. fees'[s][a] >= tx'.fees[s][a] + price => CommissionPaid(s, token)'
    BY <1>4 DEF CommissionPaid
  <2> HIDE DEF a, price
  <2>2. /\ fees[s][a] \in Nat /\ tx.fees[s][a] \in Nat /\ fees[s][a] >= tx.fees[s][a]
    BY <1>3, FeeNumbers DEF FeesKept
  <2>3. fees'[s][a] >= tx'.fees[s][a] + price
    BY <1>3, <1>5, <2>2
  <2> QED
    BY <1>4, <2>1, <2>3 DEF Reached
<1>6. CASE fees' = fees /\ CommissionHeld(s, token)
  <2>1. CommissionHeld(s, token)'
    BY <1>4, <1>6 DEF CommissionHeld
  <2> QED
    BY <1>4, <2>1 DEF Reached
<1> QED
  BY <1>2, <1>5, <1>6

\* Every charge is paid when it is executed and stays so.
LEMMA ChargesPaidStep ==
  ASSUME F!CommissionTypeOK, F!CommissionTypeOK', TxInv, FeesKept, ChargesPaid, [TxNext]_txVars
  PROVE  ChargesPaid'
<1>1. CASE tx' = None
  BY <1>1 DEF ChargesPaid
<1>2. CASE Begins
  <2>1. tx'.done = <<>>
    BY <1>2 DEF Begins
  <2> QED
    BY <2>1 DEF ChargesPaid
<1>3. ASSUME tx # None, NEW charges, Continues(charges), UNCHANGED commission,
             \A r \in Seeds, a \in Assets : fees'[r][a] >= fees[r][a],
             \A t \in charges : Reached(t.seed)'
      PROVE  ChargesPaid'
  <2> SUFFICES ASSUME NEW i \in DOMAIN tx'.done, NEW t \in tx'.done[i].charges
               PROVE  Reached(t.seed)'
    BY DEF ChargesPaid
  <2>1. tx'.fees = tx.fees
    BY <1>3 DEF Continues
  <2>2. CASE t \in charges
    BY <1>3, <2>2
  <2>3. ASSUME NEW j \in DOMAIN tx.done, t \in tx.done[j].charges
        PROVE  Reached(t.seed)'
    <3>1. t \in Terms
      <4>1. tx.done \in Seq(Executed) /\ DOMAIN tx.done = 1 .. Len(tx.done)
        BY <1>3, TxFields
      <4>2. tx.done[j] \in Executed
        BY <4>1
      <4> QED
        BY <2>3, <4>2 DEF Executed
    <3>2. t.seed \in Seeds
      BY <3>1 DEF Terms
    <3>3. Reached(t.seed)
      BY <1>3, <2>3 DEF ChargesPaid
    <3> QED
      BY <1>3, <2>1, <3>2, <3>3, StaysReached
  <2> QED
    BY <1>3, <2>2, <2>3 DEF Continues, ChargesFrom
<1>4. CASE tx # None /\ UNCHANGED feeVars /\ Continues({})
  <2>1. \A r \in Seeds, a \in Assets : fees'[r][a] >= fees[r][a]
    BY <1>4, SameConstants DEF feeVars, F!CommissionTypeOK
  <2> QED
    BY <1>3, <1>4, <2>1 DEF feeVars
<1>5. ASSUME tx # None, NEW s \in Seeds, ChargedNow(s), NEW charges, Continues(charges),
             \A t \in charges : t.seed = s
      PROVE  ChargesPaid'
  <2>1. UNCHANGED commission /\ \A r \in Seeds, a \in Assets : fees'[r][a] >= fees[r][a]
    BY <1>5, FeesGrow
  <2>2. Reached(s)'
    BY <1>5, ChargePays DEF Continues
  <2> QED
    BY <1>3, <1>5, <2>1, <2>2
<1> QED
  BY <1>1, <1>2, <1>4, <1>5, TxCases DEF GoesOn

-----------------------------------------------------------------------------
(* Theorems.                                                                 *)

\* There is no transaction at the start, and wallets hold all there is.
LEMMA InitJoint ==
  TxInit => /\ TypeOK /\ F!CommissionTypeOK /\ TxInv /\ FeesKept /\ ChargesPaid
            /\ JointlyConserved
<1> SUFFICES ASSUME TxInit
             PROVE  /\ TypeOK /\ F!CommissionTypeOK /\ TxInv /\ FeesKept /\ ChargesPaid
                    /\ JointlyConserved
  OBVIOUS
<1>1. TypeOK /\ SupplyConserved
  BY InitType, InitSupply DEF TxInit
<1>2. /\ commission = [s \in Seeds |-> None] /\ feeSigned = {} /\ applied = [s \in Seeds |-> {}]
      /\ fees = [s \in Seeds |-> [a \in FP!FeeAssets |-> 0]]
  BY SameConstants DEF TxInit, F!CommissionInit
<1>3. F!CommissionTypeOK
  <2>1. KeyInForce \in [Seeds -> PublicKeys \cup {None}] /\ wallets \in [F!FeeAssets -> Nat]
    BY <1>1, SameConstants DEF TypeOK, KeyInForce, Admins
  <2>2. fees \in [Seeds -> [F!FeeAssets -> Nat]]
    BY <1>2, SameConstants
  <2> QED
    BY <1>2, <2>1, <2>2 DEF F!CommissionTypeOK
<1>4. TxInv /\ FeesKept /\ ChargesPaid
  BY DEF TxInit, TxInv, TxSeq, ShownExecuted, DepositFollowsCharge, FeesKept, ChargesPaid
<1>5. JointlyConserved
  <2> SUFFICES ASSUME NEW a \in Assets
               PROVE  wallets[a] + InCustody(a) + F!FeesOf(a) = Supply(a)
    BY DEF JointlyConserved
  <2>1. F!FeesOf(a) = 0
    BY <1>2, FP!NoFeesYet, CommissionApplies, SameConstants, SameFees
  <2>2. wallets[a] \in Nat /\ InCustody(a) \in Nat
    BY <1>1, CustodyIsNat DEF TypeOK
  <2>3. wallets[a] + InCustody(a) = Supply(a)
    BY <1>1 DEF SupplyConserved
  <2> QED
    BY <2>1, <2>2, <2>3
<1> QED
  BY <1>1, <1>3, <1>4, <1>5

\* Types and the order of a transaction's instructions, which every theorem needs.
LEMMA TxSound == TxSpec => [](TypeOK /\ F!CommissionTypeOK /\ TxInv)
<1>1. /\ TypeOK /\ F!CommissionTypeOK /\ TxInv /\ [TxNext]_txVars
      => (TypeOK /\ F!CommissionTypeOK /\ TxInv)'
  <2> SUFFICES ASSUME TypeOK, F!CommissionTypeOK, TxInv, [TxNext]_txVars
               PROVE  TypeOK' /\ F!CommissionTypeOK' /\ TxInv'
    OBVIOUS
  <2>1. fees \in [Seeds -> [Assets -> Nat]]
    BY SameConstants DEF F!CommissionTypeOK
  <2> QED
    BY <2>1, JointTypes, TxStep
<1> QED
  BY <1>1, InitJoint, PTL DEF TxSpec

\* The two programs together keep the types of all accounts, and a transaction is
\* always a sequence of instructions with what each has deposited and charged.
THEOREM TxTypeCorrect == TxSpec => []TxTypeOK
<1>1. TypeOK /\ F!CommissionTypeOK /\ TxInv => TxTypeOK
  BY DEF TxInv, TxSeq, TxTypeOK
<1> QED
  BY <1>1, TxSound, PTL

\* No way of composing a transaction, and no program that calls the two, makes one
\* charge serve two instructions that deposit.
THEOREM ChargeServesOneInstruction == TxSpec => []DepositsCharged
BY TxSound, FollowingCounts, PTL

\* Nobody deposits with an admin of the modelled commission program before a price on
\* the list of that very admin has reached its commission: within the same transaction,
\* or, if the price is in a fungible token, earlier and by whomever, and is still there.
THEOREM DepositsPaid == TxSpec => []CommissionReached
<1>1. /\ F!CommissionTypeOK /\ F!CommissionTypeOK' /\ TxInv /\ FeesKept /\ ChargesPaid
      /\ [TxNext]_txVars
      => FeesKept' /\ ChargesPaid'
  BY FeesKeptStep, ChargesPaidStep
<1> QED
  BY <1>1, InitJoint, TxSound, ChargesServed, PTL DEF TxSpec

\* Transfers of either program leave what the other holds alone: wallets, custody and
\* fees always hold the supply of every mint and all lamports, whatever transactions of
\* the two programs follow each other: deposits with their charges and calls of other
\* programs, and, one in a transaction, withdrawals (wrapped tokens minted), rotations,
\* new admins and operations on the commission.
THEOREM TokensJointlyConserved == TxSpec => []JointlyConserved
<1>1. /\ TypeOK /\ F!CommissionTypeOK /\ JointQuantities /\ JointQuantities'
      /\ JointlyConserved /\ [TxNext]_txVars
      => JointlyConserved'
  BY JointBalance
<1> QED
  BY <1>1, InitJoint, TxSound, JointNumbers, PTL DEF TxSpec

=============================================================================
