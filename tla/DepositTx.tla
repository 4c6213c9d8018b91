----------------------------- MODULE DepositTx -----------------------------
(***************************************************************************)
(* Deposits as users make them: one transaction that charges the           *)
(* commission and then deposits, run by the bridge and the commission      *)
(* program on the same wallets.                                            *)
(*                                                                         *)
(* The bridge does not call the commission program.  It looks up, in the   *)
(* Instructions sysvar, the top-level instruction before the current one,  *)
(* and trusts the runtime that this instruction has been executed.  A      *)
(* program of somebody else may call both programs; the index it finds     *)
(* there is then still that of the top-level instruction.                  *)
(*                                                                         *)
(* Transactions that write the same accounts run one after the other, and  *)
(* one that fails leaves nothing: tx holds the instructions of one that    *)
(* succeeds, as far as they have been executed, and may end after any.     *)
(***************************************************************************)
EXTENDS Bridge

CONSTANTS
  Charger,         \* the commission program that Commission models
  ForeignCalls,    \* instructions of other programs, as the bridge reads them
  DepositAmounts,  \* amounts that are charged for and deposited
  MaxInstructions, \* bound on the top-level instructions of a transaction
  WithdrawAmounts, InitialLists, FeeMessages, MaxAdminSize  \* of Commission

VARIABLES
  commission, fees, feeSigned, applied,  \* of Commission
  tx             \* the transaction in progress, or None

bridgeOnly == <<admin, custody, mint, metadata, withdraw, signed, payouts, inflow>>
feeVars == <<commission, fees, feeSigned, applied>>
txVars  == <<vars, feeVars, tx>>

\* What a commission operation reads of the bridge admins.
KeyInForce == [s \in Seeds |-> IF admin[s] = None THEN None ELSE admin[s].public_key]

GenesisWallets == [a \in Assets |-> InitialWallets(a)]

F == INSTANCE Commission WITH key <- KeyInForce, purse <- wallets,
                              FeeMints <- Mints, Funds <- GenesisWallets

\* What a deposit is to admin s: the commission is charged for the same terms.
Terms == [seed : Seeds, type : TokenTypes, amount : Amounts]
TermsOf(s, type, amt) == [seed |-> s, type |-> type, amount |-> amt]

\* A top-level instruction: how the sysvar shows it, and what it did, itself or
\* through the programs it called.
Executed == [call : Instructions \cup {None}, deposits : SUBSET Terms, charges : SUBSET Terms]
Transactions == [done : Seq(Executed), nested : BOOLEAN, fees : [Seeds -> [Assets -> Nat]]]

ASSUME TxAssumption ==
  /\ Charger \in Programs
  /\ ForeignCalls \subseteq {i \in Instructions : i.program_id # Charger} \cup {None}
  /\ None \notin Transactions \cup Instructions
  /\ DepositAmounts \subseteq Amounts
  /\ MaxInstructions \in Nat /\ MaxInstructions < 65535
  /\ F!CommissionAssumption

-----------------------------------------------------------------------------
(* The runtime. *)

\* Position of the current top-level instruction: a nested call has its caller's.
CurrentIndex(nested) == IF nested THEN Len(tx.done) - 1 ELSE Len(tx.done)

\* Faulty variant: the first instruction of the transaction.
FaultyPreviousIndex(current_index) == 0

\* current_index - 1 in 16 bits.
PreviousIndex(current_index) == (current_index + 65535) % 65536

\* load_instruction_at_checked: an error beyond the end, and of the instructions
\* of programs that are no commission program nothing is read.
Prior(nested) ==
  LET i == PreviousIndex(CurrentIndex(nested)) IN
  IF i < Len(tx.done) THEN tx.done[i + 1].call ELSE None

\* A program is called, at top level or by the program that is running.
Call(nested, call, deposits, charges) ==
  LET last == Len(tx.done) IN
  /\ nested => tx.nested
  /\ ~nested => last < MaxInstructions
  /\ tx' = IF nested
           THEN [tx EXCEPT !.done[last] = [call |-> @.call, deposits |-> @.deposits \cup deposits,
                                           charges |-> @.charges \cup charges]]
           ELSE [tx EXCEPT !.done = Append(@, [call |-> call, deposits |-> deposits,
                                               charges |-> charges]),
                           !.nested = FALSE]

Begin ==
  /\ tx = None
  /\ tx' = [done |-> <<>>, nested |-> FALSE, fees |-> fees]
  /\ UNCHANGED <<vars, feeVars>>

End ==
  /\ tx # None
  /\ tx' = None
  /\ UNCHANGED <<vars, feeVars>>

\* A program of somebody else is called that calls others itself.
CallWrapper ==
  /\ tx # None
  /\ Len(tx.done) < MaxInstructions
  /\ tx' = [tx EXCEPT !.done = Append(@, [call |-> None, deposits |-> {}, charges |-> {}]),
                      !.nested = TRUE]
  /\ UNCHANGED <<vars, feeVars>>

\* One that calls nothing of interest, but may look like a charge.
CallOther(i) ==
  /\ tx # None
  /\ Call(FALSE, i, {}, {})
  /\ UNCHANGED <<vars, feeVars>>

-----------------------------------------------------------------------------
(* The two programs, called in a transaction. *)

\* The deposit_token arguments of a charge are not looked at by its handler.
Charge(nested, s, token, type, amt) ==
  /\ tx # None
  /\ Call(nested,
          [program_id |-> Charger, account |-> CommissionKey(Charger, s),
           name |-> "ChargeCommission", deposit_token |-> type, deposit_token_amount |-> amt],
          {}, {TermsOf(s, type, amt)})
  /\ UNCHANGED bridgeOnly
  /\ F!ChargeCommission(s, token)

DepositIn(nested, s, type, m, amt) ==
  /\ tx # None
  /\ Call(nested, None, {TermsOf(s, type, amt)}, {})
  /\ \/ type = "Native" /\ DepositNative(s, amt, Prior(nested))
     \/ type = "FT" /\ \E seed \in TokenSeeds \cup {None} : DepositFT(s, m, amt, seed, Prior(nested))
     \/ /\ type = "NFT" /\ amt = 1
        /\ \E seed \in TokenSeeds \cup {None} : DepositNFT(s, m, seed, Prior(nested))
  /\ UNCHANGED feeVars

-----------------------------------------------------------------------------
(* Transactions of other kinds, one instruction each: everything else that the *)
(* two programs, the signers and the owners of metadata do.                     *)

Between ==
  /\ tx = None /\ UNCHANGED tx
  /\ \/ /\ Manage \/ Withdraw \/ Environment
        /\ UNCHANGED feeVars
     \/ /\ UNCHANGED <<bridgeOnly, wallets>>
        /\ \/ \E s \in Seeds, list \in InitialLists : F!InitializeCommission(s, list)
           \/ \E message \in FeeMessages : F!SignFee(message)
     \/ UNCHANGED bridgeOnly /\ F!Operate

TxInit ==
  /\ Init
  /\ F!CommissionInit
  /\ tx = None

TxNext ==
  \/ Begin \/ CallWrapper \/ End \/ Between
  \/ \E i \in ForeignCalls : CallOther(i)
  \/ \E nested \in BOOLEAN, s \in Seeds, type \in TokenTypes, amt \in DepositAmounts :
       \/ \E token \in F!FeeTokens : Charge(nested, s, token, type, amt)
       \/ \E m \in Mints : DepositIn(nested, s, type, m, amt)

TxSpec == TxInit /\ [][TxNext]_txVars

-----------------------------------------------------------------------------
(* Properties. *)

\* Every variable holds what its declaration says.
TxTypeOK ==
  /\ TypeOK
  /\ F!CommissionTypeOK
  /\ tx \in Transactions \cup {None}

\* Admins whose commission is the business of the modelled commission program.
Charged == {s \in Seeds : admin[s] # None /\ admin[s].commission_program = Charger}

\* A charge serves one top-level instruction: of those that deposit, directly or
\* through the programs they call, on the same terms there are no more than
\* charges of these terms that were executed, however the transaction is put
\* together.  (Deposits nested in one and the same instruction share its charge.)
DepositsCharged ==
  tx # None => \A t \in Terms : t.seed \in Charged =>
    Cardinality({i \in DOMAIN tx.done : t \in tx.done[i].deposits})
      <= Cardinality({i \in DOMAIN tx.done : t \in tx.done[i].charges})

\* A price asked by the commission admin of s, if paid in token.
Asked(s, token) ==
  /\ commission[s] # None
  /\ token[1] # "NFT"
  /\ F!Acceptable(commission[s].acceptable_tokens, token) # {}

PriceOf(s, token) == F!Price(commission[s].acceptable_tokens, token)

\* What of token came in since the transaction began is at least the price.
CommissionPaid(s, token) ==
  fees[s][F!AssetOf(token)] >= tx.fees[s][F!AssetOf(token)] + PriceOf(s, token)

\* The commission admin can pay the price to itself.
CommissionHeld(s, token) == token[1] = "FT" /\ fees[s][F!AssetOf(token)] >= PriceOf(s, token)

Deposited == {t \in Terms : \E i \in DOMAIN tx.done : t \in tx.done[i].deposits}

\* A deposit with an admin is only possible once its own commission has been paid: a
\* transaction that has deposited something has left that admin's commission richer by
\* a price on its list, or its commission had been paid as much in that fungible token
\* before; however the transaction is put together.
CommissionReached ==
  tx # None => \A t \in Deposited : t.seed \in Charged =>
    \E token \in F!FeeTokens :
      /\ Asked(t.seed, token)
      /\ CommissionPaid(t.seed, token) \/ CommissionHeld(t.seed, token)

\* bridge/README.md of deposits: "Verifies that commission was charged and then performs
\* token transfer"; commission/README.md: "charging commission from users".  A
\* transaction that has deposited something has left the commission of that admin
\* richer by a price on its list.
NoFreeDeposit ==
  tx # None => \A t \in Deposited : t.seed \in Charged =>
    \E token \in F!FeeTokens : Asked(t.seed, token) /\ CommissionPaid(t.seed, token)

\* Two programs move the same tokens and neither knows of the other's accounts:
\* wallets, custody and fees together still hold what there is.
JointlyConserved ==
  \A a \in Assets : wallets[a] + InCustody(a) + F!FeesOf(a) = Supply(a)

=============================================================================
