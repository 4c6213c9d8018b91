----------------------------- MODULE Commission -----------------------------
(***************************************************************************)
(* The commission program (commission/program): what a deposit costs.      *)
(*                                                                         *)
(* One commission-admin account per bridge admin keeps the list of tokens  *)
(* a fee may be paid in, with their prices, and four nonces.  Anybody pays *)
(* a fee; whoever holds the bridge admin's key signs changes to the list   *)
(* and withdrawals, each kind of operation in the order of its own nonce.  *)
(* A signature names the program, not the commission admin.                *)
(*                                                                         *)
(* The bridge admin belongs to another program: key is what can be read of *)
(* it.  fees leaves out the rent of the commission-admin account itself.   *)
(***************************************************************************)
EXTENDS Naturals, SequencesExt

CONSTANTS
  Seeds,           \* bridge admins, each with its commission admin
  PublicKeys,      \* threshold ECDSA public keys
  Receivers,       \* wallets fees are withdrawn to
  Sol,             \* the native asset
  FeeMints,        \* mints a fee may be paid in
  WithdrawAmounts, \* the withdraw_amount arguments
  InitialLists,    \* the token lists a commission admin may be created with
  FeeMessages,     \* the <<key, content>> pairs the signers may sign
  Funds,           \* [FeeAssets -> Nat], what payers hold at the start
  MaxAdminSize,    \* bytes of a commission-admin account
  None             \* an absent account or receiver

VARIABLES
  key,         \* [Seeds -> public key of the bridge admin, or None]
  commission,  \* [Seeds -> CommissionAdmin data, or None]
  fees,        \* [Seeds -> [FeeAssets -> Nat]], fees collected
  purse,       \* [FeeAssets -> Nat], what everybody else holds
  feeSigned,   \* the messages signed so far
  applied      \* history: [Seeds -> contents carried out]

commissionVars == <<commission, fees, purse, feeSigned, applied>>

FeeAssets == {Sol} \cup FeeMints

\* lib::CommissionToken: Native, FT(mint) or NFT(mint).
FeeTokens == {<<"Native", Sol>>} \cup ({"FT", "NFT"} \X FeeMints)
AssetOf(token) == token[2]

OperationTypes == {"AddToken", "RemoveToken", "UpdateToken", "WithdrawToken"}

CommissionTokens == [token : FeeTokens, amount : Nat]
CommissionAdmins == [acceptable_tokens : Seq(CommissionTokens), nonce : [OperationTypes -> Nat]]

CommissionContents ==
  [nonce : Nat, receiver : Receivers \cup {None}, op : OperationTypes, token : FeeTokens,
   amount : Nat]

ASSUME CommissionAssumption ==
  /\ None \notin CommissionAdmins \cup PublicKeys
  /\ Sol \notin FeeMints
  /\ WithdrawAmounts \subseteq Nat
  /\ InitialLists \subseteq Seq(CommissionTokens)
  /\ FeeMessages \subseteq PublicKeys \X CommissionContents
  /\ Funds \in [FeeAssets -> Nat]
  /\ MaxAdminSize \in Nat
  /\ IsFiniteSet(Seeds)  \* 32-byte strings

-----------------------------------------------------------------------------
(* Signed operations. *)

CommissionContent(nonce, u, op, entry) ==
  [nonce |-> nonce, receiver |-> u, op |-> op, token |-> entry.token, amount |-> entry.amount]

\* The hashed bytes of a content name the mint of a token and not its kind.
Hashed(content) == [content EXCEPT !.token = AssetOf(content.token)]

VerifyContent(k, content) ==
  \E message \in feeSigned : message[1] = k /\ Hashed(message[2]) = Hashed(content)

\* Faulty variant: nonces stay where they are.
FaultySpend(account, op) == account

\* An operation is carried out: its nonce is spent.
Spend(account, op) == [account EXCEPT !.nonce[op] = @ + 1]

\* Operation op of the commission admin of s, signed for its current nonce.
Authorised(s, u, op, entry) ==
  LET content == CommissionContent(commission[s].nonce[op], u, op, entry) IN
  /\ commission[s] # None
  /\ key[s] # None
  /\ VerifyContent(key[s], content)
  /\ applied' = [applied EXCEPT ![s] = @ \cup {content}]

-----------------------------------------------------------------------------
(* The list of acceptable tokens. *)

\* Borsh length of a CommissionAdmin: vector length, four nonces and a flag, then
\* 9 bytes per native entry and 41 per entry with a mint.
SerializedSize(tokens) ==
  37 + 41 * Len(tokens) - 32 * Len(SelectSeq(tokens, LAMBDA e : e.token[1] = "Native"))

Fits(tokens) == SerializedSize(tokens) <= MaxAdminSize

\* The entries of a token, the first of which is the one that counts.
Acceptable(tokens, token) == {i \in DOMAIN tokens : tokens[i].token = token}

\* The first entry equal to the signed one, amount included, goes; if there is
\* none the list stays.
Removed(tokens, entry) ==
  LET at == {i \in DOMAIN tokens : tokens[i] = entry} IN
  IF at = {} THEN tokens ELSE RemoveAt(tokens, Min(at))

\* Faulty variant: the first entry of the list is updated, whatever token it is of.
FaultyUpdated(tokens, entry) ==
  IF tokens = <<>> THEN tokens ELSE [tokens EXCEPT ![1].amount = entry.amount]

\* The first entry of the signed token gets the signed amount, if there is one.
Updated(tokens, entry) ==
  LET at == Acceptable(tokens, entry.token) IN
  IF at = {} THEN tokens ELSE [tokens EXCEPT ![Min(at)].amount = entry.amount]

\* check_token_is_acceptable.
Price(tokens, token) == tokens[Min(Acceptable(tokens, token))].amount

-----------------------------------------------------------------------------
(* Transfers to and from the commission admin. *)

\* Faulty variant: the balance is replaced instead of increased.
FaultyCollect(s, a, amt) ==
  /\ purse[a] >= amt
  /\ purse' = [purse EXCEPT ![a] = @ - amt]
  /\ fees' = [fees EXCEPT ![s][a] = amt]

Collect(s, a, amt) ==
  /\ purse[a] >= amt
  /\ purse' = [purse EXCEPT ![a] = @ - amt]
  /\ fees' = [fees EXCEPT ![s][a] = @ + amt]

\* The transfer is signed with the seeds of the commission admin, and nobody looks at
\* who the owner is: the commission admin may pay itself, out of its token account
\* into the same account, which has to hold the amount and keeps it.  (Of its
\* lamports it cannot pay: the system program debits no account that carries data.)
PaySelf(s, a, amt) ==
  /\ fees[s][a] >= amt
  /\ UNCHANGED <<purse, fees>>

\* Faulty variant: no check of the balance.
FaultyPayOut(s, a, amt) ==
  /\ fees' = [fees EXCEPT ![s][a] = @ - amt]
  /\ purse' = [purse EXCEPT ![a] = @ + amt]

PayOut(s, a, amt) ==
  /\ fees[s][a] >= amt
  /\ fees' = [fees EXCEPT ![s][a] = @ - amt]
  /\ purse' = [purse EXCEPT ![a] = @ + amt]

-----------------------------------------------------------------------------
(* Handlers. *)

InitializeCommission(s, list) ==
  /\ commission[s] = None
  /\ Fits(list)
  /\ commission' = [commission EXCEPT ![s] =
       [acceptable_tokens |-> list, nonce |-> [op \in OperationTypes |-> 0]]]
  /\ UNCHANGED <<key, fees, purse, feeSigned, applied>>

\* A fee in a non-fungible token can be listed but not charged.
ChargeCommission(s, token) ==
  LET tokens == commission[s].acceptable_tokens
      a == AssetOf(token)
      price == Price(tokens, token)
  IN
  /\ commission[s] # None
  /\ Acceptable(tokens, token) # {}
  /\ \/ token[1] # "NFT" /\ Collect(s, a, price)
     \/ token[1] = "FT" /\ PaySelf(s, a, price)
  /\ UNCHANGED <<key, commission, feeSigned, applied>>

Tokens(s) == commission[s].acceptable_tokens

\* What the three operations on the list share.
ChangeList(s, op, entry, list) ==
  /\ Authorised(s, None, op, entry)
  /\ Fits(list)
  /\ commission' = [commission EXCEPT ![s] =
       [Spend(@, op) EXCEPT !.acceptable_tokens = list]]
  /\ UNCHANGED <<key, fees, purse, feeSigned>>

AddToken(s, entry) == ChangeList(s, "AddToken", entry, Append(Tokens(s), entry))

RemoveToken(s, entry) == ChangeList(s, "RemoveToken", entry, Removed(Tokens(s), entry))

UpdateToken(s, entry) == ChangeList(s, "UpdateToken", entry, Updated(Tokens(s), entry))

\* The content has the entry's amount; what moves is withdraw_amount.  A native
\* withdrawal asks the system program to debit an account that carries data,
\* which it refuses; one in a non-fungible token is not supported.
WithdrawFees(s, u, entry, withdraw_amount) ==
  LET a == AssetOf(entry.token) IN
  /\ Authorised(s, u, "WithdrawToken", entry)
  /\ entry.token[1] = "FT"
  /\ PayOut(s, a, withdraw_amount)
  /\ commission' = [commission EXCEPT ![s] = Spend(@, "WithdrawToken")]
  /\ UNCHANGED <<key, feeSigned>>

-----------------------------------------------------------------------------
(* The environment. *)

SignFee(message) ==
  /\ message \notin feeSigned
  /\ feeSigned' = feeSigned \cup {message}
  /\ UNCHANGED <<key, commission, fees, purse, applied>>

\* The bridge program opens, rotates or closes the bridge admin.
ChangeKey(s, k) ==
  /\ key[s] # k
  /\ key' = [key EXCEPT ![s] = k]
  /\ UNCHANGED commissionVars

-----------------------------------------------------------------------------
CommissionInit ==
  /\ key = [s \in Seeds |-> None]
  /\ commission = [s \in Seeds |-> None]
  /\ fees = [s \in Seeds |-> [a \in FeeAssets |-> 0]]
  /\ purse = Funds
  /\ feeSigned = {}
  /\ applied = [s \in Seeds |-> {}]

SignedEntries ==
  {[token |-> token, amount |-> message[2].amount] : token \in FeeTokens, message \in feeSigned}

Operate ==
  \E s \in Seeds, entry \in SignedEntries :
    \/ AddToken(s, entry)
    \/ RemoveToken(s, entry)
    \/ UpdateToken(s, entry)
    \/ \E u \in Receivers, w \in WithdrawAmounts : WithdrawFees(s, u, entry, w)

CommissionNext ==
  \/ \E s \in Seeds, list \in InitialLists : InitializeCommission(s, list)
  \/ \E s \in Seeds, token \in FeeTokens : ChargeCommission(s, token)
  \/ Operate
  \/ \E message \in FeeMessages : SignFee(message)
  \/ \E s \in Seeds, k \in PublicKeys \cup {None} : ChangeKey(s, k)

CommissionSpec == CommissionInit /\ [][CommissionNext]_<<key, commissionVars>>

-----------------------------------------------------------------------------
(* Properties. *)

\* Every variable holds what its declaration says; fees never go below zero.
CommissionTypeOK ==
  /\ key \in [Seeds -> PublicKeys \cup {None}]
  /\ commission \in [Seeds -> CommissionAdmins \cup {None}]
  /\ fees \in [Seeds -> [FeeAssets -> Nat]]
  /\ purse \in [FeeAssets -> Nat]
  /\ feeSigned \subseteq FeeMessages
  /\ applied \in [Seeds -> SUBSET CommissionContents]

AppliedOps(s, op) == {content \in applied[s] : content.op = op}

\* A signed content is carried out at most once at a commission admin, and the
\* contents of each kind of operation in the order of their nonces, however often
\* and in whatever order signatures are submitted and keys replaced.
AppliedOnceInOrder ==
  \A s \in Seeds : commission[s] # None =>
    \A op \in OperationTypes :
      LET spent == commission[s].nonce[op] IN
      /\ Cardinality(AppliedOps(s, op)) = spent
      /\ {content.nonce : content \in AppliedOps(s, op)} = 0 .. (spent - 1)

\* Every price in the list is one somebody set for that mint: when the admin was
\* created, or by an AddToken or UpdateToken that was carried out.
PricesSigned ==
  \A s \in Seeds : commission[s] # None =>
    \A i \in DOMAIN commission[s].acceptable_tokens :
      LET entry == commission[s].acceptable_tokens[i] IN
      \/ \E list \in InitialLists : \E j \in DOMAIN list : list[j] = entry
      \/ \E content \in applied[s] :
           /\ content.op \in {"AddToken", "UpdateToken"}
           /\ content.token = entry.token /\ content.amount = entry.amount

\* After UpdateToken the fee charged in that token is the signed amount, also if
\* the token is listed twice: both look the entry up from the front.
UpdateSetsPrice ==
  [][\A s \in Seeds : \A content \in applied'[s] \ applied[s] :
       LET tokens == commission'[s].acceptable_tokens IN
       content.op = "UpdateToken" /\ Acceptable(tokens, content.token) # {}
         => Price(tokens, content.token) = content.amount]_<<key, commissionVars>>

FeesOf(a) == SumFunctionOnSet([s \in Seeds |-> fees[s][a]], Seeds)

\* Fees are neither lost nor made up by charging and withdrawing.
FeesConserved == \A a \in FeeAssets : purse[a] + FeesOf(a) = Funds[a]

\* commission/README.md of process_withdraw: "Requires valid signature for the
\* provided data".  What leaves a commission admin is an amount that was signed.
WithdrawAmountSigned ==
  [][\A s \in Seeds, a \in FeeAssets : fees'[s][a] < fees[s][a] =>
       \E content \in applied'[s] :
         /\ content.op = "WithdrawToken" /\ AssetOf(content.token) = a
         /\ content.amount = fees[s][a] - fees'[s][a]]_<<key, commissionVars>>

\* A native withdrawal of at most the fees collected is signed for the nonce that
\* is next, by the key in force.
NativeWithdrawalSigned(s) ==
  /\ commission[s] # None /\ key[s] # None
  /\ \E u \in Receivers, entry \in SignedEntries :
       /\ entry.token[1] = "Native" /\ entry.amount <= fees[s][Sol] /\ entry.amount > 0
       /\ VerifyContent(key[s],
            CommissionContent(commission[s].nonce["WithdrawToken"], u, "WithdrawToken", entry))

\* Receivers submit the withdrawals signed for them.
CommissionFairSpec ==
  /\ CommissionSpec
  /\ \A s \in Seeds :
       WF_<<key, commissionVars>>(\E u \in Receivers, entry \in SignedEntries,
         w \in WithdrawAmounts : WithdrawFees(s, u, entry, w))

\* commission/README.md: process_withdraw is the "handler for withdrawal of
\* collected tokens", Sol among them.  A signed withdrawal of native fees is not
\* stuck for ever.
NativeFeesWithdrawable == \A s \in Seeds : ~<>[]NativeWithdrawalSigned(s)

=============================================================================
