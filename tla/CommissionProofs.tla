-------------------------- MODULE CommissionProofs --------------------------
(***************************************************************************)
(* Theorems about Commission for every value of its constants.             *)
(***************************************************************************)
EXTENDS Commission, SumTheorems, SequenceTheorems

-----------------------------------------------------------------------------
(* The three changes of a list and its entries.                               *)

\* The least of some positions is one of them.
LEMMA FirstPosition ==
  ASSUME NEW S \in SUBSET Nat, S # {}
  PROVE  Min(S) \in S
<1>1. PICK x \in S : \A y \in S : ~(<<y, x>> \in OpToRel(<, Nat))
  BY NatLessThanWellFounded, WFMin
<1>2. \A y \in S : x <= y
  <2>1. \A y \in S : ~(y < x)
    BY <1>1 DEF OpToRel
  <2> QED
    BY <2>1
<1> QED
  BY <1>2 DEF Min

\* Removing an entry leaves a list of entries it had.
LEMMA RemovedEntries ==
  ASSUME NEW S, NEW tokens \in Seq(S), NEW entry
  PROVE  /\ Removed(tokens, entry) \in Seq(S)
         /\ \A i \in DOMAIN Removed(tokens, entry) :
              \E j \in DOMAIN tokens : Removed(tokens, entry)[i] = tokens[j]
<1> DEFINE at == {i \in DOMAIN tokens : tokens[i] = entry}
           n == Len(tokens)
<1>1. CASE at = {}
  BY <1>1 DEF Removed
<1>2. CASE at # {}
  <2> DEFINE k == Min(at)
             front == SubSeq(tokens, 1, k - 1)
             back == SubSeq(tokens, k + 1, n)
  <2>1. n \in Nat /\ DOMAIN tokens = 1 .. n
    OBVIOUS
  <2>2. k \in at
    <3>1. at \in SUBSET Nat
      BY <2>1
    <3> HIDE DEF at
    <3> QED
      BY <1>2, <3>1, FirstPosition
  <2>3. k \in 1 .. n
    BY <2>1, <2>2
  <2> HIDE DEF k, n
  <2>4. \A i \in 1 .. n : tokens[i] \in S
    BY <2>1
  <2>5. /\ front \in Seq(S) /\ Len(front) = k - 1
        /\ \A i \in 1 .. (k - 1) : front[i] = tokens[i]
    <3>1. \A i \in 1 .. (k - 1) : tokens[i] \in S
      BY <2>1, <2>3, <2>4
    <3>2. /\ front \in Seq(S) /\ Len(front) = (IF 1 <= k - 1 THEN (k - 1) - 1 + 1 ELSE 0)
          /\ \A i \in 1 .. ((k - 1) - 1 + 1) : front[i] = tokens[1 + i - 1]
      <4> HIDE DEF front
      <4> QED
        BY <2>3, <3>1, SubSeqProperties DEF front
    <3> HIDE DEF front
    <3> QED
      BY <2>3, <3>2
  <2>6. /\ back \in Seq(S) /\ Len(back) = n - k
        /\ \A i \in 1 .. (n - k) : back[i] = tokens[k + i]
    <3>1. \A i \in (k + 1) .. n : tokens[i] \in S
      BY <2>1, <2>3, <2>4
    <3>2. /\ back \in Seq(S) /\ Len(back) = (IF k + 1 <= n THEN n - (k + 1) + 1 ELSE 0)
          /\ \A i \in 1 .. (n - (k + 1) + 1) : back[i] = tokens[k + 1 + i - 1]
      <4> HIDE DEF back
      <4> QED
        BY <2>1, <2>3, <3>1, SubSeqProperties DEF back
    <3> HIDE DEF back
    <3> QED
      BY <2>1, <2>3, <3>2
  <2> HIDE DEF front, back, n
  <2>7. /\ front \o back \in Seq(S) /\ Len(front \o back) = Len(front) + Len(back)
        /\ \A i \in 1 .. Len(front) + Len(back) : (front \o back)[i] =
             IF i <= Len(front) THEN front[i] ELSE back[i - Len(front)]
    BY <2>5, <2>6, ConcatProperties
  <2>8. \A i \in DOMAIN (front \o back) : \E j \in DOMAIN tokens : (front \o back)[i] = tokens[j]
    <3>0. DOMAIN (front \o back) = 1 .. (n - 1)
      <4>1. DOMAIN (front \o back) = 1 .. Len(front \o back)
        BY <2>7
      <4>2. Len(front \o back) = n - 1
        BY <2>1, <2>3, <2>5, <2>6, <2>7
      <4> QED
        BY <4>1, <4>2
    <3> SUFFICES ASSUME NEW i \in 1 .. (n - 1)
                 PROVE  \E j \in 1 .. n : (front \o back)[i] = tokens[j]
      BY <2>1, <3>0
    <3>1. CASE i <= k - 1
      BY <2>1, <2>3, <2>5, <2>6, <2>7, <3>1
    <3>2. CASE i > k - 1
      <4>1. (front \o back)[i] = back[i - (k - 1)] /\ i - (k - 1) \in 1 .. (n - k)
        BY <2>1, <2>3, <2>5, <2>6, <2>7, <3>2
      <4>2. back[i - (k - 1)] = tokens[i + 1] /\ i + 1 \in 1 .. n
        BY <2>1, <2>3, <2>6, <4>1
      <4> QED
        BY <4>1, <4>2
    <3>3. i <= k - 1 \/ i > k - 1
      BY <2>1, <2>3
    <3> QED
      BY <3>1, <3>2, <3>3
  <2>9. Removed(tokens, entry) = front \o back
    BY <1>2 DEF Removed, RemoveAt, front, back, n, k
  <2> QED
    BY <2>7, <2>8, <2>9
<1> QED
  BY <1>1, <1>2

\* Updating gives a list of the entries it had and the new one.
LEMMA UpdatedEntries ==
  ASSUME NEW tokens \in Seq(CommissionTokens), NEW entry \in CommissionTokens
  PROVE  /\ Updated(tokens, entry) \in Seq(CommissionTokens)
         /\ \A i \in DOMAIN Updated(tokens, entry) :
              \/ Updated(tokens, entry)[i] = entry
              \/ \E j \in DOMAIN tokens : Updated(tokens, entry)[i] = tokens[j]
<1> DEFINE at == Acceptable(tokens, entry.token)
           k == Min(at)
<1>1. CASE at = {}
  BY <1>1 DEF Updated
<1>2. CASE at # {}
  <2>1. k \in at
    <3>1. at \in SUBSET Nat
      BY DEF Acceptable
    <3> HIDE DEF at
    <3> QED
      BY <1>2, <3>1, FirstPosition
  <2>2. k \in DOMAIN tokens /\ tokens[k].token = entry.token /\ tokens[k] \in CommissionTokens
    BY <2>1 DEF Acceptable
  <2>3. [tokens[k] EXCEPT !.amount = entry.amount] = entry
    BY <2>2 DEF CommissionTokens
  <2> HIDE DEF k
  <2>4. Updated(tokens, entry) = [tokens EXCEPT ![k] = entry]
    <3>1. Updated(tokens, entry) = [tokens EXCEPT ![k].amount = entry.amount]
      BY <1>2 DEF Updated, k
    <3> QED
      BY <2>2, <2>3, <3>1
  <2> QED
    BY <2>2, <2>4
<1> QED
  BY <1>1, <1>2

\* After an update the entry that counts for its token is the one signed.
LEMMA UpdatedPrice ==
  ASSUME NEW tokens \in Seq(CommissionTokens), NEW entry \in CommissionTokens,
         Acceptable(Updated(tokens, entry), entry.token) # {}
  PROVE  Price(Updated(tokens, entry), entry.token) = entry.amount
<1> DEFINE at == Acceptable(tokens, entry.token)
           k == Min(at)
<1>1. at # {}
  BY DEF Updated
<1>2. k \in at
  <2>1. at \in SUBSET Nat
    BY DEF Acceptable
  <2> HIDE DEF at
  <2> QED
    BY <1>1, <2>1, FirstPosition
<1>3. k \in DOMAIN tokens /\ tokens[k] \in CommissionTokens /\ tokens[k].token = entry.token
  BY <1>2 DEF Acceptable
<1>4. Updated(tokens, entry) = [tokens EXCEPT ![k] = [tokens[k] EXCEPT !.amount = entry.amount]]
  BY <1>1 DEF Updated
<1>5. [tokens[k] EXCEPT !.amount = entry.amount].amount = entry.amount
      /\ [tokens[k] EXCEPT !.amount = entry.amount].token = entry.token
  BY <1>3 DEF CommissionTokens
<1> HIDE DEF k
<1>6. DOMAIN Updated(tokens, entry) = DOMAIN tokens
  BY <1>4
<1>7. \A i \in DOMAIN tokens : Updated(tokens, entry)[i].token = tokens[i].token
  BY <1>3, <1>4, <1>5
<1>8. Acceptable(Updated(tokens, entry), entry.token) = at
  BY <1>6, <1>7 DEF Acceptable
<1>9. Updated(tokens, entry)[k].amount = entry.amount
  BY <1>3, <1>4, <1>5
<1> QED
  BY <1>8, <1>9 DEF Price, k

-----------------------------------------------------------------------------
(* Types.                                                                     *)

\* A spent nonce is one higher, the others and the list stay.
LEMMA SpendFields ==
  ASSUME NEW account \in CommissionAdmins, NEW op \in OperationTypes
  PROVE  /\ Spend(account, op) \in CommissionAdmins
         /\ Spend(account, op).acceptable_tokens = account.acceptable_tokens
         /\ Spend(account, op).nonce[op] = account.nonce[op] + 1
         /\ \A other \in OperationTypes :
              other # op => Spend(account, op).nonce[other] = account.nonce[other]
<1>1. account.nonce \in [OperationTypes -> Nat] /\ account.nonce[op] + 1 \in Nat
  BY DEF CommissionAdmins
<1>2. [account.nonce EXCEPT ![op] = @ + 1] \in [OperationTypes -> Nat]
  BY <1>1
<1>3. Spend(account, op) = [account EXCEPT !.nonce = [account.nonce EXCEPT ![op] = @ + 1]]
  BY DEF Spend, CommissionAdmins
<1> QED
  BY <1>1, <1>2, <1>3 DEF CommissionAdmins

\* An entry taken from a signed message is one of a list.
LEMMA EntryTypes ==
  ASSUME CommissionTypeOK, NEW entry \in SignedEntries
  PROVE  entry \in CommissionTokens
<1>1. PICK token \in FeeTokens, message \in feeSigned :
        entry = [token |-> token, amount |-> message[2].amount]
  BY DEF SignedEntries
<1>2. message[2] \in CommissionContents
  BY CommissionAssumption DEF CommissionTypeOK
<1> QED
  BY <1>1, <1>2 DEF CommissionContents, CommissionTokens

\* What an operation leaves of a commission admin: one nonce is spent, and the list
\* is the one given.
Operated(s, op, list, content) ==
  /\ commission[s] \in CommissionAdmins
  /\ commission'[s] \in CommissionAdmins
  /\ commission'[s].acceptable_tokens = list
  /\ commission'[s].nonce[op] = commission[s].nonce[op] + 1
  /\ \A other \in OperationTypes :
       other # op => commission'[s].nonce[other] = commission[s].nonce[other]
  /\ \A r \in Seeds : r # s => commission'[r] = commission[r] /\ applied'[r] = applied[r]
  /\ applied'[s] = applied[s] \cup {content}
  /\ content \in CommissionContents /\ content.op = op
  /\ content.nonce = commission[s].nonce[op]

\* What an operation hashes is a content.
LEMMA ContentTypes ==
  ASSUME CommissionTypeOK, NEW s \in Seeds, NEW u \in Receivers \cup {None},
         NEW op \in OperationTypes, NEW entry \in CommissionTokens, commission[s] # None
  PROVE  /\ commission[s] \in CommissionAdmins
         /\ CommissionContent(commission[s].nonce[op], u, op, entry) \in CommissionContents
BY DEF CommissionTypeOK, CommissionAdmins, CommissionContent, CommissionContents, CommissionTokens

\* The lists the three operations leave.
LEMMA ListStep ==
  ASSUME CommissionTypeOK, NEW s \in Seeds, NEW entry \in CommissionTokens,
         NEW op \in {"AddToken", "RemoveToken", "UpdateToken"},
         NEW list \in Seq(CommissionTokens), ChangeList(s, op, entry, list)
  PROVE  /\ Operated(s, op, list, CommissionContent(commission[s].nonce[op], None, op, entry))
         /\ UNCHANGED <<key, fees, purse, feeSigned>>
         /\ CommissionTypeOK'
<1> DEFINE content == CommissionContent(commission[s].nonce[op], None, op, entry)
           account == [Spend(commission[s], op) EXCEPT !.acceptable_tokens = list]
<1>1. /\ op \in OperationTypes /\ commission[s] # None
      /\ applied' = [applied EXCEPT ![s] = @ \cup {content}]
      /\ commission' = [commission EXCEPT ![s] = account]
      /\ UNCHANGED <<key, fees, purse, feeSigned>>
  BY DEF ChangeList, Authorised, OperationTypes
<1>2. commission[s] \in CommissionAdmins /\ content \in CommissionContents
  BY <1>1, ContentTypes
<1>3. /\ account \in CommissionAdmins /\ account.acceptable_tokens = list
      /\ account.nonce = Spend(commission[s], op).nonce
  <2>1. Spend(commission[s], op) \in CommissionAdmins
    BY <1>1, <1>2, SpendFields
  <2> QED
    BY <2>1 DEF CommissionAdmins
<1>4. content.op = op /\ content.nonce = commission[s].nonce[op]
  BY DEF CommissionContent
<1> HIDE DEF account, content
<1>5. commission'[s] = account /\ \A r \in Seeds : r # s => commission'[r] = commission[r]
  BY <1>1 DEF CommissionTypeOK
<1>6. /\ applied'[s] = applied[s] \cup {content}
      /\ \A r \in Seeds : r # s => applied'[r] = applied[r]
  BY <1>1 DEF CommissionTypeOK
<1>7. Operated(s, op, list, content)
  BY <1>1, <1>2, <1>3, <1>4, <1>5, <1>6, SpendFields DEF Operated
<1>8. CommissionTypeOK'
  BY <1>1, <1>2, <1>3 DEF CommissionTypeOK
<1> QED
  BY <1>1, <1>7, <1>8 DEF content

\* A withdrawal of fees carries its content out and pays from the fees.
LEMMA WithdrawStep ==
  ASSUME CommissionTypeOK, NEW s \in Seeds, NEW u \in Receivers, NEW entry \in CommissionTokens,
         NEW w \in WithdrawAmounts, WithdrawFees(s, u, entry, w)
  PROVE  /\ Operated(s, "WithdrawToken", commission[s].acceptable_tokens,
              CommissionContent(commission[s].nonce["WithdrawToken"], u, "WithdrawToken", entry))
         /\ UNCHANGED <<key, feeSigned>>
         /\ AssetOf(entry.token) \in FeeAssets /\ w \in Nat /\ PayOut(s, AssetOf(entry.token), w)
         /\ CommissionTypeOK'
<1> DEFINE op == "WithdrawToken"
           content == CommissionContent(commission[s].nonce[op], u, op, entry)
           account == Spend(commission[s], op)
           a == AssetOf(entry.token)
<1>1. /\ op \in OperationTypes /\ commission[s] # None
      /\ applied' = [applied EXCEPT ![s] = @ \cup {content}]
      /\ commission' = [commission EXCEPT ![s] = account]
      /\ UNCHANGED <<key, feeSigned>>
      /\ entry.token[1] = "FT" /\ PayOut(s, a, w)
  BY DEF WithdrawFees, Authorised, OperationTypes
<1>2. commission[s] \in CommissionAdmins /\ content \in CommissionContents
  BY <1>1, ContentTypes
<1>3. account \in CommissionAdmins /\ account.acceptable_tokens = commission[s].acceptable_tokens
  BY <1>1, <1>2, SpendFields
<1>4. content.op = op /\ content.nonce = commission[s].nonce[op]
  BY DEF CommissionContent
<1>5. a \in FeeAssets /\ w \in Nat
  <2>1. entry.token \in FeeTokens
    BY DEF CommissionTokens
  <2> QED
    BY <2>1, CommissionAssumption DEF FeeTokens, FeeAssets, AssetOf
<1>6. fees' \in [Seeds -> [FeeAssets -> Nat]] /\ purse' \in [FeeAssets -> Nat]
  <2> HIDE DEF a
  <2>1. fees[s] \in [FeeAssets -> Nat] /\ fees[s][a] - w \in Nat /\ purse[a] + w \in Nat
    BY <1>1, <1>5 DEF PayOut, CommissionTypeOK
  <2>2. [fees[s] EXCEPT ![a] = @ - w] \in [FeeAssets -> Nat]
    BY <1>5, <2>1
  <2>3. fees' = [fees EXCEPT ![s] = [fees[s] EXCEPT ![a] = @ - w]]
    BY <1>1 DEF PayOut, CommissionTypeOK
  <2> QED
    BY <1>1, <1>5, <2>1, <2>2, <2>3 DEF PayOut, CommissionTypeOK
<1>7. /\ account.nonce[op] = commission[s].nonce[op] + 1
      /\ \A other \in OperationTypes :
           other # op => account.nonce[other] = commission[s].nonce[other]
  BY <1>1, <1>2, SpendFields
<1> HIDE DEF account, content, a, op
<1>8. commission'[s] = account /\ \A r \in Seeds : r # s => commission'[r] = commission[r]
  BY <1>1 DEF CommissionTypeOK
<1>9. /\ applied'[s] = applied[s] \cup {content}
      /\ \A r \in Seeds : r # s => applied'[r] = applied[r]
  BY <1>1 DEF CommissionTypeOK
<1>10. Operated(s, op, commission[s].acceptable_tokens, content)
  BY <1>1, <1>2, <1>3, <1>4, <1>7, <1>8, <1>9 DEF Operated
<1>11. CommissionTypeOK'
  BY <1>1, <1>2, <1>3, <1>6 DEF CommissionTypeOK
<1> QED
  BY <1>1, <1>5, <1>10, <1>11 DEF content, op, a

\* What an acceptable token costs is a number.
LEMMA PriceType ==
  ASSUME NEW tokens \in Seq(CommissionTokens), NEW token, Acceptable(tokens, token) # {}
  PROVE  Price(tokens, token) \in Nat
<1> DEFINE at == Acceptable(tokens, token)
<1>1. at \in SUBSET Nat /\ at \subseteq DOMAIN tokens
  BY DEF Acceptable
<1>2. Min(at) \in at
  <2> HIDE DEF at
  <2> QED
    BY <1>1, FirstPosition DEF at
<1>3. Min(at) \in DOMAIN tokens
  BY <1>1, <1>2
<1>4. tokens[Min(at)] \in CommissionTokens
  <2> HIDE DEF at
  <2> QED
    BY <1>3
<1> QED
  BY <1>4 DEF Price, CommissionTokens

\* What a charge of price in token does: somebody pays it, or the commission admin does.
Paid(s, token, price) ==
  \/ token[1] # "NFT" /\ Collect(s, AssetOf(token), price)
  \/ token[1] = "FT" /\ PaySelf(s, AssetOf(token), price)

\* A charge moves the price of an acceptable token, or is paid by the admin itself.
LEMMA ChargeStep ==
  ASSUME CommissionTypeOK, NEW s \in Seeds, NEW token \in FeeTokens, ChargeCommission(s, token)
  PROVE  /\ UNCHANGED <<key, commission, feeSigned, applied>>
         /\ commission[s] # None /\ Acceptable(Tokens(s), token) # {}
         /\ AssetOf(token) \in FeeAssets /\ Price(Tokens(s), token) \in Nat
         /\ Paid(s, token, Price(Tokens(s), token))
         /\ CommissionTypeOK'
<1> DEFINE price == Price(Tokens(s), token)
           a == AssetOf(token)
<1>1. /\ commission[s] # None /\ Acceptable(Tokens(s), token) # {}
      /\ Paid(s, token, price)
      /\ UNCHANGED <<key, commission, feeSigned, applied>>
  BY DEF ChargeCommission, Tokens, Paid
<1>2. Tokens(s) \in Seq(CommissionTokens)
  BY <1>1 DEF Tokens, CommissionTypeOK, CommissionAdmins
<1>3. price \in Nat
  BY <1>1, <1>2, PriceType
<1>4. a \in FeeAssets
  BY CommissionAssumption DEF FeeTokens, FeeAssets, AssetOf
<1>p. Collect(s, a, price) \/ UNCHANGED <<purse, fees>>
  BY <1>1 DEF Paid, PaySelf
<1> HIDE DEF a, price
<1>5. ASSUME Collect(s, a, price)
      PROVE  fees' \in [Seeds -> [FeeAssets -> Nat]] /\ purse' \in [FeeAssets -> Nat]
  <2>1. fees[s] \in [FeeAssets -> Nat] /\ fees[s][a] + price \in Nat /\ purse[a] - price \in Nat
    BY <1>3, <1>4, <1>5 DEF Collect, CommissionTypeOK
  <2>2. [fees[s] EXCEPT ![a] = @ + price] \in [FeeAssets -> Nat]
    BY <1>4, <2>1
  <2>3. fees' = [fees EXCEPT ![s] = [fees[s] EXCEPT ![a] = @ + price]]
    BY <1>5 DEF Collect, CommissionTypeOK
  <2> QED
    BY <1>4, <1>5, <2>1, <2>2, <2>3 DEF Collect, CommissionTypeOK
<1>6. CommissionTypeOK'
  BY <1>1, <1>5, <1>p DEF CommissionTypeOK
<1> QED
  BY <1>1, <1>3, <1>4, <1>6 DEF a, price

\* A new commission admin has the list it is given and nonces of zero.
LEMMA InitializeStep ==
  ASSUME CommissionTypeOK, NEW s \in Seeds, NEW list \in InitialLists, InitializeCommission(s, list)
  PROVE  /\ commission[s] = None
         /\ commission'[s] \in CommissionAdmins
         /\ commission'[s].acceptable_tokens = list
         /\ \A op \in OperationTypes : commission'[s].nonce[op] = 0
         /\ \A r \in Seeds : r # s => commission'[r] = commission[r]
         /\ UNCHANGED <<key, fees, purse, feeSigned, applied>>
         /\ CommissionTypeOK'
<1> DEFINE account == [acceptable_tokens |-> list, nonce |-> [op \in OperationTypes |-> 0]]
<1>1. /\ commission[s] = None /\ commission' = [commission EXCEPT ![s] = account]
      /\ UNCHANGED <<key, fees, purse, feeSigned, applied>>
  BY DEF InitializeCommission
<1>2. account \in CommissionAdmins /\ \A op \in OperationTypes : account.nonce[op] = 0
  BY CommissionAssumption DEF CommissionAdmins
<1>3. account.acceptable_tokens = list
  OBVIOUS
<1> HIDE DEF account
<1> QED
  BY <1>1, <1>2, <1>3 DEF CommissionTypeOK

\* The list of entry after operation op.
ListAfter(s, op, entry) ==
  CASE op = "AddToken"    -> Append(Tokens(s), entry)
    [] op = "RemoveToken" -> Removed(Tokens(s), entry)
    [] op = "UpdateToken" -> Updated(Tokens(s), entry)
    [] OTHER              -> Tokens(s)

\* After an operation a list has old entries and at most the signed one.
LEMMA ListAfterEntries ==
  ASSUME CommissionTypeOK, NEW s \in Seeds, commission[s] # None, NEW entry \in CommissionTokens,
         NEW op \in OperationTypes
  PROVE  /\ ListAfter(s, op, entry) \in Seq(CommissionTokens)
         /\ \A i \in DOMAIN ListAfter(s, op, entry) :
              \/ op \in {"AddToken", "UpdateToken"} /\ ListAfter(s, op, entry)[i] = entry
              \/ \E j \in DOMAIN Tokens(s) : ListAfter(s, op, entry)[i] = Tokens(s)[j]
<1> DEFINE tokens == Tokens(s)
<1>1. tokens \in Seq(CommissionTokens)
  BY DEF Tokens, CommissionTypeOK, CommissionAdmins
<1> HIDE DEF tokens
<1>2. CASE op = "AddToken"
  <2>1. ListAfter(s, op, entry) = Append(tokens, entry)
    BY <1>2 DEF ListAfter, tokens
  <2>2. /\ Append(tokens, entry) \in Seq(CommissionTokens)
        /\ \A i \in DOMAIN Append(tokens, entry) :
             \/ Append(tokens, entry)[i] = entry
             \/ i \in DOMAIN tokens /\ Append(tokens, entry)[i] = tokens[i]
    BY <1>1
  <2> QED
    BY <1>2, <2>1, <2>2 DEF tokens
<1>3. CASE op = "RemoveToken"
  <2>1. ListAfter(s, op, entry) = Removed(tokens, entry)
    BY <1>3 DEF ListAfter, tokens
  <2> QED
    BY <1>1, <2>1, RemovedEntries DEF tokens
<1>4. CASE op = "UpdateToken"
  <2>1. ListAfter(s, op, entry) = Updated(tokens, entry)
    BY <1>4 DEF ListAfter, tokens
  <2> QED
    BY <1>1, <1>4, <2>1, UpdatedEntries DEF tokens
<1>5. CASE op = "WithdrawToken"
  BY <1>1, <1>5 DEF ListAfter, tokens
<1> QED
  BY <1>2, <1>3, <1>4, <1>5 DEF OperationTypes

\* Each of the four operations spends its nonce, leaves its list and notes its content.
LEMMA OperateStep ==
  ASSUME CommissionTypeOK, Operate
  PROVE  \E s \in Seeds, entry \in CommissionTokens, op \in OperationTypes,
            u \in Receivers \cup {None} :
           /\ commission[s] # None
           /\ Operated(s, op, ListAfter(s, op, entry),
                CommissionContent(commission[s].nonce[op], u, op, entry))
           /\ UNCHANGED <<key, feeSigned>>
           /\ CommissionTypeOK'
<1>1. PICK s \in Seeds, entry \in SignedEntries :
        \/ AddToken(s, entry) \/ RemoveToken(s, entry) \/ UpdateToken(s, entry)
        \/ \E u \in Receivers, w \in WithdrawAmounts : WithdrawFees(s, u, entry, w)
  BY DEF Operate
<1>2. entry \in CommissionTokens
  BY EntryTypes
<1>3. commission[s] # None
  BY <1>1 DEF AddToken, RemoveToken, UpdateToken, ChangeList, WithdrawFees, Authorised
<1>4. CASE \E op \in {"AddToken", "RemoveToken", "UpdateToken"} :
             ChangeList(s, op, entry, ListAfter(s, op, entry))
  <2>1. PICK op \in {"AddToken", "RemoveToken", "UpdateToken"} :
          ChangeList(s, op, entry, ListAfter(s, op, entry))
    BY <1>4
  <2>2. op \in OperationTypes
    BY DEF OperationTypes
  <2>3. ListAfter(s, op, entry) \in Seq(CommissionTokens)
    BY <1>2, <1>3, <2>2, ListAfterEntries
  <2>4. /\ Operated(s, op, ListAfter(s, op, entry),
             CommissionContent(commission[s].nonce[op], None, op, entry))
        /\ UNCHANGED <<key, feeSigned>> /\ CommissionTypeOK'
    BY <1>2, <2>1, <2>3, ListStep
  <2>5. None \in Receivers \cup {None}
    OBVIOUS
  <2> QED
    BY <1>2, <1>3, <2>2, <2>4, <2>5
<1>5. CASE \E u \in Receivers, w \in WithdrawAmounts : WithdrawFees(s, u, entry, w)
  <2>1. PICK u \in Receivers, w \in WithdrawAmounts : WithdrawFees(s, u, entry, w)
    BY <1>5
  <2>2. "WithdrawToken" \in OperationTypes
        /\ ListAfter(s, "WithdrawToken", entry) = commission[s].acceptable_tokens
    BY DEF OperationTypes, ListAfter, Tokens
  <2> QED
    BY <1>2, <1>3, <2>1, <2>2, WithdrawStep
<1> QED
  BY <1>1, <1>4, <1>5 DEF AddToken, RemoveToken, UpdateToken, ListAfter

\* Every step keeps the types.
LEMMA CommissionTypeStep ==
  CommissionTypeOK /\ [CommissionNext]_<<key, commissionVars>> => CommissionTypeOK'
<1> SUFFICES ASSUME CommissionTypeOK, [CommissionNext]_<<key, commissionVars>>
             PROVE  CommissionTypeOK'
  OBVIOUS
<1>1. CASE \E s \in Seeds, list \in InitialLists : InitializeCommission(s, list)
  BY <1>1, InitializeStep
<1>2. CASE \E s \in Seeds, token \in FeeTokens : ChargeCommission(s, token)
  BY <1>2, ChargeStep
<1>3. CASE Operate
  BY <1>3, OperateStep
<1>4. CASE \E message \in FeeMessages : SignFee(message)
  BY <1>4 DEF SignFee, CommissionTypeOK
<1>5. CASE \E s \in Seeds, k \in PublicKeys \cup {None} : ChangeKey(s, k)
  BY <1>5 DEF ChangeKey, CommissionTypeOK, commissionVars
<1>6. CASE UNCHANGED <<key, commissionVars>>
  BY <1>6 DEF CommissionTypeOK, commissionVars
<1> QED
  BY <1>1, <1>2, <1>3, <1>4, <1>5, <1>6 DEF CommissionNext

\* The accounts of the commission program keep their layout, and no fee is paid that
\* has not been collected.
THEOREM CommissionTypeCorrect == CommissionSpec => []CommissionTypeOK
<1>1. CommissionInit => CommissionTypeOK
  BY CommissionAssumption DEF CommissionInit, CommissionTypeOK
<1> QED
  BY <1>1, CommissionTypeStep, PTL DEF CommissionSpec

-----------------------------------------------------------------------------
(* Prices.                                                                    *)

\* Every step keeps prices to what somebody set.
LEMMA PricesStep ==
  CommissionTypeOK /\ PricesSigned /\ [CommissionNext]_<<key, commissionVars>> => PricesSigned'
<1> SUFFICES ASSUME CommissionTypeOK, PricesSigned, [CommissionNext]_<<key, commissionVars>>
             PROVE  PricesSigned'
  OBVIOUS
<1> DEFINE Given(entry) == \E list \in InitialLists : \E j \in DOMAIN list : list[j] = entry
           Agreed(entry, contents) ==
             \E content \in contents :
               /\ content.op \in {"AddToken", "UpdateToken"}
               /\ content.token = entry.token /\ content.amount = entry.amount
           Priced(r) ==
             commission'[r] # None =>
               \A i \in DOMAIN commission'[r].acceptable_tokens :
                 LET entry == commission'[r].acceptable_tokens[i] IN
                 Given(entry) \/ Agreed(entry, applied'[r])
<1>1. ASSUME NEW r \in Seeds, commission'[r] = commission[r], applied'[r] = applied[r]
      PROVE  Priced(r)
  BY <1>1 DEF PricesSigned
<1>2. CASE UNCHANGED <<commission, applied>>
  BY <1>2 DEF PricesSigned
<1>3. ASSUME NEW s \in Seeds, NEW list \in InitialLists, InitializeCommission(s, list)
      PROVE  PricesSigned'
  <2>1. Priced(s)
    <3>1. commission'[s].acceptable_tokens = list
      BY <1>3, InitializeStep
    <3> QED
      BY <3>1
  <2>2. \A r \in Seeds : r # s => Priced(r)
    BY <1>1, <1>3, InitializeStep
  <2>3. \A r \in Seeds : Priced(r)
    BY <2>1, <2>2
  <2> QED
    BY <2>3 DEF PricesSigned
<1>4. CASE Operate
  <2>1. PICK s \in Seeds, entry \in CommissionTokens, op \in OperationTypes,
             u \in Receivers \cup {None} :
          /\ commission[s] # None
          /\ Operated(s, op, ListAfter(s, op, entry),
               CommissionContent(commission[s].nonce[op], u, op, entry))
    BY <1>4, OperateStep
  <2>2. ASSUME NEW i \in DOMAIN commission'[s].acceptable_tokens
        PROVE  \/ Given(commission'[s].acceptable_tokens[i])
               \/ Agreed(commission'[s].acceptable_tokens[i], applied'[s])
    <3>1. commission'[s].acceptable_tokens = ListAfter(s, op, entry)
      BY <2>1 DEF Operated
    <3>2. applied'[s] = applied[s] \cup {CommissionContent(commission[s].nonce[op], u, op, entry)}
      BY <2>1 DEF Operated
    <3>3. CASE op \in {"AddToken", "UpdateToken"} /\ ListAfter(s, op, entry)[i] = entry
      <4>1. Agreed(entry, {CommissionContent(commission[s].nonce[op], u, op, entry)})
        BY <3>3 DEF CommissionContent
      <4> QED
        BY <3>1, <3>2, <3>3, <4>1
    <3>4. CASE \E j \in DOMAIN Tokens(s) : ListAfter(s, op, entry)[i] = Tokens(s)[j]
      <4>1. PICK j \in DOMAIN Tokens(s) : ListAfter(s, op, entry)[i] = Tokens(s)[j]
        BY <3>4
      <4>2. Given(Tokens(s)[j]) \/ Agreed(Tokens(s)[j], applied[s])
        BY <2>1 DEF PricesSigned, Tokens
      <4>3. Given(Tokens(s)[j]) \/ Agreed(Tokens(s)[j], applied'[s])
        BY <3>2, <4>2
      <4> QED
        BY <3>1, <4>1, <4>3
    <3> QED
      BY <2>1, <3>1, <3>3, <3>4, ListAfterEntries
  <2>3. \A r \in Seeds : r # s => Priced(r)
    BY <1>1, <2>1 DEF Operated
  <2>4. \A r \in Seeds : Priced(r)
    BY <2>2, <2>3
  <2> QED
    BY <2>4 DEF PricesSigned
<1>5. CASE \E s \in Seeds, token \in FeeTokens : ChargeCommission(s, token)
  BY <1>2, <1>5, ChargeStep
<1>6. CASE (\E message \in FeeMessages : SignFee(message))
           \/ (\E s \in Seeds, k \in PublicKeys \cup {None} : ChangeKey(s, k))
           \/ UNCHANGED <<key, commissionVars>>
  BY <1>2, <1>6 DEF SignFee, ChangeKey, commissionVars
<1> QED
  BY <1>3, <1>4, <1>5, <1>6 DEF CommissionNext

\* Users pay only prices that were there at the creation or signed, whatever the
\* order and number of additions, removals and updates.
THEOREM PricesAgreed == CommissionSpec => []PricesSigned
<1>1. CommissionInit => PricesSigned
  BY DEF CommissionInit, PricesSigned
<1> QED
  BY <1>1, PricesStep, CommissionTypeCorrect, PTL DEF CommissionSpec

-----------------------------------------------------------------------------
(* Nonces.                                                                    *)

\* Only an admin that exists has carried out anything, and only finitely much.
AppliedFinite ==
  \A s \in Seeds : IsFiniteSet(applied[s]) /\ (commission[s] = None => applied[s] = {})

NonceInv == AppliedFinite /\ AppliedOnceInOrder

\* Every step carries out the next content of its kind, or none.
LEMMA NonceStep ==
  CommissionTypeOK /\ NonceInv /\ [CommissionNext]_<<key, commissionVars>> => NonceInv'
<1> SUFFICES ASSUME CommissionTypeOK, NonceInv, [CommissionNext]_<<key, commissionVars>>
             PROVE  NonceInv'
  OBVIOUS
<1> DEFINE Ops(contents, op) == {content \in contents : content.op = op}
           InOrder(contents, op, spent) ==
             /\ Cardinality(Ops(contents, op)) = spent
             /\ {content.nonce : content \in Ops(contents, op)} = 0 .. (spent - 1)
           Good(r) ==
             /\ IsFiniteSet(applied'[r])
             /\ commission'[r] = None => applied'[r] = {}
             /\ commission'[r] # None => \A op \in OperationTypes :
                  InOrder(applied'[r], op, commission'[r].nonce[op])
<1>1. ASSUME NEW r \in Seeds, commission'[r] = commission[r], applied'[r] = applied[r]
      PROVE  Good(r)
  BY <1>1 DEF NonceInv, AppliedFinite, AppliedOnceInOrder, AppliedOps
<1>2. ASSUME \A r \in Seeds : Good(r)
      PROVE  NonceInv'
  BY <1>2 DEF NonceInv, AppliedFinite, AppliedOnceInOrder, AppliedOps
<1>3. ASSUME NEW s \in Seeds, NEW list \in InitialLists, InitializeCommission(s, list)
      PROVE  NonceInv'
  <2>1. /\ applied'[s] = {} /\ IsFiniteSet(applied'[s]) /\ commission'[s] # None
        /\ \A op \in OperationTypes : commission'[s].nonce[op] = 0
    <3>1. applied[s] = {} /\ UNCHANGED applied
      BY <1>3, InitializeStep DEF NonceInv, AppliedFinite
    <3>2. commission'[s] \in CommissionAdmins
      BY <1>3, InitializeStep
    <3> QED
      BY <1>3, <3>1, <3>2, InitializeStep, FS_EmptySet, CommissionAssumption
  <2>2. \A op \in OperationTypes : InOrder(applied'[s], op, 0)
    <3>1. \A op : Ops({}, op) = {}
      OBVIOUS
    <3>2. 0 .. (0 - 1) = {}
      OBVIOUS
    <3> QED
      BY <2>1, <3>1, <3>2, FS_EmptySet
  <2>3. Good(s)
    BY <2>1, <2>2
  <2>4. \A r \in Seeds : r # s => Good(r)
    BY <1>1, <1>3, InitializeStep
  <2> QED
    BY <1>2, <2>3, <2>4
<1>4. CASE Operate
  <2>1. PICK s \in Seeds, entry \in CommissionTokens, op \in OperationTypes,
             u \in Receivers \cup {None} :
          /\ commission[s] # None
          /\ Operated(s, op, ListAfter(s, op, entry),
               CommissionContent(commission[s].nonce[op], u, op, entry))
    BY <1>4, OperateStep
  <2> DEFINE content == CommissionContent(commission[s].nonce[op], u, op, entry)
             spent == commission[s].nonce[op]
             before == Ops(applied[s], op)
  <2>2. /\ applied'[s] = applied[s] \cup {content} /\ content.op = op /\ content.nonce = spent
        /\ spent \in Nat /\ commission'[s] # None /\ commission'[s].nonce[op] = spent + 1
        /\ \A other \in OperationTypes :
             other # op => commission'[s].nonce[other] = commission[s].nonce[other]
    BY <2>1, CommissionAssumption DEF Operated, CommissionAdmins
  <2>3. /\ IsFiniteSet(applied[s])
        /\ \A other \in OperationTypes : InOrder(applied[s], other, commission[s].nonce[other])
    BY <2>1 DEF NonceInv, AppliedFinite, AppliedOnceInOrder, AppliedOps
  <2> HIDE DEF content, spent
  <2>4. IsFiniteSet(applied'[s])
    BY <2>2, <2>3, FS_AddElement
  <2>5. InOrder(applied'[s], op, spent + 1)
    <3>1. Ops(applied'[s], op) = before \cup {content}
      BY <2>2
    <3>2. IsFiniteSet(before)
      BY <2>3, FS_Subset
    <3>3. Cardinality(before) = spent /\ {c.nonce : c \in before} = 0 .. (spent - 1)
      BY <2>3 DEF spent
    <3>4. content \notin before
      <4>1. spent \notin 0 .. (spent - 1)
        BY <2>2
      <4> QED
        BY <2>2, <3>3, <4>1
    <3> HIDE DEF before
    <3>5. Cardinality(before \cup {content}) = spent + 1
      BY <3>2, <3>3, <3>4, FS_AddElement
    <3>6. {c.nonce : c \in before \cup {content}} = {c.nonce : c \in before} \cup {spent}
      BY <2>2
    <3>7. (0 .. (spent - 1)) \cup {spent} = 0 .. ((spent + 1) - 1)
      BY <2>2
    <3> QED
      BY <3>1, <3>3, <3>5, <3>6, <3>7
  <2>6. ASSUME NEW other \in OperationTypes, other # op
        PROVE  InOrder(applied'[s], other, commission'[s].nonce[other])
    <3>1. Ops(applied'[s], other) = Ops(applied[s], other)
      BY <2>2, <2>6
    <3>2. commission'[s].nonce[other] = commission[s].nonce[other]
      BY <2>2, <2>6
    <3> QED
      BY <2>3, <3>1, <3>2
  <2>7. Good(s)
    BY <2>2, <2>4, <2>5, <2>6
  <2>8. \A r \in Seeds : r # s => Good(r)
    BY <1>1, <2>1 DEF Operated
  <2> QED
    BY <1>2, <2>7, <2>8
<1>5. CASE UNCHANGED <<commission, applied>>
  BY <1>1, <1>2, <1>5
<1>6. CASE \E s \in Seeds, token \in FeeTokens : ChargeCommission(s, token)
  BY <1>5, <1>6, ChargeStep
<1>7. CASE (\E message \in FeeMessages : SignFee(message))
           \/ (\E s \in Seeds, k \in PublicKeys \cup {None} : ChangeKey(s, k))
           \/ UNCHANGED <<key, commissionVars>>
  BY <1>5, <1>7 DEF SignFee, ChangeKey, commissionVars
<1> QED
  BY <1>3, <1>4, <1>6, <1>7 DEF CommissionNext

\* Signatures that stay public, keys that return, operations submitted again or out
\* of order: each nonce of each kind of operation is used once, in order.
THEOREM OperationsOnceInOrder == CommissionSpec => []AppliedOnceInOrder
<1>1. CommissionInit => NonceInv
  BY FS_EmptySet DEF CommissionInit, NonceInv, AppliedFinite, AppliedOnceInOrder
<1>2. CommissionSpec => []NonceInv
  BY <1>1, NonceStep, CommissionTypeCorrect, PTL DEF CommissionSpec
<1> QED
  BY <1>2, PTL DEF NonceInv

\* An update that is carried out sets the price that is charged.
THEOREM UpdatedPriceCounts == CommissionSpec => UpdateSetsPrice
<1>1. ASSUME CommissionTypeOK, [CommissionNext]_<<key, commissionVars>>,
             NEW s \in Seeds, NEW content \in applied'[s] \ applied[s],
             content.op = "UpdateToken",
             Acceptable(commission'[s].acceptable_tokens, content.token) # {}
      PROVE  Price(commission'[s].acceptable_tokens, content.token) = content.amount
  <2>1. CASE applied' = applied
    BY <1>1, <2>1
  <2>2. CASE Operate
    <3>1. PICK r \in Seeds, entry \in CommissionTokens, op \in OperationTypes,
               u \in Receivers \cup {None} :
            /\ commission[r] # None
            /\ Operated(r, op, ListAfter(r, op, entry),
                 CommissionContent(commission[r].nonce[op], u, op, entry))
      BY <1>1, <2>2, OperateStep
    <3>2. r = s /\ content = CommissionContent(commission[r].nonce[op], u, op, entry)
      BY <1>1, <3>1 DEF Operated
    <3>3. content.op = op /\ content.token = entry.token /\ content.amount = entry.amount
      BY <3>2 DEF CommissionContent
    <3>4. commission'[s].acceptable_tokens = Updated(Tokens(s), entry)
      BY <1>1, <3>1, <3>2, <3>3 DEF Operated, ListAfter
    <3>5. Tokens(s) \in Seq(CommissionTokens)
      BY <1>1, <3>1, <3>2 DEF Tokens, CommissionTypeOK, CommissionAdmins
    <3> QED
      BY <1>1, <3>3, <3>4, <3>5, UpdatedPrice
  <2>3. CASE \E r \in Seeds, list \in InitialLists : InitializeCommission(r, list)
    BY <2>1, <2>3 DEF InitializeCommission
  <2>4. CASE \E r \in Seeds, token \in FeeTokens : ChargeCommission(r, token)
    BY <2>1, <2>4 DEF ChargeCommission
  <2>5. CASE (\E message \in FeeMessages : SignFee(message))
             \/ (\E r \in Seeds, k \in PublicKeys \cup {None} : ChangeKey(r, k))
             \/ UNCHANGED <<key, commissionVars>>
    BY <2>1, <2>5 DEF SignFee, ChangeKey, commissionVars
  <2> QED
    BY <1>1, <2>2, <2>3, <2>4, <2>5 DEF CommissionNext
<1>2. CommissionTypeOK /\ [CommissionNext]_<<key, commissionVars>> =>
        [\A s \in Seeds : \A content \in applied'[s] \ applied[s] :
           LET tokens == commission'[s].acceptable_tokens IN
           content.op = "UpdateToken" /\ Acceptable(tokens, content.token) # {}
             => Price(tokens, content.token) = content.amount]_<<key, commissionVars>>
  BY <1>1
<1> QED
  BY <1>2, CommissionTypeCorrect, PTL DEF CommissionSpec, UpdateSetsPrice

-----------------------------------------------------------------------------
(* Fees and what everybody else holds.                                       *)

\* When the fees of one admin change, the sum changes by as much.
LEMMA FeesChange ==
  ASSUME fees \in [Seeds -> [FeeAssets -> Nat]], fees' \in [Seeds -> [FeeAssets -> Nat]],
         NEW s \in Seeds, \A r \in Seeds \ {s} : fees'[r] = fees[r], NEW a \in FeeAssets
  PROVE  /\ FeesOf(a) \in Nat /\ FeesOf(a)' \in Nat
         /\ FeesOf(a)' + fees[s][a] = FeesOf(a) + fees'[s][a]
<1> DEFINE before == [r \in Seeds |-> fees[r][a]]
           after == [r \in Seeds |-> fees'[r][a]]
<1>1. \A r \in Seeds : before[r] \in Nat /\ after[r] \in Nat
  OBVIOUS
<1>2. \A r \in Seeds \ {s} : before[r] = after[r]
  OBVIOUS
<1>3. before[s] = fees[s][a] /\ after[s] = fees'[s][a]
  OBVIOUS
<1>4. FeesOf(a) = SumFunctionOnSet(before, Seeds)
  BY DEF FeesOf
<1>5. FeesOf(a)' = SumFunctionOnSet(after, Seeds)
  BY DEF FeesOf
<1>f. IsFiniteSet(Seeds)
  BY CommissionAssumption
<1> HIDE DEF before, after
<1>6. SumFunctionOnSet(after, Seeds) + before[s] = SumFunctionOnSet(before, Seeds) + after[s]
  BY <1>1, <1>2, <1>f, SumChange
<1>7. SumFunctionOnSet(before, Seeds) \in Nat /\ SumFunctionOnSet(after, Seeds) \in Nat
  BY <1>1, <1>f, SumIsNat
<1> QED
  BY <1>3, <1>4, <1>5, <1>6, <1>7

\* The fees of all admins are a number.
LEMMA FeesIsNat ==
  ASSUME fees \in [Seeds -> [FeeAssets -> Nat]], NEW a \in FeeAssets
  PROVE  FeesOf(a) \in Nat
<1> DEFINE held == [r \in Seeds |-> fees[r][a]]
<1>1. \A r \in Seeds : held[r] \in Nat
  OBVIOUS
<1>2. FeesOf(a) = SumFunctionOnSet(held, Seeds)
  BY DEF FeesOf
<1>3. IsFiniteSet(Seeds)
  BY CommissionAssumption
<1> HIDE DEF held
<1> QED
  BY <1>1, <1>2, <1>3, SumIsNat

\* A step moves what it takes from purses into fees, or back.
FeesBalanced ==
  \A a \in FeeAssets : (purse[a] + FeesOf(a))' = purse[a] + FeesOf(a)

\* What a charge or a withdrawal moves is in one place or the other.
LEMMA MovedBalanced ==
  ASSUME CommissionTypeOK, CommissionTypeOK', NEW s \in Seeds, NEW b \in FeeAssets,
         NEW amt \in Nat, Collect(s, b, amt) \/ PayOut(s, b, amt)
  PROVE  FeesBalanced
<1> SUFFICES ASSUME NEW a \in FeeAssets
             PROVE  (purse[a] + FeesOf(a))' = purse[a] + FeesOf(a)
  BY DEF FeesBalanced
<1>1. fees \in [Seeds -> [FeeAssets -> Nat]] /\ fees' \in [Seeds -> [FeeAssets -> Nat]]
  BY DEF CommissionTypeOK
<1>2. \A r \in Seeds \ {s} : fees'[r] = fees[r]
  BY <1>1 DEF Collect, PayOut
<1>3. /\ FeesOf(a) \in Nat /\ FeesOf(a)' \in Nat
      /\ FeesOf(a)' + fees[s][a] = FeesOf(a) + fees'[s][a]
  BY <1>1, <1>2, FeesChange
<1>4. purse[a] \in Nat /\ purse'[a] \in Nat /\ fees[s][a] \in Nat /\ fees'[s][a] \in Nat
  BY DEF CommissionTypeOK
<1>5. purse'[a] + fees'[s][a] = purse[a] + fees[s][a]
  <2>1. CASE Collect(s, b, amt)
    BY <1>1, <1>4, <2>1 DEF Collect, CommissionTypeOK
  <2>2. CASE PayOut(s, b, amt)
    BY <1>1, <1>4, <2>2 DEF PayOut, CommissionTypeOK
  <2> QED
    BY <2>1, <2>2
<1>6. purse'[a] + FeesOf(a)' = purse[a] + FeesOf(a)
  BY ONLY <1>3, <1>4, <1>5
<1> QED
  BY <1>6

\* Every step keeps purses and fees together the same.
LEMMA NextFeesBalanced ==
  CommissionTypeOK /\ [CommissionNext]_<<key, commissionVars>> => FeesBalanced
<1> SUFFICES ASSUME CommissionTypeOK, [CommissionNext]_<<key, commissionVars>>
             PROVE  FeesBalanced
  OBVIOUS
<1>1. CASE UNCHANGED <<fees, purse>>
  BY <1>1 DEF FeesBalanced, FeesOf
<1>2. ASSUME NEW s \in Seeds, NEW token \in FeeTokens, ChargeCommission(s, token)
      PROVE  FeesBalanced
  <2>1. /\ CommissionTypeOK' /\ AssetOf(token) \in FeeAssets /\ Price(Tokens(s), token) \in Nat
        /\ Paid(s, token, Price(Tokens(s), token))
    BY <1>2, ChargeStep
  <2> QED
    BY <1>1, <2>1, MovedBalanced DEF Paid, PaySelf
<1>3. ASSUME NEW s \in Seeds, NEW u \in Receivers, NEW entry \in SignedEntries,
             NEW w \in WithdrawAmounts, WithdrawFees(s, u, entry, w)
      PROVE  FeesBalanced
  BY <1>3, EntryTypes, WithdrawStep, MovedBalanced
<1>4. CASE Operate
  BY <1>1, <1>3, <1>4 DEF Operate, AddToken, RemoveToken, UpdateToken, ChangeList
<1>5. CASE (\E s \in Seeds, list \in InitialLists : InitializeCommission(s, list))
           \/ (\E message \in FeeMessages : SignFee(message))
           \/ (\E s \in Seeds, k \in PublicKeys \cup {None} : ChangeKey(s, k))
           \/ UNCHANGED <<key, commissionVars>>
  BY <1>1, <1>5 DEF InitializeCommission, SignFee, ChangeKey, commissionVars
<1> QED
  BY <1>2, <1>4, <1>5 DEF CommissionNext

\* Without fees there is nothing to add up.
LEMMA NoFeesYet ==
  ASSUME fees = [s \in Seeds |-> [a \in FeeAssets |-> 0]], NEW a \in FeeAssets
  PROVE  FeesOf(a) = 0
<1> DEFINE none == [r \in Seeds |-> fees[r][a]]
<1>1. \A r \in Seeds : none[r] = 0
  OBVIOUS
<1>2. FeesOf(a) = SumFunctionOnSet(none, Seeds)
  BY DEF FeesOf
<1> HIDE DEF none
<1> QED
  BY <1>1, <1>2, CommissionAssumption, SumOfZeros

\* However fees are charged and withdrawn, by however many admins, in however many
\* tokens: none is lost and none made up.
THEOREM FeesAreConserved == CommissionSpec => []FeesConserved
<1>1. CommissionInit => FeesConserved
  <2> SUFFICES ASSUME CommissionInit, NEW a \in FeeAssets
               PROVE  purse[a] + FeesOf(a) = Funds[a]
    BY DEF FeesConserved
  <2>1. FeesOf(a) = 0
    BY NoFeesYet DEF CommissionInit
  <2>2. purse[a] = Funds[a] /\ Funds[a] \in Nat
    BY CommissionAssumption DEF CommissionInit
  <2> QED
    BY <2>1, <2>2
<1>2. FeesConserved /\ FeesBalanced => FeesConserved'
  BY DEF FeesConserved, FeesBalanced
<1> QED
  BY <1>1, <1>2, NextFeesBalanced, CommissionTypeCorrect, PTL DEF CommissionSpec

=============================================================================
