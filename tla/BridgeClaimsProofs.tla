------------------------- MODULE BridgeClaimsProofs -------------------------
(***************************************************************************)
(* The bridge implements Claims, for every value of its constants.         *)
(***************************************************************************)
EXTENDS BridgeClaims, BridgeProofs

Key == [s \in Seeds |-> KeyInForce(s)]
Approved == UNION {ApprovalsBy(message) : message \in ClaimContents}
Successors == {<<message[1], message[2].public_key>> : message \in signed \ ClaimContents}
Claim == [o \in Origins |-> RecordClaim(withdraw[o])]
Received == [a \in Assets |-> wallets[a] + inflow[a] - InitialWallets(a)]

\* What wallets start with is a number of tokens.
LEMMA InitialWalletsNat == \A a \in Assets : InitialWallets(a) \in Nat
BY AmountAssumption, GenesisAssumption, AssetAssumption DEF InitialWallets, Assets, Mints

\* Initial states are initial states of Claims.
LEMMA InitImplements == Init => C!Init
<1> SUFFICES ASSUME Init PROVE C!Init
  OBVIOUS
<1>1. Key = [s \in Seeds |-> None]
  BY DEF Init, Key, KeyInForce
<1>2. Approved = {} /\ Successors = {}
  BY DEF Init, Approved, ApprovalsBy, Successors, ClaimContents
<1>3. Claim = [o \in Origins |-> None]
  BY DEF Init, Claim, RecordClaim
<1>4. Received = [a \in Assets |-> 0]
  <2>1. \A a \in Assets : wallets[a] + inflow[a] - InitialWallets(a) = 0
    BY InitialWalletsNat DEF Init
  <2> QED
    BY <2>1 DEF Received
<1> QED
  BY <1>1, <1>2, <1>3, <1>4 DEF C!Init, Key, Approved, Successors, Claim, Received

\* What wallets pay in is no part of what receivers have got.
LEMMA InflowIsNotReceived ==
  ASSUME TypeOK, NEW a \in Assets, NEW amt \in Nat,
         wallets' = [wallets EXCEPT ![a] = @ - amt], inflow' = [inflow EXCEPT ![a] = @ + amt]
  PROVE  Received' = Received
<1>1. \A b \in Assets : wallets[b] \in Nat /\ inflow[b] \in Nat /\ InitialWallets(b) \in Nat
  BY InitialWalletsNat DEF TypeOK
<1>2. \A b \in Assets : wallets'[b] + inflow'[b] - InitialWallets(b)
                          = wallets[b] + inflow[b] - InitialWallets(b)
  BY <1>1 DEF TypeOK
<1> QED
  BY <1>2 DEF Received, InitialWallets

\* A step that leaves the mapped state alone is a stutter.
LEMMA UnchangedImplements ==
  ASSUME Key' = Key, Approved' = Approved, Successors' = Successors, Claim' = Claim,
         Received' = Received
  PROVE  UNCHANGED C!vars
BY DEF C!vars, Key, Approved, Successors, Claim, Received

\* A deposit leaves what Claims talks about as it is.
LEMMA DepositImplements ==
  ASSUME TypeOK, Deposit
  PROVE  UNCHANGED C!vars
<1>1. UNCHANGED <<admin, signed, withdraw>>
  BY DEF Deposit, DepositNative, DepositFT, DepositNFT, DepositToken
<1>2. Received' = Received
  <2>1. \E a \in Assets, amt \in Nat :
          /\ wallets' = [wallets EXCEPT ![a] = @ - amt]
          /\ inflow' = [inflow EXCEPT ![a] = @ + amt]
    BY AmountAssumption DEF Deposit, DepositNative, DepositFT, DepositNFT, DepositToken,
                            PayIn, Burn, Assets
  <2> QED
    BY <2>1, InflowIsNotReceived
<1>3. Key' = Key /\ Approved' = Approved /\ Successors' = Successors /\ Claim' = Claim
  BY <1>1 DEF Key, KeyInForce, Approved, Successors, ClaimContents, Claim
<1> QED
  BY <1>2, <1>3, UnchangedImplements

\* A rotation is only hashed like itself.
LEMMA RotationTold ==
  ASSUME NEW c \in Contents, NEW d \in Contents, d.kind = "Rotation", Hashed(c) = Hashed(d)
  PROVE  c = d
<1>1. Hashed(d) = d
  BY DEF Hashed
<1>2. c.kind = "Rotation"
  <2> SUFFICES ASSUME c.kind # "Rotation" PROVE FALSE
    OBVIOUS
  <2>1. d.kind # "Rotation"
    BY HashedParts
  <2> QED
    BY <2>1
<1> QED
  BY <1>1, <1>2 DEF Hashed

AmountPieces == {AmountBytes(amt) : amt \in Amounts}

\* The bytes of a fungible content begin with its mint, and its amount is the last in them.
LEMMA FTParts ==
  ASSUME NEW c \in Contents, c.kind = "FT"
  PROVE  \E s, t, u : /\ LastIn(Mints, Operation(c), <<>>, c.mint, u)
                      /\ LastIn(AmountPieces, u, s, AmountBytes(c.amount), t)
<1>1. PICK s \in Seq(TextPieces), t \in Seq(SymbolPieces) :
        /\ c.mint \in Mints /\ c.amount \in Amounts
        /\ s \o (<<AmountBytes(c.amount)>> \o t) \in Seq(TextPieces)
        /\ Operation(c) = <<c.mint>> \o (s \o (<<AmountBytes(c.amount)>> \o t))
  BY FTBytes
<1>2. PICK u \in Seq(TextPieces) : u = s \o (<<AmountBytes(c.amount)>> \o t)
  BY <1>1
<1>3. u \in Seq(Pieces) /\ s \in Seq(Pieces) /\ t \in Seq(Pieces) /\ t \in Seq(TextPieces)
  BY TextTypes
<1>4. LastIn(Mints, Operation(c), <<>>, c.mint, u)
  <2>1. c.mint \in Pieces /\ <<c.mint>> \in Seq(Pieces) /\ <<>> \in Seq(Pieces)
    BY <1>1, PieceTypes, EmptySeq
  <2>2. <<c.mint>> \o u \in Seq(Pieces)
    BY <1>3, <2>1, ConcatProperties
  <2>3. Operation(c) = <<>> \o (<<c.mint>> \o u)
    BY <1>1, <1>2, <2>2, ConcatEmptySeq
  <2>4. \A i \in 1 .. Len(u) : u[i] \notin Mints
    BY TextIsNoMint
  <2> QED
    BY <1>1, <1>3, <2>1, <2>3, <2>4 DEF LastIn
<1>5. LastIn(AmountPieces, u, s, AmountBytes(c.amount), t)
  <2>1. AmountBytes(c.amount) \in AmountPieces /\ AmountBytes(c.amount) \in Pieces
    BY <1>1, PieceTypes DEF AmountPieces
  <2>2. \A i \in 1 .. Len(t) : t[i] \in SymbolPieces
    BY ElementOfSeq
  <2>3. \A i \in 1 .. Len(t) : t[i] \notin AmountPieces
    BY <2>2, TextAssumption DEF AmountPieces
  <2> QED
    BY <1>2, <1>3, <2>1, <2>3 DEF LastIn
<1> QED
  BY <1>4, <1>5

\* Fungible contents with the same bytes name the same amount.
LEMMA AmountTold ==
  ASSUME NEW c \in Contents, NEW d \in Contents, c.kind = "FT", d.kind = "FT",
         Operation(c) = Operation(d)
  PROVE  c.amount = d.amount
<1>1. PICK s, t, u : /\ LastIn(Mints, Operation(c), <<>>, c.mint, u)
                     /\ LastIn(AmountPieces, u, s, AmountBytes(c.amount), t)
  BY FTParts
<1>2. PICK p, q, v : /\ LastIn(Mints, Operation(d), <<>>, d.mint, v)
                     /\ LastIn(AmountPieces, v, p, AmountBytes(d.amount), q)
  BY FTParts
<1>3. u = v
  BY <1>1, <1>2, LastIsOne
<1>4. AmountBytes(c.amount) = AmountBytes(d.amount)
  BY <1>1, <1>2, <1>3, LastIsOne
<1> QED
  BY <1>4 DEF AmountBytes

\* A non-fungible content whose bytes are those of a fungible one has no name, no
\* collection, and spells the amount in its URI.
LEMMA NFTReadAsFT ==
  ASSUME NEW c \in Contents, NEW d \in Contents, c.kind = "NFT", d.kind = "FT",
         Operation(c) = Operation(d)
  PROVE  c.collection = None /\ c.name = <<>> /\ d.amount \in Spelled(c.uri)
<1>1. PICK s, t, u : /\ LastIn(Mints, Operation(d), <<>>, d.mint, u)
                     /\ LastIn(AmountPieces, u, s, AmountBytes(d.amount), t)
  BY FTParts
<1>2. PICK p \in Seq(Pieces) : /\ Operation(c) = p \o (<<c.mint>> \o (c.uri \o c.symbol))
                               /\ Len(p) = 0 => c.collection = None /\ c.name = <<>>
  BY NFTBytes
<1>3. PICK r, y : /\ r = c.uri /\ y = c.symbol /\ r \in Seq(TextPieces) /\ y \in Seq(SymbolPieces)
                  /\ r \o y \in Seq(TextPieces) /\ c.mint \in Mints
  BY NFTBytes
<1>4. LastIn(Mints, Operation(c), p, c.mint, r \o y)
  <2>1. r \o y \in Seq(Pieces) /\ c.mint \in Pieces
    BY <1>3, PieceTypes, TextTypes
  <2>2. \A i \in 1 .. Len(r \o y) : (r \o y)[i] \notin Mints
    BY <1>3, TextIsNoMint
  <2> QED
    BY <1>2, <1>3, <2>1, <2>2 DEF LastIn
<1>5. u = r \o y /\ Len(p) = Len(<<>>)
  <2>1. PICK z, e, a, b, v : /\ z = Operation(c) /\ e = <<>> /\ a = c.mint /\ b = d.mint
                            /\ v = r \o y
    OBVIOUS
  <2>2. LastIn(Mints, z, e, b, u) /\ LastIn(Mints, z, p, a, v)
    BY <1>1, <1>4, <2>1
  <2>3. u = v /\ Len(p) = Len(e)
    BY <2>2, LastIsOne
  <2> QED
    BY <2>1, <2>3
<1>6. c.collection = None /\ c.name = <<>>
  BY <1>2, <1>5
<1>7. d.amount \in Amounts
  BY FTBytes
<1>8. PICK i : i \in 1 .. Len(r) /\ r[i] = AmountBytes(d.amount)
  <2>1. /\ s \in Seq(Pieces) /\ AmountBytes(d.amount) \in Pieces /\ t \in Seq(Pieces)
        /\ u = s \o (<<AmountBytes(d.amount)>> \o t)
    BY <1>1 DEF LastIn
  <2>2. Len(u) = Len(s) + 1 + Len(t) /\ u[Len(s) + 1] = AmountBytes(d.amount)
    BY <2>1, MiddleOfConcat
  <2>3. /\ r \in Seq(Pieces) /\ y \in Seq(Pieces)
    BY <1>3, TextTypes
  <2>4. Len(s) \in Nat /\ Len(t) \in Nat /\ Len(r) \in Nat /\ Len(y) \in Nat
    BY <2>1, <2>3, LenProperties
  <2>5. /\ Len(u) = Len(r) + Len(y)
        /\ \A j \in 1 .. Len(r) + Len(y) : u[j] = IF j <= Len(r) THEN r[j] ELSE y[j - Len(r)]
    BY <1>5, <2>3, ConcatProperties
  <2>6. CASE Len(s) + 1 <= Len(r)
    BY <2>2, <2>4, <2>5, <2>6
  <2>7. CASE ~(Len(s) + 1 <= Len(r))
    <3> DEFINE j == Len(s) + 1 - Len(r)
    <3>1. j \in 1 .. Len(y) /\ u[Len(s) + 1] = y[j]
      BY <2>2, <2>4, <2>5, <2>7
    <3>2. y[j] \in SymbolPieces
      BY <1>3, <3>1, ElementOfSeq
    <3> QED
      BY <1>7, <2>2, <3>1, <3>2, TextAssumption
  <2> QED
    BY <2>6, <2>7
<1>9. i \in DOMAIN c.uri /\ c.uri[i] = AmountBytes(d.amount)
  BY <1>3, <1>8, LenProperties
<1> QED
  BY <1>6, <1>7, <1>9 DEF Spelled

\* The claim a withdrawal with content d pays.
Stated(d) == ClaimOf(d, d.kind, IF d.kind = "NFT" THEN 1 ELSE d.amount)

\* A content entitles, in whatever way its bytes are read, to the claim read.
LEMMA BytesEntitle ==
  ASSUME NEW c \in Contents, NEW d \in Contents, Hashed(c) = Hashed(d), d.kind # "Rotation"
  PROVE  c.kind # "Rotation" /\ c.origin = d.origin /\ Stated(d) \in Entitlements(c)
<1>1. /\ c.kind # "Rotation" /\ c.origin = d.origin /\ c.receiver = d.receiver
      /\ Operation(c) = Operation(d)
  BY HashedParts
<1>2. c.kind \in {"Native", "FT", "NFT"} /\ d.kind \in {"Native", "FT", "NFT"}
  BY <1>1 DEF Contents
<1>3. CASE d.kind = "Native"
  <2>1. c.kind = "Native"
    <3> SUFFICES ASSUME c.kind \in {"FT", "NFT"} PROVE FALSE
      BY <1>2
    <3>1. d.kind \in {"FT", "NFT"}
      BY <1>1, MintTold
    <3> QED
      BY <1>3, <3>1
  <2>2. <<AmountBytes(c.amount)>> = <<AmountBytes(d.amount)>>
    BY <1>1, <1>3, <2>1 DEF Operation
  <2>3. c.amount = d.amount
    BY <2>2 DEF AmountBytes
  <2> QED
    BY <1>1, <1>3, <2>1, <2>3 DEF Stated, ClaimOf, Entitlements
<1>4. CASE d.kind # "Native"
  <2>1. c.kind \in {"FT", "NFT"} /\ c.mint = d.mint
    BY <1>1, <1>2, <1>4, MintTold
  <2>2. CASE c.kind = "FT" /\ d.kind = "FT"
    BY <1>1, <2>1, <2>2, AmountTold DEF Stated, ClaimOf, Entitlements
  <2>3. CASE c.kind = "NFT" /\ d.kind = "FT"
    BY <1>1, <2>1, <2>3, NFTReadAsFT DEF Stated, ClaimOf, Entitlements
  <2>4. CASE d.kind = "NFT"
    BY <1>1, <2>1, <2>4 DEF Stated, ClaimOf, Entitlements
  <2> QED
    BY <1>2, <1>4, <2>1, <2>2, <2>3, <2>4
<1> QED
  BY <1>3, <1>4

\* Opening an admin and passing it on are Open and Rotate.
LEMMA ManageImplements ==
  ASSUME TypeOK, Manage
  PROVE  C!Next
<1>1. PICK s \in Seeds, k \in PublicKeys :
        (\E p \in Programs : InitializeAdmin(s, k, p)) \/ TransferOwnership(s, k)
  BY DEF Manage
<1>2. UNCHANGED <<signed, withdraw>>
  BY <1>1 DEF InitializeAdmin, TransferOwnership
<1>3. Approved' = Approved /\ Successors' = Successors /\ Claim' = Claim
  BY <1>2 DEF Approved, Successors, ClaimContents, Claim
<1>4. Received' = Received
  <2>1. Sol \in Assets /\ AdminRent \in Nat
    BY AmountAssumption DEF Assets, AdminRent
  <2>2. CASE \E p \in Programs : InitializeAdmin(s, k, p)
    BY <2>1, <2>2, InflowIsNotReceived DEF InitializeAdmin, PayIn
  <2>3. CASE TransferOwnership(s, k)
    BY <2>3 DEF TransferOwnership, Received, InitialWallets
  <2> QED
    BY <1>1, <2>2, <2>3
<1>5. ASSUME NEW p \in Programs, InitializeAdmin(s, k, p)
      PROVE  C!Open(s, k)
  <2>1. Key[s] = None
    BY <1>5 DEF Key, KeyInForce, InitializeAdmin
  <2>2. \A q \in Seeds : KeyInForce(q)' = IF q = s THEN k ELSE KeyInForce(q)
    <3>1. [public_key |-> k, commission_program |-> p] # None
      BY NoneAssumption DEF Admins
    <3> QED
      BY <1>5, <3>1 DEF InitializeAdmin, TypeOK, KeyInForce
  <2>3. Key' = [Key EXCEPT ![s] = k]
    BY <2>2 DEF Key
  <2> QED
    BY <1>3, <1>4, <2>1, <2>3 DEF C!Open, Key, Approved, Successors, Claim, Received
<1>6. ASSUME TransferOwnership(s, k)
      PROVE  C!Rotate(s, k)
  <2>1. admin[s] \in Admins /\ admin[s] # None
    BY <1>6 DEF TransferOwnership, TypeOK
  <2>2. Key[s] = admin[s].public_key /\ Key[s] # None
    BY <2>1, NoneAssumption DEF Key, KeyInForce, Admins
  <2>3. <<Key[s], k>> \in Successors
    <3>1. PICK message \in signed :
            message[1] = Key[s] /\ Hashed(message[2]) = Hashed(RotationContent(k))
      BY <1>6, <2>2 DEF TransferOwnership, VerifyEcdsaSignature
    <3>2. message[2] \in Contents /\ RotationContent(k) \in Contents
      BY MessageAssumption DEF TypeOK, RotationContent, Contents
    <3>3. message[2].kind = "Rotation" /\ message[2].public_key = k
      BY <3>1, <3>2, RotationTold DEF RotationContent
    <3> QED
      BY <3>1, <3>3 DEF Successors, ClaimContents
  <2>4. Key' = [Key EXCEPT ![s] = k]
    <3>1. [admin[s] EXCEPT !.public_key = k] \in Admins
      BY <2>1 DEF Admins
    <3>2. [admin[s] EXCEPT !.public_key = k] # None
      BY <3>1, NoneAssumption
    <3>3. \A q \in Seeds : KeyInForce(q)' = IF q = s THEN k ELSE KeyInForce(q)
      BY <1>6, <2>1, <3>2 DEF TransferOwnership, TypeOK, KeyInForce, Admins
    <3> QED
      BY <3>3 DEF Key
  <2> QED
    BY <1>3, <1>4, <2>2, <2>3, <2>4 DEF C!Rotate, Key, Approved, Successors, Claim, Received
<1> QED
  BY <1>1, <1>5, <1>6 DEF C!Next

\* A signature adds an approval or a successor, and takes nothing away.
LEMMA EnvironmentImplements ==
  ASSUME TypeOK, Environment
  PROVE  C!Approve
<1>1. UNCHANGED <<admin, withdraw, wallets, inflow>> /\ signed \subseteq signed'
  BY DEF Environment, Sign, UpdateMetadata
<1>2. Key' = Key /\ Claim' = Claim /\ Received' = Received
  BY <1>1 DEF Key, KeyInForce, Claim, Received, InitialWallets
<1>3. Approved \subseteq Approved' /\ Successors \subseteq Successors'
  BY <1>1 DEF Approved, Successors, ClaimContents
<1> QED
  BY <1>2, <1>3 DEF C!Approve, Key, Approved, Successors, Claim, Received

\* A withdrawal is one payment: what the three handlers have in common.
LEMMA WithdrawalPays ==
  ASSUME TypeOK, ClaimOnce, NEW s \in Seeds, NEW o \in Origins, NEW u, NEW m, NEW type,
         NEW amt \in Nat, NEW a \in Assets, NEW content \in Contents,
         admin[s] # None, VerifyEcdsaSignature(admin[s].public_key, content),
         content.kind # "Rotation", content.origin = o,
         Stated(content) = [type |-> type, asset |-> a, amount |-> amt, receiver |-> u],
         a = IF m = None THEN Sol ELSE m,
         WithdrawRecord(type, m, amt, o, u) \in Withdraws, withdraw[o] = None,
         withdraw' = [withdraw EXCEPT ![o] = WithdrawRecord(type, m, amt, o, u)],
         wallets' = [wallets EXCEPT ![a] = @ + amt], UNCHANGED <<signed, inflow>>,
         admin' = admin \/ admin' = [admin EXCEPT ![s] = None]
  PROVE  C!Next
<1> DEFINE paid == Stated(content)
<1>0. PICK message \in signed :
        message[1] = admin[s].public_key /\ Hashed(message[2]) = Hashed(content)
  BY DEF VerifyEcdsaSignature
<1>h. message[2].kind # "Rotation" /\ message[2].origin = o /\ paid \in Entitlements(message[2])
  <2>1. message[2] \in Contents
    BY MessageAssumption DEF TypeOK
  <2> QED
    BY <1>0, <2>1, BytesEntitle
<1>1. PICK approval \in Approved :
        approval = [key |-> message[1], origin |-> message[2].origin, claim |-> paid]
  <2>1. message \in ClaimContents
    BY <1>h DEF ClaimContents
  <2>2. [key |-> message[1], origin |-> message[2].origin, claim |-> paid] \in ApprovalsBy(message)
    BY <1>h DEF ApprovalsBy
  <2> QED
    BY <2>1, <2>2 DEF Approved
<1>2. approval.key = Key[s] /\ Key[s] # None
  <2>1. admin[s] \in Admins
    BY DEF TypeOK
  <2> QED
    BY <1>0, <1>1, <2>1, NoneAssumption DEF Key, KeyInForce, Admins
<1>3. approval.origin = o /\ approval.claim = paid
  BY <1>h, <1>1
<1>4. Claim[o] = None
  BY DEF Claim, RecordClaim
<1>5. Claim' = [Claim EXCEPT ![o] = paid]
  <2>1. RecordClaim(WithdrawRecord(type, m, amt, o, u)) = paid
    BY NoneAssumption DEF RecordClaim, WithdrawRecord, RecordAsset
  <2>2. \A q \in Origins : RecordClaim(withdraw'[q]) = IF q = o THEN paid ELSE RecordClaim(withdraw[q])
    BY <2>1 DEF TypeOK
  <2>3. Claim' = [q \in Origins |-> RecordClaim(withdraw'[q])]
    BY DEF Claim, RecordClaim, RecordAsset
  <2> HIDE DEF paid
  <2>4. Claim' = [q \in Origins |-> IF q = o THEN paid ELSE RecordClaim(withdraw[q])]
    BY <2>2, <2>3
  <2> QED
    BY <2>4 DEF Claim
<1>6. Received' = [Received EXCEPT ![paid.asset] = @ + paid.amount]
  <2>1. \A b \in Assets : wallets[b] \in Nat /\ inflow[b] \in Nat /\ InitialWallets(b) \in Nat
    BY InitialWalletsNat DEF TypeOK
  <2>2. \A b \in Assets : wallets'[b] + inflow'[b] - InitialWallets(b)
          = IF b = a THEN (wallets[b] + inflow[b] - InitialWallets(b)) + amt
                     ELSE wallets[b] + inflow[b] - InitialWallets(b)
    BY <2>1 DEF TypeOK
  <2>r. Received' = [b \in Assets |-> wallets'[b] + inflow'[b] - InitialWallets(b)]
    BY DEF Received, InitialWallets
  <2>3. Received' = [Received EXCEPT ![a] = @ + amt]
    BY <2>2, <2>r DEF Received
  <2> QED
    BY <2>3
<1>7. Key' \in {Key, [Key EXCEPT ![s] = None]}
  <2>1. CASE admin' = admin
    BY <2>1 DEF Key, KeyInForce
  <2>2. CASE admin' = [admin EXCEPT ![s] = None]
    <3>1. \A q \in Seeds : KeyInForce(q)' = IF q = s THEN None ELSE KeyInForce(q)
      BY <2>2 DEF KeyInForce, TypeOK
    <3> QED
      BY <3>1 DEF Key
  <2> QED
    BY <2>1, <2>2
<1>8. Approved' = Approved /\ Successors' = Successors
  BY DEF Approved, Successors, ClaimContents
<1>9. C!Pay(s, approval)
  <2> HIDE DEF paid
  <2> QED
    BY <1>2, <1>3, <1>4, <1>5, <1>6, <1>7, <1>8
       DEF C!Pay, Key, Approved, Successors, Claim, Received
<1> QED
  BY <1>9 DEF C!Next, Approved

\* A native withdrawal is Pay, with the approval its signature stands for.
LEMMA NativeImplements ==
  ASSUME TypeOK, ClaimOnce, NEW s \in Seeds, NEW o \in Origins, NEW u \in Receivers,
         NEW amt \in Amounts, WithdrawNative(s, o, u, amt)
  PROVE  C!Next
<1> DEFINE content == NativeContent(o, u, amt)
<1>1. /\ content.kind # "Rotation" /\ content.origin = o
      /\ Stated(content) = [type |-> "Native", asset |-> Sol, amount |-> amt, receiver |-> u]
  BY DEF NativeContent, Stated, ClaimOf
<1>2. VerifyEcdsaSignature(admin[s].public_key, content) /\ admin[s] # None
  BY DEF WithdrawNative
<1>3. amt \in Nat /\ Sol \in Assets
  BY AmountAssumption DEF Assets
<1>4. WithdrawRecord("Native", None, amt, o, u) \in Withdraws
  BY <1>3 DEF WithdrawRecord, Withdraws, TokenTypes
<1>5. /\ withdraw[o] = None
      /\ withdraw' = [withdraw EXCEPT ![o] = WithdrawRecord("Native", None, amt, o, u)]
  BY DEF WithdrawNative, CreateWithdraw, Occupied
<1>6. /\ wallets' = [wallets EXCEPT ![Sol] = @ + amt]
      /\ UNCHANGED <<signed, inflow>>
      /\ admin' = admin \/ admin' = [admin EXCEPT ![s] = None]
  BY DEF WithdrawNative
<1>7. content \in Contents
  BY DEF NativeContent, Contents
<1> HIDE DEF content
<1> QED
  BY <1>1, <1>2, <1>3, <1>4, <1>5, <1>6, <1>7, WithdrawalPays

\* A withdrawal of tokens is Pay, with the approval its signature stands for.
LEMMA TokenImplements ==
  ASSUME TypeOK, ClaimOnce, NEW s \in Seeds, NEW o \in Origins, NEW u \in Receivers,
         NEW m \in Mints, NEW amt \in Nat, NEW minted, NEW type \in TokenTypes,
         NEW content \in Contents, content.kind # "Rotation", content.origin = o,
         Stated(content) = [type |-> type, asset |-> m, amount |-> amt, receiver |-> u],
         WithdrawToken(s, o, u, m, amt, minted, type, content)
  PROVE  C!Next
<1>1. VerifyEcdsaSignature(admin[s].public_key, content) /\ admin[s] # None
  BY DEF WithdrawToken
<1>2. m \in Assets /\ m # None
  BY NoneAssumption DEF Assets
<1>3. WithdrawRecord(type, m, amt, o, u) \in Withdraws
  BY DEF WithdrawRecord, Withdraws
<1>4. /\ withdraw[o] = None
      /\ withdraw' = [withdraw EXCEPT ![o] = WithdrawRecord(type, m, amt, o, u)]
  BY DEF WithdrawToken, CreateWithdraw, Occupied
<1>5. wallets' = [wallets EXCEPT ![m] = @ + amt] /\ UNCHANGED <<signed, inflow, admin>>
  BY DEF WithdrawToken
<1> QED
  BY <1>1, <1>2, <1>3, <1>4, <1>5, WithdrawalPays

\* Every withdrawal is Pay.
LEMMA WithdrawImplements ==
  ASSUME TypeOK, ClaimOnce, Withdraw
  PROVE  C!Next
<1>1. PICK s \in Seeds, o \in Origins, u \in Receivers :
        \/ \E amt \in Amounts : WithdrawNative(s, o, u, amt)
        \/ \E m \in Mints, arg \in MintArguments :
             \/ \E amt \in Amounts : WithdrawFT(s, o, u, m, amt, arg[1], arg[2])
             \/ WithdrawNFT(s, o, u, m, arg[1], arg[2])
  BY DEF Withdraw
<1>2. CASE \E amt \in Amounts : WithdrawNative(s, o, u, amt)
  BY <1>2, NativeImplements
<1>3. ASSUME NEW m \in Mints, NEW seed \in TokenSeeds \cup {None},
             NEW meta \in SignedMetas \cup {None}, NEW amt \in Amounts,
             WithdrawFT(s, o, u, m, amt, seed, meta)
      PROVE  C!Next
  <2> DEFINE minted == TryMintTokenWithMeta(s, m, seed, meta)
             content == FTContent(o, u, m, amt, minted.metadata[m], minted.mint[m].decimals)
  <2>1. WithdrawToken(s, o, u, m, amt, minted, "FT", content)
    BY <1>3 DEF WithdrawFT
  <2>2. /\ content.kind # "Rotation" /\ content.origin = o
        /\ Stated(content) = [type |-> "FT", asset |-> m, amount |-> amt, receiver |-> u]
    BY DEF FTContent, Stated, ClaimOf
  <2>3. amt \in Nat /\ "FT" \in TokenTypes
    BY AmountAssumption DEF TokenTypes
  <2>4. content \in Contents
    <3>1. minted.mint[m] \in MintAccounts /\ minted.metadata[m] \in Metadatas
      BY <1>3, <2>1, TryMintType DEF WithdrawFT, WithdrawToken
    <3> QED
      BY <3>1, FTContentType DEF MintAccounts
  <2> HIDE DEF content, minted
  <2> QED
    BY <2>1, <2>2, <2>3, <2>4, TokenImplements
<1>4. ASSUME NEW m \in Mints, NEW seed \in TokenSeeds \cup {None},
             NEW meta \in SignedMetas \cup {None}, WithdrawNFT(s, o, u, m, seed, meta)
      PROVE  C!Next
  <2> DEFINE minted == TryMintTokenWithMeta(s, m, seed, meta)
             content == NFTContent(o, u, m, minted.metadata)
  <2>1. WithdrawToken(s, o, u, m, 1, minted, "NFT", content)
    BY <1>4 DEF WithdrawNFT
  <2>2. /\ content.kind # "Rotation" /\ content.origin = o
        /\ Stated(content) = [type |-> "NFT", asset |-> m, amount |-> 1, receiver |-> u]
    BY DEF NFTContent, Stated, ClaimOf
  <2>3. "NFT" \in TokenTypes
    BY DEF TokenTypes
  <2>4. content \in Contents
    <3>1. /\ minted.metadata[m] \in Metadatas
          /\ minted.metadata \in [Mints -> Metadatas \cup {None}]
      BY <1>4, <2>1, TryMintType DEF WithdrawNFT, WithdrawToken
    <3> DEFINE c == minted.metadata[m].collection
    <3>2. c # None => minted.metadata[c] \in Metadatas
      <4> SUFFICES ASSUME c # None PROVE minted.metadata[c] \in Metadatas
        OBVIOUS
      <4>1. minted.metadata = metadata
        <5>1. CASE seed # None /\ ~Occupied(m, mint)
          BY <5>1 DEF TryMintTokenWithMeta, MetadataOf, TypeOK
        <5>2. CASE ~(seed # None /\ ~Occupied(m, mint))
          BY <5>2 DEF TryMintTokenWithMeta
        <5> QED
          BY <5>1, <5>2
      <4>2. metadata[m] # None /\ metadata[m].collection = c
        BY <3>1, <4>1, NoneAssumption
      <4>3. c \in Mints /\ metadata[c] # None
        BY <1>4, <3>1, <4>2 DEF WithdrawNFT, Metadatas, Mints
      <4> QED
        BY <4>1, <4>3 DEF TypeOK
    <3> HIDE DEF minted
    <3> QED
      BY <3>1, <3>2, NFTContentType
  <2> HIDE DEF content, minted
  <2> QED
    BY <2>1, <2>2, <2>3, <2>4, TokenImplements
<1> QED
  BY <1>1, <1>2, <1>3, <1>4, ArgumentTypes

\* Every behaviour of the bridge is one of Claims: each payment is of what bytes signed
\* by the key in force entitle to in one of their readings, of an origin not paid
\* before, in full, to the receiver signed.
THEOREM BridgeImplementsClaims == Spec => ImplementsClaims
<1>1. TypeOK /\ ClaimOnce /\ [Next]_vars => [C!Next]_(C!vars)
  <2> SUFFICES ASSUME TypeOK, ClaimOnce, [Next]_vars
               PROVE  C!Next \/ UNCHANGED C!vars
    OBVIOUS
  <2>1. CASE UNCHANGED vars
    <3>1. Key' = Key /\ Approved' = Approved /\ Successors' = Successors /\ Claim' = Claim
            /\ Received' = Received
      BY <2>1 DEF vars, Key, KeyInForce, Approved, Successors, ClaimContents, Claim, Received,
                  InitialWallets
    <3> QED
      BY <3>1, UnchangedImplements
  <2>2. CASE Environment
    BY <2>2, EnvironmentImplements DEF C!Next
  <2> QED
    BY <2>1, <2>2, ManageImplements, DepositImplements, WithdrawImplements DEF Next
<1> QED
  BY <1>1, InitImplements, TypeCorrect, ClaimedOnce, PTL DEF Spec, ImplementsClaims, C!Spec

=============================================================================
