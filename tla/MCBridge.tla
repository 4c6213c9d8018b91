------------------------------ MODULE MCBridge ------------------------------
(***************************************************************************)
(* Instances of Bridge for TLC.  A model value x that is both an origin    *)
(* and a token seed makes the two meet at one address.  p1, p2 and p3 are  *)
(* pieces of text.                                                         *)
(***************************************************************************)
EXTENDS BridgeClaims

CONSTANTS s1, s2, k1, k2, prog, u1, u2, o1, o2, x, n, coll, p1, p2, p3

ChargeCommission(s, type, amt) ==
  [program_id |-> prog, account |-> CommissionKey(prog, s), name |-> "ChargeCommission",
   deposit_token |-> type, deposit_token_amount |-> amt]

Meta(name, symbol, uri, collection) ==
  [name |-> name, symbol |-> symbol, uri |-> uri, collection |-> collection]

Chars == {p1, p2, p3}
OneName == {<<p1>>}
OneSymbol == {<<p3>>}
OneUri == {<<p2>>}

-----------------------------------------------------------------------------
(* Two admins, native claims of two origins, and rotations both ways.  Origin *)
(* o1 is signed twice, by both keys and for different receivers; o2 for an    *)
(* amount that can empty an admin account to the last lamport.                *)

NativeMessages ==
  { <<k1, NativeContent(o1, u1, 1)>>, <<k2, NativeContent(o1, u2, 2)>>,
    <<k1, NativeContent(o2, u1, 2)>>, <<k2, NativeContent(o2, u1, 3)>>,
    <<k1, RotationContent(k2)>>, <<k2, RotationContent(k1)>> }

NativePriors ==
  {None} \cup {ChargeCommission(s, "Native", 1) : s \in {s1}}
         \cup {ChargeCommission(s, "Native", 2) : s \in {s2}}
         \cup {[ChargeCommission(s1, "Native", 2) EXCEPT !.name = "AddFeeToken"]}

NoGenesis == [m \in {} |-> None]

NoMint == {<<None, None>>}

-----------------------------------------------------------------------------
(* Two admins under one key, a mint the bridge creates and a non-fungible one  *)
(* of a collection that it does not.  The wrapped mint is signed with two sets *)
(* of decimals, for the origin that shares its address among others, and as a  *)
(* non-fungible token; its texts may be split in another place than they are   *)
(* signed, and the bytes of either kind of content read as the other kind.     *)

Wrapped == Pda(x)

Token == Meta(<<p1>>, <<p3>>, <<p2>>, None)

\* The bytes after the mint of FTContent(o, u, Wrapped, 2, Token, 9).
Unnamed == Meta(<<>>, <<p3, DecimalsByte(9)>>, <<p1, p2, AmountBytes(2)>>, None)

SomeNames == {<<p1>>, <<p1, p2>>, <<>>}
SomeSymbols == {<<p3>>, <<p3, DecimalsByte(9)>>}
SomeUris == {<<p2>>, <<>>, <<p1, p2, AmountBytes(2)>>}

WithDecimals(data, d) ==
  [name |-> data.name, symbol |-> data.symbol, uri |-> data.uri, decimals |-> d]

Mintings ==
  {<<None, None>>, <<x, None>>}
  \cup {<<x, meta>> : meta \in
          {WithDecimals(Token, 0), WithDecimals(Token, 9), WithDecimals(Unnamed, 9),
           WithDecimals([Token EXCEPT !.name = <<p1, p2>>, !.uri = <<>>], 9)}}

InCollection == [Token EXCEPT !.collection = coll]
Renamed == [Token EXCEPT !.name = <<p1, p2>>]

TokenMessages ==
  LET datas == [m \in {Wrapped, n, coll} |->
                  CASE m = n -> InCollection [] m = coll -> Renamed [] OTHER -> Unnamed] IN
  { <<k1, FTContent(o1, u1, Wrapped, 2, Token, 9)>>,
    <<k1, FTContent(o2, u1, Wrapped, 1, Token, 0)>>,
    <<k1, FTContent(x, u1, Wrapped, 1, Token, 9)>>,
    <<k1, NFTContent(o2, u1, Wrapped, datas)>>,
    <<k1, NFTContent(o1, u1, n, datas)>>, <<k1, NFTContent(x, u1, n, datas)>> }

\* What is signed is fungible, and the caller says otherwise.
MisreadMessages == {<<k1, FTContent(o1, u1, Wrapped, 2, Token, 9)>>}
MisreadMintings == {<<x, WithDecimals(Token, 9)>>, <<x, WithDecimals(Unnamed, 0)>>}

TokenPriors ==
  {None, ChargeCommission(s1, "FT", 1), ChargeCommission(s2, "FT", 2), ChargeCommission(s1, "NFT", 1)}

TokenGenesis ==
  [m \in {n, coll} |-> [supply |-> IF m = n THEN 1 ELSE 0, decimals |-> 0,
     metadata |-> IF m = n THEN InCollection ELSE Renamed]]

TokenUpdates == {<<n, Token>>, <<coll, Token>>}

=============================================================================
