---------------------------- MODULE BridgeClaims ----------------------------
(***************************************************************************)
(* The bridge implements Claims: its records are the claims paid, and what *)
(* receivers got is read off the balances of wallets, not off the records. *)
(***************************************************************************)
EXTENDS Bridge

KeyInForce(s) == IF admin[s] = None THEN None ELSE admin[s].public_key

ClaimContents == {message \in signed : message[2].kind # "Rotation"}

\* A claim for the asset and the receiver of a signed content.
ClaimOf(c, type, amt) ==
  [type |-> type, asset |-> IF c.kind = "Native" THEN Sol ELSE c.mint,
   amount |-> amt, receiver |-> c.receiver]

\* The amounts a text contains.
Spelled(text) == {amt \in Amounts : \E i \in DOMAIN text : text[i] = AmountBytes(amt)}

\* What a signed content entitles its receiver to: the claim it states; and because
\* nothing in the bytes tells the kinds of token content apart, one non-fungible
\* token in place of an amount of a fungible one, or in place of a nameless
\* non-fungible one an amount that is spelled out in its URI.
Entitlements(c) ==
  LET stated == ClaimOf(c, c.kind, IF c.kind = "NFT" THEN 1 ELSE c.amount)
      misread ==
        CASE c.kind = "FT" -> {ClaimOf(c, "NFT", 1)}
          [] c.kind = "NFT" /\ c.collection = None /\ c.name = <<>> ->
               {ClaimOf(c, "FT", amt) : amt \in Spelled(c.uri)}
          [] OTHER -> {}
  IN {stated} \cup misread

ApprovalsBy(message) ==
  {[key |-> message[1], origin |-> message[2].origin, claim |-> entitled] :
     entitled \in Entitlements(message[2])}

\* What a Withdraw account says was paid.
RecordClaim(record) ==
  IF record = None THEN None
  ELSE [type |-> record.token_type, asset |-> RecordAsset(record),
        amount |-> record.amount, receiver |-> record.receiver]

C == INSTANCE Claims WITH
       key <- [s \in Seeds |-> KeyInForce(s)],
       approved <- UNION {ApprovalsBy(message) : message \in ClaimContents},
       successors <- {<<message[1], message[2].public_key>> :
                        message \in signed \ ClaimContents},
       claim <- [o \in Origins |-> RecordClaim(withdraw[o])],
       received <- [a \in Assets |-> wallets[a] + inflow[a] - InitialWallets(a)]

\* Every step of the program is a step of Claims: a receiver is paid once for an
\* origin, in the asset signed, what the key in force at that moment entitles him
\* to, in full, through whatever handler and out of whatever custody.
ImplementsClaims == C!Spec

=============================================================================
