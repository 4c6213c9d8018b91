---------------------------- MODULE MCDepositTx ----------------------------
(***************************************************************************)
(* An instance of DepositTx for TLC: two bridge admins, which may name the *)
(* commission program or another one.  A withdrawal creates a wrapped      *)
(* token, with which its receiver pays fees and makes deposits, as with    *)
(* the native one.                                                         *)
(***************************************************************************)
EXTENDS DepositTx, TLC

CONSTANTS s1, s2, k1, u1, prog, other, x, o1, p1

Wrapped == Pda(x)
FT == <<"FT", Wrapped>>
Entry(token, amt) == [token |-> token, amount |-> amt]

Lists == {<<Entry(FT, 1), Entry(<<"Native", Sol>>, 2)>>}

\* Another program is sent what looks like a charge for the accounts of this one.
LikeCharges ==
  {[program_id |-> other, account |-> CommissionKey(prog, s),
    name |-> "ChargeCommission", deposit_token |-> "Native", deposit_token_amount |-> 1]
     : s \in Seeds}

TwoAdmins == Permutations(Seeds)

\* A fee is withdrawn again.
FeeWithdrawals ==
  {<<k1, [nonce |-> 0, receiver |-> u1, op |-> "WithdrawToken", token |-> FT, amount |-> 1]>>}

Texts == {<<p1>>}
Meta == [name |-> <<p1>>, symbol |-> <<p1>>, uri |-> <<p1>>]
WithDecimals == [name |-> <<p1>>, symbol |-> <<p1>>, uri |-> <<p1>>, decimals |-> 0]

OneWithdrawal == {<<k1, FTContent(o1, u1, Wrapped, 1, Meta, 0)>>}
OneMinting == {<<None, None>>, <<x, WithDecimals>>}
NoGenesis == [m \in {} |-> None]

=============================================================================
