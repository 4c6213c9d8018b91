---------------------------- MODULE MCCommission ----------------------------
(***************************************************************************)
(* Instances of Commission for TLC: one commission admin, two keys that    *)
(* replace each other at any time, one mint and the native token.          *)
(***************************************************************************)
EXTENDS Commission

CONSTANTS s1, k1, k2, u1, m

Native == <<"Native", Sol>>
FT == <<"FT", m>>

Entry(token, amt) == [token |-> token, amount |-> amt]

Lists == {<<>>, <<Entry(Native, 1)>>}

Purse == [a \in FeeAssets |-> 3]

\* The mint is listed twice with different prices, by either key, updated, removed
\* under the price it had first, and its fees withdrawn.
ListMessages ==
  { <<k1, CommissionContent(0, None, "AddToken", Entry(FT, 1))>>,
    <<k2, CommissionContent(0, None, "AddToken", Entry(Native, 2))>>,
    <<k2, CommissionContent(1, None, "AddToken", Entry(FT, 2))>>,
    <<k1, CommissionContent(0, None, "UpdateToken", Entry(FT, 2))>>,
    <<k1, CommissionContent(0, None, "RemoveToken", Entry(FT, 1))>>,
    <<k2, CommissionContent(0, u1, "WithdrawToken", Entry(FT, 1))>> }

NativeMessages == {<<k1, CommissionContent(0, u1, "WithdrawToken", Entry(Native, 1))>>}

=============================================================================
