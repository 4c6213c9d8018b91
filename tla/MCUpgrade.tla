----------------------------- MODULE MCUpgrade -----------------------------
(***************************************************************************)
(* An instance of Upgrade for TLC: two programs, two keys of the signers   *)
(* that may replace each other again and again, and one of somebody else.  *)
(***************************************************************************)
EXTENDS Upgrade

CONSTANTS c1, c2, k1, k2, k3, b1, b2, v1, v2

\* For c1 two buffers for the first nonce and one of them again for the second; the
\* other program shares the buffers and the rotations.
SignableMessages ==
  ({k1} \X {UpgradeContent(0, c1, b1), UpgradeContent(0, c1, b2), UpgradeContent(1, c1, b1)})
  \cup {<<k3, UpgradeContent(0, c1, b1)>>}
  \cup {<<k1, RotationMessage(k2)>>, <<k2, RotationMessage(k1)>>,
        <<k3, RotationMessage(k1)>>}

=============================================================================
