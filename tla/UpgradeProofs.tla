---------------------------- MODULE UpgradeProofs ----------------------------
(***************************************************************************)
(* Theorems about Upgrade for every value of its constants.                *)
(***************************************************************************)
EXTENDS Upgrade, TLAPS

\* Every step keeps the types.
LEMMA UpgradeTypeStep ==
  UpgradeTypeOK /\ [UpgradeNext]_upgradeVars => UpgradeTypeOK'
<1> SUFFICES ASSUME UpgradeTypeOK, [UpgradeNext]_upgradeVars PROVE UpgradeTypeOK'
  OBVIOUS
<1> USE UpgradeAssumption DEF UpgradeTypeOK
<1>1. ASSUME NEW c \in Contracts, NEW k \in PublicKeys, InitializeUpgradeAdmin(c, k)
      PROVE  UpgradeTypeOK'
  <2>1. [public_key |-> k, nonce |-> 0] \in UpgradeAdmins
    BY DEF UpgradeAdmins
  <2> QED
    BY <1>1, <2>1 DEF InitializeUpgradeAdmin
<1>2. ASSUME NEW c \in Contracts, NEW k \in PublicKeys, TransferUpgradeOwnership(c, k)
      PROVE  UpgradeTypeOK'
  <2>1. [upgradeAdmin[c] EXCEPT !.public_key = k] \in UpgradeAdmins
    BY <1>2 DEF TransferUpgradeOwnership, UpgradeAdmins
  <2> QED
    BY <1>2, <2>1 DEF TransferUpgradeOwnership
<1>3. ASSUME NEW c \in Contracts, HandOver(c)
      PROVE  UpgradeTypeOK'
  BY <1>3 DEF HandOver
<1>4. ASSUME NEW c \in Contracts, NEW b \in Buffers, ProcessUpgrade(c, b)
      PROVE  UpgradeTypeOK'
  <2>1. upgradeAdmin[c] \in UpgradeAdmins /\ buffer[b] \in BufferAccounts
    BY <1>4 DEF ProcessUpgrade, LoaderUpgrade
  <2>2. [upgradeAdmin[c] EXCEPT !.nonce = NextNonce(@)] \in UpgradeAdmins
    BY <2>1 DEF UpgradeAdmins, NextNonce
  <2>3. Release(CurrentContent(c, b), buffer[b].code, upgradeAdmin[c].public_key) \in Releases
    BY <2>1 DEF Release, CurrentContent, UpgradeContent, Releases, UpgradeAdmins, BufferAccounts
  <2> QED
    BY <1>4, <2>2, <2>3 DEF ProcessUpgrade, LoaderUpgrade
<1>5. CASE Loader
  <2>1. ASSUME NEW b \in Buffers, NEW c \in Contracts, SetBufferAuthority(b, c)
        PROVE  UpgradeTypeOK'
    <3>1. [buffer[b] EXCEPT !.authority = c] \in BufferAccounts
      BY <2>1 DEF SetBufferAuthority, BufferAccounts
    <3> QED
      BY <2>1, <3>1 DEF SetBufferAuthority
  <2>2. ASSUME NEW b \in Buffers, NEW code \in Codes, WriteBuffer(b, code)
        PROVE  UpgradeTypeOK'
    BY <2>2 DEF WriteBuffer, BufferAccounts
  <2> QED
    BY <1>5, <2>1, <2>2 DEF Loader, CloseBuffer
<1>6. ASSUME NEW k \in Trusted, NEW c \in Contracts, NEW b \in Buffers, SignUpgrade(k, c, b)
      PROVE  UpgradeTypeOK'
  <2>1. upgradeAdmin[c] \in UpgradeAdmins /\ buffer[b] \in BufferAccounts
    BY <1>6 DEF SignUpgrade, ReadyToSign
  <2>2. Release(UpgradeContent(upgradeAdmin[c].nonce, c, b), buffer[b].code, k) \in Releases
    BY <2>1 DEF Release, UpgradeContent, Releases, UpgradeAdmins, BufferAccounts
  <2> QED
    BY <1>6, <2>2 DEF SignUpgrade
<1>7. CASE \E k, new \in Trusted : SignRotation(k, new)
  BY <1>7 DEF SignRotation
<1>8. CASE \E signable \in UpgradeMessages : SignAny(signable[1], signable[2])
  BY <1>8 DEF SignAny
<1>9. CASE UNCHANGED upgradeVars
  BY <1>9 DEF upgradeVars
<1> QED
  BY <1>1, <1>2, <1>3, <1>4, <1>5, <1>6, <1>7, <1>8, <1>9
     DEF UpgradeNext, Administer, Deploy, Signers

\* All accounts of the upgrade program and the loader keep their layout.
THEOREM UpgradeTypeCorrect == UpgradeSpec => []UpgradeTypeOK
<1>1. UpgradeInit => UpgradeTypeOK
  BY DEF UpgradeInit, UpgradeTypeOK
<1> QED
  BY <1>1, UpgradeTypeStep, PTL DEF UpgradeSpec

-----------------------------------------------------------------------------
(* What trusted signatures guarantee.  A content signed for a nonce that is   *)
(* still ahead keeps its buffer as the signers saw it.                        *)

RotationsTrusted ==
  \A k \in Trusted, new \in PublicKeys :
    Signed(k, RotationMessage(new)) => new \in Trusted

SignedFrozen ==
  \A k \in Trusted, n \in Nat, c \in Contracts, b \in Buffers :
    Signed(k, UpgradeContent(n, c, b)) =>
      /\ upgradeAdmin[c] # None /\ n <= upgradeAdmin[c].nonce
      /\ n = upgradeAdmin[c].nonce =>
           /\ buffer[b] # None /\ buffer[b].authority = c
           /\ Release(UpgradeContent(n, c, b), buffer[b].code, k) \in reviewed

UpgradeInv ==
  RotationsTrusted /\ SignedFrozen /\ TrustedInControl /\ OnlyReviewedCode

\* Contents and rotations are different messages, each determined by its fields.
LEMMA MessagesDiffer ==
  /\ \A k, n, c, b : RotationMessage(k) # UpgradeContent(n, c, b)
  /\ \A k, j : RotationMessage(k) = RotationMessage(j) => k = j
  /\ \A n, c, b, m, d, e : UpgradeContent(n, c, b) = UpgradeContent(m, d, e)
       => n = m /\ c = d /\ b = e
<1>1. ASSUME NEW k, NEW n, NEW c, NEW b, RotationMessage(k) = UpgradeContent(n, c, b)
      PROVE  FALSE
  <2>1. DOMAIN RotationMessage(k) = {"new_public_key"}
    BY DEF RotationMessage
  <2>2. DOMAIN UpgradeContent(n, c, b) = {"nonce", "contract", "buffer"}
    BY DEF UpgradeContent
  <2> QED
    BY <1>1, <2>1, <2>2
<1> QED
  BY <1>1 DEF RotationMessage, UpgradeContent

\* A trusted key signs only what the two rules allow, and what was signed stays.
LEMMA RotationsStep ==
  UpgradeTypeOK /\ RotationsTrusted /\ [UpgradeNext]_upgradeVars => RotationsTrusted'
<1> SUFFICES ASSUME UpgradeTypeOK, RotationsTrusted, [UpgradeNext]_upgradeVars,
                    NEW k \in Trusted, NEW new \in PublicKeys,
                    <<k, RotationMessage(new)>> \in upgradeSigned'
             PROVE  new \in Trusted
  BY DEF RotationsTrusted, Signed
<1>1. <<k, RotationMessage(new)>> \in upgradeSigned => new \in Trusted
  BY DEF RotationsTrusted, Signed
<1>2. ASSUME NEW j \in Trusted, NEW c \in Contracts, NEW b \in Buffers, SignUpgrade(j, c, b)
      PROVE  new \in Trusted
  BY <1>1, <1>2, MessagesDiffer DEF SignUpgrade
<1>3. ASSUME NEW j \in Trusted, NEW i \in Trusted, SignRotation(j, i)
      PROVE  new \in Trusted
  BY <1>1, <1>3, MessagesDiffer DEF SignRotation
<1>4. ASSUME NEW j, NEW message, SignAny(j, message)
      PROVE  new \in Trusted
  BY <1>1, <1>4 DEF SignAny
<1>5. ASSUME UNCHANGED upgradeSigned
      PROVE  new \in Trusted
  BY <1>1, <1>5
<1>6. CASE Signers
  BY <1>6, <1>2, <1>3, <1>4 DEF Signers
<1>7. CASE ~Signers
  <2>1. UNCHANGED upgradeSigned
    BY <1>7 DEF UpgradeNext, Administer, Deploy, Loader, InitializeUpgradeAdmin,
       TransferUpgradeOwnership, HandOver, ProcessUpgrade, WriteBuffer, CloseBuffer,
       SetBufferAuthority, upgradeVars
  <2> QED
    BY <2>1, <1>5
<1> QED
  BY <1>6, <1>7

\* An admin that controls its program passes only from signers to signers.
LEMMA ControlStep ==
  UpgradeTypeOK /\ RotationsTrusted /\ TrustedInControl /\ [UpgradeNext]_upgradeVars
    => TrustedInControl'
<1> SUFFICES ASSUME UpgradeTypeOK, RotationsTrusted, TrustedInControl,
                    [UpgradeNext]_upgradeVars, NEW c \in handedOver'
             PROVE  upgradeAdmin'[c] # None /\ upgradeAdmin'[c].public_key \in Trusted
  BY DEF TrustedInControl
<1> USE UpgradeAssumption
<1>1. ASSUME NEW d \in Contracts, NEW k \in PublicKeys, InitializeUpgradeAdmin(d, k)
      PROVE  upgradeAdmin'[c] # None /\ upgradeAdmin'[c].public_key \in Trusted
  BY <1>1 DEF InitializeUpgradeAdmin, TrustedInControl, UpgradeTypeOK
<1>2. ASSUME NEW d \in Contracts, NEW k \in PublicKeys, TransferUpgradeOwnership(d, k)
      PROVE  upgradeAdmin'[c] # None /\ upgradeAdmin'[c].public_key \in Trusted
  <2>1. c \in Contracts /\ upgradeAdmin[c] \in UpgradeAdmins
        /\ upgradeAdmin[c].public_key \in Trusted
    BY <1>2 DEF TransferUpgradeOwnership, TrustedInControl, UpgradeTypeOK
  <2>2. CASE d = c
    <3>1. k \in Trusted
      BY <1>2, <2>1, <2>2 DEF TransferUpgradeOwnership, RotationsTrusted
    <3>2. [upgradeAdmin[c] EXCEPT !.public_key = k] \in UpgradeAdmins
          /\ [upgradeAdmin[c] EXCEPT !.public_key = k].public_key = k
      BY <2>1 DEF UpgradeAdmins
    <3> QED
      BY <1>2, <2>1, <2>2, <3>1, <3>2 DEF TransferUpgradeOwnership, UpgradeTypeOK
  <2> QED
    BY <1>2, <2>1, <2>2 DEF TransferUpgradeOwnership, UpgradeTypeOK
<1>3. ASSUME NEW d \in Contracts, HandOver(d)
      PROVE  upgradeAdmin'[c] # None /\ upgradeAdmin'[c].public_key \in Trusted
  BY <1>3 DEF HandOver, TrustedInControl
<1>4. ASSUME NEW d \in Contracts, NEW b \in Buffers, ProcessUpgrade(d, b)
      PROVE  upgradeAdmin'[c] # None /\ upgradeAdmin'[c].public_key \in Trusted
  <2>1. c \in Contracts /\ upgradeAdmin[c] \in UpgradeAdmins
        /\ upgradeAdmin[c].public_key \in Trusted
    BY <1>4 DEF ProcessUpgrade, TrustedInControl, UpgradeTypeOK
  <2>2. [upgradeAdmin[c] EXCEPT !.nonce = NextNonce(@)] \in UpgradeAdmins
        /\ [upgradeAdmin[c] EXCEPT !.nonce = NextNonce(@)].public_key
             = upgradeAdmin[c].public_key
    BY <2>1 DEF UpgradeAdmins, NextNonce
  <2> QED
    BY <1>4, <2>1, <2>2 DEF ProcessUpgrade, UpgradeTypeOK
<1>5. CASE UNCHANGED <<upgradeAdmin, handedOver>>
  BY <1>5 DEF TrustedInControl
<1>6. CASE Loader \/ Signers \/ UNCHANGED upgradeVars
  BY <1>5, <1>6 DEF Loader, Signers, WriteBuffer, CloseBuffer, SetBufferAuthority,
     SignUpgrade, SignRotation, SignAny, upgradeVars
<1> QED
  BY <1>1, <1>2, <1>3, <1>4, <1>6 DEF UpgradeNext, Administer, Deploy

\* A buffer that signers have looked at for the nonce in force stays as it was: its
\* authority is the admin, and the admin's nonce moves on when it is consumed.
LEMMA FrozenStep ==
  UpgradeTypeOK /\ SignedFrozen /\ [UpgradeNext]_upgradeVars => SignedFrozen'
<1> SUFFICES ASSUME UpgradeTypeOK, SignedFrozen, [UpgradeNext]_upgradeVars,
                    NEW k \in Trusted, NEW n \in Nat, NEW c \in Contracts, NEW b \in Buffers,
                    <<k, UpgradeContent(n, c, b)>> \in upgradeSigned'
             PROVE  /\ upgradeAdmin'[c] # None /\ n <= upgradeAdmin'[c].nonce
                    /\ n = upgradeAdmin'[c].nonce =>
                         /\ buffer'[b] # None /\ buffer'[b].authority = c
                         /\ Release(UpgradeContent(n, c, b), buffer'[b].code, k) \in reviewed'
  BY DEF SignedFrozen, Signed, Release, UpgradeContent
<1> DEFINE Kept == /\ upgradeAdmin'[c] # None /\ n <= upgradeAdmin'[c].nonce
                   /\ n = upgradeAdmin'[c].nonce =>
                        /\ buffer'[b] # None /\ buffer'[b].authority = c
                        /\ Release(UpgradeContent(n, c, b), buffer'[b].code, k) \in reviewed'
<1> USE UpgradeAssumption
<1>1. <<k, UpgradeContent(n, c, b)>> \in upgradeSigned =>
        /\ upgradeAdmin[c] # None /\ upgradeAdmin[c] \in UpgradeAdmins
        /\ n <= upgradeAdmin[c].nonce
        /\ n = upgradeAdmin[c].nonce =>
             /\ buffer[b] # None /\ buffer[b].authority = c
             /\ Release(UpgradeContent(n, c, b), buffer[b].code, k) \in reviewed
  BY DEF SignedFrozen, Signed, UpgradeTypeOK
<1>2. ASSUME NEW d \in Contracts, NEW j \in PublicKeys, InitializeUpgradeAdmin(d, j)
      PROVE  Kept
  BY <1>1, <1>2 DEF InitializeUpgradeAdmin, UpgradeTypeOK
<1>3. ASSUME NEW d \in Contracts, NEW j \in PublicKeys, TransferUpgradeOwnership(d, j)
      PROVE  Kept
  <2>1. upgradeAdmin'[c] # None /\ upgradeAdmin'[c].nonce = upgradeAdmin[c].nonce
    <3>1. [upgradeAdmin[c] EXCEPT !.public_key = j] \in UpgradeAdmins
          /\ [upgradeAdmin[c] EXCEPT !.public_key = j].nonce = upgradeAdmin[c].nonce
      BY <1>1, <1>3 DEF TransferUpgradeOwnership, UpgradeAdmins
    <3> QED
      BY <1>1, <1>3, <3>1 DEF TransferUpgradeOwnership, UpgradeTypeOK
  <2> QED
    BY <1>1, <1>3, <2>1 DEF TransferUpgradeOwnership
<1>4. ASSUME NEW d \in Contracts, HandOver(d)
      PROVE  Kept
  BY <1>1, <1>4 DEF HandOver
<1>5. ASSUME NEW d \in Contracts, NEW e \in Buffers, ProcessUpgrade(d, e)
      PROVE  Kept
  <2>1. <<k, UpgradeContent(n, c, b)>> \in upgradeSigned /\ UNCHANGED reviewed
    BY <1>5 DEF ProcessUpgrade
  <2>2. CASE d = c
    <3>1. [upgradeAdmin[c] EXCEPT !.nonce = NextNonce(@)] \in UpgradeAdmins
          /\ [upgradeAdmin[c] EXCEPT !.nonce = NextNonce(@)].nonce = upgradeAdmin[c].nonce + 1
      BY <1>1, <2>1 DEF UpgradeAdmins, NextNonce
    <3>2. upgradeAdmin'[c] # None /\ upgradeAdmin'[c].nonce = upgradeAdmin[c].nonce + 1
      BY <1>5, <2>2, <3>1 DEF ProcessUpgrade, UpgradeTypeOK
    <3>3. n <= upgradeAdmin[c].nonce /\ upgradeAdmin[c].nonce \in Nat
      BY <1>1, <2>1 DEF UpgradeAdmins
    <3> QED
      BY <3>2, <3>3
  <2>3. CASE d # c
    <3>1. upgradeAdmin'[c] = upgradeAdmin[c]
      BY <1>5, <2>3 DEF ProcessUpgrade, UpgradeTypeOK
    <3>2. buffer[e].authority = d /\ buffer' = [buffer EXCEPT ![e] = None]
      BY <1>5 DEF ProcessUpgrade, LoaderUpgrade
    <3>3. n = upgradeAdmin[c].nonce => buffer'[b] = buffer[b]
      BY <1>1, <2>1, <2>3, <3>2 DEF UpgradeTypeOK
    <3> QED
      BY <1>1, <2>1, <3>1, <3>3
  <2> QED
    BY <2>2, <2>3
<1>6. CASE Loader
  <2>1. UNCHANGED <<upgradeAdmin, upgradeSigned, reviewed>>
    BY <1>6 DEF Loader, WriteBuffer, CloseBuffer, SetBufferAuthority
  <2>2. buffer[b] # None /\ buffer[b].authority = c => buffer'[b] = buffer[b]
    <3> SUFFICES ASSUME buffer[b] # None, buffer[b].authority = c
                 PROVE  buffer'[b] = buffer[b]
      OBVIOUS
    <3>1. c # None
      OBVIOUS
    <3> QED
      BY <1>6, <3>1 DEF Loader, WriteBuffer, CloseBuffer, SetBufferAuthority, UpgradeTypeOK
  <2> QED
    BY <1>1, <2>1, <2>2
<1>7. ASSUME NEW j \in Trusted, NEW d \in Contracts, NEW e \in Buffers, SignUpgrade(j, d, e)
      PROVE  Kept
  <2>1. CASE <<k, UpgradeContent(n, c, b)>> \in upgradeSigned
    BY <1>1, <1>7, <2>1 DEF SignUpgrade
  <2>2. CASE <<k, UpgradeContent(n, c, b)>> \notin upgradeSigned
    <3>1. k = j /\ n = upgradeAdmin[d].nonce /\ c = d /\ b = e
      BY <1>7, <2>2, MessagesDiffer DEF SignUpgrade
    <3>2. upgradeAdmin[c] \in UpgradeAdmins
      BY <1>7, <3>1 DEF SignUpgrade, ReadyToSign, UpgradeTypeOK
    <3> QED
      BY <1>7, <3>1, <3>2 DEF SignUpgrade, ReadyToSign, UpgradeAdmins
  <2> QED
    BY <2>1, <2>2
<1>8. ASSUME NEW j \in Trusted, NEW i \in Trusted, SignRotation(j, i)
      PROVE  Kept
  BY <1>1, <1>8, MessagesDiffer DEF SignRotation
<1>9. ASSUME NEW j, NEW message, SignAny(j, message)
      PROVE  Kept
  BY <1>1, <1>9 DEF SignAny
<1>10. CASE UNCHANGED upgradeVars
  BY <1>1, <1>10 DEF upgradeVars
<1> QED
  BY <1>2, <1>3, <1>4, <1>5, <1>6, <1>7, <1>8, <1>9, <1>10
     DEF UpgradeNext, Administer, Deploy, Signers

\* Every upgrade carried out is one of those the signers looked at.
LEMMA ReviewedStep ==
  UpgradeTypeOK /\ UpgradeInv /\ [UpgradeNext]_upgradeVars => OnlyReviewedCode'
<1> SUFFICES ASSUME UpgradeTypeOK, UpgradeInv, [UpgradeNext]_upgradeVars
             PROVE  OnlyReviewedCode'
  OBVIOUS
<1> USE UpgradeAssumption DEF UpgradeInv, OnlyReviewedCode
<1>1. ASSUME NEW c \in Contracts, NEW b \in Buffers, ProcessUpgrade(c, b)
      PROVE  OnlyReviewedCode'
  <2> DEFINE k == upgradeAdmin[c].public_key
  <2>1. upgradeAdmin[c] \in UpgradeAdmins /\ k \in Trusted /\ buffer[b].authority = c
    BY <1>1 DEF ProcessUpgrade, LoaderUpgrade, TrustedInControl, UpgradeTypeOK
  <2>2. upgradeAdmin[c].nonce \in Nat /\ Signed(k, UpgradeContent(upgradeAdmin[c].nonce, c, b))
    BY <1>1, <2>1 DEF ProcessUpgrade, CurrentContent, UpgradeAdmins
  <2>3. Release(UpgradeContent(upgradeAdmin[c].nonce, c, b), buffer[b].code, k) \in reviewed
    BY <2>1, <2>2 DEF SignedFrozen
  <2> QED
    BY <1>1, <2>3 DEF ProcessUpgrade, CurrentContent
<1>2. CASE ~Deploy
  BY <1>2 DEF UpgradeNext, Administer, Loader, Signers, InitializeUpgradeAdmin,
     TransferUpgradeOwnership, HandOver, WriteBuffer, CloseBuffer, SetBufferAuthority,
     SignUpgrade, SignRotation, SignAny, upgradeVars
<1> QED
  BY <1>1, <1>2 DEF Deploy

\* The strengthened invariant holds in every reachable state.
LEMMA UpgradeInvariant == UpgradeSpec => []UpgradeInv
<1>1. UpgradeInit => UpgradeInv
  BY DEF UpgradeInit, UpgradeInv, RotationsTrusted, SignedFrozen, TrustedInControl,
     OnlyReviewedCode, Signed
<1>2. UpgradeTypeOK /\ UpgradeInv /\ [UpgradeNext]_upgradeVars => UpgradeInv'
  BY RotationsStep, ControlStep, FrozenStep, ReviewedStep DEF UpgradeInv
<1> QED
  BY <1>1, <1>2, UpgradeTypeCorrect, PTL DEF UpgradeSpec

\* Whoever creates admins, fills buffers, collects signatures or replaces keys: a
\* program under its upgrade admin runs no code the signers have not looked at.
THEOREM OnlyReviewedCodeRuns == UpgradeSpec => []OnlyReviewedCode
<1> QED
  BY UpgradeInvariant, PTL DEF UpgradeInv

\* Whoever creates admins and submits rotations: a program that was handed over
\* stays under a key of the signers.
THEOREM SignersInControl == UpgradeSpec => []TrustedInControl
<1> QED
  BY UpgradeInvariant, PTL DEF UpgradeInv

-----------------------------------------------------------------------------
(* Nonces.  The upgrades carried out are numbered 0, 1, ... up to the nonce.  *)

\* A release uses the current nonce and moves it on.
LEMMA ReleaseStep ==
  UpgradeTypeOK /\ OneReleasePerNonce /\ [UpgradeNext]_upgradeVars => OneReleasePerNonce'
<1> SUFFICES ASSUME UpgradeTypeOK, OneReleasePerNonce, [UpgradeNext]_upgradeVars
             PROVE  OneReleasePerNonce'
  OBVIOUS
<1> USE UpgradeAssumption
<1> DEFINE Nonces(c) == IF upgradeAdmin[c] = None THEN {} ELSE 0 .. (upgradeAdmin[c].nonce - 1)
           Of(c, releases) == {r \in releases : r.contract = c}
<1>1. ASSUME UNCHANGED deployed, \A c \in Contracts : Nonces(c)' = Nonces(c)
      PROVE  OneReleasePerNonce'
  BY <1>1 DEF OneReleasePerNonce
<1>2. ASSUME NEW d \in Contracts, NEW k \in PublicKeys, InitializeUpgradeAdmin(d, k)
      PROVE  OneReleasePerNonce'
  <2>1. \A c \in Contracts : Nonces(c)' = Nonces(c)
    <3> SUFFICES ASSUME NEW c \in Contracts PROVE Nonces(c)' = Nonces(c)
      OBVIOUS
    <3>1. CASE c = d
      <4>1. upgradeAdmin[c] = None /\ upgradeAdmin'[c] = [public_key |-> k, nonce |-> 0]
        BY <1>2, <3>1 DEF InitializeUpgradeAdmin, UpgradeTypeOK
      <4>2. Nonces(c)' = {}
        BY <4>1
      <4> QED
        BY <4>1, <4>2
    <3>2. CASE c # d
      BY <1>2, <3>2 DEF InitializeUpgradeAdmin, UpgradeTypeOK
    <3> QED
      BY <3>1, <3>2
  <2> QED
    BY <1>1, <1>2, <2>1 DEF InitializeUpgradeAdmin
<1>3. ASSUME NEW d \in Contracts, NEW k \in PublicKeys, TransferUpgradeOwnership(d, k)
      PROVE  OneReleasePerNonce'
  <2>1. \A c \in Contracts : Nonces(c)' = Nonces(c)
    <3> SUFFICES ASSUME NEW c \in Contracts PROVE Nonces(c)' = Nonces(c)
      OBVIOUS
    <3>1. CASE c = d
      <4>1. upgradeAdmin[c] \in UpgradeAdmins /\ upgradeAdmin[c] # None
        BY <1>3, <3>1 DEF TransferUpgradeOwnership, UpgradeTypeOK
      <4>2. [upgradeAdmin[c] EXCEPT !.public_key = k] \in UpgradeAdmins
            /\ [upgradeAdmin[c] EXCEPT !.public_key = k].nonce = upgradeAdmin[c].nonce
        BY <4>1 DEF UpgradeAdmins
      <4> QED
        BY <1>3, <3>1, <4>1, <4>2 DEF TransferUpgradeOwnership, UpgradeTypeOK
    <3>2. CASE c # d
      BY <1>3, <3>2 DEF TransferUpgradeOwnership, UpgradeTypeOK
    <3> QED
      BY <3>1, <3>2
  <2> QED
    BY <1>1, <1>3, <2>1 DEF TransferUpgradeOwnership
<1>4. ASSUME NEW d \in Contracts, NEW b \in Buffers, ProcessUpgrade(d, b)
      PROVE  OneReleasePerNonce'
  <2> DEFINE n == upgradeAdmin[d].nonce
             new == Release(CurrentContent(d, b), buffer[b].code, upgradeAdmin[d].public_key)
  <2>1. upgradeAdmin[d] \in UpgradeAdmins /\ upgradeAdmin[d] # None /\ n \in Nat
    BY <1>4 DEF ProcessUpgrade, UpgradeTypeOK, UpgradeAdmins
  <2>2. new.contract = d /\ new.nonce = n /\ deployed' = deployed \cup {new}
    BY <1>4 DEF ProcessUpgrade, Release, CurrentContent, UpgradeContent
  <2>3. [upgradeAdmin[d] EXCEPT !.nonce = NextNonce(@)] \in UpgradeAdmins
        /\ [upgradeAdmin[d] EXCEPT !.nonce = NextNonce(@)].nonce = n + 1
    BY <2>1 DEF UpgradeAdmins, NextNonce
  <2>4. upgradeAdmin'[d] # None /\ upgradeAdmin'[d].nonce = n + 1
    BY <1>4, <2>3 DEF ProcessUpgrade, UpgradeTypeOK
  <2> HIDE DEF new, n
  <2>5. ASSUME NEW c \in Contracts, c # d
        PROVE  Of(c, deployed') = Of(c, deployed) /\ Nonces(c)' = Nonces(c)
    <3>1. upgradeAdmin'[c] = upgradeAdmin[c]
      BY <1>4, <2>5 DEF ProcessUpgrade, UpgradeTypeOK
    <3> QED
      BY <2>2, <2>5, <3>1
  <2>6. Of(d, deployed') = Of(d, deployed) \cup {new}
    BY <2>2
  <2>7. {r.nonce : r \in Of(d, deployed)} = 0 .. (n - 1)
    BY <2>1 DEF OneReleasePerNonce, n
  <2>8. \A r \in Of(d, deployed) : r.nonce # n
    BY <2>1, <2>7
  <2>9. \A r, q \in Of(d, deployed') : r.nonce = q.nonce => r = q
    <3>1. \A r, q \in Of(d, deployed) : r.nonce = q.nonce => r = q
      BY DEF OneReleasePerNonce
    <3> QED
      BY <2>2, <2>6, <2>8, <3>1
  <2>10. {r.nonce : r \in Of(d, deployed')} = {r.nonce : r \in Of(d, deployed)} \cup {n}
    BY <2>2, <2>6
  <2>11. {r.nonce : r \in Of(d, deployed')} = Nonces(d)'
    <3>1. Nonces(d)' = 0 .. n
      BY <2>1, <2>4
    <3>2. 0 .. n = (0 .. (n - 1)) \cup {n}
      BY <2>1
    <3> QED
      BY <2>7, <2>10, <3>1, <3>2
  <2>12. ASSUME NEW c \in Contracts
         PROVE  /\ \A r, q \in Of(c, deployed') : r.nonce = q.nonce => r = q
                /\ {r.nonce : r \in Of(c, deployed')} = Nonces(c)'
    <3>1. CASE c = d
      BY <2>9, <2>11, <3>1
    <3>2. CASE c # d
      BY <2>5, <3>2 DEF OneReleasePerNonce
    <3> QED
      BY <3>1, <3>2
  <2> QED
    BY <2>12 DEF OneReleasePerNonce
<1>5. CASE UNCHANGED <<upgradeAdmin, deployed>>
  BY <1>1, <1>5
<1>6. CASE (\E c \in Contracts : HandOver(c)) \/ Loader \/ Signers \/ UNCHANGED upgradeVars
  BY <1>5, <1>6 DEF HandOver, Loader, Signers, WriteBuffer, CloseBuffer,
     SetBufferAuthority, SignUpgrade, SignRotation, SignAny, upgradeVars
<1> QED
  BY <1>2, <1>3, <1>4, <1>6 DEF UpgradeNext, Administer, Deploy

\* A signature serves one upgrade, and upgrades are numbered without gaps.
THEOREM NonceUsedOnce == UpgradeSpec => []OneReleasePerNonce
<1>1. UpgradeInit => OneReleasePerNonce
  BY DEF UpgradeInit, OneReleasePerNonce
<1> QED
  BY <1>1, ReleaseStep, UpgradeTypeCorrect, PTL DEF UpgradeSpec

=============================================================================
