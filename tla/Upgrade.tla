------------------------------ MODULE Upgrade ------------------------------
(***************************************************************************)
(* The upgrade program (upgrade/program): who may replace the code of the  *)
(* programs it looks after.                                                *)
(*                                                                         *)
(* One upgrade-admin account per program keeps a threshold public key and  *)
(* a nonce.  An upgrade is signed for a nonce, a program and the ADDRESS   *)
(* of a buffer of the upgradeable loader; the code in the buffer is not    *)
(* part of it.  A rotation is signed for the new key alone.                *)
(*                                                                         *)
(* The loader is external: a buffer has an authority, who alone writes to  *)
(* it, passes it on or closes it, and is gone once its code is deployed; a *)
(* program is upgraded out of a buffer that has the program's own          *)
(* authority.  The signers and the deployer follow the rules of Sign and   *)
(* HandOver; the holders of keys outside Trusted follow none.              *)
(***************************************************************************)
EXTENDS Naturals, FiniteSets

CONSTANTS
  Contracts,   \* upgradeable programs
  PublicKeys,  \* keys an upgrade admin may have
  Trusted,     \* those of the threshold signers
  Buffers,     \* buffer addresses
  Codes,       \* what a buffer may contain
  UpgradeMessages, \* the <<key, message>> pairs that may be signed
  MaxNonce,    \* bound on the upgrades of a program
  None         \* an absent account; as an authority: neither program's admin

VARIABLES
  upgradeAdmin,  \* [Contracts -> UpgradeAdmin data, or None]
  handedOver,    \* the programs whose authority is their upgrade admin
  buffer,        \* [Buffers -> loader account, or None]
  upgradeSigned, \* <<key, message>> pairs signed so far
  reviewed,      \* history: upgrades with the code their signers looked at
  deployed       \* history: upgrades carried out

upgradeVars == <<upgradeAdmin, handedOver, buffer, upgradeSigned, reviewed, deployed>>

UpgradeAdmins  == [public_key : PublicKeys, nonce : Nat]
BufferAccounts == [authority : Contracts \cup {None}, code : Codes]

\* What is hashed: keccak of the new key, or of nonce, program and buffer.
RotationMessage(k) == [new_public_key |-> k]
UpgradeContent(nonce, c, b) == [nonce |-> nonce, contract |-> c, buffer |-> b]

UpgradeContents == [nonce : Nat, contract : Contracts, buffer : Buffers]
Rotations       == [new_public_key : PublicKeys]

\* An upgrade: what its content says, the code, and the key that signed it.
Releases == [nonce : Nat, contract : Contracts, buffer : Buffers, code : Codes,
             key : PublicKeys]

ASSUME UpgradeAssumption ==
  /\ Trusted \subseteq PublicKeys
  /\ None \notin UpgradeAdmins \cup BufferAccounts \cup Contracts
  /\ UpgradeMessages \subseteq PublicKeys \X (UpgradeContents \cup Rotations)
  /\ MaxNonce \in Nat

Signed(k, message) == <<k, message>> \in upgradeSigned

\* Faulty variant: two 32-byte fields swapped.
FaultyRelease(content, code, k) ==
  [nonce |-> content.nonce, contract |-> content.buffer, buffer |-> content.contract,
   code |-> code, key |-> k]

Release(content, code, k) ==
  [nonce |-> content.nonce, contract |-> content.contract, buffer |-> content.buffer,
   code |-> code, key |-> k]

-----------------------------------------------------------------------------
(* Handlers. *)

\* Anybody may create the admin of any program, with any key.
InitializeUpgradeAdmin(c, k) ==
  /\ upgradeAdmin[c] = None
  /\ upgradeAdmin' = [upgradeAdmin EXCEPT ![c] = [public_key |-> k, nonce |-> 0]]
  /\ UNCHANGED <<handedOver, buffer, upgradeSigned, reviewed, deployed>>

\* Faulty variant: no signature is checked.
FaultyTransferUpgradeOwnership(c, k) ==
  /\ upgradeAdmin[c] # None
  /\ upgradeAdmin' = [upgradeAdmin EXCEPT ![c].public_key = k]
  /\ UNCHANGED <<handedOver, buffer, upgradeSigned, reviewed, deployed>>

\* The rotation names neither the admin nor a nonce.
TransferUpgradeOwnership(c, k) ==
  /\ upgradeAdmin[c] # None
  /\ Signed(upgradeAdmin[c].public_key, RotationMessage(k))
  /\ upgradeAdmin' = [upgradeAdmin EXCEPT ![c].public_key = k]
  /\ UNCHANGED <<handedOver, buffer, upgradeSigned, reviewed, deployed>>

\* Faulty variant: the nonce stays.
FaultyNextNonce(nonce) == nonce

NextNonce(nonce) == nonce + 1

\* Faulty variant: the content is built with the nonce after this one.
FaultyCurrentContent(c, b) == UpgradeContent(upgradeAdmin[c].nonce + 1, c, b)

CurrentContent(c, b) == UpgradeContent(upgradeAdmin[c].nonce, c, b)

\* bpf_loader_upgradeable::upgrade signed by the upgrade admin of c.
LoaderUpgrade(c, b) ==
  /\ c \in handedOver
  /\ buffer[b] # None /\ buffer[b].authority = c
  /\ buffer' = [buffer EXCEPT ![b] = None]

ProcessUpgrade(c, b) ==
  LET content == CurrentContent(c, b)
      k == upgradeAdmin[c].public_key
  IN
  /\ upgradeAdmin[c] # None
  /\ upgradeAdmin[c].nonce < MaxNonce
  /\ Signed(k, content)
  /\ LoaderUpgrade(c, b)
  /\ upgradeAdmin' = [upgradeAdmin EXCEPT ![c].nonce = NextNonce(@)]
  /\ deployed' = deployed \cup {Release(content, buffer[b].code, k)}
  /\ UNCHANGED <<handedOver, upgradeSigned, reviewed>>

-----------------------------------------------------------------------------
(* The loader: what its other instructions do to buffers. *)

\* Anybody fills a free address, or a buffer that has not been passed to an admin.
WriteBuffer(b, code) ==
  /\ buffer[b] # None => buffer[b].authority = None
  /\ buffer' = [buffer EXCEPT ![b] = [authority |-> None, code |-> code]]
  /\ UNCHANGED <<upgradeAdmin, handedOver, upgradeSigned, reviewed, deployed>>

CloseBuffer(b) ==
  /\ buffer[b] # None /\ buffer[b].authority = None
  /\ buffer' = [buffer EXCEPT ![b] = None]
  /\ UNCHANGED <<upgradeAdmin, handedOver, upgradeSigned, reviewed, deployed>>

SetBufferAuthority(b, c) ==
  /\ buffer[b] # None /\ buffer[b].authority = None
  /\ buffer' = [buffer EXCEPT ![b].authority = c]
  /\ UNCHANGED <<upgradeAdmin, handedOver, upgradeSigned, reviewed, deployed>>

-----------------------------------------------------------------------------
(* The deployer and the signers. *)

\* The deployer passes a program to its upgrade admin, for good, when it has seen
\* a key of the signers there.
HandOver(c) ==
  /\ c \notin handedOver
  /\ upgradeAdmin[c] # None /\ upgradeAdmin[c].public_key \in Trusted
  /\ handedOver' = handedOver \cup {c}
  /\ UNCHANGED <<upgradeAdmin, buffer, upgradeSigned, reviewed, deployed>>

\* The signers look at a buffer only when nobody can write to it any more, and
\* only for the upgrade that is next.
ReadyToSign(c, b) ==
  /\ upgradeAdmin[c] # None
  /\ buffer[b] # None /\ buffer[b].authority = c

SignUpgrade(k, c, b) ==
  LET content == UpgradeContent(upgradeAdmin[c].nonce, c, b) IN
  /\ k \in Trusted
  /\ ReadyToSign(c, b)
  /\ <<k, content>> \in UpgradeMessages
  /\ upgradeSigned' = upgradeSigned \cup {<<k, content>>}
  /\ reviewed' = reviewed \cup {Release(content, buffer[b].code, k)}
  /\ UNCHANGED <<upgradeAdmin, handedOver, buffer, deployed>>

\* They name keys of their own as successors, for this or another admin.
SignRotation(k, new) ==
  /\ k \in Trusted /\ new \in Trusted
  /\ <<k, RotationMessage(new)>> \in UpgradeMessages
  /\ upgradeSigned' = upgradeSigned \cup {<<k, RotationMessage(new)>>}
  /\ UNCHANGED <<upgradeAdmin, handedOver, buffer, reviewed, deployed>>

\* Other holders of keys sign anything.
SignAny(k, message) ==
  /\ k \notin Trusted
  /\ <<k, message>> \in UpgradeMessages
  /\ upgradeSigned' = upgradeSigned \cup {<<k, message>>}
  /\ UNCHANGED <<upgradeAdmin, handedOver, buffer, reviewed, deployed>>

-----------------------------------------------------------------------------
UpgradeInit ==
  /\ upgradeAdmin = [c \in Contracts |-> None]
  /\ handedOver = {}
  /\ buffer = [b \in Buffers |-> None]
  /\ upgradeSigned = {}
  /\ reviewed = {}
  /\ deployed = {}

Administer ==
  \E c \in Contracts :
    \/ \E k \in PublicKeys : InitializeUpgradeAdmin(c, k) \/ TransferUpgradeOwnership(c, k)
    \/ HandOver(c)

Deploy == \E c \in Contracts, b \in Buffers : ProcessUpgrade(c, b)

Loader ==
  \E b \in Buffers :
    \/ \E code \in Codes : WriteBuffer(b, code)
    \/ CloseBuffer(b)
    \/ \E c \in Contracts : SetBufferAuthority(b, c)

Signers ==
  \/ \E k \in Trusted, c \in Contracts, b \in Buffers : SignUpgrade(k, c, b)
  \/ \E k, new \in Trusted : SignRotation(k, new)
  \/ \E signable \in UpgradeMessages : SignAny(signable[1], signable[2])

UpgradeNext == Administer \/ Deploy \/ Loader \/ Signers

UpgradeSpec == UpgradeInit /\ [][UpgradeNext]_upgradeVars

\* Somebody submits every upgrade that is signed and stays possible.
UpgradeFairSpec ==
  /\ UpgradeSpec
  /\ \A c \in Contracts, b \in Buffers : WF_upgradeVars(ProcessUpgrade(c, b))

-----------------------------------------------------------------------------
(* Properties. *)

\* Every variable holds what its declaration says.
UpgradeTypeOK ==
  /\ upgradeAdmin \in [Contracts -> UpgradeAdmins \cup {None}]
  /\ handedOver \subseteq Contracts
  /\ buffer \in [Buffers -> BufferAccounts \cup {None}]
  /\ upgradeSigned \subseteq PublicKeys \X (UpgradeContents \cup Rotations)
  /\ reviewed \subseteq Releases
  /\ deployed \subseteq Releases

\* A program that was passed to its upgrade admin never runs code the signers have
\* not looked at, for that program and that nonce, although a signature names only
\* an address, buffers change hands and are filled again, signatures stay usable
\* and keys come and go.
OnlyReviewedCode == deployed \subseteq reviewed

\* The key of an admin that controls its program belongs to the signers, whoever
\* created the admin and whatever rotations were collected before.
TrustedInControl ==
  \A c \in handedOver : upgradeAdmin[c] # None /\ upgradeAdmin[c].public_key \in Trusted

\* Upgrades of a program are carried out one per nonce, without gaps: a signature
\* is used up, also when the key that made it returns.
OneReleasePerNonce ==
  \A c \in Contracts :
    LET released == {r \in deployed : r.contract = c} IN
    /\ \A r, q \in released : r.nonce = q.nonce => r = q
    /\ {r.nonce : r \in released} =
         IF upgradeAdmin[c] = None THEN {} ELSE 0 .. (upgradeAdmin[c].nonce - 1)

\* An upgrade the signers have signed for the next nonce, while their key is in
\* force and nothing else happens to the admin.
Pending(c, b) ==
  /\ c \in handedOver
  /\ upgradeAdmin[c].nonce < MaxNonce
  /\ upgradeAdmin[c].public_key \in Trusted
  /\ Signed(upgradeAdmin[c].public_key, UpgradeContent(upgradeAdmin[c].nonce, c, b))

\* A signed upgrade is not in vain: it is carried out, unless another one takes its
\* nonce or the key is replaced.  Nobody can spoil the buffer in between.
SignedUpgradeLands ==
  \A c \in Contracts, b \in Buffers : Pending(c, b) ~> ~Pending(c, b)

=============================================================================
