\* Upgrades: nonces, rotations and buffers that are filled again.
SPECIFICATION UpgradeFairSpec
CONSTANTS
  c1 = c1
  c2 = c2
  k1 = k1
  k2 = k2
  k3 = k3
  b1 = b1
  b2 = b2
  v1 = v1
  v2 = v2
  None = None
  Contracts = {c1, c2}
  PublicKeys = {k1, k2, k3}
  Trusted = {k1, k2}
  Buffers = {b1, b2}
  Codes = {v1, v2}
  UpgradeMessages <- SignableMessages
  MaxNonce = 2
INVARIANTS
  UpgradeTypeOK
  OnlyReviewedCode
  
  OneReleasePerNonce
PROPERTIES
  SignedUpgradeLands
CHECK_DEADLOCK FALSE
