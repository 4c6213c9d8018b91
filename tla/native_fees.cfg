\* Native fees that cannot be withdrawn.
SPECIFICATION CommissionFairSpec
CONSTANTS
  s1 = s1
  k1 = k1
  k2 = k2
  u1 = u1
  m = m
  None = None
  Sol = Sol
  Seeds = {s1}
  PublicKeys = {k1, k2}
  Receivers = {u1}
  FeeMints = {m}
  WithdrawAmounts = {1, 2}
  InitialLists <- Lists
  FeeMessages <- NativeMessages
  Funds <- Purse
  MaxAdminSize = 128
PROPERTIES
  NativeFeesWithdrawable
