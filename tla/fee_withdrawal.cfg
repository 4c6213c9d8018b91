\* A fee withdrawal of an amount nobody signed.
SPECIFICATION CommissionSpec
CONSTANTS
  s1 = s1
  k1 = k1
  k2 = k2
  u1 = u1
  m = m
  None = None
  Sol = Sol
  Seeds = {s1}
  PublicKeys = {k1, k2}
  Receivers = {u1}
  FeeMints = {m}
  WithdrawAmounts = {1, 2}
  InitialLists <- Lists
  FeeMessages <- ListMessages
  Funds <- Purse
  MaxAdminSize = 128
PROPERTIES
  WithdrawAmountSigned
