\* The commission admin pays a fee to itself.
SPECIFICATION TxSpec
CONSTANTS
  s1 = s1
  s2 = s2
  k1 = k1
  u1 = u1
  prog = prog
  other = other
  x = x
  o1 = o1
  p1 = p1
  None = None
  Sol = Sol
  Seeds = {s1, s2}
  PublicKeys = {k1}
  Programs = {prog, other}
  Receivers = {u1}
  Origins = {o1}
  TokenSeeds = {x}
  ForeignMints = {}
  Characters = {p1}
  Names <- Texts
  Symbols <- Texts
  Uris <- Texts
  Decimals = {0}
  Amounts = {1, 2}
  DepositAmounts = {1}
  Messages <- OneWithdrawal
  MintArguments <- OneMinting
  MetadataUpdates = {}
  PriorInstructions = {}
  Genesis <- NoGenesis
  GenesisLamports = 5
  RentMin = 3
  U64Max = 2
  Charger = prog
  ForeignCalls <- LikeCharges
  MaxInstructions = 3
  WithdrawAmounts = {1}
  InitialLists <- Lists
  FeeMessages <- FeeWithdrawals
  MaxAdminSize = 200
SYMMETRY TwoAdmins
INVARIANT NoFreeDeposit
CHECK_DEADLOCK FALSE
