\* Native claims: two admins, two keys, two origins.
SPECIFICATION Spec
CONSTANTS
  s1 = s1
  s2 = s2
  k1 = k1
  k2 = k2
  prog = prog
  u1 = u1
  u2 = u2
  o1 = o1
  o2 = o2
  x = x
  n = n
  coll = coll
  p1 = p1
  p2 = p2
  p3 = p3
  None = None
  Sol = Sol
  Seeds = {s1, s2}
  PublicKeys = {k1, k2}
  Programs = {prog}
  Receivers = {u1, u2}
  Origins = {o1, o2}
  TokenSeeds = {}
  ForeignMints = {}
  Characters <- Chars
  Names <- OneName
  Symbols <- OneSymbol
  Uris <- OneUri
  Decimals = {0}
  Amounts = {0, 1, 2, 3}
  Messages <- NativeMessages
  MintArguments <- NoMint
  MetadataUpdates = {}
  PriorInstructions <- NativePriors
  Genesis <- NoGenesis
  GenesisLamports = 8
  RentMin = 2
  U64Max = 3
INVARIANTS
  TypeOK
  ClaimOnce
  BooksBalance
  SupplyConserved
PROPERTIES
  ImplementsClaims
CHECK_DEADLOCK FALSE
