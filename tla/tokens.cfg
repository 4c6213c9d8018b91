\* Tokens: two admins under one key, a wrapped mint and one of a collection.
SPECIFICATION Spec
CONSTANTS
  s1 = s1
  s2 = s2
  k1 = k1
  k2 = k2
  prog = prog
  u1 = u1
  u2 = u2
  o1 = o1
  o2 = o2
  x = x
  n = n
  coll = coll
  p1 = p1
  p2 = p2
  p3 = p3
  None = None
  Sol = Sol
  Seeds = {s1, s2}
  PublicKeys = {k1}
  Programs = {prog}
  Receivers = {u1}
  Origins = {o1, o2, x}
  TokenSeeds = {x}
  ForeignMints = {n, coll}
  Characters <- Chars
  Names <- SomeNames
  Symbols <- SomeSymbols
  Uris <- SomeUris
  Decimals = {0, 9}
  Amounts = {1, 2}
  Messages <- TokenMessages
  MintArguments <- Mintings
  MetadataUpdates <- TokenUpdates
  PriorInstructions <- TokenPriors
  Genesis <- TokenGenesis
  GenesisLamports = 4
  RentMin = 2
  U64Max = 2
INVARIANTS
  TypeOK
  ClaimOnce
  BooksBalance
  SupplyConserved
  WrappedMetaSigned
  AddressExclusive
PROPERTIES
  ImplementsClaims
  MintsOnlyShortfall
CHECK_DEADLOCK FALSE
