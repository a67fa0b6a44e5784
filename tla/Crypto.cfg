SPECIFICATION CryptoSpec
CONSTANTS
  Users <- MCUsers
  KeyCoins <- MCKeyCoins
  EncCoins <- MCEncCoins
  Messages <- MCMessages
  Width = 4
  Permute <- MCPermute
  Rate <- MCRate
  Digest <- MCDigest
  Pieces <- MCPieces
  MaxMessage = 4
  MaxOut = 7
  Threads = {t1, t2}
  Need = 3
  MaxChunk = 2
  MaxInterrupts = 1
INVARIANTS
  SampledFromStreams
  PermutationIsKeccak
  OwnerDecrypts
  OtherRefused
  DecapsulationRejects
  CoinsFilled
PROPERTY
  ImplementsHash
CHECK_DEADLOCK FALSE
