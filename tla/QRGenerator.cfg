SPECIFICATION QRSpec
CONSTANTS
  MaxLen = 768
  Sources <- MCSources
  Fresh <- MCFresh
  Requests <- MCRequests
  Filled <- MCFilled
  Borders <- MCBorders
  Versions <- MCVersions
  Places <- MCPlaces
  Seeds = {5, 11}
  Junk <- MCJunk
CHECK_DEADLOCK FALSE
INVARIANTS
  RoundTrip
  SameSymbol
  WritesInBuffer
  PictureReads
  TestsPass
PROPERTIES
  LibrariesKeepPromise
