SPECIFICATION Spec
CONSTANTS
  Header <- MCHeader
  EncodedMarker <- MCMarker
  PlainMarkers <- MCPlain
  TokenLen = 2
  HexLen = 2
  User <- MCUser
  TokensOf <- MCTokensOf
  Packet <- MCPacket
  Unknown <- MCUnknown
  Nobody = Nobody
  Guest = Guest

INVARIANTS
  GameSeesUser
PROPERTIES
  AuthGate UidIsTheClients
