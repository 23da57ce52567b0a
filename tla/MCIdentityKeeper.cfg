\* Keeper calls with the addresses clients get from AccAddress.String().
CONSTANTS
  a1 = a1
  a2 = a2
  c1 = c1
  c2 = c2
  Accounts = {a1, a2}
  Forms = {"lower"}
  InvalidText = InvalidText
  Empty = Empty
  NoField = NoField
  Secrets = {c1, c2}
  Times = {1700000000, 1700000001}
  CreatorTexts <- MCCreatorTexts
  QueryTexts <- MCQueryTexts
  AddressBytes <- MCAddressBytes
  HexBytes <- MCHexBytes

SPECIFICATION Spec

INVARIANT EncodingRoundTrips
INVARIANT TypeOK
PROPERTY ImplementsRegistry
