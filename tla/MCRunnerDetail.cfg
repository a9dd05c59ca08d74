SPECIFICATION Spec
CONSTANTS
  Hosts = {host}
  Loading = Loading
  Unknown = Unknown
  Names = {alone, scaled}
  ScaleSets = {scaled}
  OrgLevel = {}
  Fields = {"pat", "labels"}
  NoRow = NoRow
  NoData = NoData
  NoForm = NoForm
  Empty = Empty
  MaxRequests = 1
INVARIANTS
  ValuesAreOwn
  BlockedByOwn
  SignedOutIsNoticed
