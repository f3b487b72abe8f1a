CONSTANTS
  NoType = NoType
  Names <- SelfNames
  Scopes = {"pkg"}
  ScopeOf <- SelfScope
  TypeId <- SelfId
  Types <- SelfTypes
  Programs <- SelfPrograms
  Requests <- SelfTypes
  Provided = {}
  ProvidedTypes = {}
  MaxRequests = 2
SPECIFICATION Spec
INVARIANT NoSelfConversion
