CONSTANTS
  NoType = NoType
  Names <- MCNames
  Scopes = {"pkg", "func"}
  ScopeOf <- MCScope
  TypeId <- ShadowId
  Types <- MCTypes
  Programs <- MCPrograms
  Requests <- MCRequests
  Provided = {"X"}
  ProvidedTypes <- MCProvided
  MaxRequests = 2
SPECIFICATION Spec
INVARIANT StructureFaithful
