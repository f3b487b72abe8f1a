CONSTANTS
  NoType = NoType
  Names <- MCNames
  Scopes = {"pkg", "func"}
  ScopeOf <- MCScope
  TypeId <- MCId
  Types <- MCTypes
  Programs <- MCPrograms
  Requests <- MCRequests
  Provided = {"X"}
  ProvidedTypes <- MCProvided
  MaxRequests = 2
SPECIFICATION Spec
INVARIANT SuccessIsComplete
