CONSTANTS
  NoType = NoType
  Names <- MCNames
  Scopes = {"pkg", "func"}
  ScopeOf <- MCScope
  TypeId <- MCId
  Types <- MCTypes
  Programs <- MCPrograms
  Requests <- MCRequests
  Provided = {"X"}
  ProvidedTypes <- MCProvided
  MaxRequests = 2
SPECIFICATION FairSpec
INVARIANTS TypeOK OncePerName StructureFaithful ResultFaithful CleanConversion LoopUndisturbed LoopRefreshesMethods
PROPERTIES ResolvedOnce ConversionEnds
