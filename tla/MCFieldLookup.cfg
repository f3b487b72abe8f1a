CONSTANTS
  T1 = T1
  T2 = T2
  T3 = T3
  T4 = T4
  Types = {T1, T2, T3, T4}
  Root = T1
  Matching = Matching
  Plain = Plain
  Programs <- MCPrograms
SPECIFICATION FairSpec
INVARIANTS CountsPlaces LanguageRule Justified
PROPERTY Ends
CHECK_DEADLOCK FALSE
