SPECIFICATION Spec
CONSTANTS
  Content = {d1, d2, d3}
  Missing = Missing
  Torn = Torn
  Nothing = Nothing
  MaxDamage = 1
INVARIANTS NoSilentReset
PROPERTIES ImplementsAtomicFile
