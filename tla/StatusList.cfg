SPECIFICATION Spec
CONSTANTS
  U64 = 32
  Widths = {1, 2, 4}
  Capacities = {4, 12, 16}
  Indices = {0, 3, 4, 15}
  Values <- MCValues
  Bitstrings <- MCBitstrings
INVARIANT TypeOK
PROPERTY SlotsSpec
PROPERTY WritesAreMasked
