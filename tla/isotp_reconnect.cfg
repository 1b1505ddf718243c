SPECIFICATION Spec
CONSTANTS
  CanIds = {0, 1}
  StructValues <- MCStructValues
  SepTimes = {0, 1}
  Dangling = Dangling
  MaxConnects = 2
INVARIANT OptionsInForce
