\* Cyclic and shared objects with dates
CONSTANT
  Graphs <- MCGraphs
  Keys <- MCKeys
  Strings <- MCStrings
SPECIFICATION Spec
INVARIANTS
  RoundTrip
  StableText
CHECK_DEADLOCK FALSE
