SPECIFICATION Spec
CONSTANTS
  Games <- SomeGames
  MaxMainline = 2
  MaxVar = 2
  PerRound = 2
INVARIANTS
  Conserved
  RoundTrip
  NamesTellMovesApart
  RefusedOnlyWhenFull
  BoardSound
PROPERTIES
  DigitsReadBack
CHECK_DEADLOCK FALSE
