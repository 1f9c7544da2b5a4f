SPECIFICATION Spec
CONSTANTS
  a = a
  b = b
  c = c
  g1 = g1
  g2 = g2
  mine = mine
  theirs = theirs
  Players = {a, b, c}
  Games = {g1, g2}
  GameOf <- PlaysIn
  Resting <- Byes
  FirstSquads <- Squads
  Teams = {mine, theirs}
  Free = free
  Pages = {p1}
  LastWeek = 2
  MaxPlayed = 1
  MaxScore = 1
  MaxEvents = 1
INVARIANTS
  TotalsAreReal
  StatusNeverGoesBack
PROPERTIES
  OffersSettle
  ScoresCatchUp
CHECK_DEADLOCK FALSE
