SPECIFICATION StoreSteadySpec
CONSTANTS
  Power = {Austria, Turkey}
  Province = {1, 2}
  hold = hold
  Order = {hold}
  Refused = Refused
  NoOrder = NoOrder
  Lists <- MCLists
  NoEnvelope = NoEnvelope
  Unplayed = Unplayed
  EndPhase = 2
  maxAutoPhases = 1
SYMMETRY Seats
PROPERTY KeepsPromise
