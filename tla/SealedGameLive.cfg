SPECIFICATION LiveSpec
CONSTANTS
  Power = {Austria, Turkey}
  Province = {1}
  hold = hold
  Order = {hold}
  Refused = Refused
  NoOrder = NoOrder
  Lists <- MCShortLists
  NoEnvelope = NoEnvelope
  Unplayed = Unplayed
  EndPhase = 3
  maxAutoPhases = 1
PROPERTY ResolvesByItself
