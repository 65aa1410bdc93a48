SPECIFICATION Spec
CONSTANTS
  Client = {c1, c2}
  Layers <- MCLayers
  MaxCrashes = 1
  MaxEdits = 1
INVARIANTS
  ServesOnlyComplete
PROPERTIES
  AcceptedIsAnswered
  ComesUpAgain
