SPECIFICATION Spec
CONSTANTS
  x = x
  y = y
  unk = unk
  Actors = {x, y}
  UnknownActor = unk
  ActionNames <- MCActionNames
  MaxActions = 2
  MaxAuths = 2
INVARIANTS
  FeeIsSumOfActionFees
  CheckAcceptsSingleSigner
