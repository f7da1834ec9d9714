SPECIFICATION Spec
CHECK_DEADLOCK FALSE
CONSTANTS
  gain = gain
  pan = pan
  Attrs = {gain, pan}
  low = low
  high = high
  Values = {low, high}
  Default = low
  Budgets <- MCBudgets
INVARIANTS
  InStep
  SaveTakesItsMoment
  UndoLeadsBack
PROPERTIES
  CallsLeave
