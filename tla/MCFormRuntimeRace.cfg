SPECIFICATION Spec
CONSTANTS
  None = None
  Values = {v1, v2}
  Invalid = Invalid
  left = left
  right = right
  detail = detail
  v1 = v1
  v2 = v2
  name = name
  details = details
  Fields <- MCFields
  Details = details
  Controls <- MCControls
  Bound <- MCBound
  Checked = {details}
  EditsRaceWhole = TRUE
  MaxRevision = 2
  MaxEdits = 2
  MaxDrops = 1
INVARIANTS
  QuietControlShowsTheForm
SYMMETRY Symmetry
CHECK_DEADLOCK FALSE
