CONSTANTS
  otpFieldsCount = 4
  Insertions = {1}
  shouldAllowIntermediateEditing = FALSE
SPECIFICATION Spec
INVARIANTS
  EditsLastFilled
