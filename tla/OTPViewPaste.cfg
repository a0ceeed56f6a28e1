CONSTANTS
  otpFieldsCount = 4
  Insertions = {1, 2, 4}
  shouldAllowIntermediateEditing = FALSE
SPECIFICATION Spec
INVARIANTS
  TypeOK
  OneGap
  FocusAtGap
PROPERTIES
  ImplementsOtpEntry
  EnteredWhenTyped
