CONSTANTS
  otpFieldsCount = 4
  Insertions = {1, 4}
  shouldAllowIntermediateEditing = FALSE
SPECIFICATION Spec
PROPERTIES
  EnteredWhenFull
