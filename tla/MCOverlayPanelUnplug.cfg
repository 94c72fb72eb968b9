SPECIFICATION Spec
CONSTANTS
  Outputs = {o1, o2}
  NoOutput = NoOutput
  EglMayFail = FALSE
INVARIANT BoundIsPresent
