SPECIFICATION Spec
CONSTANTS
  ConfigWords = 9
INVARIANTS
  AngleIsOwn
