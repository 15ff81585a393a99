SPECIFICATION Spec
CONSTANTS
  KEYBOARD_BUFFER_SIZE = 3
  COUNT = 2
  LAST_COL = 1
  LAST_ROW = 1
  BYTE = 3
  QUEUE = 2
  Codes = {"letter", "enter", "backspace", "shift", "shift_release"}
  Texts <- McTexts
INVARIANT
  ScancodesProcessed
