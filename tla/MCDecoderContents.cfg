SPECIFICATION PDSpec
CONSTANTS
  Inputs <- MCTextInputs
  Configs <- MCOneElement
  MaxDepth = 3
  MaxAttempts = 0
  SaveAfterPeek = FALSE
INVARIANT AcceptsTheSame
CHECK_DEADLOCK FALSE
