SPECIFICATION Spec
CONSTANTS
  Requests = {1, 2}
  Prompt <- MCPrompt
  MaxModelLen = 6
  BlockSize = 6
  Vocab = {0, 1}
  NumSpec = 2
  Model <- MCModel
  Configs <- MCUneven
INVARIANT AcceptsLongestPrefix
CHECK_DEADLOCK FALSE
