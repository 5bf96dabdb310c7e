SPECIFICATION Spec
CONSTANTS
  Words <- MCWords
  Keyword <- MCKeyword
  Digits <- MCDigits
  Huge = {"9"}
  Names <- MCNames
  Data <- MCData
  Texts <- MCTexts
  Edited <- MCEdited
  MaxTexts = 4
  MaxFrame = 3
INVARIANTS RowsTyped ParsesItsGrammar FramesOneStatement ClientGetsResult
PROPERTY ImplementsStore
CHECK_DEADLOCK FALSE
