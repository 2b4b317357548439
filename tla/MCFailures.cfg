SPECIFICATION Spec
CONSTANTS
  Texts <- MCTexts
  Amounts <- MCAmounts
  NotANumber = NotANumber
  None = None
INVARIANT FailuresAsDocumented
