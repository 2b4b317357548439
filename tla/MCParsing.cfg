SPECIFICATION Spec
CONSTANTS
  Texts <- MCTexts
  Amounts <- MCAmounts
  NotANumber = NotANumber
  None = None
INVARIANTS
  TypeOK
  AmountIsTheOneWritten
  ReadAmountsFit
  SignsAreRefused
  ForeignIsTerminal
  PlainIsRead
