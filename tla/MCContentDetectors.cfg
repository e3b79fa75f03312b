SPECIFICATION Spec
CONSTANTS
  Tools = {read, send}
  NoTool = NoTool
  Unset = Unset
  Blank = Blank
  Word = Word
  Superscript = Superscript
  Environments <- SomeEnvironments
  Texts <- SomeTexts
  Replies <- SomeReplies
INVARIANTS
  FieldsValid
  OnlyOverlapHides
  AllowlistExact
  TypoIsNoCard
CHECK_DEADLOCK FALSE
