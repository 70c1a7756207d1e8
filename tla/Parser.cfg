SPECIFICATION Spec

CONSTANTS
  Symbols <- SomeSymbols
  Words <- SomeWords
  Numbers <- SomeNumbers
  BadRegexes <- SomeBadRegexes
  Texts <- SomeTexts

INVARIANTS
  TypeOK
  SplitRight
  AllOrNothing
  PolicyRead

CHECK_DEADLOCK FALSE
