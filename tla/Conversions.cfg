SPECIFICATION Spec
CONSTANTS
  Alphabets <- MCAlphabets
  LongTexts <- LongTextsTried
  NestingLimit = 2
  MaxRoom = 32
  Bad = Bad
  HexDigits = {0, 1, 7, 8, 11, 12, 13, 15, Bad}
  Followers <- MCFollowers
  MaxCells = 6
  Key = {"a", "A", "b"}
  Lowered <- MCLowered
  Scalar = {"v", "w"}
  Null = Null
  Base = 4
  Width = 7
  Mantissa = 11
  Uid <- OneManufacturer
CHECK_DEADLOCK FALSE
INVARIANTS ParsesTheLanguage  EncodesTheCharacter CompareIsEquality ComesHome
