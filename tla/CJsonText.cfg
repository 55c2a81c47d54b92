SPECIFICATION MCSpec
CONSTANTS
  Items <- MCItems
  Pieces <- MCPieces
  Sizes <- MCSizes
  DefaultSize = 4
  IntMax = 24
  Digits = 2
  Alphabet = {"[", "]", "{", "}", ",", ":", "s", "b", "q", "1", "-", "n", "x", " ", "BOM"}
  MaxText = 3
  Brackets = {"[", "]", ",", "1"}
  MaxList = 6
  ParseTexts <- MCParseTexts
  NestingLimit = 2
  NumberLimit = 63
  NoError = NoError
  LiteralParts = 2
  StringBytes = 3
  TornBytes = 6
  StringTexts <- MCLiterals
  TextParts = 3
  MinifyTexts <- MCMinifyTexts
INVARIANTS WritesFit OneBuffer PrintsTheItem FiveMoreSuffice ParsesTheText BlocksHaveOwners DecodesTheLiteral PrintedIsReadBack MinifiesTheText StaysInBounds
