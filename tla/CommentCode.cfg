SPECIFICATION TextSpec
CONSTANTS
  AintBits <- MCAintBits
  ByteBits <- MCByteBits
  Labels <- MCLabels
  Numerals <- MCNumerals
  NoDigits = NoDigits
  Keywords <- MCKeywords
  Memory <- MCMemory
  ValueBits = 8
  Code <- MCCode
  Exprs <- MCExprs
  BytesMax = 4
  LabChars <- MCLabChars
  DefDirs <- MCDefDirs
  Subwords = TRUE
  LINES <- MCLINES
  MACROS <- MCMACROS
  MaxIter = 3
  LINEMAX = 9
  MaxDefs = 2
  MaxDepth = 2
  MaxComment = 1
CHECK_DEADLOCK FALSE
INVARIANT CommentKeepsCode
