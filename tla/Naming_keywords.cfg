CONSTANTS
  Chars <- MCChars
  Emoji <- MCEmoji
  Letters <- MCLetters
  Ideographs <- MCIdeographs
  Capital <- MCCapital
  Unknown <- MCUnknown
  Builtin <- MCBuiltin
SPECIFICATION MCSpec
INVARIANT KeywordsAlwaysSeePastEmoji
