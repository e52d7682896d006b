SPECIFICATION Spec
CONSTANTS
  Capital <- MCCapital
  Digits = {"1"}
  Code <- MCCode
  Keywords <- MCKeywords
  Protected <- MCProtected
  Alphabet <- MCAlphabet
  MaxLen <- MCMaxLen
  Widths <- MCWidths
CHECK_DEADLOCK FALSE
INVARIANTS CommentsKeepWords NamesAreSplit GoNamesAgree ParametersStay GoPackagesAreNamed PresenceIsRight
