\* Every pair of short texts as title and body, under every rule list.
SPECIFICATION FairSpec
CONSTANTS
  Bytes <- MCBytes
  Texts <- MCTexts
  Fields = {"title", "body"}
  RuleLists <- MCRuleLists
  SnippetContext = 1
  MaxRegexLength = 4
  MaxLocs = 2
\* A scan that is over stays as it is.
CHECK_DEADLOCK FALSE
INVARIANTS
  TypeOK
  FindsAll
  SnippetShowsHit
  PanicOnlyOnWidth
PROPERTIES
  ScanEnds
