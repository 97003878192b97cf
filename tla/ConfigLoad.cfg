\* Two required variables, so that one can be met before the other; five
\* directories, one more than are searched; one or two rules broken at once.
CONSTANTS
  Situations <- MCSituations
  Trimmed <- MCTrimmed
  Folded <- MCFolded
  Split <- MCSplit
  IntegerOf <- MCIntegerOf
  DurationOf <- MCDurationOf
  QueryStrings = {"?a", "b=1"}
  Origins = {"http://a", "*"}
  Rank <- MCRank
SPECIFICATION Spec
INVARIANTS
  TypeOK
  NearestFile
  Precedence
  MissingReport
  OnePassFixes
  StartsAsConfigured
