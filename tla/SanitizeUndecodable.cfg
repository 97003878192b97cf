\* The texts of Sanitize.cfg, the parameter "token=%zz" among them.
CONSTANTS
  Letters <- MCLetters
  Texts <- MCTexts
  Limits = {0, 3}
  Name <- MCName
  Canonical <- MCCanonical
  Broken = {"/%zz", "token=%zz"}
  Rank <- MCRank
  Folded <- MCFolded
  Trimmed <- MCTrimmed
  Builtin = {"token"}
  Configured = {" code", "  "}
  Literals <- MCLiterals
  Columns <- MCColumns
SPECIFICATION Spec
INVARIANT NeverReachesStorage
