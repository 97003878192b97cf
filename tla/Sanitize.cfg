\* Every text of a path, up to three parameters and a fragment; every literal
\* of up to five letters.  Three letters hold a path, the "?" and a parameter.
CONSTANTS
  Letters <- MCLetters
  Texts <- MCTexts
  Limits = {0, 3}
  Name <- MCName
  Canonical <- MCCanonical
  Broken = {"/%zz", "token=%zz"}
  Rank <- MCRank
  Folded <- MCFolded
  Trimmed <- MCTrimmed
  Builtin = {"token"}
  Configured = {" code", "  "}
  Literals <- MCLiterals
  Columns <- MCColumns
SPECIFICATION Spec
INVARIANTS
  TypeOK
  NothingSensitiveLeft
  
  VerbatimUnlessStripped
  OneSpelling
  FitsMeansStorable
