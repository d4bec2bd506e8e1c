SPECIFICATION FairSpec
CONSTANTS
  Max = 2
  T = 2
  MaxChars = 3
PROPERTY ToldReads
