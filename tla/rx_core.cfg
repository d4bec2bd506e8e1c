SPECIFICATION FairSpec
CONSTANTS
  Max = 3
  T = 2
  MaxChars = 8
INVARIANTS TypeOK ReadsAnnounced
PROPERTIES AnnouncedWhole BufferEmpties
