SPECIFICATION FairSpec
CONSTANTS
  N = 2
  PageSize = 2
  Half = 1
  Blocks = 2
  SizeMod = 4
  Bits = {1}
  Addrs <- MCAddrs
  Datas <- MCDatas
INVARIANTS TypeOK OkMeansDone
PROPERTY CallsEnd
