SPECIFICATION Spec
CONSTANTS
  W = 2
  C = 2
  R = 3
  Mod = 16
  Pkt = 6
  LenMod = 10
  Follows = 0
  Requests <- MCRequests
  Apps = {0, 1}
  Inputs <- MCInputs
  Regs <- MCRegs
  Crcs <- MCCrcs
INVARIANTS InputsKept RepliesTrue
