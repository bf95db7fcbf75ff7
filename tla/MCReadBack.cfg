SPECIFICATION FairSpec
CONSTANTS
  Bits <- MCBits
  Records = {"r1", "r3"}
  Mask <- MCMask
  Unmasked = {"r3"}
  Readback = TRUE
  ProgramWrites = TRUE
  MaxChanges = 3
  MaxFaults = 1
INVARIANT TypeOK
PROPERTIES SampledBitsKept OwnBitsWritten NoJumpBack 
           LeftBehindByWritesOnly ShownSettles
