SPECIFICATION Spec
CONSTANTS
  Bits <- MCBits
  Records = {"r1", "r2", "r3"}
  Mask <- MCMask
  Unmasked = {"r3"}
  Readback = TRUE
  ProgramWrites = FALSE
  MaxChanges = 4
  MaxFaults = 0
PROPERTY OtherBitsKept
