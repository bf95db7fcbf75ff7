SPECIFICATION Spec
CONSTANTS
  Byte = 4
  Functions <- MCArrays
  NElem = 2
  Samples = {"zero", "half", "top"}
  HashSize = 3
INVARIANT ArrayLikeScalar
