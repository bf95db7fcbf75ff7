SPECIFICATION Spec
CONSTANTS
  Byte = 4
  Functions <- MCWide
  NElem = 2
  Samples = {"zero", "half", "top"}
  HashSize = 3
INVARIANT IntrShowsTheValue
