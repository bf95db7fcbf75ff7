SPECIFICATION FairSpec
CONSTANTS
  Byte = 2
  Functions <- MCFunctions
  NElem = 5
  Samples = {"zero", "half", "top"}
  HashSize = 3
INVARIANTS TypeOK ArrayShowsTheHash ScalarsShowTheVariable WriteReadsBack
PROPERTY RecordCatchesUp
