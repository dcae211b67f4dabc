\* Two UEs contend for three blocks.
SPECIFICATION Spec
CONSTANTS
  Ue <- MCUe
  Bands = 3
  BytesPerBlock <- MCBytesPerBlock
  MinRacBytes = 6
  NumProc = 2
  MaxHarqRtx = 1
  EvaluationTtis = 2
  RaRespWindow = 4
  RetxBsrTimer = 6
  MaxRacTryouts = 2
  Backoffs = {1, 3}
  SduSizes = {5, 12}
  MaxSdus = 2
  MaxCollisions = 2
  MaxLosses = 2
INVARIANTS
  OneAttempt
PROPERTIES
  EventuallyServed
  GrantsCease
