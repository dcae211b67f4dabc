\* Two UEs with two processes each that compete for the counter of
\* retransmissions, and a handover of one of them; fair scheduling.
SPECIFICATION FairSpec
CONSTANTS
  Ue = {u1, u2}
  u1 = u1
  u2 = u2
  NumProc = 2
  MaxHarqRtx = 1
  MaxPdus = 2
  MaxHandovers = 1
INVARIANTS
  NoError
  EndsAgree
  WaitsForSomething
  RtxCounted
PROPERTIES
  ServiceSpec
  EventuallySettled
