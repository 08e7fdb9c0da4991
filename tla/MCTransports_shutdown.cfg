\* Two transports, three requests; the process really ends.
SPECIFICATION ProcessSpec
CONSTANTS
  https = https
  grpc = grpc
  r1 = r1
  r2 = r2
  r3 = r3
  Names = {https, grpc}
  Exchanges = {r1, r2, r3}
  Via <- TwoAndOne
INVARIANTS ProcessTypeOK HealthyTransportsDrain EveryFailureReported
PROPERTIES ProcessEnds
CHECK_DEADLOCK FALSE
