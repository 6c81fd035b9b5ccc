SPECIFICATION DeliverySpec
CONSTANTS
  NumEvents = 2
  Workers = {w1, w2}
  MaxAttempts = 3
  MaxFaults = 2
PROPERTIES
  EndsStay
  EvidenceEnds
CHECK_DEADLOCK FALSE
