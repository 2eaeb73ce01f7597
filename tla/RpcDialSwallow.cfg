SPECIFICATION DialSpec
CONSTANTS
  Codecs = {"gob"}
  ClientCodecs = {"gob"}
  ServerCodecs = {"gob"}
  MaxRequests = 2
INVARIANT NothingSwallowed
CHECK_DEADLOCK FALSE
