SPECIFICATION DialSpec
CONSTANTS
  Codecs = {"gob", "json", "xml"}
  ClientCodecs = {"gob", "json"}
  ServerCodecs = {"gob"}
  MaxRequests = 3
INVARIANTS  FromTheFirst
PROPERTIES DialEnds
CHECK_DEADLOCK FALSE
