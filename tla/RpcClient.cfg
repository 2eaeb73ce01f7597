CONSTANTS
  Calls = {plain, odd, bad}
  Cancellable = {plain}
  BadArgs = {bad}
  BadReply = {odd}
  NoCall = NoCall
  Receiver = Receiver
SPECIFICATION Spec
INVARIANTS TypeOK ReplyMatch NoCallStranded NilMeansReplied
 
\* All calls may have returned.
CHECK_DEADLOCK FALSE
