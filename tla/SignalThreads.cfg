SPECIFICATION ThreadsFairSpec
CONSTANTS
  Programs = {"sig_handler", "sigwait1", "sigwait2", "fifo_server1"}
  Plain = 2
  Sent = 3
INVARIANTS
  SurvivesMasked
PROPERTIES
  IntServed
CHECK_DEADLOCK FALSE
