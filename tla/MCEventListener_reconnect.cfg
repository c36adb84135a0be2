\* Two contracts whose streams fail, reopen and are stopped.
SPECIFICATION ListenerFairSpec
CONSTANTS
  Subscribed <- Two
  MaxAttempts = 2
  MaxErrors = 3
\* After stop, and with every contract given up, nothing is left to do.
CHECK_DEADLOCK FALSE
INVARIANTS StreamsAreOwed Attended
PROPERTIES Settles
