CONSTANTS
  Eof = Eof
  Exit = Exit
  MaxSessions = 2
  Bounds <- MCBounds
  Pty = {2}
SPECIFICATION FairSpec
 
PROPERTY SessionsEnd
CHECK_DEADLOCK FALSE
