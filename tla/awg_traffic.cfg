CONSTANTS
  Node = {"nl", "de"}
  Row <- MCRow
  WebNode = {"nl"}
  Busy = {"nl"}
  Others = 4
  Quota = 1
  MaxBytes = 2
  MaxAwgEvents = 2
SPECIFICATION AwgSpec
INVARIANTS
  NeverOvercharged
PROPERTIES
  
  ExhaustedPeerGoes
CHECK_DEADLOCK FALSE
