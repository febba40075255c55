SPECIFICATION Spec
CONSTANTS
  Offset <- MCOffset
  Logs <- MCLogs
  MaxWritten = 3
INVARIANTS
  TypeOK
  LogInItsHourFile
  LogWithinHalfHourOfFile
