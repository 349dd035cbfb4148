SPECIFICATION Spec
CONSTANTS
  dir = dir
  file = file
  s1 = s1
  s2 = s2
  Key = {dir, file}
  Under <- MCUnder
  Session = {s1, s2}
  NoSession = NoSession
  NoCas = NoCas
  MaxIndex = 5
  Run = {r1, r2}
  CommandLine <- MCCommandLine
INVARIANTS TypeOK RetryIsSafe SuccessIsApplied RefusalIsFinal NoGaps LockIsKept
PROPERTIES RunsExit
CHECK_DEADLOCK FALSE
