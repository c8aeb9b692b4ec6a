SPECIFICATION SenderSpec
CONSTANTS
  Sources = {f1, f2}
  PartCount = 1
  Keys = {k1}
  Nothing = Nothing
INVARIANT AssembledIsRecovered
CHECK_DEADLOCK FALSE
