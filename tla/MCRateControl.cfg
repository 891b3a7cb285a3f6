CONSTANTS
  Links = {1000, 6000}
  Sessions = {0, 3}
  Rtts = {1, 8, 30, 60, 400, 1000, 3000}
  Gaps = {0, 1, 40}
  Updates = 5
SPECIFICATION RateSpec
PROPERTY ErpcRateReacts
CHECK_DEADLOCK FALSE
