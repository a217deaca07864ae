SPECIFICATION Spec
CONSTANTS
  a = a  b = b  x = x  y = y
  NoHash = NoHash
  Hash = {a, b, x, y}
  Item <- MCItem
  Host <- MCHost
  HostPick <- MCHostPick
  Universal <- MCUniversal
  MaxTimeline = 3
INVARIANTS EditTakesEffect OneChosen ShownIsUsable ChangesHonest
CHECK_DEADLOCK FALSE
