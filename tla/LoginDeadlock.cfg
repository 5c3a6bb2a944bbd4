SPECIFICATION FairSpec
CONSTANTS
  a = a
  b = b
  Sessions = {1, 2}
  Players <- TwoAccounts
  NoPlayer = NoPlayer
  Tunnels = Tunnels
  Admin = Admin
  Routes <- OneWay
  MaxPushes = 1
  MaxUpdates = 1
CHECK_DEADLOCK FALSE
PROPERTY LoginAnswered
