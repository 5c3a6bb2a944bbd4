SPECIFICATION Spec
CONSTANTS
  a = a
  b = b
  Sessions = {1, 2}
  Players <- OneAccount
  NoPlayer = NoPlayer
  Tunnels = Tunnels
  Admin = Admin
  Routes <- Loop
  MaxPushes = 0
  MaxUpdates = 0
CHECK_DEADLOCK FALSE
INVARIANT LoggedInIsBound
