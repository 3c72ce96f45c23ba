SPECIFICATION FairSpec
CONSTANTS
  m1 = m1
  m2 = m2
  home1 = home1
  home2 = home2
  Movers = {m1, m2}
  Slots = {1, 2}
  Addrs = {home1, home2, a, b}
  Home <- Homes
  Unset = Unset
  Nobody = Nobody
  Removals = FALSE
  Reuse = FALSE
  Limits <- Scenarios
INVARIANTS RouteInv 
PROPERTIES RouteNeverGoesBack 
