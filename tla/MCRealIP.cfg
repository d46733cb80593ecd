\* Every setting, every chain of up to two seeded hops, every way of up to three hops.
SPECIFICATION Spec
CONSTANTS
  Visitors = {"v1", "v2"}
  Neighbours = {"n"}
  Proxies = {"p1", "p2"}
  Edges = {"e1", "e2"}
  Published = {"e1"}
  Literals <- MCLiterals
  Settings <- MCSettings
  MaxSeeded = 2
  MaxProxies = 2
INVARIANTS SeedsAreInert NeverABystander VisitorFound
CHECK_DEADLOCK FALSE
