\* Up to three overrides inside each other and two policies of other middlewares,
\* which do not report where the chassis enforces.
SPECIFICATION Spec
CONSTANTS
  AppLayers <- MCLayers
  RouteLayers <- MCLayers
  ForeignPolicies <- MCForeignPolicies
  MaxOverrides = 3
  MaxForeign = 2
  Mixed = FALSE
INVARIANTS LayersAddUp FramingAgrees
PROPERTIES ForeignKept
CHECK_DEADLOCK FALSE
