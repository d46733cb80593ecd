\* Expected to fail: one override of an enforcing app, and a policy another middleware reports.
SPECIFICATION Spec
CONSTANTS
  AppLayers <- MCLayers
  RouteLayers <- MCLayers
  ForeignPolicies <- MCForeignPolicies
  MaxOverrides = 1
  MaxForeign = 1
  Mixed = TRUE
PROPERTIES ForeignKept
CHECK_DEADLOCK FALSE
