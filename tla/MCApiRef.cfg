\* Every way four structs refer to each other, in twelve registries of bodies, and every
\* router of up to two routes against four registries of paths.
SPECIFICATION FairCoverSpec
CONSTANTS
  Type <- Types
  Kind <- KindOf
  Elem <- ElemOf
  Name <- NameOf
  Anonymous = ""
  NoType = "none"
  Fields <- AllFields
  Registries <- AllRegistries
  Constrained <- Regex
  Starred <- Stars
  Servers <- Api
  Ignored <- Ignore
  Applications <- MCApplications
INVARIANTS RefsResolve ComponentsAreOwn ReportsDrift
PROPERTIES Terminates
CHECK_DEADLOCK FALSE
