CONSTANTS
  Namespaces = {"apps", "maas"}
  Reserved = {}
  CAs = {"ca1"}
  AppNs = "apps"
  MonNs = "maas"
  OptionalNs = {"maas"}
  Platform = "SelfManagedRhoai"
  Groups <- MCGroups
  MaxEdits <- MCEdits
  Modes <- MCModes
SPECIFICATION Spec
INVARIANT ServicesSettled
CHECK_DEADLOCK FALSE
PROPERTY CAImplemented
