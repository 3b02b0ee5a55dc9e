SPECIFICATION Spec
CONSTANTS
  Techs = {"3gpp", "cdma"}
  Registrations = {"none", "unregistered", "roaming"}
  Methods = {"ppp", "static"}
  HasStats = TRUE
  HasMonitor = TRUE
  HasSync = FALSE
  MaxAttempts = 2
  MaxBytes = 1
  MaxQueries = 1
INVARIANTS StatusIsWhole DisconnectSticks TotalIsCarried AssertsHold DeferredIsDue
PROPERTIES CancelledNeverConnects RoamingNeverConnects PppStays DisconnectEnds
CHECK_DEADLOCK FALSE
