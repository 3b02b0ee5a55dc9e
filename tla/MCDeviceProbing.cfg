CONSTANTS
  Ports = {"tty", "net"}
  NetPorts = {"net"}
  Generic = "generic"
  None = "no"
  NoIcera = {}
  OnlyIcera = {}
  Filtered = {}
  Mute = FALSE
  Late = {"vendor"}
  Refusing = {"generic"}
  MaxInputs = 3
CONSTANT Plugins <- MCPlugins
CONSTANT Hint <- MCHint
SPECIFICATION Spec
CHECK_DEADLOCK FALSE
INVARIANTS CheckAssertsHold CheckGoesOn GoneIsBare
