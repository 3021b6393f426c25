SPECIFICATION Spec
CONSTANTS
  Service = "service"
  Manual = {"manual"}
  Clients = {"shell", "root"}
  Others = {"root"}
  Backlog = 1
  None = "none"
INVARIANTS TypeOK Reachable
PROPERTIES KeepsPromise CallsReturn Stops Recovers
