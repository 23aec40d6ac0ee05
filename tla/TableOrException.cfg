SPECIFICATION Spec
CONSTANTS
  Clients = {"test"}
  SIZE = 3
INVARIANTS TableOrException
