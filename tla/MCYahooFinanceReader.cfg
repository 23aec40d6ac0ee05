SPECIFICATION Spec
CONSTANTS
  Clients = {"desk", "test"}
  SIZE = 3
INVARIANTS TypeOK WholeUnlessSpoilt
PROPERTIES CacheKept
