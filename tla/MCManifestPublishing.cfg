SPECIFICATION Spec
CONSTANTS
  Empty = Empty
  Null = Null
  None = None
  Copy = Copy
  Deploys = {blue, green}
  Catalogs <- MCCatalogs
  MaxStrays = 1
INVARIANTS
  Inv
  RepublishIsNoOp
PROPERTIES
  ImplementsContract
