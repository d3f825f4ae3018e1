CONSTANTS
  Owner = {o1, o2}
  UMax = 3
  LastOffset = 2
SPECIFICATION Spec
INVARIANTS TypeOK Normal
PROPERTY ImplementsCover
