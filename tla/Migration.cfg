SPECIFICATION Spec
CONSTANTS
    MaxRows = 2
    MaxCommands = 4
INVARIANTS SchemaKept UpgradesAccepted
CHECK_DEADLOCK FALSE
