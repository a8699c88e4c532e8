SPECIFICATION Spec
CONSTANTS
    Boxes = {}
    Kept = {}
    Closing = {"edit"}
    Typed = {"title"}
    Fixed = {"priority"}
    Listed = {}
    Values = {1, 2}
    Timed = {}
    Start = 2
    Minutes = {1}
    MaxChanges = 1
    MaxSends = 2
    MaxTroubles = 1
PROPERTY StaleEditsRefused
CHECK_DEADLOCK FALSE
