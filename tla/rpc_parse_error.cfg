SPECIFICATION Spec
CONSTANTS
    Messages <- Hostile
    MaxMessages = 2
CHECK_DEADLOCK FALSE
INVARIANTS ParseErrorsAreForInvalidJson
