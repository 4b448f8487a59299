SPECIFICATION Spec
CONSTANTS
    SpxBytes = 2
    MaxLen = 3
    Messages <- SomeMessages
    MaxFlips = 1
CONSTRAINT FewFlipped
INVARIANTS
    OpenedAsSigned
    NothingOnFailure
PROPERTIES
    OpensIffIntact
