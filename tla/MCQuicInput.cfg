CONSTANTS
    MaxOffset = 11
    BodyLen <- MCBodyLen
SPECIFICATION Spec
INVARIANTS
    InductiveInvariant
    MessagesInOrder
    FragmentIsTheRest
    NoMessageCrossesLevels
    NoCompleteMessageHeld
PROPERTY ImplementsMessageStream
