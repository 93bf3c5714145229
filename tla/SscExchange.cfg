SPECIFICATION Spec
CONSTANTS
    NULL = NULL
    Sent <- MCSent
    Numbers <- MCNumbers
    Texts <- MCTexts
    Parts <- MCParts
    UnknownEntries <- MCUnknownEntries
    PackPart <- MCPackPart
    UnpackPart <- MCUnpackPart
    Structs <- MCStructs
    Depth <- MCDepth
    SeenPart <- MCSeenPart
    CompletePart <- MCCompletePart
    MaxRepeated = 2
    MaxSkew = 2
INVARIANTS
    TypeOK
    NeverAborts
    RefusedForCause
    ReceivedIsSent
    NeverMistaken
