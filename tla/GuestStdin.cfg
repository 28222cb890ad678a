CONSTANTS
    talker = talker
    other = other
    Clients <- MCClients
    MaxTexts <- MCMaxTexts
SPECIFICATION FairInputSpec
INVARIANTS
    InputInOrder
PROPERTIES
    EndIsSeen
\* A guest stops, and clients fall silent.
CHECK_DEADLOCK FALSE
