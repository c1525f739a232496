SPECIFICATION Spec
CONSTANTS
    Texts <- MCTexts
    MaxLost = 2
PROPERTIES
    ImplementsLink
    Recovers
