SPECIFICATION Spec
CONSTANTS
    Alphabet <- MCAlphabet
    HeapGroups <- MCHeapGroups
    Databases <- CutDatabases
    FileText <- CutFileText
    Texts <- CutTexts
    Meaning <- CutMeaning
PROPERTY ImplementsTokens
