SPECIFICATION FairSpec
CONSTANTS
    Alphabet <- MCAlphabet
    HeapGroups <- MCHeapGroups
    Databases <- MCDatabases
    FileText <- MCFileText
    Texts <- MCTexts
    Meaning <- MCMeaning
INVARIANT TypeOK
INVARIANT DatabaseRead
INVARIANT NoChoice
INVARIANT NotCutShort
INVARIANT EndJudged
PROPERTY LexemsAreWords
PROPERTY ImplementsTokens
PROPERTY MnemonicsWhole
PROPERTY LexerEnds
