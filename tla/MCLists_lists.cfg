SPECIFICATION FairSpec
CONSTANTS
    Alphabet <- MCAlphabet
    HeapGroups = {}
    Groups <- MCGroups
    LinkCount = 5
    Texts <- MCTexts
INVARIANT TypeOK
INVARIANT LinksOwned
PROPERTY ImplementsSequence
PROPERTY WordsKept
PROPERTY ListsEnd
