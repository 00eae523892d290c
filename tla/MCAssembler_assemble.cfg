SPECIFICATION FairSpec
CONSTANTS
    LexemSet <- MCLexemSet
    Sources <- MCSources
    Options = {TRUE, FALSE}
INVARIANT TypeOK
INVARIANT AddressesInStep
INVARIANT JumpsReachTheirLabel
INVARIANT ImmediatesDecode
INVARIANT WordsDecode
PROPERTY Terminates
