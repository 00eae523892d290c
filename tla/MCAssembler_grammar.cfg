SPECIFICATION Spec
CONSTANTS
    LexemSet <- MCLexemSet
    Sources <- RegisterForInteger
    Options = {TRUE}
PROPERTY GrammarFollowed
