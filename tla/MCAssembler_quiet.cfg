SPECIFICATION Spec
CONSTANTS
    LexemSet <- MCLexemSet
    Sources <- ForwardBranch
    Options = {TRUE, FALSE}
INVARIANT OffsetsComputed
