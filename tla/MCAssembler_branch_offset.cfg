SPECIFICATION Spec
CONSTANTS
    LexemSet <- MCLexemSet
    Sources <- ForwardBranch
    Options = {TRUE}
INVARIANT BranchOffsetsDecode
