SPECIFICATION Spec
CONSTANTS
    MaxId = 8
    Body <- MCBody
    SessionIds = {7, 8}
    MaxParts = 2
    MaxDispatch = 3
    None = None
INVARIANTS AnswersInOrder AnswersMirrorSession NoFrameTwice IncreasingNotRejected
 
