CONSTANTS
    Upload = {1, 2, 3}
    None = 0
    MaxVideo = 2
    Wrap = 8
    Worlds <- LateAnswers
SPECIFICATION Spec
PROPERTY FinalAfterUploads
CHECK_DEADLOCK FALSE
