\* One recording: is a picture made of it?
SPECIFICATION Spec
CONSTANTS
    Tasks = {t1}
    Workers = {w1}
    LoopThread = loop
    NoTask = NoTask
INVARIANTS
    PictureTaken
CHECK_DEADLOCK FALSE
