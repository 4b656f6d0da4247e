CONSTANTS
    Calls = {c1, c2}
    Ids = {1, 2}
    Threads = 2
SPECIFICATION Spec
INVARIANT OwnReply
