SPECIFICATION Spec
CONSTANTS
    Channels = {c1, c2, c3}
    Fds = {fd1, fd2}
    NoChannel = NoChannel
    NoFd = NoFd
    Asserts = FALSE
SYMMETRY Symmetry
INVARIANT WatchedIffInterested
