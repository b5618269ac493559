SPECIFICATION Spec

INVARIANTS TypeOK NoSyscallDenied DbPopNeverEmpty ReadReturnsWritesInOrder NoAckedWriteLost
PROPERTIES ReadEventuallyAnswered
