\* Both peers may be done, or wait for somebody.
CONSTANT MaxChunks = 2
SPECIFICATION FairSpec
INVARIANTS ViewerNeverTypes CipherFirst NoShellAfterEnd TerminalsRestored
PROPERTY PeerIsNotified
CHECK_DEADLOCK FALSE
