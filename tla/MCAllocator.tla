----------------------------- MODULE MCAllocator -----------------------------
EXTENDS Allocator

CONSTANTS p1, p2

MCOneProc == {p1}
MCTwoProcs == {p1, p2}
MCOneHandle == {0}
MCTwoHandles == {0, 1}
==============================================================================
