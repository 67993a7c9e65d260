CONSTANTS
    Pids = {1, 2}
    Root = 1
    Threads = {t1, t2}
    Count = 2
    Kinds = {0, 1, 3}
    MaxDepth = 2
SPECIFICATION EitherSpec
CHECK_DEADLOCK FALSE
INVARIANTS IndInv InitOnce SleeperHasWaker BridgeInv OneResolver ForwardResolved MutexTyped
PROPERTIES OnceSpec ReturnAfterInit DoneIsFinal CallReturnsInYoungest StatusFinal OutermostSucceeds CallEnds
