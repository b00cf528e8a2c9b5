SPECIFICATION Spec
CONSTANTS
    Threads = {t1, t2, t3}
    Types = {message}
    Handlers = {h1, h2}
    NoHandler = NoHandler
    NoThread = NoThread
    MaximumSimultaniousThreads = 2
INVARIANTS
    WriterExcludesReaders
    PermitsAccounted
PROPERTIES
    Linearizable
    MutexHolderServed
