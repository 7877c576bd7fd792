SPECIFICATION FairSpec
CONSTANTS
    p = p
    f = f
    g = g
    Threads = {t1, t2}
    Modules = {p, q}
    Functions = {f, g}
    ExportLists <- MCTables
    NoThread = nothread
    NoCtx = noctx
    WriterPreference = FALSE
    MaxDepth = 2
    MaxRegistrations = 2
INVARIANTS
    TypeOK
    LockDiscipline
    WireMatchesCall
    ContextIsOwn
PROPERTIES
    CallsEnd
    RegistrationsEnd
