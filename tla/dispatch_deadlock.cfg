SPECIFICATION FairSpec
CONSTANTS
    p = p
    f = f
    g = g
    Threads = {t1, t2}
    Modules = {p, q}
    Functions = {f}
    ExportLists <- MCOne
    NoThread = nothread
    NoCtx = noctx
    WriterPreference = TRUE
    MaxDepth = 2
    MaxRegistrations = 2
PROPERTY
    CallsEnd
CHECK_DEADLOCK FALSE
