SPECIFICATION Spec
CONSTANTS
    label = label
    resize = resize
    render = render
    Threads = {t1, t2}
    Functions = {label, resize, render}
    Params <- MCParams
    Returns <- MCReturns
    Process = {render}
    Cpp = {resize}
    TextLengths = {0, 3}
    BadUtf8 = TRUE
    CallbackArgs <- MCNineBytes
    CallbackReturns = {"Int", "String"}
    MaxCalls = 3
INVARIANTS
    TypeOK
    ArgsArrive
    ReadsLiveBytes
    BuffersFreed
    CallbackArgsArrive
