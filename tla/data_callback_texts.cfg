SPECIFICATION Spec
CONSTANTS
    label = label
    resize = resize
    render = render
    Threads = {t1, t2}
    Functions = {label, resize, render}
    Params <- MCParams
    Returns <- MCReturns
    Process = {render}
    Cpp = {resize}
    TextLengths = {1, 3}
    BadUtf8 = FALSE
    CallbackArgs <- MCTexts
    CallbackReturns = {"Int"}
    MaxCalls = 3
INVARIANT
    CallbackArgsArrive
