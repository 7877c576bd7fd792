SPECIFICATION Spec
CONSTANTS
    physics = physics
    cpp_engine = cpp_engine
    java_renderer = java_renderer
    Threads = {t1, t2}
    Modules = {physics, cpp_engine, java_renderer}
    Processes = {java_renderer}
    Scoped = {java_renderer}
    Host = python
    NoName = none
    JavaRenderer = java_renderer
    Functions = {f}
    Topology <- MCTopology
    MaxDepth = 4
INVARIANTS
    TypeOK
    AttributedToCaller
    RunsOverDeclaredLink
    StackBounded
PROPERTY
    PolicySpec
SYMMETRY MCSymmetry
