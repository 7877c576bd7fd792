SPECIFICATION Spec
CONSTANTS
    physics = physics
    cpp_engine = second_process
    java_renderer = java_renderer
    Threads = {t1}
    Modules = {physics, second_process, java_renderer}
    Processes = {java_renderer, second_process}
    Scoped = {java_renderer, second_process}
    Host = python
    NoName = none
    JavaRenderer = java_renderer
    Functions = {f}
    Topology <- MCTopology
    MaxDepth = 3
INVARIANT
    AttributedToCaller
