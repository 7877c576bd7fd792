SPECIFICATION FairSpec
CONSTANTS
    t1 = t1
    t2 = t2
    physics = physics
    cpp_engine = cpp_engine
    java_renderer = java_renderer
    Absent = Absent
    Threads = {t1, t2}
    Modules = {physics, cpp_engine, java_renderer}
    Process = {java_renderer}
    Programs <- MCPrograms
    Directories = {"root", "scripts", "elsewhere"}
    SearchPaths = {FALSE, TRUE}
    MaxLoads = 3
    MaxBuilds = 2
INVARIANTS TypeOK ProxyExact CallsMatch NothingStale
PROPERTY LoadsEnd
