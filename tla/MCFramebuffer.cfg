SPECIFICATION Spec
CONSTANTS
    Cpus = {c0, c1}
    Cpu0 = c0
    NPages = 2
    Growth = {TRUE}
    MaxResizes = 1
INVARIANTS
    Cpu0UpdatesNoticed
    NoFreedFramebuffer
