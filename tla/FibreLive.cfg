CONSTANTS
    Fibres = {f1, f2}
    Irqs = {i1}
    AtomicLen = 2
    Half = 2
    Calls <- Runs
    Outcomes <- Normally
    Main = Main
    None = None
SPECIFICATION FairSpec
PROPERTY NoLostWakeup
