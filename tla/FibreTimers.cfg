CONSTANTS
    Fibres = {f1, f2, f3}
    Irqs = {}
    AtomicLen = 1
    Half = 3
    Calls <- Timed
    Outcomes <- Returned
    Main = Main
    None = None
SPECIFICATION Spec
INVARIANT TimersInOrder
SYMMETRY FibreSymmetry
