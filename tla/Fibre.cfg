CONSTANTS
    Fibres = {f1, f2}
    Irqs = {i1}
    AtomicLen = 2
    Half = 2
    Calls <- AllCalls
    Outcomes <- Returned
    Main = Main
    None = None
SPECIFICATION Spec
INVARIANTS TypeOK OneLink DrainDiscipline WakeupSound
PROPERTIES RestartFromTop NeverOvertaken
SYMMETRY FibreSymmetry
