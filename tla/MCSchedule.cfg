SPECIFICATION Spec
CONSTANT N = 3
INVARIANTS
    TypeOK
    IInv
    ResultAcyclic
    OnlyLoopedCut
    ComputesResolveDeps
PROPERTY Terminates
