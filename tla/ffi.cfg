SPECIFICATION Spec
CONSTANTS
    t1 = t1
    t2 = t2
    s1 = s1
    s2 = s2
    a1 = a1
    a2 = a2
    a3 = a3
    b1 = b1
    None = None
    Thread <- MCThread
    Obj <- MCObj
    Type <- MCType
    TypeOf <- MCTypeOf
    MaxHandles = 2
    MaxId = 3
SYMMETRY MCSymmetry
VIEW MCView
INVARIANTS NoLeak RefusalIsHarmless InUseWhileRunning
PROPERTIES SecretsOnce
