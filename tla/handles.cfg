SPECIFICATION Spec
CONSTANTS
    t1 = t1
    t2 = t2
    nonce1 = nonce1
    nonce2 = nonce2
    nonce3 = nonce3
    session1 = session1
    None = None
    Thread <- MCThread
    Obj <- MCObj
    Type <- MCType
    TypeOf <- MCTypeOf
    MaxHandles = 2
    MaxId = 5
SYMMETRY MCSymmetry
INVARIANTS TypeOK OneOwner InUseIsHeld GuardsReserve Bounded
PROPERTIES NoResurrection
