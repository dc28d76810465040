SPECIFICATION Spec
CONSTANTS
    Writers = {w1, w2, w3}
    LockSeconds = 1
    Tries = 2
    MaxTime = 4
    MaxNumber = 4
SYMMETRY WriterSymmetry
INVARIANTS TypeOK  
 
