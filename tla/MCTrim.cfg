CONSTANTS
    Inputs <- Files
SPECIFICATION PrepSpec
INVARIANTS Cleans
