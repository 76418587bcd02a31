SPECIFICATION Spec
CONSTANTS
    Crypts = {m1, m2}
    Contexts = {c1}
    Requests = {k1}
    Callbacks = {"hook"}
    MaxDepth = 4
    None = None
SYMMETRY Symmetry
INVARIANT IInv
PROPERTIES RefinesNativeHandles NothingComesBack AbandonedForGood
