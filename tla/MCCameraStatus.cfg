CONSTANT MaxOpens = 4
SPECIFICATION Spec
INVARIANT OpenedOrOpening
