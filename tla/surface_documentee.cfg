SPECIFICATION SpecSurface
INVARIANTS
    OperationsServies
