SPECIFICATION SpecSurface
INVARIANTS
    CorpsTransmis
