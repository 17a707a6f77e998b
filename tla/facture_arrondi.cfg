SPECIFICATION Spec
CONSTANTS
    Centime = 80000
    SeuilTVA <- MCSeuil
    HTs <- MCHTs
    Remises <- MCRemises
    Acomptes <- MCAcomptes
    Montants <- MCMontants
    MaxVersions = 3
    Neant = Neant
INVARIANTS
    TypeOK
    TotalDeReference
    ColonnesCoherentes
PROPERTIES
    ReglementArrondi
CHECK_DEADLOCK FALSE
