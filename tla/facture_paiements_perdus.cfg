SPECIFICATION Spec
CONSTANTS
    Centime = 1
    SeuilTVA <- MCSeuil
    Requetes = {r1, r2}
    MaxRequetes = 3
    MaxFactures = 1
    Operations = {"creer", "payer"}
    Numeros = {n1}
    Clients = {c1}
    Ventes = {"service"}
    HTs = {160000}
    Remises <- MCSansRemise
    Acomptes = {0}
    Montants = {40000}
    StatutsDemandes = {}
    Pannes = FALSE
    Neant = Neant
SYMMETRY Symetrie
INVARIANTS
    PaiementsComptes
CHECK_DEADLOCK FALSE
