SPECIFICATION Spec
CONSTANTS
    Centime = 1
    SeuilTVA <- MCSeuil
    Requetes = {r1, r2}
    MaxRequetes = 4
    MaxFactures = 1
    Operations = {"creer", "modifier", "payer", "supprimer"}
    Numeros = {n1}
    Clients = {c1}
    Ventes = {"service"}
    HTs = {160000}
    Remises <- MCSansRemise
    Acomptes = {0, 86337}
    Montants = {40000}
    StatutsDemandes = {}
    Pannes = TRUE
    Neant = Neant
SYMMETRY Symetrie
INVARIANTS
    TypeOK
    PayeCouvert
    AuditFonde
    FacturesExactes
    TablesExactes
    AuditsExacts
CHECK_DEADLOCK FALSE
