SPECIFICATION FairSpec
CONSTANTS
    Centime = 1
    SeuilTVA <- MCSeuil
    Requetes = {r1, r2}
    MaxRequetes = 3
    MaxFactures = 1
    Operations = {"creer", "calculer", "statut", "payer", "supprimer"}
    Numeros = {n1}
    Clients = {c1, c2}
    Ventes = {"service"}
    HTs = {160000}
    Remises <- MCSansRemise
    Acomptes = {0, 86337}
    Montants <- MCMontants
    StatutsDemandes = {"envoyee"}
    Pannes = TRUE
    Neant = Neant
INVARIANTS
    SoldeCoherent
    RegleeSoldee
PROPERTIES
    ReponseRendue
CHECK_DEADLOCK FALSE
