SPECIFICATION Spec
CONSTANTS
    Requetes = {r1, r2}
    MaxRequetes = 3
    Pannes = TRUE
    Neant = Neant
    e1 = e1
    e2 = e2
    Emails <- DeuxEmails
    Telephones = {t1}
    MaxComptes = 2
    Modifications <- Modifiees
    n1 = n1
    n2 = n2
    Noms <- DeuxNoms
    Fichiers <- Importes
    MaxPartenaires = 3
    Registres = {"Client", "Fournisseur"}
    Colonnes = {c1, c2}
    Valeurs = {v1}
    Defaut = d
    Environnements <- Lances
    Textes = {"123456", "654321"}
    Absente = Absente
    ClesRepli = {k1, k2}
    ValeursRepli = {1, 2}
    DureesRepli = {1, 2}
    MaxTemps = 4
    MaxCompteur = 3
    Nul = Nul
SYMMETRY Symetrie
INVARIANTS
    RelectureFidele
    MotDePasseHache
    DecisionRespectee
    JetonFonde
    ReponseInscription
    TraceSuppression
    ImportSeul
    BorneReglages
    ReglageConserve
    RolesRespectes
PROPERTIES
    CommeRedis
CHECK_DEADLOCK FALSE
