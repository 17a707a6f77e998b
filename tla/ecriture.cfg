SPECIFICATION Spec
CONSTANTS
    Requetes = {r1, r2}
    MaxRequetes = 3
    Saisies <- MCSaisies
    Fichiers <- MCFichiers
    Rapports = {"ventes", "achats", "performance"}
    Neant = Neant
SYMMETRY Symetrie
INVARIANTS
    TypeOK
    ImportEnPrefixe
    ImportAnnonce
    EtatsAccordes
    RapportEntreDeuxEtats
CHECK_DEADLOCK FALSE
