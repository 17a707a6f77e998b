SPECIFICATION SpecLivree
CONSTANTS
    Requetes = {r1}
    MaxRequetes = 4
    Users = {u1}
    MotsDePasse = {m1, m2}
    Initial = m0
    Operations = {"code", "verifier", "reset"}
    OtpMaxAttempts = 2
    OtpExpiry = 1
    OtpWindow = 3
    DureeAnnoncee = 0
    Pannes = TRUE
    Neant = Neant
    Configurations <- Environnements
INVARIANTS
    CodeUneFois
    CodeParvenu
    FournisseurStable
PROPERTIES
    CodeGarde
    VerificationDurable
    MotDePasseChoisi
