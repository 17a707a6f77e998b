SPECIFICATION FairSpec
CONSTANTS
    Requetes = {r1, r2}
    MaxRequetes = 4
    Users = {u1}
    MotsDePasse = {m1}
    Initial = m0
    Operations = {"code", "verifier", "reset"}
    OtpMaxAttempts = 2
    OtpExpiry = 1
    OtpWindow = 3
    Pannes = TRUE
    Neant = Neant
INVARIANTS
    TypeOK
    TauxBorne
    ChangementParCode
PROPERTIES
    TauxLibere
