SPECIFICATION Spec
CONSTANTS
    Requetes = {r1, r2}
    MaxRequetes = 4
    Users = {u1}
    MotsDePasse = {m1}
    Initial = m0
    Operations = {"code"}
    OtpMaxAttempts = 1
    OtpExpiry = 1
    OtpWindow = 3
    Pannes = FALSE
    Neant = Neant
SYMMETRY Symetrie
INVARIANTS
    TauxRespecte
