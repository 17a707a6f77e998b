-------------------------- MODULE MCAdministration --------------------------
(***************************************************************************)
(* The parts around invoices, entries and codes: accounts, partners, the    *)
(* settings, the environment a process is started in, the Map that stands   *)
(* for Redis, and what a request meets before its handler.  These parts     *)
(* share no variable, so that their steps commute, and the instance follows *)
(* one of them at a time while the others are at rest.                      *)
(***************************************************************************)
EXTENDS Comptes, Partenaires, Reglages, Chiffrement, RedisRepli, Surface,
        TLC

CONSTANTS e1, e2, n1, n2

DeuxEmails == {e1, e2}
DeuxNoms == {n1, n2}

\* Bodies of updates of an account.
Modifiees == {<<>>, [motDePasse |-> "donne"]}
             \cup [{"role"} -> Roles] \cup [{"email"} -> DeuxEmails]

\* Files with two rows and with a row without a name.
Importes == {<<n1, n2>>, <<n2, n1>>, <<n1, Neant>>, <<n2, Neant>>}

\* The environment of .env.example, and others that differ in one or two settings.
Exemple ==
    [cle |-> "k1", secret |-> "s1", sel |-> Absente,
     algorithme |-> "aes-256-gcm", iterations |-> 100000, keyLength |-> 32,
     saltLength |-> 64, ivLength |-> 16, tagLength |-> 16]
Derive == [Exemple EXCEPT !.cle = Absente]
Lances ==
    {Exemple, Derive,
     [Exemple EXCEPT !.secret = "s2"], [Derive EXCEPT !.secret = "s2"],
     [Derive EXCEPT !.sel = "x"], [Derive EXCEPT !.secret = Absente],
     [Exemple EXCEPT !.cle = "k2"], [Exemple EXCEPT !.cle = "malformee"],
     [Exemple EXCEPT !.iterations = 1], [Exemple EXCEPT !.keyLength = 16],
     [Exemple EXCEPT !.keyLength = 16, !.algorithme = "aes-128-gcm"],
     [Exemple EXCEPT !.saltLength = 0], [Exemple EXCEPT !.saltLength = 32],
     [Exemple EXCEPT !.ivLength = 0], [Exemple EXCEPT !.ivLength = 12],
     [Exemple EXCEPT !.tagLength = 12]}

Init ==
    /\ InitComptes /\ InitPartenaires /\ InitReglages /\ InitChiffrement
    /\ InitRepli /\ InitSurface

\* Parts that have not moved yet.
ServicesAuRepos ==
    /\ recuesComptes = 0 /\ recuesPartenaires = 0 /\ recuesReglages = 0
ProcessusAuRepos == InitChiffrement /\ InitRepli /\ InitSurface

varsServices == <<varsComptes, varsPartenaires, varsReglages>>
varsProcessus == <<varsChiffrement, varsRepli, varsSurface>>

Next ==
    \/ /\ recuesPartenaires = 0 /\ recuesReglages = 0 /\ ProcessusAuRepos
       /\ NextComptes
       /\ UNCHANGED <<varsPartenaires, varsReglages, varsProcessus>>
    \/ /\ recuesComptes = 0 /\ recuesReglages = 0 /\ ProcessusAuRepos
       /\ NextPartenaires
       /\ UNCHANGED <<varsComptes, varsReglages, varsProcessus>>
    \/ /\ recuesComptes = 0 /\ recuesPartenaires = 0 /\ ProcessusAuRepos
       /\ NextReglages
       /\ UNCHANGED <<varsComptes, varsPartenaires, varsProcessus>>
    \/ /\ ServicesAuRepos /\ InitRepli /\ InitSurface
       /\ NextChiffrement
       /\ UNCHANGED <<varsServices, varsRepli, varsSurface>>
    \/ /\ ServicesAuRepos /\ InitChiffrement /\ InitSurface
       /\ NextRepli
       /\ UNCHANGED <<varsServices, varsChiffrement, varsSurface>>
    \/ /\ ServicesAuRepos /\ InitChiffrement /\ InitRepli
       /\ NextSurface
       /\ UNCHANGED <<varsServices, varsChiffrement, varsRepli>>

Spec == Init /\ [][Next]_<<varsServices, varsProcessus>>

Symetrie == Permutations(Requetes) \cup Permutations(DeuxEmails)
            \cup Permutations(DeuxNoms)
=============================================================================
