-------------------------------- MODULE Otp --------------------------------
(***************************************************************************)
(* AuthService: one-time codes for account verification and password reset. *)
(*                                                                          *)
(* Concurrent requests on the OTP store (RedisService) and on the users     *)
(* table.  As in Facture, one action per awaited call, with the computation *)
(* up to the next one; a failing call abandons the request.                 *)
(*                                                                          *)
(* Codes are numbered in the order they are generated: two draws of six     *)
(* random digits are taken to differ.                                       *)
(***************************************************************************)
EXTENDS MagasinTTL, FiniteSets, Sequences

CONSTANTS
    Requetes,       \* slots for requests in progress
    MaxRequetes,    \* bound on the requests ever received
    Users,          \* the rows of the users table
    MotsDePasse,    \* passwords chosen at a reset
    Initial,        \* password of a user who never reset it
    Operations,     \* handlers called in this instance
    OtpMaxAttempts, \* OTP_MAX_ATTEMPTS
    OtpExpiry,      \* OTP_EXPIRY, in units of time
    OtpWindow,      \* OTP_RATE_LIMIT_WINDOW, in units of time
    Pannes,         \* whether awaited calls may fail
    Neant

ASSUME OtpAssumption ==
    /\ OtpMaxAttempts \in Nat \ {0} /\ MaxRequetes \in Nat
    /\ OtpExpiry \in Nat \ {0} /\ OtpWindow \in Nat \ {0}
ASSUME RequetesAssumption == IsFiniteSet(Requetes)

Objets == {"verification", "password_reset"}
Codes == 1..MaxRequetes

\* Variant: one key per user, whatever the code is for.
StorageKeyCommune(objet, u) == <<"verification", u>>

StorageKey(objet, u) == <<objet, u>>
RateLimitKey(u) == <<"rate_limit", u>>
Cles == (Objets \cup {"rate_limit"}) \X Users

VARIABLES
    magasin,   \* OTP store: key -> code or number of requests
    users,     \* table users
    audits,    \* table audit_logs: <<action, user>>
    req,       \* the requests in progress
    recues,    \* number of requests received
    emis,      \* history: what each code was generated for, and for whom
    usages,    \* history: how often each code changed a user
    sansFenetre \* history: users for whom a request failed before it had set
               \* the deadline of the counter

vars == <<magasin, users, audits, req, recues, emis, usages, sansFenetre>>

Comptes == [motDePasse : MotsDePasse \cup {Initial}, isVerified : BOOLEAN]
Repos == [pc |-> "repos", op |-> "code", u |-> Neant, objet |-> "verification",
          code |-> 0, motDePasse |-> Initial, lu |-> Neant]

EtapesCode == {"lire_taux", "ecrire_code", "incrementer", "expirer", "envoyer"}
EtapesUsage == {"lire_user", "lire_code", "hacher", "supprimer", "sauver"}

Init ==
    /\ magasin = [k \in Cles |-> Absent]
    /\ users = [u \in Users |-> [motDePasse |-> Initial, isVerified |-> FALSE]]
    /\ audits = {}
    /\ req = [r \in Requetes |-> Repos]
    /\ recues = 0
    /\ emis = <<>>
    /\ usages = [c \in Codes |-> 0]
    /\ sansFenetre = {}
-----------------------------------------------------------------------------
A(r, pc) == req[r].pc = pc
Aller(r, pc) == req' = [req EXCEPT ![r].pc = pc]
Finir(r) == req' = [req EXCEPT ![r] = Repos]
Cle(r) == StorageKey(req[r].objet, req[r].u)

\* envoyerCodeVerification and demanderResetMdp: requestCode.
DemanderCode(r) ==
    \E u \in Users, objet \in Objets :
        /\ "code" \in Operations
        /\ req' = [req EXCEPT ![r] = [Repos EXCEPT !.pc = "lire_taux",
                                                   !.u = u, !.objet = objet]]

\* verifierCode and resetMdp, with any code generated so far or a wrong one.
UtiliserCode(r) ==
    \E u \in Users, op \in {"verifier", "reset"} \cap Operations,
       code \in 0..Len(emis), motDePasse \in MotsDePasse :
        req' = [req EXCEPT ![r] =
                  [pc |-> "lire_user", op |-> op, u |-> u,
                   objet |-> IF op = "verifier" THEN "verification"
                                                ELSE "password_reset",
                   code |-> code, lu |-> Neant,
                   motDePasse |-> IF op = "reset" THEN motDePasse
                                                  ELSE Initial]]

Recevoir(r) ==
    /\ A(r, "repos")
    /\ recues < MaxRequetes
    /\ recues' = recues + 1
    /\ DemanderCode(r) \/ UtiliserCode(r)
    /\ UNCHANGED <<magasin, users, audits, emis, usages, sansFenetre>>
-----------------------------------------------------------------------------
\* Variant: one more attempt than the limit is let through.
LireTauxLarge(r) ==
    /\ A(r, "lire_taux")
    /\ IF magasin[RateLimitKey(req[r].u)].valeur > OtpMaxAttempts
         THEN Finir(r) ELSE Aller(r, "ecrire_code")
    /\ UNCHANGED <<magasin, users, audits, recues, emis, usages, sansFenetre>>

LireTaux(r) ==
    /\ A(r, "lire_taux")
    /\ IF magasin[RateLimitKey(req[r].u)].valeur >= OtpMaxAttempts
         THEN Finir(r) ELSE Aller(r, "ecrire_code")
    /\ UNCHANGED <<magasin, users, audits, recues, emis, usages, sansFenetre>>

\* A new code replaces the previous one, and its life begins.
EcrireCode(r) ==
    LET code == Len(emis) + 1
    IN  /\ A(r, "ecrire_code")
        /\ code \in Codes
        /\ magasin' = Poser(magasin, Cle(r), code, OtpExpiry)
        /\ emis' = Append(emis, <<req[r].objet, req[r].u>>)
        /\ Aller(r, "incrementer")
        /\ UNCHANGED <<users, audits, recues, usages, sansFenetre>>

\* Variant: the first increment does not open a window.
IncrementerSansFenetre(r) ==
    /\ A(r, "incrementer")
    /\ magasin' = Incrementer(magasin, RateLimitKey(req[r].u))
    /\ Aller(r, "envoyer")
    /\ UNCHANGED <<users, audits, recues, emis, usages, sansFenetre>>

IncrementerTaux(r) ==
    LET cle == RateLimitKey(req[r].u)
    IN  /\ A(r, "incrementer")
        /\ magasin' = Incrementer(magasin, cle)
        /\ Aller(r, IF magasin'[cle].valeur = 1 THEN "expirer" ELSE "envoyer")
        /\ UNCHANGED <<users, audits, recues, emis, usages, sansFenetre>>

ExpirerTaux(r) ==
    /\ A(r, "expirer")
    /\ magasin' = Expirer(magasin, RateLimitKey(req[r].u), OtpWindow)
    /\ Aller(r, "envoyer")
    /\ UNCHANGED <<users, audits, recues, emis, usages, sansFenetre>>

\* authMessageService.sendCode, then the audit entry of the last step.
Envoyer(r) ==
    /\ A(r, "envoyer")
    /\ Aller(r, "journal")
    /\ UNCHANGED <<magasin, users, audits, recues, emis, usages, sansFenetre>>
-----------------------------------------------------------------------------
\* Variant: no answer 401 for a user who is not found.
LireUserAbsent(r) ==
    /\ A(r, "lire_user")
    /\ req' = [req EXCEPT ![r].pc = "lire_code", ![r].lu = Neant]
    /\ UNCHANGED <<magasin, users, audits, recues, emis, usages, sansFenetre>>

LireUser(r) ==
    /\ A(r, "lire_user")
    /\ req' = [req EXCEPT ![r].pc = "lire_code", ![r].lu = users[req[r].u]]
    /\ UNCHANGED <<magasin, users, audits, recues, emis, usages, sansFenetre>>

\* Variant: any code passes while one is waiting.
LireCodePresent(r) ==
    /\ A(r, "lire_code")
    /\ IF Present(magasin, Cle(r))
         THEN Aller(r, IF req[r].op = "reset" THEN "hacher" ELSE "supprimer")
         ELSE Finir(r)
    /\ UNCHANGED <<magasin, users, audits, recues, emis, usages, sansFenetre>>

\* 401 when there is no code or another one; a reset hashes the password next.
LireCode(r) ==
    /\ A(r, "lire_code")
    /\ IF Present(magasin, Cle(r)) /\ magasin[Cle(r)].valeur = req[r].code
         THEN Aller(r, IF req[r].op = "reset" THEN "hacher" ELSE "supprimer")
         ELSE Finir(r)
    /\ UNCHANGED <<magasin, users, audits, recues, emis, usages, sansFenetre>>

Hacher(r) ==
    /\ A(r, "hacher")
    /\ Aller(r, "supprimer")
    /\ UNCHANGED <<magasin, users, audits, recues, emis, usages, sansFenetre>>

\* Variant: the code stays in the store after its use.
SupprimerCodeOubli(r) ==
    /\ A(r, "supprimer")
    /\ Aller(r, "sauver")
    /\ UNCHANGED <<magasin, users, audits, recues, emis, usages, sansFenetre>>

SupprimerCode(r) ==
    /\ A(r, "supprimer")
    /\ magasin' = Effacer(magasin, Cle(r))
    /\ Aller(r, "sauver")
    /\ UNCHANGED <<users, audits, recues, emis, usages, sansFenetre>>

\* Variants: a reset asks for a new verification; a verification writes the
\* password as well.
CompteAReverifier(q) ==
    IF q.op = "reset" THEN [motDePasse |-> q.motDePasse, isVerified |-> FALSE]
                      ELSE [q.lu EXCEPT !.isVerified = TRUE]
CompteEcrase(q) ==
    [motDePasse |-> q.motDePasse, isVerified |-> q.op = "verifier"]

\* save(user) writes every column of the entity read at the start.
CompteModifie(q) ==
    IF q.op = "reset" THEN [q.lu EXCEPT !.motDePasse = q.motDePasse]
                      ELSE [q.lu EXCEPT !.isVerified = TRUE]

Sauver(r) ==
    /\ A(r, "sauver")
    /\ users' = [users EXCEPT ![req[r].u] = CompteModifie(req[r])]
    /\ usages' = [usages EXCEPT ![req[r].code] = @ + 1]
    /\ Aller(r, "journal")
    /\ UNCHANGED <<magasin, audits, recues, emis, sansFenetre>>

Journaliser(r) ==
    /\ A(r, "journal")
    /\ audits' = audits \cup {<<req[r].op, req[r].objet, req[r].u>>}
    /\ Finir(r)
    /\ UNCHANGED <<magasin, users, recues, emis, usages, sansFenetre>>

Echouer(r) ==
    /\ Pannes
    /\ ~A(r, "repos")
    /\ Finir(r)
    /\ sansFenetre' = sansFenetre \cup {u \in Users : /\ A(r, "expirer")
                                                   /\ u = req[r].u}
    /\ UNCHANGED <<magasin, users, audits, recues, emis, usages>>

Temps ==
    /\ magasin' = [k \in Cles |-> Vieillir(magasin[k])]
    /\ UNCHANGED <<users, audits, req, recues, emis, usages, sansFenetre>>

Avancer(r) ==
    \/ LireTaux(r) \/ EcrireCode(r) \/ IncrementerTaux(r) \/ ExpirerTaux(r)
    \/ Envoyer(r)
    \/ LireUser(r) \/ LireCode(r) \/ Hacher(r) \/ SupprimerCode(r) \/ Sauver(r)
    \/ Journaliser(r)

Next == Temps \/ \E r \in Requetes : Recevoir(r) \/ Avancer(r) \/ Echouer(r)

Spec == Init /\ [][Next]_vars

\* Handlers are resumed by the event loop, and time passes.
FairSpec == Spec /\ WF_vars(Temps) /\ \A r \in Requetes : WF_vars(Avancer(r))
-----------------------------------------------------------------------------
\* What a handler keeps between two awaits.
Contextes ==
    [pc : {"repos", "journal"} \cup EtapesCode \cup EtapesUsage,
     op : {"code", "verifier", "reset"}, u : Users \cup {Neant}, objet : Objets,
     code : Nat, motDePasse : MotsDePasse \cup {Initial},
     lu : Comptes \cup {Neant}]

RequeteOK(q) ==
    /\ q.pc # "repos" => q.u \in Users
    /\ q.pc \in EtapesUsage \ {"lire_user"} => q.lu \in Comptes

\* Types of the store, the tables, the requests and the history.
TypeOK ==
    /\ magasin \in [Cles -> [valeur : Nat, ttl : Nat \cup {Eternel}]]
    /\ users \in [Users -> Comptes]
    /\ audits \subseteq {"code", "verifier", "reset"} \X Objets \X Users
    /\ req \in [Requetes -> Contextes]
    /\ \A r \in Requetes : RequeteOK(req[r])
    /\ recues \in 0..MaxRequetes
    /\ emis \in Seq(Objets \X Users)
    /\ usages \in [Codes -> Nat]
    /\ sansFenetre \subseteq Users

Essais(u) == magasin[RateLimitKey(u)].valeur

\* The check of the counter and its increment are two commands, so concurrent
\* requests may pass the limit, but by less than one code per slot.
TauxBorne ==
    \A u \in Users : Essais(u) <= OtpMaxAttempts - 1 + Cardinality(Requetes)

\* Requests of a user that were let through and have not been counted yet.
EnVol(u) == {r \in Requetes : /\ req[r].pc \in {"ecrire_code", "incrementer"}
                              /\ req[r].u = u}

\* The inductive form of TauxBorne: those in flight are counted in advance.
TauxReserve ==
    \A u \in Users : Essais(u) + Cardinality(EnVol(u))
                       <= OtpMaxAttempts - 1 + Cardinality(Requetes)

\* README: OTP_MAX_ATTEMPTS is the maximum in a rate limit window.
TauxRespecte == \A u \in Users : Essais(u) <= OtpMaxAttempts

\* Code c was generated for purpose objet and user u; such a code was used.
Emis(c, objet, u) == c \in 1..Len(emis) /\ emis[c] = <<objet, u>>
Utilise(objet, u) == \E c \in 1..Len(emis) : Emis(c, objet, u) /\ usages[c] > 0

CompteFonde(compte, u) ==
    /\ compte.isVerified => Utilise("verification", u)
    /\ compte.motDePasse # Initial => Utilise("password_reset", u)

\* A code changes only what it was generated for: an account is verified only
\* if one of its verification codes was used, and its password changed only
\* if one of its reset codes was, whatever requests and failures overlap.
ChangementParCode == \A u \in Users : CompteFonde(users[u], u)

StockFonde ==
    \A objet \in Objets, u \in Users :
        Present(magasin, StorageKey(objet, u)) =>
            Emis(magasin[StorageKey(objet, u)].valeur, objet, u)

RequeteFondee(q) ==
    /\ q.pc \in EtapesUsage =>
          <<q.op, q.objet>> \in {<<"verifier", "verification">>,
                                <<"reset", "password_reset">>}
    /\ q.pc \in EtapesUsage \ {"lire_user"} => CompteFonde(q.lu, q.u)
    /\ q.pc \in {"hacher", "supprimer", "sauver"} => Emis(q.code, q.objet, q.u)

\* The inductive form of ChangementParCode: a code is kept under the key it was
\* generated for, a handler past the check holds a code of its purpose and user,
\* and the entity it will save shows nothing that no code gave.
CodesFondes ==
    /\ Len(emis) <= MaxRequetes
    /\ StockFonde
    /\ \A r \in Requetes : RequeteFondee(req[r])

\* A one-time code changes an account at most once.
CodeUneFois == \A c \in Codes : usages[c] <= 1

\* An account that a request verified stays verified.
VerificationDurable ==
    [][\A u \in Users : users[u].isVerified => users'[u].isVerified]_vars

\* A password changes only to the one chosen in a reset request in progress,
\* never back to an earlier one.
MotDePasseChoisi ==
    [][\A u \in Users : users'[u].motDePasse # users[u].motDePasse =>
          \E r \in Requetes : /\ req[r].u = u /\ req[r].op = "reset"
                              /\ users'[u].motDePasse = req[r].motDePasse]_vars

\* A code in the store is lost only to time, to a new code for the same
\* purpose and user, or to a request that presented this very code.
CodeGarde ==
    [][\A k \in Objets \X Users :
          Present(magasin, k) /\ magasin'[k].valeur # magasin[k].valeur =>
             \/ magasin[k].ttl = 1 /\ UNCHANGED req
             \/ \E r \in Requetes :
                   /\ <<req[r].objet, req[r].u>> = k
                   /\ \/ A(r, "ecrire_code")
                      \/ /\ A(r, "supprimer")
                         /\ req[r].code = magasin[k].valeur]_vars

\* A user who reached the limit may ask again once the window is over, unless
\* a request failed between the increment that opened the window and the
\* command that sets its deadline.
TauxLibere ==
    \A u \in Users : Essais(u) >= OtpMaxAttempts
                        ~> Essais(u) < OtpMaxAttempts \/ u \in sansFenetre
=============================================================================
