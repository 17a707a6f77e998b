------------------------------ MODULE Comptes ------------------------------
(***************************************************************************)
(* The accounts: UserService, by which an administrator creates, updates    *)
(* and removes them, and what AuthService does to them: registration,       *)
(* login, and the save(user) that ends a verification or a password reset.  *)
(*                                                                          *)
(* save(user) is two statements: it reads the row by its id, then updates   *)
(* the columns in which the entity differs from what it read; when there is *)
(* no row, it inserts the entity under the id it had.  Which code is        *)
(* accepted is the subject of Otp: here a code is right or wrong.           *)
(***************************************************************************)
EXTENDS Serveur

CONSTANTS
    Emails,
    Telephones,    \* not unique in the table
    MaxComptes,    \* bound on the accounts ever inserted
    Modifications  \* bodies of updates: some columns, with values

VARIABLES
    comptes,       \* table users: id -> row or Neant
    prochain,      \* next id
    reqComptes,    \* the requests in progress
    recuesComptes,
    tracesComptes, \* audit_logs: <<action, id>>
    inseres,       \* history: requests that inserted an account
    inscriptions,  \* history: <<request, answer>> of registrations
    enClair,       \* history: accounts whose password UserService wrote
    decisions,     \* history: last role given to each account, Neant if
                   \* removed, and the requests received by then
    rompues,       \* history: accounts whose last decision a request received
                   \* before it has undone
    jetons         \* history: <<account, role, request>> of tokens granted

varsComptes ==
    <<comptes, prochain, reqComptes, recuesComptes, tracesComptes, inseres,
      inscriptions, enClair, decisions, rompues, jetons>>

IdsComptes == 1..MaxComptes
Roles == {"admin", "user"}
Issues == {"cree", "erreur"}

\* Passwords: what request n hashed, or what it wrote as it was given.
Hache(n) == [hache |-> TRUE, de |-> n]
Clair(n) == [hache |-> FALSE, de |-> n]
Secrets == [hache : BOOLEAN, de : 0..MaxRequetes]

Rangees == [email : Emails, telephone : Telephones, motDePasse : Secrets,
            isVerified : BOOLEAN, role : Roles]

\* The columns of a body have values a row can have.
CorpsValide(corps) ==
    /\ DOMAIN corps \subseteq
         {"email", "telephone", "motDePasse", "isVerified", "role"}
    /\ "email" \in DOMAIN corps => corps["email"] \in Emails
    /\ "telephone" \in DOMAIN corps => corps["telephone"] \in Telephones
    /\ "isVerified" \in DOMAIN corps => corps["isVerified"] \in BOOLEAN
    /\ "role" \in DOMAIN corps => corps["role"] \in Roles

ASSUME ComptesAssumption ==
    /\ MaxComptes \in Nat \ {0}
    /\ Neant \notin Rangees \cup Roles
    /\ \A corps \in Modifications : CorpsValide(corps)

ReposComptes ==
    [pc |-> "repos", op |-> "login", n |-> 0, id |-> 0, cle |-> Neant,
     corps |-> Neant, lu |-> Neant, bdd |-> Neant]

\* One account, an administrator's, registered before.
InitComptes ==
    /\ \E rangee \in Rangees :
          /\ rangee.motDePasse = Hache(0) /\ rangee.role = "admin"
          /\ comptes = [id \in IdsComptes |-> IF id = 1 THEN rangee ELSE Neant]
          /\ decisions = [id \in IdsComptes |->
                [role |-> IF id = 1 THEN "admin" ELSE Neant, recues |-> 0]]
    /\ prochain = 2
    /\ reqComptes = [r \in Requetes |-> ReposComptes]
    /\ recuesComptes = 0
    /\ tracesComptes = {}
    /\ inseres = {}
    /\ inscriptions = {}
    /\ enClair = {}
    /\ rompues = {}
    /\ jetons = {}
-----------------------------------------------------------------------------
Presents == {id \in IdsComptes : comptes[id] # Neant}

\* Value of the role of an account, Neant without the account.
RoleDe(rangee) == IF rangee = Neant THEN Neant ELSE rangee.role

\* The table accepts the row under the id: no other one has its email.
Acceptee(id, rangee) ==
    \A autre \in Presents \ {id} : comptes[autre].email # rangee.email

DemandeCompte(op, pc, id, cle, corps) ==
    [pc |-> pc, op |-> op, n |-> recuesComptes + 1, id |-> id, cle |-> cle,
     corps |-> corps, lu |-> Neant, bdd |-> Neant]

\* A new account, not verified.
Nouveau(e, t, secret, role) ==
    [email |-> e, telephone |-> t, motDePasse |-> secret, isVerified |-> FALSE,
     role |-> role]

\* Variant: register stores the password it is given.
InscriptionsSansHache ==
    {DemandeCompte("register", "inserer", 0, Neant,
                   Nouveau(e, t, Clair(recuesComptes + 1), role)) :
       e \in Emails, t \in Telephones, role \in Roles}

\* register hashes the password; create does not.
Inscriptions ==
    {DemandeCompte("register", "inserer", 0, Neant,
                   Nouveau(e, t, Hache(recuesComptes + 1), role)) :
       e \in Emails, t \in Telephones, role \in Roles}

Creations ==
    {DemandeCompte("create", "inserer", 0, Neant,
                   Nouveau(e, t, Clair(recuesComptes + 1), role)) :
       e \in Emails, t \in Telephones, role \in Roles}

ClesEmail == [type : {"email"}, de : Emails]
Cles == ClesEmail \cup [type : {"telephone"}, de : Telephones]

\* Requests that find the account by its email, or by its telephone if they
\* give none; login by its email, which nothing requires the body to have.
Identifications ==
    {DemandeCompte(op, "identifier", 0, cle, Neant) :
       op \in {"verifier", "reset"}, cle \in Cles}
    \cup {DemandeCompte("login", "identifier", 0, cle, Neant) :
             cle \in ClesEmail \cup {Neant}}

DemandesAdmin ==
    Creations
    \cup {DemandeCompte("update", "modifier", id, Neant, corps) :
            id \in IdsComptes, corps \in Modifications}
    \cup {DemandeCompte("remove", "supprimer", id, Neant, Neant) :
            id \in IdsComptes}

RecevoirComptes(r) ==
    /\ reqComptes[r].pc = "repos"
    /\ recuesComptes < MaxRequetes
    /\ recuesComptes' = recuesComptes + 1
    /\ \E q \in Inscriptions \cup Identifications \cup DemandesAdmin :
          reqComptes' = [reqComptes EXCEPT ![r] = q]
    /\ UNCHANGED <<comptes, prochain, tracesComptes, inseres, inscriptions,
                   enClair, decisions, rompues, jetons>>
-----------------------------------------------------------------------------
FinirCompte(r) == reqComptes' = [reqComptes EXCEPT ![r] = ReposComptes]

\* An administrator, or a registration, gives account id a role or removes it.
Decider(id, role) ==
    /\ decisions' = [decisions EXCEPT ![id] =
                       [role |-> role, recues |-> recuesComptes]]
    /\ rompues' = rompues \ {id}

\* The insertion of register and create: refused if the email is taken, and
\* answered at once.
InsererCompte(r) ==
    LET q == reqComptes[r]
    IN  /\ q.pc = "inserer"
        /\ \/ /\ ~Acceptee(prochain, q.corps)
              /\ FinirCompte(r)
              /\ inscriptions' = IF q.op = "register"
                   THEN inscriptions \cup {<<q.n, "erreur">>} ELSE inscriptions
              /\ UNCHANGED <<comptes, prochain, inseres, enClair, decisions,
                             rompues>>
           \/ /\ Acceptee(prochain, q.corps)
              /\ prochain \in IdsComptes
              /\ comptes' = [comptes EXCEPT ![prochain] = q.corps]
              /\ prochain' = prochain + 1
              /\ inseres' = inseres \cup {q.n}
              /\ enClair' = IF q.op = "create" THEN enClair \cup {prochain}
                                               ELSE enClair
              /\ Decider(prochain, q.corps.role)
              /\ reqComptes' = [reqComptes EXCEPT
                    ![r].pc = "tracer", ![r].id = prochain]
              /\ UNCHANGED inscriptions
        /\ UNCHANGED <<recuesComptes, tracesComptes, jetons>>

\* UserService.update: some columns of the row if it is there, the password as
\* given; refused for an empty body or an email that is taken.
RangeeModifiee(rangee, q) ==
    [c \in DOMAIN rangee |->
       IF c \notin DOMAIN q.corps THEN rangee[c]
       ELSE IF c = "motDePasse" THEN Clair(q.n) ELSE q.corps[c]]

ModifierCompte(r) ==
    LET q == reqComptes[r]
        rangee == RangeeModifiee(comptes[q.id], q)
    IN  /\ q.pc = "modifier"
        /\ \/ /\ \/ DOMAIN q.corps = {}
                 \/ q.id \in Presents /\ ~Acceptee(q.id, rangee)
              /\ FinirCompte(r)
              /\ UNCHANGED <<comptes, enClair, decisions, rompues>>
           \/ /\ DOMAIN q.corps # {}
              /\ q.id \notin Presents
              /\ reqComptes' = Aller(reqComptes, r, "tracer")
              /\ UNCHANGED <<comptes, enClair, decisions, rompues>>
           \/ /\ DOMAIN q.corps # {}
              /\ q.id \in Presents /\ Acceptee(q.id, rangee)
              /\ comptes' = [comptes EXCEPT ![q.id] = rangee]
              /\ enClair' = IF "motDePasse" \in DOMAIN q.corps
                              THEN enClair \cup {q.id} ELSE enClair
              /\ IF "role" \in DOMAIN q.corps
                   THEN Decider(q.id, rangee.role)
                   ELSE UNCHANGED <<decisions, rompues>>
              /\ reqComptes' = Aller(reqComptes, r, "tracer")
        /\ UNCHANGED <<prochain, recuesComptes, tracesComptes, inseres,
                       inscriptions, jetons>>

\* UserService.remove, whether or not there is a row.
SupprimerCompte(r) ==
    LET q == reqComptes[r]
    IN  /\ q.pc = "supprimer"
        /\ comptes' = [comptes EXCEPT ![q.id] = Neant]
        /\ Decider(q.id, Neant)
        /\ reqComptes' = Aller(reqComptes, r, "tracer")
        /\ UNCHANGED <<prochain, recuesComptes, tracesComptes, inseres,
                       inscriptions, enClair, jetons>>
-----------------------------------------------------------------------------
\* findOne leaves a condition on an undefined value out of the query.
Correspond(rangee, cle) == cle = Neant \/ rangee[cle.type] = cle.de

\* findUserByIdentifier, validateUser: 401 without a row; a login asks for a
\* verified account.
Identifier(r) ==
    LET q == reqComptes[r]
        trouves == {id \in Presents : Correspond(comptes[id], q.cle)}
    IN  /\ q.pc = "identifier"
        /\ \/ /\ trouves = {}
              /\ FinirCompte(r)
           \/ \E id \in trouves :
                 IF q.op = "login" /\ ~comptes[id].isVerified
                   THEN FinirCompte(r)
                   ELSE reqComptes' = [reqComptes EXCEPT ![r].pc = "controler",
                          ![r].id = id, ![r].lu = comptes[id]]
        /\ UNCHANGED <<comptes, prochain, recuesComptes, tracesComptes, inseres,
                       inscriptions, enClair, decisions, rompues, jetons>>

\* The entity once the code is accepted.
EntiteModifiee(q) ==
    IF q.op = "reset" THEN [q.lu EXCEPT !.motDePasse = Hache(q.n)]
                      ELSE [q.lu EXCEPT !.isVerified = TRUE]

\* The password or the code is right or wrong; bcrypt.compare never accepts a
\* password stored as it was given.
Controler(r) ==
    LET q == reqComptes[r]
    IN  /\ q.pc = "controler"
        /\ \/ FinirCompte(r)
           \/ /\ q.op = "login" /\ q.lu.motDePasse.hache
              /\ reqComptes' = Aller(reqComptes, r, "tracer")
           \/ /\ q.op # "login"
              /\ reqComptes' = [reqComptes EXCEPT ![r].pc = "relire",
                                                  ![r].lu = EntiteModifiee(q)]
        /\ UNCHANGED <<comptes, prochain, recuesComptes, tracesComptes, inseres,
                       inscriptions, enClair, decisions, rompues, jetons>>

\* First statement of save(user).
RelireCompte(r) ==
    LET q == reqComptes[r]
    IN  /\ q.pc = "relire"
        /\ reqComptes' = [reqComptes EXCEPT ![r].pc = "sauver",
                                            ![r].bdd = comptes[q.id]]
        /\ UNCHANGED <<comptes, prochain, recuesComptes, tracesComptes, inseres,
                       inscriptions, enClair, decisions, rompues, jetons>>

\* Variant: save(user) is given an entity without the role, which is then the
\* default one.
RangeeSauveeSansRole(q, rangee) ==
    IF q.bdd = Neant THEN [q.lu EXCEPT !.role = "user"]
    ELSE IF rangee = Neant THEN Neant
    ELSE [c \in DOMAIN rangee |->
            IF c = "role" THEN "user"
            ELSE IF q.lu[c] # q.bdd[c] THEN q.lu[c] ELSE rangee[c]]

\* The row after the second statement of save(user), if it succeeds: an
\* insertion, or an update of the columns that differ, of a row if there is one.
RangeeSauvee(q, rangee) ==
    IF q.bdd = Neant THEN q.lu
    ELSE IF rangee = Neant THEN Neant
    ELSE [c \in DOMAIN rangee |->
            IF q.lu[c] # q.bdd[c] THEN q.lu[c] ELSE rangee[c]]

\* The insertion finds no row of the id; no other row has the email.
Sauvable(q) ==
    LET rangee == RangeeSauvee(q, comptes[q.id])
    IN  /\ q.bdd = Neant => q.id \notin Presents
        /\ rangee # Neant => Acceptee(q.id, rangee)

\* Second statement.  It undoes a decision taken after the request was received
\* when it changes the role or the presence of the account.
SauverCompte(r) ==
    LET q == reqComptes[r]
        avant == comptes[q.id]
        apres == RangeeSauvee(q, avant)
    IN  /\ q.pc = "sauver"
        /\ \/ /\ ~Sauvable(q)
              /\ FinirCompte(r)
              /\ UNCHANGED <<comptes, rompues>>
           \/ /\ Sauvable(q)
              /\ comptes' = [comptes EXCEPT ![q.id] = apres]
              /\ rompues' = IF /\ RoleDe(apres) # RoleDe(avant)
                               /\ q.n <= decisions[q.id].recues
                              THEN rompues \cup {q.id} ELSE rompues
              /\ reqComptes' = Aller(reqComptes, r, "tracer")
        /\ UNCHANGED <<prochain, recuesComptes, tracesComptes, inseres,
                       inscriptions, enClair, decisions, jetons>>
-----------------------------------------------------------------------------
\* What a request answers after its audit entry.
RepondreCompte(r) ==
    LET q == reqComptes[r]
    IN  /\ IF q.op = "create" THEN reqComptes' = Aller(reqComptes, r, "notifier")
                              ELSE FinirCompte(r)
        /\ inscriptions' = IF q.op = "register"
             THEN inscriptions \cup {<<q.n, "cree">>} ELSE inscriptions
        /\ jetons' = IF q.op = "login"
             THEN jetons \cup {<<q.id, q.lu.role, q.n>>} ELSE jetons
        /\ UNCHANGED <<comptes, prochain, recuesComptes, inseres, enClair,
                       decisions, rompues>>

TracerCompte(r) ==
    LET q == reqComptes[r]
    IN  /\ q.pc = "tracer"
        /\ tracesComptes' = tracesComptes \cup {<<q.op, q.id>>}
        /\ RepondreCompte(r)

\* The notification of a creation.
NotifierCompte(r) ==
    /\ reqComptes[r].pc = "notifier"
    /\ FinirCompte(r)
    /\ UNCHANGED <<comptes, prochain, recuesComptes, tracesComptes, inseres,
                   inscriptions, enClair, decisions, rompues, jetons>>

\* Variant: register fails when its audit entry fails.
RejeterTout(r) ==
    LET q == reqComptes[r]
    IN  /\ q.pc # "repos"
        /\ FinirCompte(r)
        /\ inscriptions' = IF q.op = "register"
             THEN inscriptions \cup {<<q.n, "erreur">>} ELSE inscriptions
        /\ UNCHANGED <<comptes, prochain, recuesComptes, tracesComptes, inseres,
                       enClair, decisions, rompues, jetons>>

\* The awaited call of r is rejected, and has no effect: register ignores it for
\* its audit entry; the other handlers end with an error.
RejeterCompte(r) ==
    LET q == reqComptes[r]
    IN  /\ q.pc # "repos"
        /\ IF q.op = "register" /\ q.pc = "tracer"
             THEN RepondreCompte(r)
             ELSE /\ FinirCompte(r)
                  /\ inscriptions' = IF q.op = "register"
                       THEN inscriptions \cup {<<q.n, "erreur">>} ELSE inscriptions
                  /\ UNCHANGED <<comptes, prochain, recuesComptes, inseres,
                                 enClair, decisions, rompues, jetons>>
        /\ UNCHANGED tracesComptes

EchouerComptes(r) == Pannes /\ RejeterCompte(r)

AvancerComptes(r) ==
    \/ InsererCompte(r) \/ ModifierCompte(r) \/ SupprimerCompte(r)
    \/ Identifier(r) \/ Controler(r) \/ RelireCompte(r) \/ SauverCompte(r)
    \/ TracerCompte(r) \/ NotifierCompte(r)

NextComptes ==
    \E r \in Requetes :
        RecevoirComptes(r) \/ AvancerComptes(r) \/ EchouerComptes(r)

SpecComptes == InitComptes /\ [][NextComptes]_varsComptes
-----------------------------------------------------------------------------
ContextesComptes ==
    [pc : {"repos", "inserer", "modifier", "supprimer", "identifier",
           "controler", "relire", "sauver", "tracer", "notifier"},
     op : {"register", "create", "update", "remove", "verifier", "reset",
           "login"},
     n : 0..MaxRequetes, id : 0..MaxComptes, cle : Cles \cup {Neant},
     corps : Rangees \cup Modifications \cup {Neant},
     lu : Rangees \cup {Neant}, bdd : Rangees \cup {Neant}]

TypesComptes ==
    /\ comptes \in [IdsComptes -> Rangees \cup {Neant}]
    /\ prochain \in 1..(MaxComptes + 1)
    /\ reqComptes \in [Requetes -> ContextesComptes]
    /\ recuesComptes \in 0..MaxRequetes
    /\ inseres \subseteq 1..MaxRequetes
    /\ inscriptions \subseteq (1..MaxRequetes) \X Issues
    /\ enClair \subseteq IdsComptes
    /\ decisions \in
         [IdsComptes -> [role : Roles \cup {Neant}, recues : 0..MaxRequetes]]
    /\ rompues \subseteq IdsComptes
    /\ jetons \subseteq IdsComptes \X Roles \X (1..MaxRequetes)

\* A password is in the table as it was given only in accounts for which
\* UserService wrote it, in create or in update: no registration, and no reset
\* or verification of another account, puts one there.
MotDePasseHache ==
    \A id \in Presents : ~comptes[id].motDePasse.hache => id \in enClair

\* An account keeps the role it was last given, and a removed account stays
\* away, unless a verification or a reset received before that decision has
\* saved back what it had read: no later request undoes it on its own.
DecisionRespectee ==
    \A id \in IdsComptes :
        RoleDe(comptes[id]) # decisions[id].role => id \in rompues

\* A token carries a role its account does not have (or no longer), or stands
\* for a removed account, only if the login was received before that decision,
\* or a verification or a reset has undone the decision.
JetonFonde ==
    \A jeton \in jetons :
        LET decision == decisions[jeton[1]]
        IN  \/ jeton[2] = decision.role
            \/ jeton[3] <= decision.recues
            \/ jeton[1] \in rompues

\* A registration that is answered with an error has created no account, and one
\* that is answered with success has, also when its audit entry failed: a client
\* may try again after an error.
ReponseInscription ==
    \A reponse \in inscriptions : reponse[2] = "cree" <=> reponse[1] \in inseres
=============================================================================
