------------------------------- MODULE Surface -------------------------------
(***************************************************************************)
(* What a request meets before its handler: the first route of its method   *)
(* and path in the order of declaration, the guards of that route, the      *)
(* validation pipe of main.ts.  One request at a time, as none of this      *)
(* waits for anything or remembers anything.                                *)
(*                                                                          *)
(* A body is correct or not as a whole, and arrives whole or emptied.       *)
(***************************************************************************)
EXTENDS Integers, Sequences, FiniteSets

Admin == {"admin"}
Tous == {"admin", "user"}
SansRole == {}               \* no @Roles on the handler

\* A handler: its path, @Roles, kind of @Body ("valide": a DTO class with
\* validators, "nu": a DTO class without any, "libre": an inline type), and
\* whether it reads req.user.id without allowing for a missing user.
R(methode, chemin, roles, corps, lit) ==
    [methode |-> methode, chemin |-> chemin, roles |-> roles,
     corps |-> corps, lit |-> lit]

Controleur(prefixe, gardes, routes) ==
    [i \in DOMAIN routes |->
       [methode |-> routes[i].methode, chemin |-> prefixe \o routes[i].chemin,
        roles |-> routes[i].roles, corps |-> routes[i].corps,
        lit |-> routes[i].lit, gardes |-> gardes]]

AppRoutes == <<
    R("GET", <<>>, SansRole, "aucun", FALSE),
    R("GET", <<"health">>, SansRole, "aucun", FALSE) >>
AppController == Controleur(<<>>, {}, AppRoutes)

\* Its one guarded handler stands between the others.
Poster(nom, corps) == R("POST", <<nom>>, SansRole, corps, FALSE)
ConnexionRoutes == << Poster("login", "libre"), Poster("register", "valide") >>
ProfilRoutes == << Poster("profile", "aucun") >>
CodeRoutes == <<
    Poster("envoyer-code-verification", "libre"),
    Poster("verifier-code", "libre"),
    Poster("demander-reset-mdp", "libre"),
    Poster("reset-mdp", "libre"),
    Poster("login-google", "libre") >>
AuthController == Controleur(<<"auth">>, {}, ConnexionRoutes)
                  \o Controleur(<<"auth">>, {"jwt"}, ProfilRoutes)
                  \o Controleur(<<"auth">>, {}, CodeRoutes)

FactureRoutes == <<
    R("POST", <<"calculer">>, Tous, "nu", TRUE),
    R("POST", <<>>, Tous, "nu", TRUE),
    R("GET", <<>>, Tous, "aucun", FALSE),
    R("GET", <<":id">>, Tous, "aucun", FALSE),
    R("PATCH", <<":id">>, Tous, "nu", TRUE),
    R("PATCH", <<":id", "status">>, Tous, "nu", TRUE),
    R("POST", <<":id", "payments">>, Tous, "nu", TRUE),
    R("DELETE", <<":id">>, Tous, "aucun", TRUE),
    R("GET", <<":id", "export">>, Tous, "aucun", TRUE) >>
FactureController == Controleur(<<"facture">>, {"jwt", "roles"}, FactureRoutes)

PartnerRoutes == <<
    R("POST", <<"client">>, Admin, "nu", FALSE),
    R("GET", <<"client">>, Tous, "aucun", FALSE),
    R("GET", <<"client", ":id">>, Tous, "aucun", FALSE),
    R("PATCH", <<"client", ":id">>, Admin, "nu", FALSE),
    R("DELETE", <<"client", ":id">>, Admin, "aucun", FALSE),
    R("POST", <<"client", ":id", "factures">>, Tous, "nu", TRUE),
    R("POST", <<"client", ":clientId", "factures", ":factureId", "paiements">>,
      Tous, "nu", TRUE),
    R("GET", <<"client", "export">>, Tous, "aucun", TRUE),
    R("POST", <<"client", "import">>, Admin, "aucun", TRUE),
    R("POST", <<"fournisseur">>, Admin, "nu", FALSE),
    R("GET", <<"fournisseur">>, Tous, "aucun", FALSE),
    R("GET", <<"fournisseur", ":id">>, Tous, "aucun", FALSE),
    R("PATCH", <<"fournisseur", ":id">>, Admin, "nu", FALSE),
    R("DELETE", <<"fournisseur", ":id">>, Admin, "aucun", FALSE),
    R("GET", <<"fournisseur", "export">>, Tous, "aucun", TRUE),
    R("POST", <<"fournisseur", "import">>, Admin, "aucun", TRUE) >>
PartnerController == Controleur(<<"partner">>, {"jwt", "roles"}, PartnerRoutes)

EcritureRoutes == <<
    R("GET", <<"income-statement">>, SansRole, "aucun", FALSE),
    R("GET", <<"balance-sheet">>, SansRole, "aucun", FALSE),
    R("GET", <<"balance">>, SansRole, "aucun", FALSE),
    R("GET", <<"export">>, Tous, "aucun", FALSE),
    R("POST", <<"import">>, Admin, "aucun", FALSE),
    R("POST", <<>>, SansRole, "nu", FALSE),
    R("GET", <<>>, SansRole, "aucun", FALSE),
    R("GET", <<"date-range">>, SansRole, "aucun", FALSE),
    R("GET", <<"account">>, SansRole, "aucun", FALSE),
    R("GET", <<"type">>, SansRole, "aucun", FALSE) >>
EcritureController == Controleur(<<"ecriture">>, {"roles"}, EcritureRoutes)

ReportingRoutes == <<
    R("GET", <<"sales">>, SansRole, "aucun", FALSE),
    R("GET", <<"purchases">>, SansRole, "aucun", FALSE),
    R("GET", <<"performance">>, SansRole, "aucun", FALSE) >>
ReportingController == Controleur(<<"reporting">>, {}, ReportingRoutes)

UserRoutes == <<
    R("POST", <<>>, Admin, "valide", FALSE),
    R("GET", <<>>, Admin, "aucun", FALSE),
    R("GET", <<":id">>, Tous, "aucun", FALSE),
    R("PATCH", <<":id">>, Admin, "nu", FALSE),
    R("DELETE", <<":id">>, Admin, "aucun", FALSE),
    R("GET", <<"profile">>, Tous, "aucun", TRUE),
    R("PUT", <<"profile">>, Tous, "nu", TRUE),
    R("POST", <<"request-password-reset">>, SansRole, "valide", FALSE),
    R("POST", <<"reset-password">>, SansRole, "valide", FALSE) >>
UserController == Controleur(<<"users">>, {"roles"}, UserRoutes)

AuditLogRoutes == <<
    R("GET", <<>>, Admin, "aucun", FALSE),
    R("GET", <<"me">>, Tous, "aucun", TRUE),
    R("GET", <<":id">>, Admin, "aucun", FALSE) >>
AuditLogController ==
    Controleur(<<"audit-logs">>, {"jwt", "roles"}, AuditLogRoutes)

NotificationRoutes == <<
    R("GET", <<>>, Tous, "aucun", TRUE),
    R("POST", <<>>, Admin, "libre", FALSE),
    R("PATCH", <<":id", "read">>, Tous, "aucun", FALSE) >>
NotificationController ==
    Controleur(<<"notifications">>, {"roles"}, NotificationRoutes)

SettingsRoutes == <<
    R("GET", <<>>, Tous, "aucun", FALSE),
    R("PUT", <<>>, Admin, "libre", TRUE) >>
SettingsController ==
    Controleur(<<"settings">>, {"jwt", "roles"}, SettingsRoutes)

\* No two controllers share a prefix: their order does not matter.
Routes == AuthController \o FactureController \o PartnerController
          \o EcritureController \o ReportingController \o UserController
          \o AuditLogController \o NotificationController
          \o SettingsController \o AppController
-----------------------------------------------------------------------------
VARIABLES
    demande,  \* the route a request is meant for, its token and its body
    etape,    \* where the request is: the next thing it meets, or its end
    route,    \* the route it was given to, 0 before
    user,     \* role of req.user, or "personne"
    corps     \* the body, as the handler will see it

varsSurface == <<demande, etape, route, user, corps>>

Jetons == {"absent", "invalide", "admin", "user"}
Personne == [voulue |-> 0, jeton |-> "absent", correct |-> TRUE]

InitSurface ==
    /\ demande = Personne
    /\ etape = "attente"
    /\ route = 0
    /\ user = "personne"
    /\ corps = "entier"

Recevoir ==
    /\ etape = "attente"
    /\ \E i \in DOMAIN Routes, jeton \in Jetons, correct \in BOOLEAN :
          /\ Routes[i].corps # "valide" => correct
          /\ demande' = [voulue |-> i, jeton |-> jeton, correct |-> correct]
    /\ etape' = "router"
    /\ route' = 0 /\ user' = "personne" /\ corps' = "entier"

Parametre(segment) == segment \in {":id", ":clientId", ":factureId"}

\* The requests meant for route y also match route x: the requested path is
\* the one of y, with numbers for its parameters.
Capte(x, y) ==
    /\ x.methode = y.methode
    /\ Len(x.chemin) = Len(y.chemin)
    /\ \A k \in DOMAIN x.chemin :
          Parametre(x.chemin[k]) \/ x.chemin[k] = y.chemin[k]

Convient(i) == Capte(Routes[i], Routes[demande.voulue])

\* The router tries the routes in the order they were declared.
Choisir(S) == CHOOSE i \in S : \A j \in S : i <= j

Router ==
    /\ etape = "router"
    /\ route' = Choisir({i \in DOMAIN Routes : Convient(i)})
    /\ etape' = "jwt"
    /\ UNCHANGED <<demande, user, corps>>

Identifie(jeton) == jeton \in {"admin", "user"}

\* JwtAuthGuard, where it is used: 401, or req.user from the token.
Authentifier ==
    /\ etape = "jwt"
    /\ IF "jwt" \notin Routes[route].gardes
         THEN etape' = "roles" /\ UNCHANGED user
         ELSE IF Identifie(demande.jeton)
                THEN etape' = "roles" /\ user' = demande.jeton
                ELSE etape' = "401" /\ UNCHANGED user
    /\ UNCHANGED <<demande, route, corps>>

\* Variant: a request without a user is taken for a plain user's.
AutoriseParDefaut(roles, u) ==
    roles = SansRole \/ (IF u = "personne" THEN "user" ELSE u) \in roles

\* RolesGuard.canActivate: it knows the user only if JwtAuthGuard ran before.
Autorise(roles, u) == roles = SansRole \/ u \in roles

Autoriser ==
    /\ etape = "roles"
    /\ etape' = IF \/ "roles" \notin Routes[route].gardes
                   \/ Autorise(Routes[route].roles, user)
                  THEN "valider" ELSE "403"
    /\ UNCHANGED <<demande, route, user, corps>>

\* The pipe refuses what validators refuse, removes every field without a
\* validator from the instance of a class, and leaves inline types alone.
Valider ==
    /\ etape = "valider"
    /\ LET type == Routes[route].corps
       IN  /\ etape' = IF type = "valide" /\ ~demande.correct THEN "400"
                                                              ELSE "appeler"
           /\ corps' = IF type = "nu" THEN "vide" ELSE corps
    /\ UNCHANGED <<demande, route, user>>

Appeler ==
    /\ etape = "appeler"
    /\ etape' = "servi"
    /\ UNCHANGED <<demande, route, user, corps>>

\* The answer is sent.
Repondre ==
    /\ etape \in {"servi", "400", "401", "403"}
    /\ etape' = "attente"
    /\ demande' = Personne
    /\ route' = 0 /\ user' = "personne" /\ corps' = "entier"

NextSurface ==
    \/ Recevoir \/ Router \/ Authentifier \/ Autoriser \/ Valider \/ Appeler
    \/ Repondre

SpecSurface == InitSurface /\ [][NextSurface]_varsSurface
-----------------------------------------------------------------------------
\* A handler for some roles runs only for a valid token of one of them, also
\* where another route took the request and where RolesGuard stands alone; and
\* one that reads req.user.id runs only when there is a user to read.
RolesRespectes ==
    etape = "servi" =>
        /\ Routes[route].roles # SansRole =>
              demande.jeton \in Routes[route].roles
        /\ Routes[route].lit => user # "personne"

\* README, "API Reference": the route groups it lists are those of the program.
\* A correct request of an administrator is served by the handler it is meant
\* for, and refused by nothing on its way.
OperationsServies ==
    demande.jeton = "admin" /\ demande.correct =>
        /\ etape \notin {"400", "401", "403"}
        /\ etape = "servi" => route = demande.voulue

\* README, "Create an invoice with bearer auth": a handler receives the body
\* it was sent.
CorpsTransmis == etape = "servi" => corps = "entier"
=============================================================================
