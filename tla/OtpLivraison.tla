---------------------------- MODULE OtpLivraison ----------------------------
(***************************************************************************)
(* Requests for a code with their delivery: requestCode of Otp, where the   *)
(* step "envoyer" is a call of AuthMessageService, which may end the        *)
(* request with an error, and where the answer shows the code if it was     *)
(* delivered locally.                                                       *)
(***************************************************************************)
EXTENDS Otp, Livraison

CONSTANT DureeAnnoncee \* life time a message states, in units of time

ASSUME LivraisonEchoue == Pannes
ASSUME AnnonceAssumption == DureeAnnoncee \in Nat

VARIABLES
    envois,   \* per request: the code it sends and the mode of its delivery
    reponses, \* history: codes answered for, with whether the answer shows them
    annonces  \* history: code -> time its message still promises, from the
              \* delivery on, 0 when it promises none

varsLivree == <<vars, varsLivraison, envois, reponses, annonces>>

RienEnvoye == [code |-> 0, mode |-> "erreur"]

InitLivree ==
    /\ Init
    /\ InitLivraison
    /\ envois = [r \in Requetes |-> RienEnvoye]
    /\ reponses = {}
    /\ annonces = [c \in Codes |-> 0]
-----------------------------------------------------------------------------
Oublier(r) == envois' = [envois EXCEPT ![r] = RienEnvoye]

EcrireCodeLivre(r) ==
    /\ EcrireCode(r)
    /\ envois' = [envois EXCEPT ![r] =
                    [code |-> Len(emis) + 1, mode |-> "erreur"]]
    /\ UNCHANGED <<varsLivraison, reponses, annonces>>

\* The message of request r was taken by a provider while its code c was in the
\* store: its holder reads in it for how long the code lasts.
EnvoiAnnonce(r, c, mode) ==
    /\ c = envois[r].code /\ mode # "local"
    /\ Present(magasin, Cle(r)) /\ magasin[Cle(r)].valeur = c

\* A delivery that throws ends the request: the code stays in the store and
\* the attempt stays counted.
EnvoyerLivre(r) ==
    /\ A(r, "envoyer")
    /\ \E canal \in Canaux, mode \in Remises \cup {"erreur"} :
          /\ SendCode(canal, envois[r].code, mode)
          /\ \/ /\ mode = "erreur"
                /\ Echouer(r)
                /\ Oublier(r)
                /\ UNCHANGED annonces
             \/ /\ mode # "erreur"
                /\ Envoyer(r)
                /\ envois' = [envois EXCEPT ![r].mode = mode]
                /\ annonces' = [c \in Codes |->
                                  IF EnvoiAnnonce(r, c, mode) THEN DureeAnnoncee
                                                              ELSE annonces[c]]
    /\ UNCHANGED reponses

JournaliserLivre(r) ==
    /\ Journaliser(r)
    /\ reponses' = IF req[r].op # "code" THEN reponses
         ELSE reponses \cup {[code |-> envois[r].code,
                              montre |-> envois[r].mode = "local"]}
    /\ Oublier(r)
    /\ UNCHANGED <<varsLivraison, annonces>>

EchouerLivre(r) ==
    /\ Echouer(r)
    /\ Oublier(r)
    /\ UNCHANGED <<varsLivraison, reponses, annonces>>

\* The steps that deliver nothing.
Autre(r) ==
    /\ \/ Recevoir(r) \/ LireTaux(r) \/ IncrementerTaux(r) \/ ExpirerTaux(r)
       \/ LireUser(r) \/ LireCode(r) \/ Hacher(r) \/ Sauver(r)
    /\ UNCHANGED <<varsLivraison, envois, reponses, annonces>>

\* A code that is used promises nothing more.
SupprimerCodeLivre(r) ==
    /\ SupprimerCode(r)
    /\ annonces' = [annonces EXCEPT ![req[r].code] = 0]
    /\ UNCHANGED <<varsLivraison, envois, reponses>>

TempsLivre ==
    /\ Temps
    /\ annonces' = [c \in Codes |-> IF annonces[c] > 0 THEN annonces[c] - 1
                                                       ELSE 0]
    /\ UNCHANGED <<varsLivraison, envois, reponses>>

NextLivree ==
    \/ TempsLivre
    \/ \E r \in Requetes :
          EcrireCodeLivre(r) \/ EnvoyerLivre(r) \/ JournaliserLivre(r)
          \/ EchouerLivre(r) \/ SupprimerCodeLivre(r) \/ Autre(r)

SpecLivree == InitLivree /\ [][NextLivree]_varsLivree
-----------------------------------------------------------------------------
\* Types of the deliveries and of the answers.
TypesLivree ==
    /\ TypesLivraison
    /\ envois \in [Requetes -> [code : Nat, mode : Remises \cup {"erreur"}]]
    /\ reponses \subseteq [code : Nat, montre : BOOLEAN]
    /\ annonces \in [Codes -> Nat]

\* Whoever is told that a code was sent can have it: a provider took it, or the
\* answer shows it, whichever provider was configured, failed or lost an answer.
CodeParvenu ==
    \A reponse \in reponses : reponse.montre \/ reponse.code \in remis

\* A code of the same purpose and user was generated after code c.
Remplace(c) == \E d \in (c + 1)..Len(emis) : emis[d] = emis[c]

\* "Il expire dans 10 minutes": a code that was sent can be used for as long as
\* its message says, unless it is used or replaced before.
CodeUtilisable ==
    \A c \in Codes :
        annonces[c] > 0 =>
           \/ Remplace(c)
           \/ LET cle == StorageKey(emis[c][1], emis[c][2])
              IN  Present(magasin, cle) /\ magasin[cle].valeur = c
=============================================================================
