------------------------------ MODULE Reglages ------------------------------
(***************************************************************************)
(* SettingsService: the single row of settings, created by whichever        *)
(* request asks for it first, read and updated by later ones.               *)
(*                                                                          *)
(* Nothing in the database keeps the row single, and findOne without an     *)
(* order may return any row.  Rows are never deleted: the table is the      *)
(* sequence of its rows in the order of their ids.                          *)
(***************************************************************************)
EXTENDS Serveur, Sequences

CONSTANTS
    Colonnes, \* columns of the settings
    Valeurs,  \* values a client gives them
    Defaut    \* value of every column in a new row

VARIABLES
    reglages,      \* table settings
    reqReglages,   \* the requests in progress
    recuesReglages,
    tracesReglages, \* audit_logs of entity Settings: <<action, id>>
    dernier        \* history: the last value given to each column

varsReglages ==
    <<reglages, reqReglages, recuesReglages, tracesReglages, dernier>>

Lignes == [Colonnes -> Valeurs \cup {Defaut}]
Payloads == UNION {[S -> Valeurs] : S \in SUBSET Colonnes}
ParDefaut == [c \in Colonnes |-> Defaut]

ReposReglages == [pc |-> "repos", op |-> "get", id |-> 0, corps |-> Neant]

InitReglages ==
    /\ reglages = <<>>
    /\ reqReglages = [r \in Requetes |-> ReposReglages]
    /\ recuesReglages = 0
    /\ tracesReglages = {}
    /\ dernier = ParDefaut
-----------------------------------------------------------------------------
\* GET and PUT.
DemandesReglages ==
    [pc : {"chercher"}, op : {"get"}, id : {0}, corps : {Neant}]
    \cup [pc : {"chercher"}, op : {"put"}, id : {0}, corps : Payloads]

RecevoirReglages(r) ==
    /\ reqReglages[r].pc = "repos"
    /\ recuesReglages < MaxRequetes
    /\ recuesReglages' = recuesReglages + 1
    /\ \E q \in DemandesReglages :
          reqReglages' = [reqReglages EXCEPT ![r] = q]
    /\ UNCHANGED <<reglages, tracesReglages, dernier>>

\* What follows ensureSettings: the update in a PUT, the answer otherwise.
Assure(q, id) ==
    IF q.op = "put" THEN [q EXCEPT !.pc = "ecrire", !.id = id]
                    ELSE ReposReglages

\* Variant: ensureSettings does not return the row it found.
ChercherSansRetour(r) ==
    /\ reqReglages[r].pc = "chercher"
    /\ reqReglages' = Aller(reqReglages, r, "creer")
    /\ UNCHANGED <<reglages, recuesReglages, tracesReglages, dernier>>

\* findOne: any row, if there is one.
ChercherReglage(r) ==
    LET q == reqReglages[r]
    IN  /\ q.pc = "chercher"
        /\ \/ /\ reglages = <<>>
              /\ reqReglages' = Aller(reqReglages, r, "creer")
           \/ \E id \in DOMAIN reglages :
                 reqReglages' = [reqReglages EXCEPT ![r] = Assure(q, id)]
        /\ UNCHANGED <<reglages, recuesReglages, tracesReglages, dernier>>

CreerReglage(r) ==
    LET q == reqReglages[r]
    IN  /\ q.pc = "creer"
        /\ reglages' = Append(reglages, ParDefaut)
        /\ reqReglages' =
             [reqReglages EXCEPT ![r] = Assure(q, Len(reglages) + 1)]
        /\ UNCHANGED <<recuesReglages, tracesReglages, dernier>>

\* Columns of a row after the update of a PUT.
LigneEcrite(ligne, corps) ==
    [c \in Colonnes |-> IF c \in DOMAIN corps THEN corps[c] ELSE ligne[c]]

\* Variant: the update saves a row built from the body and the defaults.
EcrireLigneEntiere(r) ==
    LET q == reqReglages[r]
    IN  /\ q.pc = "ecrire"
        /\ reglages' = [reglages EXCEPT ![q.id] = LigneEcrite(ParDefaut, q.corps)]
        /\ dernier' = LigneEcrite(dernier, q.corps)
        /\ reqReglages' = Aller(reqReglages, r, "tracer")
        /\ UNCHANGED <<recuesReglages, tracesReglages>>

\* update(id, payload) writes the columns of the body, and refuses an empty one.
EcrireReglage(r) ==
    LET q == reqReglages[r]
    IN  /\ q.pc = "ecrire"
        /\ \/ /\ DOMAIN q.corps = {}
              /\ reqReglages' = [reqReglages EXCEPT ![r] = ReposReglages]
              /\ UNCHANGED <<reglages, dernier>>
           \/ /\ DOMAIN q.corps # {}
              /\ reglages' = [reglages EXCEPT ![q.id] = LigneEcrite(@, q.corps)]
              /\ dernier' = LigneEcrite(dernier, q.corps)
              /\ reqReglages' = Aller(reqReglages, r, "tracer")
        /\ UNCHANGED <<recuesReglages, tracesReglages>>

\* The audit entry, then ensureSettings once more for the answer.
TracerReglage(r) ==
    LET q == reqReglages[r]
    IN  /\ q.pc = "tracer"
        /\ tracesReglages' = tracesReglages \cup {<<"update_settings", q.id>>}
        /\ reqReglages' = [reqReglages EXCEPT ![r] =
             [q EXCEPT !.pc = "chercher", !.op = "relire"]]
        /\ UNCHANGED <<reglages, recuesReglages, dernier>>

EchouerReglages(r) ==
    /\ Pannes
    /\ reqReglages[r].pc # "repos"
    /\ reqReglages' = [reqReglages EXCEPT ![r] = ReposReglages]
    /\ UNCHANGED <<reglages, recuesReglages, tracesReglages, dernier>>

AvancerReglages(r) ==
    \/ ChercherReglage(r) \/ CreerReglage(r)
    \/ EcrireReglage(r) \/ TracerReglage(r)

NextReglages ==
    \E r \in Requetes :
        RecevoirReglages(r) \/ AvancerReglages(r) \/ EchouerReglages(r)

SpecReglages == InitReglages /\ [][NextReglages]_varsReglages
-----------------------------------------------------------------------------
EnCreation == {r \in Requetes : reqReglages[r].pc = "creer"}

ContextesReglages ==
    [pc : {"repos", "chercher", "creer", "ecrire", "tracer"},
     op : {"get", "put", "relire"}, id : Nat, corps : Payloads \cup {Neant}]

TypesReglages ==
    /\ reglages \in Seq(Lignes)
    /\ reqReglages \in [Requetes -> ContextesReglages]
    /\ recuesReglages \in 0..MaxRequetes
    /\ dernier \in Lignes

\* Two first uses at the same time both create the row, and nothing removes it
\* afterwards; but no more rows than slots ever appear: once there is a row, no
\* request that has not read the empty table creates another one, and the
\* reading at the end of an update never does.
BorneReglages ==
    /\ Len(reglages) <= Cardinality(Requetes)
    /\ \A r \in EnCreation : reqReglages[r].op # "relire"

\* However reads, creations and updates overlap, the last value given to each
\* setting is in the table: an update writes its own columns only, and a late
\* creation adds a row rather than resetting one.  (Which of two rows a reader
\* gets is another matter: see BorneReglages.)
ReglageConserve ==
    reglages # <<>> =>
        \A c \in Colonnes : \E id \in DOMAIN reglages :
            reglages[id][c] = dernier[c]
=============================================================================
