---------------------------- MODULE Partenaires ----------------------------
(***************************************************************************)
(* PartnerService: clients and suppliers, two tables with the same handlers *)
(* and a unique name each.                                                  *)
(*                                                                          *)
(* An import creates its rows one after the other, outside any transaction; *)
(* an update and a deletion look for the row in statements of their own.    *)
(* Of a partner only the name is kept: no handler decides on anything else. *)
(***************************************************************************)
EXTENDS Serveur, Sequences, SequencesExt

CONSTANTS
    Noms,           \* names of partners
    Fichiers,       \* files a client imports: sequences of names, Neant where
                    \* a row has none
    MaxPartenaires, \* bound on the rows ever inserted into a table
    Registres       \* tables used in this instance

Tables == {"Client", "Fournisseur"}

ASSUME PartenairesAssumption ==
    /\ MaxPartenaires \in Nat
    /\ Neant \notin Noms
    /\ Fichiers \subseteq Seq(Noms \cup {Neant})
    /\ Registres \subseteq Tables

VARIABLES
    registres,         \* tables clients and fournisseurs: id -> name or Neant
    prochains,         \* next id of each table
    reqPartenaires,    \* the requests in progress
    recuesPartenaires,
    tracesPartenaires, \* audit_logs: <<action, table, id or count>>
    insertions,        \* history: <<table, name, request>> of each insertion
    imports,           \* history: <<table, file, request>> of imports answered
    liberes            \* history: names a deletion or an update gave up

varsPartenaires ==
    <<registres, prochains, reqPartenaires, recuesPartenaires,
      tracesPartenaires, insertions, imports, liberes>>

Ids == 1..MaxPartenaires

ReposPartenaires ==
    [pc |-> "repos", op |-> "create", table |-> "Client", n |-> 0, id |-> 0,
     lignes |-> <<>>, count |-> 0]

InitPartenaires ==
    /\ registres = [t \in Tables |-> [id \in Ids |-> Neant]]
    /\ prochains = [t \in Tables |-> 1]
    /\ reqPartenaires = [r \in Requetes |-> ReposPartenaires]
    /\ recuesPartenaires = 0
    /\ tracesPartenaires = {}
    /\ insertions = {}
    /\ imports = {}
    /\ liberes = [t \in Tables |-> {}]
-----------------------------------------------------------------------------
\* The insertion of the next row of an import, or its own audit entry.
Suite(lignes, count) == IF count < Len(lignes) THEN "enregistrer" ELSE "cloturer"

Demande(t, op, pc, id, lignes) ==
    [pc |-> pc, op |-> op, table |-> t, n |-> recuesPartenaires + 1, id |-> id,
     lignes |-> lignes, count |-> 0]

\* Bodies of an update: no column, columns other than the name, the name.
Corps == {<<>>, <<Neant>>} \cup {<<nom>> : nom \in Noms}

Demandes(t) ==
    {Demande(t, "create", "enregistrer", 0, <<nom>>) : nom \in Noms}
    \cup {Demande(t, "import", Suite(f, 0), 0, f) : f \in Fichiers}
    \cup {Demande(t, "update", "modifier", id, corps) :
            id \in Ids, corps \in Corps}
    \cup {Demande(t, "delete", "trouver", id, <<>>) : id \in Ids}
    \cup {Demande(t, "export", "tracer", 0, <<>>)}

DemandesClients == IF "Client" \in Registres THEN Demandes("Client") ELSE {}
DemandesFournisseurs ==
    IF "Fournisseur" \in Registres THEN Demandes("Fournisseur") ELSE {}

RecevoirPartenaires(r) ==
    /\ reqPartenaires[r].pc = "repos"
    /\ recuesPartenaires < MaxRequetes
    /\ recuesPartenaires' = recuesPartenaires + 1
    /\ \E q \in DemandesClients \cup DemandesFournisseurs :
          reqPartenaires' = [reqPartenaires EXCEPT ![r] = q]
    /\ UNCHANGED <<registres, prochains, tracesPartenaires, insertions, imports,
                   liberes>>
-----------------------------------------------------------------------------
Continuer(r, pc) == reqPartenaires' = Aller(reqPartenaires, r, pc)
Terminer(r) == reqPartenaires' = [reqPartenaires EXCEPT ![r] = ReposPartenaires]
Tracer(q, x) == tracesPartenaires' = tracesPartenaires \cup {<<q.op, q.table, x>>}

\* The name is given, and no row of the table has it.
Insertable(t, nom) == nom # Neant /\ \A id \in Ids : registres[t][id] # nom

\* A new row, by the request of context q.
Inserer(q, nom) ==
    /\ prochains[q.table] \in Ids
    /\ registres' = [registres EXCEPT ![q.table][prochains[q.table]] = nom]
    /\ prochains' = [prochains EXCEPT ![q.table] = @ + 1]
    /\ insertions' = insertions \cup {<<q.table, nom, q.n>>}

\* Variant: an import passes over the rows that the table refuses.
EnregistrerOuPasser(r) ==
    LET q == reqPartenaires[r]
        nom == q.lignes[q.count + 1]
    IN  /\ q.pc = "enregistrer"
        /\ \/ /\ Insertable(q.table, nom)
              /\ Inserer(q, nom)
              /\ reqPartenaires' = [reqPartenaires EXCEPT
                    ![r].pc = "tracer_creation", ![r].id = prochains[q.table]]
           \/ /\ ~Insertable(q.table, nom)
              /\ reqPartenaires' = [reqPartenaires EXCEPT
                    ![r].pc = Suite(q.lignes, q.count + 1), ![r].count = @ + 1]
              /\ UNCHANGED <<registres, prochains, insertions>>
        /\ UNCHANGED <<recuesPartenaires, tracesPartenaires, imports, liberes>>

\* createClient: a row the table refuses ends the request, and an import with it.
Enregistrer(r) ==
    LET q == reqPartenaires[r]
        nom == q.lignes[q.count + 1]
    IN  /\ q.pc = "enregistrer"
        /\ \/ /\ Insertable(q.table, nom)
              /\ Inserer(q, nom)
              /\ reqPartenaires' = [reqPartenaires EXCEPT
                    ![r].pc = "tracer_creation", ![r].id = prochains[q.table]]
           \/ /\ ~Insertable(q.table, nom)
              /\ Terminer(r)
              /\ UNCHANGED <<registres, prochains, insertions>>
        /\ UNCHANGED <<recuesPartenaires, tracesPartenaires, imports, liberes>>

\* createClient: its audit entry; an import turns to the next row.
TracerCreation(r) ==
    LET q == reqPartenaires[r]
    IN  /\ q.pc = "tracer_creation"
        /\ tracesPartenaires' =
             tracesPartenaires \cup {<<"create", q.table, q.id>>}
        /\ IF q.op = "import"
             THEN reqPartenaires' = [reqPartenaires EXCEPT
                    ![r].count = @ + 1, ![r].pc = Suite(q.lignes, q.count + 1)]
             ELSE Terminer(r)
        /\ UNCHANGED <<registres, prochains, recuesPartenaires, insertions,
                       imports, liberes>>

Cloturer(r) ==
    LET q == reqPartenaires[r]
    IN  /\ q.pc = "cloturer"
        /\ Tracer(q, q.count)
        /\ imports' = imports \cup {<<q.table, q.lignes, q.n>>}
        /\ Terminer(r)
        /\ UNCHANGED <<registres, prochains, recuesPartenaires, insertions,
                       liberes>>
-----------------------------------------------------------------------------
\* The name an update asks for, and whether the table accepts it in row id.
NomDemande(q) == IF q.lignes = <<Neant>> THEN registres[q.table][q.id]
                                         ELSE q.lignes[1]
Modifiable(q) ==
    /\ q.lignes # <<>>
    /\ \A id \in Ids \ {q.id} :
          registres[q.table][q.id] # Neant /\ registres[q.table][id] # Neant
              => registres[q.table][id] # NomDemande(q)

\* Variant: updateClient saves the row, and inserts one that is gone.
ModifierOuInserer(r) ==
    LET q == reqPartenaires[r]
    IN  /\ q.pc = "modifier"
        /\ q.lignes # <<>> /\ NomDemande(q) # Neant
        /\ registres' = [registres EXCEPT ![q.table][q.id] = NomDemande(q)]
        /\ Continuer(r, "relire")
        /\ UNCHANGED <<prochains, recuesPartenaires, tracesPartenaires,
                       insertions, imports, liberes>>

\* updateClient: an UPDATE of the row if it is there, refused when the body has
\* no column or the name belongs to another row.
Modifier(r) ==
    LET q == reqPartenaires[r]
        ancien == registres[q.table][q.id]
    IN  /\ q.pc = "modifier"
        /\ \/ /\ ~Modifiable(q)
              /\ Terminer(r)
              /\ UNCHANGED <<registres, liberes>>
           \/ /\ Modifiable(q)
              /\ IF ancien = Neant
                   THEN UNCHANGED <<registres, liberes>>
                   ELSE /\ registres' = [registres EXCEPT
                                           ![q.table][q.id] = NomDemande(q)]
                        /\ liberes' = [liberes EXCEPT ![q.table] =
                                         @ \cup ({ancien} \ {NomDemande(q)})]
              /\ Continuer(r, "relire")
        /\ UNCHANGED <<prochains, recuesPartenaires, tracesPartenaires,
                       insertions, imports>>

\* findClientById, after the update or before the deletion: 404 without a row.
Chercher(r) ==
    LET q == reqPartenaires[r]
    IN  /\ q.pc \in {"relire", "trouver"}
        /\ IF registres[q.table][q.id] = Neant
             THEN Terminer(r)
             ELSE Continuer(r, IF q.pc = "relire" THEN "tracer" ELSE "supprimer")
        /\ UNCHANGED <<registres, prochains, recuesPartenaires,
                       tracesPartenaires, insertions, imports, liberes>>

\* deleteClient: the row may be gone since it was found.
Supprimer(r) ==
    LET q == reqPartenaires[r]
    IN  /\ q.pc = "supprimer"
        /\ registres' = [registres EXCEPT ![q.table][q.id] = Neant]
        /\ liberes' = [liberes EXCEPT ![q.table] =
                         @ \cup ({registres[q.table][q.id]} \ {Neant})]
        /\ Continuer(r, "tracer")
        /\ UNCHANGED <<prochains, recuesPartenaires, tracesPartenaires,
                       insertions, imports>>

\* The audit entry of an update, a deletion or an export, then the answer.  What
\* an export reads and formats before is left out.
TracerFin(r) ==
    LET q == reqPartenaires[r]
    IN  /\ q.pc = "tracer"
        /\ Tracer(q, q.id)
        /\ Terminer(r)
        /\ UNCHANGED <<registres, prochains, recuesPartenaires, insertions,
                       imports, liberes>>

EchouerPartenaires(r) ==
    /\ Pannes
    /\ reqPartenaires[r].pc # "repos"
    /\ Terminer(r)
    /\ UNCHANGED <<registres, prochains, recuesPartenaires, tracesPartenaires,
                   insertions, imports, liberes>>

AvancerPartenaires(r) ==
    \/ Enregistrer(r) \/ TracerCreation(r) \/ Cloturer(r)
    \/ Modifier(r) \/ Chercher(r) \/ Supprimer(r) \/ TracerFin(r)

\* The handlers of the two tables.
AvancerClients(r) == reqPartenaires[r].table = "Client" /\ AvancerPartenaires(r)
AvancerFournisseurs(r) ==
    reqPartenaires[r].table = "Fournisseur" /\ AvancerPartenaires(r)

NextPartenaires ==
    \E r \in Requetes :
        \/ RecevoirPartenaires(r) \/ EchouerPartenaires(r)
        \/ AvancerClients(r) \/ AvancerFournisseurs(r)

SpecPartenaires == InitPartenaires /\ [][NextPartenaires]_varsPartenaires
-----------------------------------------------------------------------------
Contextes ==
    [pc : {"repos", "enregistrer", "tracer_creation", "cloturer", "modifier",
           "relire", "trouver", "supprimer", "tracer"},
     op : {"create", "import", "update", "delete", "export"}, table : Tables,
     n : Nat, id : Nat, lignes : Seq(Noms \cup {Neant}), count : Nat]

TypesPartenaires ==
    /\ registres \in [Tables -> [Ids -> Noms \cup {Neant}]]
    /\ prochains \in [Tables -> 1..(MaxPartenaires + 1)]
    /\ reqPartenaires \in [Requetes -> Contextes]
    /\ recuesPartenaires \in 0..MaxRequetes
    /\ insertions \subseteq Tables \X Noms \X (1..MaxRequetes)
    /\ imports \subseteq Tables \X Fichiers \X (1..MaxRequetes)
    /\ liberes \in [Tables -> SUBSET Noms]

\* A partner whose deletion is in the audit log never comes back, whatever
\* updates were in progress when it was deleted; and what the log says was
\* created has been.  (A user may come back: see DecisionRespectee in Comptes.)
TraceSuppression ==
    \A trace \in tracesPartenaires :
        LET t == trace[2]  id == trace[3]
        IN  /\ trace[1] = "delete" => registres[t][id] = Neant
            /\ trace[1] \in {"create", "delete"} => id < prochains[t]

\* An import that is answered has inserted every row of its file itself: no
\* other request, not even an earlier attempt at the same file that stopped
\* half-way, inserted one of its names, unless that name was given up since.  So
\* an import that failed after its first row cannot be completed by trying again.
ImportSeul ==
    \A i \in imports : \A k \in DOMAIN i[2] :
        /\ <<i[1], i[2][k], i[3]>> \in insertions
        /\ \A x \in insertions :
              x[1] = i[1] /\ x[2] = i[2][k] /\ x[3] # i[3] =>
                  x[2] \in liberes[i[1]]
=============================================================================
