------------------------------ MODULE Facture ------------------------------
(***************************************************************************)
(* FactureService: concurrent requests on the invoice tables.               *)
(*                                                                          *)
(* Node runs the handlers of several HTTP requests in turn; a handler gives *)
(* way at every await.  Each awaited database call is one action here, with *)
(* the computation that follows it up to the next await.  PostgreSQL runs   *)
(* each statement atomically and the service opens no transaction, so       *)
(* requests interleave between any two of their statements, and a failing   *)
(* statement (or a crash) abandons the request and leaves what it wrote.    *)
(*                                                                          *)
(* The lines of an invoice are represented by their sum, its payments by    *)
(* theirs.  Amounts are whole cents here; FactureArrondi does the rounding. *)
(***************************************************************************)
EXTENDS FactureCalcul, FiniteSets

CONSTANTS
    Requetes,       \* slots for requests in progress
    MaxRequetes,    \* bound on the requests ever received
    MaxFactures,    \* bound on the invoices ever created
    Operations,     \* handlers that clients call in this instance
    Numeros,        \* invoice numbers clients choose
    Clients,        \* clients of the partner module
    Ventes,         \* kinds of sale
    HTs,            \* sums of invoice lines
    Remises,        \* discounts
    Acomptes,       \* advances paid at creation
    Montants,       \* amounts paid later
    StatutsDemandes,\* statuses a client may set by hand
    Pannes,         \* whether awaited calls may fail
    Neant           \* no row, no request

ASSUME BornesAssumption == MaxRequetes \in Nat /\ MaxFactures \in Nat
\* No DTO and no handler checks the sign of an amount.
ASSUME DonneesAssumption ==
    /\ HTs \subseteq Int /\ Acomptes \subseteq Int /\ Montants \subseteq Int
    /\ Ventes \subseteq TypesVente /\ StatutsDemandes \subseteq Statuts
ASSUME RemisesAssumption == \A remise \in Remises : remise.valeur \in Int

Ids == 1..MaxFactures

\* An optional field of a request body: absent or one value.
Optionnel(S) == {{}} \cup {{x} : x \in S}
Ou(champ, defaut) == IF champ = {} THEN defaut ELSE CHOOSE x \in champ : TRUE

Lignes == [numero : Numeros, client_id : Clients, type_vente : TypesVente,
           sous_total_ht : Int, total_ttc : Int, acompte : Int,
           montant_paye : Int, solde_a_payer : Int, statut : Statuts]

Creations == [op : {"creer"}, numero : Numeros, client : Clients,
              vente : Ventes, ht : HTs, remise : Remises,
              acompte : Acomptes, statut : Optionnel(StatutsDemandes)]
Modifications == [op : {"modifier"}, id : Ids, vente : Optionnel(Ventes),
                  ht : Optionnel(HTs), remise : Remises,
                  statut : Optionnel(StatutsDemandes)]
ChangementsStatut == [op : {"statut"}, id : Ids, statut : StatutsDemandes]
Reglements == [op : {"payer"}, id : Ids, client : Optionnel(Clients),
               montant : Montants]
Suppressions == [op : {"supprimer"}, id : Ids]
Calculs == [op : {"calculer"}, connu : BOOLEAN]
Demandes ==
    {d \in UNION {Creations, Modifications, ChangementsStatut, Reglements,
                  Suppressions, Calculs} : d.op \in Operations}

ASSUME NeantAssumption == Neant \notin Lignes /\ Neant \notin Demandes

Etapes == {"repos", "inserer", "effacer_lignes", "ecrire_lignes", "acompte",
           "lire", "lire_lignes", "maj", "statut", "payer", "solder",
           "suppr_lignes", "suppr_paiements", "suppr_facture",
           "journal", "notifier"}

VARIABLES
    factures,       \* table factures: id -> row or Neant
    lignes,         \* table lignes_facture: id -> sum of the rows
    paiements,      \* table paiements_facture: id -> sum of the rows
    journal,        \* table audit_logs: <<operation, id>> written
    paiementsAudites, \* amounts in the 'register_facture_payment' entries
    notifications,  \* table notifications: <<operation, id>> written
    prochain,       \* next value of the id sequence
    req,            \* the requests in progress
    recues,         \* number of requests received
    acompteDu,      \* history: advances in a row whose payment row is missing
    rembourses,     \* history: invoices a negative payment was recorded for
    purges,         \* history: invoices whose payments were deleted
    troubles        \* history: invoices on which requests overlapped, or one
                    \* failed after its first write

tables == <<factures, lignes, paiements, journal, paiementsAudites,
            notifications, prochain>>
vars == <<tables, req, recues, rembourses, acompteDu, purges, troubles>>

Repos == [pc |-> "repos", d |-> Neant, id |-> 0, lu |-> Neant, ht |-> 0]

\* What a handler keeps between two awaits: its request body, the invoice it
\* is about, the row it read and the sum of lines it will compute with.
Contextes == [pc : Etapes, d : Demandes \cup {Neant}, id : Ids \cup {0},
              lu : Lignes \cup {Neant}, ht : Int]

\* A request is of the kind its step belongs to, and holds what the step uses.
RequeteOK(q) ==
    /\ q.pc # "repos" => q.d \in Demandes
    /\ q.pc \in {"inserer", "acompte"} => q.d \in Creations
    /\ q.pc = "acompte" => q.d.acompte > 0
    /\ q.pc \in {"effacer_lignes", "ecrire_lignes"} =>
          q.d \in Creations \cup Modifications
    /\ q.pc \in {"lire_lignes", "maj"} => q.d \in Modifications
    /\ q.pc = "statut" => q.d \in ChangementsStatut
    /\ q.pc \in {"payer", "solder"} => q.d \in Reglements
    /\ q.pc \in {"suppr_lignes", "suppr_paiements", "suppr_facture"} =>
          q.d \in Suppressions
    /\ q.pc = "lire" => q.d.op \notin {"creer", "calculer"}
    /\ q.pc = "inserer" => q.id = 0
    /\ q.pc \in {"journal", "notifier"} /\ q.d.op = "calculer" => q.id = 0
    /\ q.pc \in {"lire_lignes", "maj", "payer", "solder"} => q.lu \in Lignes
    /\ q.pc \notin {"repos", "inserer", "journal", "notifier"} => q.id \in Ids
    /\ q.pc \in {"journal", "notifier"} /\ q.d.op # "calculer" => q.id \in Ids

\* Type invariant of the tables, the history and the requests in progress.
TypeOK ==
    /\ factures \in [Ids -> Lignes \cup {Neant}]
    /\ lignes \in [Ids -> Int]
    /\ paiements \in [Ids -> Int]
    /\ journal \subseteq Operations \X (Ids \cup {0})
    /\ paiementsAudites \in [Ids -> Int]
    /\ notifications \subseteq Operations \X (Ids \cup {0})
    /\ prochain \in 1..(MaxFactures + 1)
    /\ req \in [Requetes -> Contextes]
    /\ \A r \in Requetes : RequeteOK(req[r])
    /\ recues \in 0..MaxRequetes
    /\ acompteDu \in [Ids -> Int]
    /\ rembourses \subseteq Ids
    /\ purges \subseteq Ids
    /\ troubles \subseteq Ids

Init ==
    /\ factures = [i \in Ids |-> Neant]
    /\ lignes = [i \in Ids |-> 0]
    /\ paiements = [i \in Ids |-> 0]
    /\ journal = {}
    /\ paiementsAudites = [i \in Ids |-> 0]
    /\ notifications = {}
    /\ prochain = 1
    /\ req = [r \in Requetes |-> Repos]
    /\ recues = 0
    /\ acompteDu = [i \in Ids |-> 0]
    /\ rembourses = {}
    /\ purges = {}
    /\ troubles = {}
-----------------------------------------------------------------------------
Aller(r, pc) == req' = [req EXCEPT ![r].pc = pc]
Finir(r) == req' = [req EXCEPT ![r] = Repos]
A(r, pc) == req[r].pc = pc

\* Another request is about invoice id.
Occupe(r, id) == \E s \in Requetes \ {r} : ~A(s, "repos") /\ req[s].id = id

\* The first write of the handler is done.
Entame(r) == req[r].pc \notin {"inserer", "lire", "lire_lignes", "maj",
                              "statut", "payer", "suppr_lignes"}

\* The first awaited call of a handler.
Debut(d) == CASE d.op = "creer" -> "inserer"
              [] d.op = "calculer" -> "journal"
              [] OTHER -> "lire"

Recevoir(r) ==
    /\ A(r, "repos")
    /\ recues < MaxRequetes
    /\ recues' = recues + 1
    /\ \E d \in Demandes :
          LET id == IF d.op \in {"creer", "calculer"} THEN 0 ELSE d.id
          IN  /\ req' = [req EXCEPT ![r] = [pc |-> Debut(d), d |-> d, id |-> id,
                                           lu |-> Neant, ht |-> 0]]
              /\ troubles' = troubles \cup {i \in Ids : i = id /\ Occupe(r, i)}
    /\ UNCHANGED <<tables, rembourses, acompteDu, purges>>

\* createFacture
LigneNeuve(d) ==
    LET t == CalculateTotals(d.ht, d.remise, d.vente, d.acompte)
    IN  [numero |-> d.numero, client_id |-> d.client, type_vente |-> d.vente,
         sous_total_ht |-> t.sous_total_ht, total_ttc |-> t.total_ttc,
         acompte |-> t.acompte, montant_paye |-> t.montant_paye,
         solde_a_payer |-> t.solde_a_payer,
         statut |-> Ou(d.statut, StatutInitial(t.solde_a_payer))]

\* numero_facture is unique; MaxFactures bounds the instance.
Inserable(d) ==
    /\ prochain \in Ids
    /\ \A i \in Ids : factures[i] # Neant => factures[i].numero # d.numero

Inserer(r) ==
    /\ A(r, "inserer")
    /\ LET d == req[r].d
       IN  /\ Inserable(d)
           /\ factures' = [factures EXCEPT ![prochain] = LigneNeuve(d)]
           /\ acompteDu' = [acompteDu EXCEPT ![prochain] = d.acompte]
    /\ prochain' = prochain + 1
    /\ troubles' = troubles \cup {i \in Ids : i = prochain /\ Occupe(r, i)}
    /\ req' = [req EXCEPT ![r].pc = "effacer_lignes", ![r].id = prochain]
    /\ UNCHANGED <<lignes, paiements, journal, paiementsAudites,
                   notifications, recues, rembourses, purges>>

RefuserInsertion(r) ==
    /\ A(r, "inserer")
    /\ ~Inserable(req[r].d)
    /\ Finir(r)
    /\ UNCHANGED <<tables, recues, rembourses, acompteDu, purges, troubles>>

\* Variant: saveLines inserts without deleting first.
EffacerLignesOubli(r) ==
    /\ A(r, "effacer_lignes")
    /\ Aller(r, "ecrire_lignes")
    /\ UNCHANGED <<tables, recues, rembourses, acompteDu, purges, troubles>>

\* saveLines, used by createFacture and updateFacture: delete, then insert.
EffacerLignes(r) ==
    /\ A(r, "effacer_lignes")
    /\ lignes' = [lignes EXCEPT ![req[r].id] = 0]
    /\ Aller(r, "ecrire_lignes")
    /\ UNCHANGED <<factures, paiements, journal, paiementsAudites,
                   notifications, prochain, recues, rembourses, acompteDu,
                   purges, troubles>>

EcrireLignes(r) ==
    /\ A(r, "ecrire_lignes")
    /\ LET d == req[r].d
           ht == IF d.op = "creer" THEN d.ht ELSE Ou(d.ht, 0)
       IN  /\ lignes' = [lignes EXCEPT ![req[r].id] = @ + ht]
           /\ Aller(r, IF d.op = "creer" /\ d.acompte > 0 THEN "acompte"
                                                          ELSE "journal")
    /\ UNCHANGED <<factures, paiements, journal, paiementsAudites,
                   notifications, prochain, recues, rembourses, acompteDu,
                   purges, troubles>>

EnregistrerAcompte(r) ==
    /\ A(r, "acompte")
    /\ LET montant == req[r].d.acompte
           id == req[r].id
       IN  /\ paiements' = [paiements EXCEPT ![id] = @ + montant]
           /\ acompteDu' = [acompteDu EXCEPT ![id] = @ - montant]
    /\ Aller(r, "journal")
    /\ UNCHANGED <<factures, lignes, journal, paiementsAudites,
                   notifications, prochain, recues, rembourses, purges,
                   troubles>>
-----------------------------------------------------------------------------
\* findOne, the first call of the other handlers: 404 when there is no row;
\* registerPayment answers 400 when the expected client is another one.
Suite(d) == CASE d.op = "modifier" -> "lire_lignes"
              [] d.op = "statut" -> "statut"
              [] d.op = "payer" -> "payer"
              [] OTHER -> "suppr_lignes"

\* Variant: the row is used whether it was found or not.
AccepteToujours(d, lu) == TRUE

Accepte(d, lu) == lu # Neant
                  /\ (d.op = "payer" => d.client \subseteq {lu.client_id})

\* Variant: a request for an invoice that is not there is never answered.
LireBloquant(r) ==
    /\ A(r, "lire")
    /\ LET d == req[r].d
           lu == factures[req[r].id]
       IN  /\ Accepte(d, lu)
           /\ req' = [req EXCEPT ![r].pc = Suite(d), ![r].lu = lu]
    /\ UNCHANGED <<tables, recues, rembourses, acompteDu, purges, troubles>>

Lire(r) ==
    /\ A(r, "lire")
    /\ LET d == req[r].d
           lu == factures[req[r].id]
       IN  IF Accepte(d, lu)
             THEN req' = [req EXCEPT ![r].pc = Suite(d), ![r].lu = lu]
             ELSE Finir(r)
    /\ UNCHANGED <<tables, recues, rembourses, acompteDu, purges, troubles>>

\* updateFacture
LireLignes(r) ==
    /\ A(r, "lire_lignes")
    /\ req' = [req EXCEPT ![r].pc = "maj",
                          ![r].ht = Ou(req[r].d.ht, lignes[req[r].id])]
    /\ UNCHANGED <<tables, recues, rembourses, acompteDu, purges, troubles>>

\* An UPDATE of a row that another request deleted changes nothing.
MettreAJour(id, ligne) ==
    factures' = [factures EXCEPT ![id] = IF @ = Neant THEN Neant ELSE ligne]

\* Variants: the advance counted on top of what is paid; only the advance.
LigneModifieeDouble(actuelle, d, lu, ht) ==
    LET t == CalculateTotals(ht, d.remise, lu.type_vente,
                             lu.montant_paye + lu.acompte)
    IN  [actuelle EXCEPT !.total_ttc = t.total_ttc,
           !.montant_paye = t.montant_paye, !.solde_a_payer = t.solde_a_payer]
LigneModifieeAvance(actuelle, d, lu, ht) ==
    LET t == CalculateTotals(ht, d.remise, lu.type_vente, lu.acompte)
    IN  [actuelle EXCEPT !.total_ttc = t.total_ttc,
           !.montant_paye = t.montant_paye, !.solde_a_payer = t.solde_a_payer]

\* The discount of the request only, the stored amount paid as the advance.
LigneModifiee(actuelle, d, lu, ht) ==
    LET vente == Ou(d.vente, lu.type_vente)
        t == CalculateTotals(ht, d.remise, vente, lu.montant_paye)
    IN  [actuelle EXCEPT
           !.type_vente = vente, !.statut = Ou(d.statut, lu.statut),
           !.sous_total_ht = t.sous_total_ht, !.total_ttc = t.total_ttc,
           !.acompte = t.acompte, !.montant_paye = t.montant_paye,
           !.solde_a_payer = t.solde_a_payer]

Maj(r) ==
    /\ A(r, "maj")
    /\ LET d == req[r].d
           id == req[r].id
       IN  /\ MettreAJour(id, LigneModifiee(factures[id], d, req[r].lu,
                                            req[r].ht))
           /\ Aller(r, IF d.ht # {} THEN "effacer_lignes" ELSE "journal")
    /\ UNCHANGED <<lignes, paiements, journal, paiementsAudites,
                   notifications, prochain, recues, rembourses, acompteDu,
                   purges, troubles>>

\* updateStatus
ChangerStatut(r) ==
    /\ A(r, "statut")
    /\ LET id == req[r].id
       IN  MettreAJour(id, [factures[id] EXCEPT !.statut = req[r].d.statut])
    /\ Aller(r, "journal")
    /\ UNCHANGED <<lignes, paiements, journal, paiementsAudites,
                   notifications, prochain, recues, rembourses, acompteDu,
                   purges, troubles>>

\* Variant: the payment is created but never saved.
PayerSansLigne(r) ==
    /\ A(r, "payer")
    /\ Aller(r, "solder")
    /\ UNCHANGED <<tables, recues, rembourses, acompteDu, purges, troubles>>

\* registerPayment: the payment row, then the totals of the row read before it.
Payer(r) ==
    /\ A(r, "payer")
    /\ paiements' = [paiements EXCEPT ![req[r].id] = @ + req[r].d.montant]
    /\ rembourses' = rembourses
          \cup {i \in Ids : i = req[r].id /\ req[r].d.montant < 0}
    /\ Aller(r, "solder")
    /\ UNCHANGED <<factures, lignes, journal, paiementsAudites,
                   notifications, prochain, recues, acompteDu, purges,
                   troubles>>

\* Variant: an atomic increment of one column only.
LignePayeeIncrement(actuelle, lu, montant) ==
    LET paye == actuelle.montant_paye + montant
        solde == lu.total_ttc - lu.montant_paye - montant
    IN  [actuelle EXCEPT
           !.montant_paye = paye, !.solde_a_payer = solde,
           !.statut = StatutApresPaiement(solde, paye, lu.statut)]

LignePayee(actuelle, lu, montant) ==
    LET paye == lu.montant_paye + montant
        solde == lu.total_ttc - paye
    IN  [actuelle EXCEPT
           !.montant_paye = paye, !.solde_a_payer = solde,
           !.statut = StatutApresPaiement(solde, paye, lu.statut)]

Solder(r) ==
    /\ A(r, "solder")
    /\ LET id == req[r].id
       IN  MettreAJour(id, LignePayee(factures[id], req[r].lu,
                                      req[r].d.montant))
    /\ Aller(r, "journal")
    /\ UNCHANGED <<lignes, paiements, journal, paiementsAudites,
                   notifications, prochain, recues, rembourses, acompteDu,
                   purges, troubles>>

\* deleteFacture
SupprLignes(r) ==
    /\ A(r, "suppr_lignes")
    /\ lignes' = [lignes EXCEPT ![req[r].id] = 0]
    /\ Aller(r, "suppr_paiements")
    /\ UNCHANGED <<factures, paiements, journal, paiementsAudites,
                   notifications, prochain, recues, rembourses, acompteDu,
                   purges, troubles>>

SupprPaiements(r) ==
    /\ A(r, "suppr_paiements")
    /\ paiements' = [paiements EXCEPT ![req[r].id] = 0]
    /\ purges' = purges \cup {req[r].id}
    /\ Aller(r, "suppr_facture")
    /\ UNCHANGED <<factures, lignes, journal, paiementsAudites,
                   notifications, prochain, recues, rembourses, acompteDu,
                   troubles>>

\* Variant: the deletion leaves no audit entry.
SupprFactureSansTrace(r) ==
    /\ A(r, "suppr_facture")
    /\ factures' = [factures EXCEPT ![req[r].id] = Neant]
    /\ Finir(r)
    /\ UNCHANGED <<lignes, paiements, journal, paiementsAudites,
                   notifications, prochain, recues, rembourses, acompteDu,
                   purges, troubles>>

SupprFacture(r) ==
    /\ A(r, "suppr_facture")
    /\ factures' = [factures EXCEPT ![req[r].id] = Neant]
    /\ Aller(r, "journal")
    /\ UNCHANGED <<lignes, paiements, journal, paiementsAudites,
                   notifications, prochain, recues, rembourses, acompteDu,
                   purges, troubles>>
-----------------------------------------------------------------------------
\* auditLogService.log ends the effects of a handler, except for those that
\* also notify the user (calculerFacture only a known one); the findOne that
\* builds the answer changes nothing.
Journaliser(r) ==
    /\ A(r, "journal")
    /\ LET d == req[r].d
           id == req[r].id
       IN  /\ journal' = journal \cup {<<d.op, id>>}
           /\ paiementsAudites' =
                IF d.op = "payer"
                  THEN [paiementsAudites EXCEPT ![id] = @ + d.montant]
                  ELSE paiementsAudites
           /\ IF d.op \in {"creer", "payer"} \/ (d.op = "calculer" /\ d.connu)
                THEN Aller(r, "notifier") ELSE Finir(r)
    /\ UNCHANGED <<factures, lignes, paiements, notifications, prochain,
                   recues, rembourses, acompteDu, purges, troubles>>

Notifier(r) ==
    /\ A(r, "notifier")
    /\ notifications' = notifications \cup {<<req[r].d.op, req[r].id>>}
    /\ Finir(r)
    /\ UNCHANGED <<factures, lignes, paiements, journal, paiementsAudites,
                   prochain, recues, rembourses, acompteDu, purges, troubles>>

\* The awaited call fails: the exception ends the handler, nothing is undone.
Echouer(r) ==
    /\ Pannes
    /\ ~A(r, "repos")
    /\ Finir(r)
    /\ troubles' = troubles \cup {i \in Ids : i = req[r].id /\ Entame(r)}
    /\ UNCHANGED <<tables, recues, rembourses, acompteDu, purges>>

Avancer(r) ==
    \/ Inserer(r) \/ RefuserInsertion(r)
    \/ EffacerLignes(r) \/ EcrireLignes(r) \/ EnregistrerAcompte(r)
    \/ Lire(r) \/ LireLignes(r) \/ Maj(r) \/ ChangerStatut(r)
    \/ Payer(r) \/ Solder(r)
    \/ SupprLignes(r) \/ SupprPaiements(r) \/ SupprFacture(r)
    \/ Journaliser(r) \/ Notifier(r)

Next == \E r \in Requetes : Recevoir(r) \/ Avancer(r) \/ Echouer(r)

Spec == Init /\ [][Next]_vars

\* A handler whose awaited call has returned is resumed by the event loop.
FairSpec == Spec /\ \A r \in Requetes : WF_vars(Avancer(r))
-----------------------------------------------------------------------------
\* The money recorded for an invoice, in payment rows or as an advance whose
\* payment row was never written.
Couverture(i) == paiements[i] + acompteDu[i]

\* Whatever the interleaving and wherever requests fail, an invoice never
\* shows more paid than was recorded for it: stale reads may lose a payment
\* from montant_paye, never invent one.  Deletion of the payments apart, and
\* for payments that are not negative: a lost negative one does show more.
PayeCouvert ==
    \A i \in Ids \ purges :
        factures[i] # Neant => factures[i].montant_paye <= Couverture(i)

\* What makes PayeCouvert inductive: the snapshot a request will write back is
\* covered too, with its own payment once that row is in the table, and an
\* id of the sequence is in use nowhere before it is given to an invoice.
LectureCouverte ==
    \A r \in Requetes : req[r].id \notin purges =>
        /\ req[r].pc \in {"lire_lignes", "maj", "payer"} =>
              req[r].lu.montant_paye <= Couverture(req[r].id)
        /\ req[r].pc = "solder" =>
              req[r].lu.montant_paye + req[r].d.montant
                <= Couverture(req[r].id)

IdsAttribues ==
    /\ \A i \in Ids : i >= prochain => factures[i] = Neant
    /\ \A r \in Requetes :
          req[r].pc \in {"lire_lignes", "maj", "payer", "solder"} =>
              req[r].id < prochain

\* The sum of the payments of an invoice is not negative.
PaiementsPositifs == \A i \in Ids : paiements[i] >= 0

\* The inductive invariant of the amounts shown as paid.
InvCouverture == /\ TypeOK /\ PayeCouvert /\ LectureCouverte /\ IdsAttribues
                 /\ PaiementsPositifs

\* The audit trail claims no payment that is not in the payments table, when
\* no payment is negative.
AuditFonde ==
    \A i \in Ids \ purges : paiementsAudites[i] <= paiements[i]

Solde(f) == f.total_ttc - f.montant_paye

\* Without modifications, every write of the balance is consistent however
\* stale the snapshot it was computed from.
SoldeCoherent ==
    \A i \in Ids : factures[i] # Neant =>
        factures[i].solde_a_payer = Solde(factures[i])

\* A row is settled when nothing is left to pay; or when payments of invoice i
\* were given back until nothing is left paid, which changes no status.
Reglable(f, i, rendus) == \/ f.solde_a_payer <= 0
                          \/ i \in rendus /\ f.montant_paye <= 0

\* Nor is an invoice shown settled unless its stored balance is, when no client
\* sets that status by hand; negative payments apart, as Reglable says.
RegleeSoldee ==
    \A i \in Ids : factures[i] # Neant /\ factures[i].statut = "reglee"
                      => Reglable(factures[i], i, rembourses)

\* What makes both inductive: the row a payment was computed from was itself
\* consistent, and its total is still the one of the invoice.
LectureExacte ==
    \A r \in Requetes : req[r].pc \in {"payer", "solder"} =>
        LET lu == req[r].lu
            id == req[r].id
        IN  /\ lu.solde_a_payer = Solde(lu)
            /\ lu.statut = "reglee" => Reglable(lu, id, rembourses)
            /\ factures[id] # Neant => factures[id].total_ttc = lu.total_ttc
            /\ req[r].pc = "solder" /\ req[r].d.montant < 0 =>
                  id \in rembourses

\* No request is about invoice i, and none ever overlapped with another one
\* on it or failed half-way.
Tranquille(i) == /\ i \in Ids \ troubles
                 /\ \A r \in Requetes : A(r, "repos") \/ req[r].id # i

Calme == \A r \in Requetes : A(r, "repos")

PaiementExact(i) ==
    LET f == factures[i]
    IN  f # Neant => /\ f.montant_paye = paiements[i]
                     /\ f.solde_a_payer = f.total_ttc - paiements[i]

TableAccordee(i) ==
    IF factures[i] = Neant THEN lignes[i] = 0 /\ paiements[i] = 0
                           ELSE lignes[i] = factures[i].sous_total_ht

\* Requests on one invoice that come one after the other keep it exact,
\* whatever happens to others and whatever failed before its first write: what
\* is paid is the sum of the payments, and the balance is what remains.
FacturesExactes == \A i \in Ids : Tranquille(i) => PaiementExact(i)

\* Under the same conditions an invoice is computed from its own lines, and a
\* deleted or never created one has neither lines nor payments.
TablesExactes == \A i \in Ids : Tranquille(i) => TableAccordee(i)

\* Under the same conditions every effect has left its audit entry: creations
\* (notified too), deletions, and each amount paid besides the advance.
AuditsExacts ==
    \A i \in Ids : Tranquille(i) /\ i < prochain =>
        /\ <<"creer", i>> \in journal \cap notifications
        /\ factures[i] = Neant => <<"supprimer", i>> \in journal
        /\ factures[i] # Neant =>
              paiements[i] - paiementsAudites[i] \in Acomptes

\* With no request in progress and none failed, the amount shown as paid is
\* the sum of the payments registered, also when requests overlapped.
PaiementsComptes == Calme => \A i \in Ids : PaiementExact(i)

\* Every request is answered: no handler waits for another one.
ReponseRendue ==
    \A r \in Requetes : ~A(r, "repos") ~> A(r, "repos")
=============================================================================
