------------------------------ MODULE Ecriture ------------------------------
(***************************************************************************)
(* EcritureService and ReportingService: the journal of accounting entries, *)
(* filled by single creations and by CSV imports, and the statements and    *)
(* reports computed from it.  As in Facture, one action per awaited call;   *)
(* an import creates its rows one after the other, outside any transaction, *)
(* and a report of performance reads the journal twice.                     *)
(*                                                                          *)
(* No route reaches update and delete of EcritureService, so the journal    *)
(* only grows: it is the sequence of its entries in the order of their ids. *)
(* An account is a number whose tens are its OHADA class.                   *)
(***************************************************************************)
EXTENDS Integers, Sequences, SequencesExt, FiniteSetsExt

CONSTANTS
    Requetes,     \* slots for requests in progress
    MaxRequetes,  \* bound on the requests ever received
    Saisies,      \* entries a client creates
    Fichiers,     \* files a client imports: sequences of entries
    Rapports,     \* reports a client asks for
    Neant         \* account missing in a row of a file

\* What the rows of the table and of the files are.
Lignes == Saisies \cup UNION {{f[i] : i \in DOMAIN f} : f \in Fichiers}

ASSUME MaxRequetesAssumption == MaxRequetes \in Nat
ASSUME RapportsAssumption == Rapports \subseteq {"ventes", "achats", "performance"}
ASSUME FichiersAssumption == \A f \in Fichiers : f \in Seq(Lignes)
ASSUME MontantsAssumption ==
    \A l \in Lignes : l.compte # Neant =>
        l.compte \in Nat /\ l.debit \in Int /\ l.credit \in Int

VARIABLES
    ecritures,    \* table ecritures_comptables
    journal,      \* table audit_logs: <<action, id or count, request>>
    req,          \* the requests in progress
    recues,       \* number of requests received
    origines,     \* history: request and row each entry comes from
    rendus        \* history: the reports answered

vars == <<ecritures, journal, req, recues, origines, rendus>>

Repos == [pc |-> "repos", op |-> "creer", n |-> 0, lignes |-> <<>>,
          count |-> 0, id |-> 0, debut |-> 0, ventes |-> 0, achats |-> 0]

Init ==
    /\ ecritures = <<>>
    /\ journal = {}
    /\ req = [r \in Requetes |-> Repos]
    /\ recues = 0
    /\ origines = <<>>
    /\ rendus = {}
-----------------------------------------------------------------------------
Classe(compte) == compte \div 10

\* What a loop over the entries adds up for some classes: debit less credit.
Solde(e, classes) ==
    FoldLeft(LAMBDA s, x : IF Classe(x.compte) \in classes
                             THEN s + x.debit - x.credit ELSE s, 0, e)

GetSalesStats(e) == -Solde(e, {7})
GetPurchasesStats(e) == Solde(e, {6})

GetIncomeStatement(e) ==
    LET produits == -Solde(e, {7})
        charges  == Solde(e, {6})
    IN  [produits |-> produits, charges |-> charges,
         resultat |-> produits - charges]

\* Variant: the treasury is counted among the assets as well.
BilanTresorerieDouble(e) ==
    [actif |-> Solde(e, {1, 2, 3, 5}), passif |-> -Solde(e, {4, 5})]

GetBalanceSheet(e) ==
    [actif |-> Solde(e, {1, 2, 3}), passif |-> -Solde(e, {4, 5})]

\* An entry is added to the line of its account, a new one for the first.
Reporter(b, x) ==
    LET vide == [debit |-> 0, credit |-> 0, solde |-> 0]
        l == IF x.compte \in DOMAIN b THEN b[x.compte] ELSE vide
        debit == l.debit + x.debit
        credit == l.credit + x.credit
    IN  [c \in DOMAIN b \cup {x.compte} |->
           IF c = x.compte
             THEN [debit |-> debit, credit |-> credit, solde |-> debit - credit]
             ELSE b[c]]

\* One line per account that has an entry.
GetBalance(e) == FoldLeft(Reporter, <<>>, e)
-----------------------------------------------------------------------------
A(r, pc) == req[r].pc = pc
Aller(r, pc) == req' = [req EXCEPT ![r].pc = pc]
Finir(r) == req' = [req EXCEPT ![r] = Repos]

Commencer(r, op, pc, lignes) ==
    req' = [req EXCEPT ![r] = [Repos EXCEPT !.pc = pc, !.op = op,
              !.n = recues + 1, !.lignes = lignes, !.debut = Len(ecritures)]]

\* The next row of an import, or its own audit entry after the last one.
Suite(lignes, count) == IF count < Len(lignes) THEN "enregistrer" ELSE "cloturer"

Recevoir(r) ==
    /\ A(r, "repos")
    /\ recues < MaxRequetes
    /\ recues' = recues + 1
    /\ \/ \E s \in Saisies : Commencer(r, "creer", "enregistrer", <<s>>)
       \/ \E f \in Fichiers : Commencer(r, "importer", Suite(f, 0), f)
       \/ \E op \in Rapports :
             Commencer(r, op, IF op = "achats" THEN "lire_achats"
                                               ELSE "lire_ventes", <<>>)
    /\ UNCHANGED <<ecritures, journal, origines, rendus>>

\* Variant: an import goes on after a row the table refused.
EnregistrerOuPasser(r) ==
    /\ A(r, "enregistrer")
    /\ LET q == req[r]
           ligne == q.lignes[q.count + 1]
       IN  IF ligne.compte # Neant
             THEN /\ ecritures' = Append(ecritures, ligne)
                  /\ origines' = Append(origines, <<q.n, q.count + 1>>)
                  /\ req' = [req EXCEPT ![r].pc = "tracer",
                                        ![r].id = Len(ecritures) + 1]
             ELSE /\ req' = [req EXCEPT ![r].count = @ + 1,
                                        ![r].pc = Suite(q.lignes, q.count + 1)]
                  /\ UNCHANGED <<ecritures, origines>>
    /\ UNCHANGED <<journal, recues, rendus>>

\* create: the insertion.  A row without account violates the NOT NULL
\* constraint, and the exception ends the creation and the import around it.
Enregistrer(r) ==
    /\ A(r, "enregistrer")
    /\ LET q == req[r]
           ligne == q.lignes[q.count + 1]
       IN  IF ligne.compte # Neant
             THEN /\ ecritures' = Append(ecritures, ligne)
                  /\ origines' = Append(origines, <<q.n, q.count + 1>>)
                  /\ req' = [req EXCEPT ![r].pc = "tracer",
                                        ![r].id = Len(ecritures) + 1]
             ELSE /\ Finir(r)
                  /\ UNCHANGED <<ecritures, origines>>
    /\ UNCHANGED <<journal, recues, rendus>>

\* Variant: a row of an import is counted by create and by the loop.
TracerCompteDouble(r) ==
    /\ A(r, "tracer")
    /\ LET q == req[r]
       IN  /\ journal' = journal \cup {<<"create_ecriture", q.id, q.n>>}
           /\ IF q.op = "creer"
                THEN Finir(r)
                ELSE req' = [req EXCEPT
                               ![r].count = @ + 2,
                               ![r].pc = Suite(q.lignes, q.count + 2)]
    /\ UNCHANGED <<ecritures, recues, origines, rendus>>

\* create: the audit entry, after which an import turns to its next row.
Tracer(r) ==
    /\ A(r, "tracer")
    /\ LET q == req[r]
       IN  /\ journal' = journal \cup {<<"create_ecriture", q.id, q.n>>}
           /\ IF q.op = "creer"
                THEN Finir(r)
                ELSE req' = [req EXCEPT
                               ![r].count = @ + 1,
                               ![r].pc = Suite(q.lignes, q.count + 1)]
    /\ UNCHANGED <<ecritures, recues, origines, rendus>>

Cloturer(r) ==
    /\ A(r, "cloturer")
    /\ journal' = journal \cup {<<"import_ecritures_csv", req[r].count, req[r].n>>}
    /\ Finir(r)
    /\ UNCHANGED <<ecritures, recues, origines, rendus>>
-----------------------------------------------------------------------------
\* getSalesStats, alone or as the first half of getPerformanceIndicators.
LireVentes(r) ==
    /\ A(r, "lire_ventes")
    /\ req' = [req EXCEPT ![r].ventes = GetSalesStats(ecritures),
                          ![r].pc = IF req[r].op = "ventes" THEN "tracer_rapport"
                                                            ELSE "lire_achats"]
    /\ UNCHANGED <<ecritures, journal, recues, origines, rendus>>

\* Variant: the purchases come from the entries kept when the request arrived.
LireAchatsEnCache(r) ==
    /\ A(r, "lire_achats")
    /\ LET connues == SubSeq(ecritures, 1, req[r].debut)
       IN  req' = [req EXCEPT ![r].achats = GetPurchasesStats(connues),
                              ![r].pc = "tracer_rapport"]
    /\ UNCHANGED <<ecritures, journal, recues, origines, rendus>>

LireAchats(r) ==
    /\ A(r, "lire_achats")
    /\ req' = [req EXCEPT ![r].achats = GetPurchasesStats(ecritures),
                          ![r].pc = "tracer_rapport"]
    /\ UNCHANGED <<ecritures, journal, recues, origines, rendus>>

\* The audit entry of the controller, then the answer.
TracerRapport(r) ==
    /\ A(r, "tracer_rapport")
    /\ LET q == req[r]
       IN  /\ journal' = journal \cup {<<q.op, 0, q.n>>}
           /\ rendus' = rendus \cup
                {[op |-> q.op, debut |-> q.debut, fin |-> Len(ecritures),
                  ventes |-> q.ventes, achats |-> q.achats,
                  marge |-> q.ventes - q.achats]}
    /\ Finir(r)
    /\ UNCHANGED <<ecritures, recues, origines>>

\* The awaited call fails.
Echouer(r) ==
    /\ ~A(r, "repos")
    /\ Finir(r)
    /\ UNCHANGED <<ecritures, journal, recues, origines, rendus>>

Avancer(r) ==
    \/ Enregistrer(r) \/ Tracer(r) \/ Cloturer(r)
    \/ LireVentes(r) \/ LireAchats(r) \/ TracerRapport(r)

Next == \E r \in Requetes : Recevoir(r) \/ Avancer(r) \/ Echouer(r)

Spec == Init /\ [][Next]_vars
-----------------------------------------------------------------------------
Comptes(lignes) == {lignes[i].compte : i \in DOMAIN lignes}

\* The steps of each operation.
EtapesDe(op) ==
    {"repos"} \cup
    CASE op = "creer"       -> {"enregistrer", "tracer"}
      [] op = "importer"    -> {"enregistrer", "tracer", "cloturer"}
      [] op = "ventes"      -> {"lire_ventes", "tracer_rapport"}
      [] op = "achats"      -> {"lire_achats", "tracer_rapport"}
      [] op = "performance" -> {"lire_ventes", "lire_achats", "tracer_rapport"}

\* What a handler keeps between two awaits, when n requests were received and
\* the table has long entries.
RequeteOK(q, n, long) ==
    /\ q = [pc |-> q.pc, op |-> q.op, n |-> q.n, lignes |-> q.lignes,
            count |-> q.count, id |-> q.id, debut |-> q.debut,
            ventes |-> q.ventes, achats |-> q.achats]
    /\ q.op \in {"creer", "importer", "ventes", "achats", "performance"}
    /\ q.pc \in EtapesDe(q.op)
    /\ q.pc # "repos" => q.n \in 1..n
    /\ q.lignes \in Seq(Lignes)
    /\ q.op = "creer" /\ q.pc # "repos" => q.count = 0 /\ Len(q.lignes) = 1
    /\ q.count \in 0..Len(q.lignes)
    /\ q.pc \in {"enregistrer", "tracer"} => q.count < Len(q.lignes)
    /\ q.pc = "tracer" => q.id \in 1..long
    /\ q.debut \in 0..long

\* Types of the tables, the history and the requests in progress.
TypeOK ==
    /\ ecritures \in Seq({l \in Lignes : l.compte # Neant})
    /\ journal \subseteq
          {"create_ecriture", "import_ecritures_csv", "ventes", "achats",
           "performance"} \X Nat \X (1..recues)
    /\ DOMAIN req = Requetes
    /\ \A r \in Requetes : RequeteOK(req[r], recues, Len(ecritures))
    /\ recues \in 0..MaxRequetes
    /\ origines \in Seq((1..recues) \X (Nat \ {0}))
    /\ Len(origines) = Len(ecritures)

\* The ids of the entries that request n created, and their rank among them.
LignesDe(n) == {id \in DOMAIN origines : origines[id][1] = n}
Rang(n, id) == Cardinality({j \in LignesDe(n) : j <= id})

\* Whatever is created or imported at the same time and wherever an import
\* stops, its entries in the journal are the first rows of its file, each once
\* and in the order of the file.
ImportEnPrefixe ==
    \A n \in 1..recues : \A id \in LignesDe(n) :
        origines[id][2] = Rang(n, id)

\* An import that is reported with a count has saved and audited that many
\* entries, no more and no less.
ImportAnnonce ==
    \A e \in journal : e[1] = "import_ecritures_csv" =>
        /\ e[2] = Cardinality(LignesDe(e[3]))
        /\ \A id \in LignesDe(e[3]) : <<"create_ecriture", id, e[3]>> \in journal

\* What a balance shows for the accounts of some classes.
Total(balance, classes) ==
    MapThenSumSet(LAMBDA c : balance[c].solde,
                  {c \in DOMAIN balance : Classe(c) \in classes})

\* The statements and the reports, each computed by a loop of its own, agree:
\* the result of the income statement is the margin of the reports and the
\* opposite of what the balance shows for classes 6 and 7; and when debits
\* equal credits, it is what the balance sheet is short of being balanced.
EtatsAccordes ==
    LET balance == GetBalance(ecritures)
        resultat == GetIncomeStatement(ecritures).resultat
        bilan == GetBalanceSheet(ecritures)
    IN  /\ DOMAIN balance = Comptes(ecritures)
        /\ resultat = GetSalesStats(ecritures) - GetPurchasesStats(ecritures)
        /\ resultat = -Total(balance, {6, 7})
        /\ Total(balance, 1..7) = 0 => bilan.actif - bilan.passif = resultat

Etat(k) == SubSeq(ecritures, 1, k)

\* The two reads of a report see the journal as it was at two moments between
\* the request and the answer, the purchases never earlier than the sales: a
\* margin may miss a purchase of the meantime, it never counts a sale whose
\* earlier purchase it ignores.
RapportEntreDeuxEtats ==
    \A q \in rendus :
        \E v \in q.debut..q.fin : \E a \in v..q.fin :
            /\ q.op # "achats" => q.ventes = GetSalesStats(Etat(v))
            /\ q.op # "ventes" => q.achats = GetPurchasesStats(Etat(a))
            /\ q.marge = q.ventes - q.achats
=============================================================================
