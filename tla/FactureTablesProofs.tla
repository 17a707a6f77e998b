------------------------ MODULE FactureTablesProofs ------------------------
(***************************************************************************)
(* What the tables hold about invoices, for any number of concurrent        *)
(* requests: the balance and status of invoices that nobody modifies, the   *)
(* audit entries, and invoices whose requests come one after the other,     *)
(* which are exact.  Amounts are integers of either sign, as the code takes *)
(* them; a theorem that needs a sign assumes it: payments for the audited   *)
(* amounts, advances for the exact ones.                                    *)
(*                                                                          *)
(* A payment whose row is written and whose audit entry is not may still    *)
(* get its entry, so AuditFonde needs the sum of those payments.  The sum   *)
(* is stated without one: they fit, side by side, in what is recorded and   *)
(* not yet audited.                                                         *)
(*                                                                          *)
(* For exactness, what the tables, the audit trail and the notifications    *)
(* hold about one invoice is put together in a file (Dossier); Suivi says   *)
(* what that file is at each step of the only request about the invoice.    *)
(***************************************************************************)
EXTENDS FactureProofs

LigneCoherente(f, i, rendus) ==
    /\ f.solde_a_payer = Solde(f)
    /\ f.statut = "reglee" => Reglable(f, i, rendus)

LectureExacteDe(r) ==
    req[r].pc \in {"payer", "solder"} =>
        /\ LigneCoherente(req[r].lu, req[r].id, rembourses)
        /\ factures[req[r].id] # Neant =>
              factures[req[r].id].total_ttc = req[r].lu.total_ttc
        /\ req[r].pc = "solder" /\ req[r].d.montant < 0 =>
              req[r].id \in rembourses

InvSolde == SoldeCoherent /\ RegleeSoldee /\ LectureExacte

\* The invariant, one statement per row and one per request.
LEMMA SoldeDecoupe ==
    InvSolde <=> /\ \A i \in Ids : factures[i] # Neant =>
                        LigneCoherente(factures[i], i, rembourses)
                 /\ \A r \in Requetes : LectureExacteDe(r)
BY DEF InvSolde, SoldeCoherent, RegleeSoldee, LectureExacte, LigneCoherente,
       LectureExacteDe

\* The same about the next state.
LEMMA SoldeDecoupeSuivant ==
    InvSolde' <=> /\ \A i \in Ids : factures'[i] # Neant =>
                        LigneCoherente(factures'[i], i, rembourses')
                  /\ \A r \in Requetes : LectureExacteDe(r)'
BY DEF InvSolde, SoldeCoherent, RegleeSoldee, LectureExacte, LigneCoherente,
       LectureExacteDe, Reglable, Solde

\* A new invoice: its balance is its total less the advance.
LEMMA LigneNeuveCoherente ==
    ASSUME "reglee" \notin StatutsDemandes, NEW d \in Creations
    PROVE  \A i, rendus : LigneCoherente(LigneNeuve(d), i, rendus)
<1> DEFINE t == CalculateTotals(d.ht, d.remise, d.vente, d.acompte)
           s == Ou(d.statut, StatutInitial(t.solde_a_payer))
<1>1. t.solde_a_payer = t.total_ttc - t.montant_paye
    <2>1. d.ht \in Int /\ d.remise \in Remises /\ d.acompte \in Int
        <3>1. d.ht \in HTs /\ d.remise \in Remises /\ d.acompte \in Acomptes
            BY DEF Creations
        <3>2. HTs \subseteq Int /\ Acomptes \subseteq Int
            BY DonneesAssumption
        <3> QED BY <3>1, <3>2
    <2> QED BY <2>1, TotauxType
<1>2. s = "reglee" => t.solde_a_payer <= 0
    <2>1. d.statut \in Optionnel(StatutsDemandes)
        BY DEF Creations
    <2>2. CASE d.statut = {}
        BY <2>2 DEF Ou, StatutInitial
    <2>3. CASE d.statut # {}
        <3>1. PICK x \in StatutsDemandes : d.statut = {x}
            BY <2>1, <2>3 DEF Optionnel
        <3>2. (CHOOSE y \in d.statut : TRUE) = x
            BY <3>1
        <3> QED BY <2>3, <3>1, <3>2 DEF Ou
    <2> QED BY <2>2, <2>3
<1>3. /\ LigneNeuve(d).solde_a_payer = t.solde_a_payer
      /\ LigneNeuve(d).total_ttc = t.total_ttc
      /\ LigneNeuve(d).montant_paye = t.montant_paye
      /\ LigneNeuve(d).statut = s
    BY DEF LigneNeuve
<1> HIDE DEF t, s
<1> QED BY <1>1, <1>2, <1>3 DEF LigneCoherente, Reglable, Solde

\* A row written by a payment is as consistent as the row it was computed from.
LEMMA LignePayeeCoherente ==
    ASSUME NEW l \in Lignes, NEW lu \in Lignes, NEW m \in Int,
           NEW i, NEW rendus, m < 0 => i \in rendus,
           LigneCoherente(lu, i, rendus), l.total_ttc = lu.total_ttc
    PROVE  /\ LigneCoherente(LignePayee(l, lu, m), i, rendus)
           /\ LignePayee(l, lu, m).total_ttc = l.total_ttc
<1> DEFINE paye == lu.montant_paye + m
           solde == lu.total_ttc - paye
           s == StatutApresPaiement(solde, paye, lu.statut)
<1>1. /\ LignePayee(l, lu, m).solde_a_payer = solde
      /\ LignePayee(l, lu, m).total_ttc = l.total_ttc
      /\ LignePayee(l, lu, m).montant_paye = paye
      /\ LignePayee(l, lu, m).statut = s
    BY DEF LignePayee, Lignes
<1>2. lu.total_ttc \in Int /\ lu.montant_paye \in Int /\ lu.solde_a_payer \in Int
    BY DEF Lignes
<1>3. ASSUME s = "reglee" PROVE solde <= 0 \/ (i \in rendus /\ paye <= 0)
    <2>a. CASE solde <= 0
        BY <2>a
    <2>b. CASE ~(solde <= 0)
        <3>1. lu.statut = "reglee" /\ paye <= 0
            BY <1>2, <1>3, <2>b DEF StatutApresPaiement
        <3>2. CASE m < 0
            BY <3>1, <3>2
        <3>3. CASE ~(m < 0)
            <4>1. lu.solde_a_payer = lu.total_ttc - lu.montant_paye
                BY DEF LigneCoherente, Solde
            <4>2. ~(lu.solde_a_payer <= 0)
                BY <1>2, <2>b, <3>3, <4>1
            <4> QED BY <3>1, <4>2 DEF LigneCoherente, Reglable
        <3> QED BY <3>2, <3>3
    <2> QED BY <2>a, <2>b
<1> HIDE DEF s
<1> QED BY <1>1, <1>2, <1>3 DEF LigneCoherente, Reglable, Solde

\* A row stays consistent when more invoices have had a negative payment.
LEMMA LigneResteCoherente ==
    ASSUME NEW f, NEW i, NEW R, NEW S, R \subseteq S, LigneCoherente(f, i, R)
    PROVE  LigneCoherente(f, i, S)
BY DEF LigneCoherente, Reglable

\* A step that writes consistent rows, and leaves totals alone below the next
\* id, keeps the invariant if the request that takes it does.
LEMMA CadreSolde ==
    ASSUME InvIds, InvSolde, NEW r \in Requetes,
           \A s \in Requetes \ {r} : req'[s] = req[s],
           LectureExacteDe(r)', rembourses \subseteq rembourses',
           \A i \in Ids : \/ factures'[i] = factures[i]
                          \/ factures'[i] = Neant
                          \/ /\ LigneCoherente(factures'[i], i, rembourses)
                             /\ \/ i >= prochain
                                \/ /\ factures[i] # Neant
                                   /\ factures'[i].total_ttc = factures[i].total_ttc
    PROVE  InvSolde'
<1>1. \A i \in Ids : factures'[i] # Neant =>
                        LigneCoherente(factures'[i], i, rembourses')
    <2>1. \A i \in Ids : factures'[i] # Neant =>
                            LigneCoherente(factures'[i], i, rembourses)
        BY SoldeDecoupe
    <2> QED BY <2>1, LigneResteCoherente
<1>2. ASSUME NEW s \in Requetes \ {r} PROVE LectureExacteDe(s)'
    <2>1. LectureExacteDe(s) /\ req'[s] = req[s]
        BY SoldeDecoupe
    <2>2. req[s].pc \in {"payer", "solder"} => req[s].id \in Ids
        BY DEF InvIds, TypeOK, RequeteOK
    <2>3. req[s].pc \in {"payer", "solder"} =>
             ~(req[s].id >= prochain)
        <3>1. prochain \in Int /\ (req[s].id \in Ids => req[s].id \in Int)
            BY BornesAssumption DEF InvIds, TypeOK, Ids
        <3> QED BY <2>2, <3>1 DEF InvIds, IdsAttribues
    <2>4. req[s].pc \in {"payer", "solder"} =>
             LigneCoherente(req[s].lu, req[s].id, rembourses')
        BY <2>1, LigneResteCoherente DEF LectureExacteDe
    <2> QED BY <2>1, <2>2, <2>3, <2>4
            DEF LectureExacteDe, LigneCoherente, Reglable, Solde
<1> QED BY <1>1, <1>2, SoldeDecoupeSuivant

\* Where no client modifies invoices or declares them settled, every step keeps
\* balances, statuses and the rows payments are computed from consistent.
THEOREM SoldePas ==
    ASSUME "modifier" \notin Operations, "reglee" \notin StatutsDemandes
    PROVE  InvIds /\ InvSolde /\ [Next]_vars => InvSolde'
<1> SUFFICES ASSUME InvIds, InvSolde, [Next]_vars PROVE InvSolde'
    OBVIOUS
<1>0. TypeOK /\ TypeOK'
    BY TypePas DEF InvIds
<1> USE DEF A
\* Steps that leave the invoices alone and lead to no step of a payment.
<1>a. ASSUME NEW r \in Requetes, \A s \in Requetes \ {r} : req'[s] = req[s],
             req'[r].pc \notin {"payer", "solder"}, factures' = factures,
             rembourses' = rembourses
      PROVE  InvSolde'
    <2>1. LectureExacteDe(r)'
        BY <1>a DEF LectureExacteDe
    <2> QED BY <1>a, <2>1, CadreSolde
\* No request modifies an invoice.
<1>b. ASSUME NEW r \in Requetes PROVE req[r].d \notin Modifications
                                     \/ req[r].pc = "repos"
    BY <1>0 DEF TypeOK, RequeteOK, Demandes, Modifications
<1>1. CASE UNCHANGED vars
    BY <1>1 DEF vars, tables, InvSolde, SoldeCoherent, RegleeSoldee,
                LectureExacte, Reglable, Solde
<1>2. ASSUME NEW r \in Requetes, Recevoir(r) PROVE InvSolde'
    <2>1. /\ \A s \in Requetes \ {r} : req'[s] = req[s]
          /\ req'[r].pc \notin {"payer", "solder"}
        BY <1>0, <1>2 DEF TypeOK, Recevoir, Debut
    <2> QED BY <1>2, <1>a, <2>1 DEF Recevoir, tables
<1>3. ASSUME NEW r \in Requetes, Inserer(r) PROVE InvSolde'
    <2>1. /\ \A s \in Requetes \ {r} : req'[s] = req[s]
          /\ req'[r].pc = "effacer_lignes"
        BY <1>0, <1>3 DEF TypeOK, Inserer, Contextes
    <2>2. PICK i, l : /\ i = prochain /\ i \in Int
                      /\ LigneCoherente(l, i, rembourses)
                      /\ factures' = [factures EXCEPT ![i] = l]
        <3>1. req[r].d \in Creations
            BY <1>0, <1>3 DEF TypeOK, Inserer, RequeteOK
        <3> DEFINE l == LigneNeuve(req[r].d)
        <3>2. LigneCoherente(l, prochain, rembourses)
            BY <3>1, LigneNeuveCoherente
        <3>3. /\ prochain \in Int
              /\ factures' = [factures EXCEPT ![prochain] = l]
            BY <1>3, BornesAssumption DEF Inserer, Inserable, Ids
        <3> HIDE DEF l
        <3> QED BY <3>2, <3>3
    <2>3. \A j \in Ids : \/ factures'[j] = factures[j]
                         \/ /\ LigneCoherente(factures'[j], j, rembourses)
                            /\ j >= prochain
        BY <1>0, <2>2 DEF TypeOK, LigneCoherente, Reglable, Solde
    <2>4. LectureExacteDe(r)'
        BY <2>1 DEF LectureExacteDe
    <2>5. rembourses' = rembourses
        BY <1>3 DEF Inserer
    <2> QED BY <2>1, <2>3, <2>4, <2>5, CadreSolde
<1>4. ASSUME NEW r \in Requetes, RefuserInsertion(r) PROVE InvSolde'
    BY <1>0, <1>4, <1>a, FinirEffet DEF RefuserInsertion, tables
<1>5. ASSUME NEW r \in Requetes, EffacerLignes(r) PROVE InvSolde'
    BY <1>0, <1>5, <1>a, AllerEffet DEF EffacerLignes
<1>6. ASSUME NEW r \in Requetes, EcrireLignes(r) PROVE InvSolde'
    <2>1. PICK pc \in {"acompte", "journal"} : Aller(r, pc)
        BY <1>6 DEF EcrireLignes
    <2> QED BY <1>0, <1>6, <1>a, <2>1, AllerEffet DEF EcrireLignes
<1>7. ASSUME NEW r \in Requetes, EnregistrerAcompte(r) PROVE InvSolde'
    BY <1>0, <1>7, <1>a, AllerEffet DEF EnregistrerAcompte
<1>8. ASSUME NEW r \in Requetes, Lire(r) PROVE InvSolde'
    <2>1. CASE Finir(r)
        BY <1>0, <1>8, <1>a, <2>1, FinirEffet DEF Lire, tables
    <2>2. CASE ~Finir(r)
        <3>1. PICK lu, id :
                /\ id = req[r].id /\ id \in Ids /\ lu = factures[id] /\ lu # Neant
                /\ \A s \in Requetes \ {r} : req'[s] = req[s]
                /\ req'[r].lu = lu /\ req'[r].id = id
                /\ factures' = factures /\ rembourses' = rembourses
                /\ req'[r].pc # "solder"
            BY <1>0, <1>8, <2>2 DEF Lire, Accepte, Suite, TypeOK, RequeteOK, Contextes, tables
        <3>2. LigneCoherente(lu, id, rembourses)
            BY <3>1, SoldeDecoupe
        <3>3. LectureExacteDe(r)'
            BY <3>1, <3>2 DEF LectureExacteDe, LigneCoherente, Reglable, Solde
        <3> QED BY <3>1, <3>3, CadreSolde
    <2> QED BY <2>1, <2>2
<1>9. ASSUME NEW r \in Requetes, LireLignes(r) \/ Maj(r) PROVE InvSolde'
    BY <1>0, <1>9, <1>b DEF LireLignes, Maj, TypeOK, RequeteOK
<1>10. ASSUME NEW r \in Requetes, ChangerStatut(r) PROVE InvSolde'
    <2>1. /\ \A s \in Requetes \ {r} : req'[s] = req[s]
          /\ req'[r].pc = "journal"
        BY <1>0, <1>10, AllerEffet DEF ChangerStatut
    <2>5. rembourses' = rembourses
        BY <1>10 DEF ChangerStatut
    <2>2. PICK i, l :
            /\ i \in Ids
            /\ factures' = [factures EXCEPT ![i] = IF @ = Neant THEN Neant ELSE l]
            /\ factures[i] # Neant =>
                 /\ LigneCoherente(l, i, rembourses)
                 /\ l.total_ttc = factures[i].total_ttc
        <3> DEFINE id == req[r].id
                   l == [factures[id] EXCEPT !.statut = req[r].d.statut]
        <3>1. /\ factures' = [factures EXCEPT ![id] = IF @ = Neant THEN Neant ELSE l]
              /\ id \in Ids /\ req[r].d.statut # "reglee"
            BY <1>0, <1>10 DEF ChangerStatut, MettreAJour, TypeOK, RequeteOK,
                               ChangementsStatut
        <3>2. ASSUME factures[id] # Neant
              PROVE  /\ LigneCoherente(l, id, rembourses)
                     /\ l.total_ttc = factures[id].total_ttc
            <4>1. /\ factures[id] \in Lignes
                  /\ LigneCoherente(factures[id], id, rembourses)
                BY <1>0, <3>1, <3>2, SoldeDecoupe DEF TypeOK
            <4> QED BY <3>1, <4>1 DEF LigneCoherente, Reglable, Solde, Lignes
        <3> HIDE DEF l
        <3> QED BY <3>1, <3>2
    <2>3. \A j \in Ids : \/ factures'[j] = factures[j]
                         \/ /\ LigneCoherente(factures'[j], j, rembourses)
                            /\ factures[j] # Neant
                            /\ factures'[j].total_ttc = factures[j].total_ttc
        BY <1>0, <2>2 DEF TypeOK, LigneCoherente, Reglable, Solde
    <2>4. LectureExacteDe(r)'
        BY <2>1 DEF LectureExacteDe
    <2> QED BY <2>1, <2>3, <2>4, <2>5, CadreSolde
<1>11. ASSUME NEW r \in Requetes, Payer(r) PROVE InvSolde'
    <2>1. /\ \A s \in Requetes \ {r} : req'[s] = req[s]
          /\ req'[r].lu = req[r].lu /\ req'[r].id = req[r].id
          /\ req'[r].d = req[r].d
          /\ req[r].pc = "payer" /\ factures' = factures
        BY <1>0, <1>11, AllerEffet DEF Payer
    <2>2. /\ rembourses \subseteq rembourses'
          /\ req[r].d.montant < 0 => req[r].id \in rembourses'
        BY <1>0, <1>11 DEF Payer, TypeOK, RequeteOK
    <2>3. LigneCoherente(req[r].lu, req[r].id, rembourses')
        BY <2>1, <2>2, SoldeDecoupe, LigneResteCoherente DEF LectureExacteDe
    <2>4. LectureExacteDe(r)'
        BY <2>1, <2>2, <2>3, SoldeDecoupe
           DEF LectureExacteDe, LigneCoherente, Reglable, Solde
    <2> QED BY <2>1, <2>2, <2>4, CadreSolde
<1>12. ASSUME NEW r \in Requetes, Solder(r) PROVE InvSolde'
    <2>1. /\ \A s \in Requetes \ {r} : req'[s] = req[s]
          /\ req'[r].pc = "journal"
        BY <1>0, <1>12, AllerEffet DEF Solder
    <2>5. rembourses' = rembourses
        BY <1>12 DEF Solder
    <2>2. PICK i, l :
            /\ i \in Ids
            /\ factures' = [factures EXCEPT ![i] = IF @ = Neant THEN Neant ELSE l]
            /\ factures[i] # Neant =>
                 /\ LigneCoherente(l, i, rembourses)
                 /\ l.total_ttc = factures[i].total_ttc
        <3> DEFINE id == req[r].id
                   l == LignePayee(factures[id], req[r].lu, req[r].d.montant)
        <3>1. /\ factures' = [factures EXCEPT ![id] = IF @ = Neant THEN Neant ELSE l]
              /\ id \in Ids /\ req[r].lu \in Lignes /\ req[r].d.montant \in Int
            <4>1. req[r].d \in Reglements /\ req[r].pc = "solder"
                BY <1>0, <1>12 DEF Solder, TypeOK, RequeteOK
            <4>2. req[r].d.montant \in Int
                BY <4>1, MontantsType
            <4> QED BY <1>0, <1>12, <4>1, <4>2
                    DEF Solder, MettreAJour, TypeOK, RequeteOK
        <3>2. ASSUME factures[id] # Neant
              PROVE  /\ LigneCoherente(l, id, rembourses)
                     /\ l.total_ttc = factures[id].total_ttc
            <4>1. factures[id] \in Lignes
                BY <1>0, <3>1, <3>2 DEF TypeOK
            <4>2. /\ LigneCoherente(req[r].lu, id, rembourses)
                  /\ factures[id].total_ttc = req[r].lu.total_ttc
                  /\ req[r].d.montant < 0 => id \in rembourses
                BY <1>12, <3>2, SoldeDecoupe DEF Solder, LectureExacteDe
            <4> QED BY <3>1, <4>1, <4>2, LignePayeeCoherente
        <3> HIDE DEF l
        <3> QED BY <3>1, <3>2
    <2>3. \A j \in Ids : \/ factures'[j] = factures[j]
                         \/ /\ LigneCoherente(factures'[j], j, rembourses)
                            /\ factures[j] # Neant
                            /\ factures'[j].total_ttc = factures[j].total_ttc
        BY <1>0, <2>2 DEF TypeOK, LigneCoherente, Reglable, Solde
    <2>4. LectureExacteDe(r)'
        BY <2>1 DEF LectureExacteDe
    <2> QED BY <2>1, <2>3, <2>4, <2>5, CadreSolde
<1>13. ASSUME NEW r \in Requetes, SupprLignes(r) PROVE InvSolde'
    BY <1>0, <1>13, <1>a, AllerEffet DEF SupprLignes
<1>14. ASSUME NEW r \in Requetes, SupprPaiements(r) PROVE InvSolde'
    BY <1>0, <1>14, <1>a, AllerEffet DEF SupprPaiements
<1>15. ASSUME NEW r \in Requetes, SupprFacture(r) PROVE InvSolde'
    <2>1. /\ \A s \in Requetes \ {r} : req'[s] = req[s]
          /\ req'[r].pc = "journal"
        BY <1>0, <1>15, AllerEffet DEF SupprFacture
    <2>4. rembourses' = rembourses
        BY <1>15 DEF SupprFacture
    <2>2. \A j \in Ids : factures'[j] = factures[j] \/ factures'[j] = Neant
        BY <1>0, <1>15 DEF SupprFacture, TypeOK
    <2>3. LectureExacteDe(r)'
        BY <2>1 DEF LectureExacteDe
    <2> QED BY <2>1, <2>2, <2>3, <2>4, CadreSolde
<1>16. ASSUME NEW r \in Requetes, Journaliser(r) PROVE InvSolde'
    <2>1. Aller(r, "notifier") \/ Finir(r)
        BY <1>16 DEF Journaliser
    <2> QED BY <1>0, <1>16, <1>a, <2>1, AllerEffet, FinirEffet DEF Journaliser
<1>17. ASSUME NEW r \in Requetes, Notifier(r) PROVE InvSolde'
    BY <1>0, <1>17, <1>a, FinirEffet DEF Notifier
<1>18. ASSUME NEW r \in Requetes, Echouer(r) PROVE InvSolde'
    BY <1>0, <1>18, <1>a, FinirEffet DEF Echouer, tables
<1> QED BY <1>1, <1>2, <1>3, <1>4, <1>5, <1>6, <1>7, <1>8, <1>9, <1>10, <1>11,
           <1>12, <1>13, <1>14, <1>15, <1>16, <1>17, <1>18 DEF Next, Avancer

\* The invariants of such an instance, from the first state on.
LEMMA SoldeToujours ==
    ASSUME "modifier" \notin Operations, "reglee" \notin StatutsDemandes
    PROVE  Spec => [](InvIds /\ InvSolde)
<1>1. Init => InvIds /\ InvSolde
    <2>1. Init => InvSolde
        BY DEF Init, Repos, InvSolde, SoldeCoherent, RegleeSoldee, LectureExacte
    <2> QED BY <2>1, IdsInit
<1>2. InvIds /\ InvSolde /\ [Next]_vars => (InvIds /\ InvSolde)'
    BY IdsPas, SoldePas
<1> QED BY <1>1, <1>2, PTL DEF Spec

\* However stale the rows they were computed from, the balances that concurrent
\* payments store agree with the total and the amount paid, as long as nobody
\* modifies invoices or declares them settled.
THEOREM SoldeToujoursCoherent ==
    ASSUME "modifier" \notin Operations, "reglee" \notin StatutsDemandes
    PROVE  Spec => []SoldeCoherent
<1>1. InvIds /\ InvSolde => SoldeCoherent
    BY DEF InvSolde
<1> QED BY <1>1, SoldeToujours, PTL

\* Under the same conditions an invoice shown settled has no balance left,
\* except one whose payments were given back: payments of any sign.
THEOREM RegleeToujoursSoldee ==
    ASSUME "modifier" \notin Operations, "reglee" \notin StatutsDemandes
    PROVE  Spec => []RegleeSoldee
<1>1. InvIds /\ InvSolde => RegleeSoldee
    BY DEF InvSolde
<1> QED BY <1>1, SoldeToujours, PTL
-----------------------------------------------------------------------------
\* Lengths m[r], r in E, laid out from place[r] on within 0..n, do not overlap.
Disposes(E, m, place, n) ==
    /\ \A r \in E : place[r] + m[r] <= n
    /\ \A r, s \in E : r # s => \/ place[r] + m[r] <= place[s]
                                \/ place[s] + m[s] <= place[r]

\* The payments of invoice i that are recorded and will be audited.
Dus(i) == {r \in Requetes : /\ req[r].pc \in {"solder", "journal"}
                            /\ req[r].d.op = "payer" /\ req[r].id = i}
Montant == [r \in Requetes |-> req[r].d.montant]
Reste(i) == paiements[i] - paiementsAudites[i]

AuditCouvert(i) ==
    /\ paiementsAudites[i] <= paiements[i]
    /\ \E place \in [Requetes -> 0..Reste(i)] :
          Disposes(Dus(i), Montant, place, Reste(i))

InvAudit == \A i \in Ids \ purges : AuditCouvert(i)

\* Fewer lengths still fit in a larger space.
LEMMA DisposesMoins ==
    ASSUME NEW S, NEW E, NEW F \in SUBSET E, E \subseteq S,
           NEW m, NEW m1, \A r \in F : m1[r] = m[r], \A r \in E : m[r] \in Nat,
           NEW n \in Nat, NEW n1 \in Nat, n <= n1,
           NEW place \in [S -> 0..n], Disposes(E, m, place, n)
    PROVE  /\ place \in [S -> 0..n1]
           /\ Disposes(F, m1, place, n1)
<1>1. place \in [S -> 0..n1]
    <2>1. 0..n \subseteq 0..n1
        OBVIOUS
    <2> QED BY <2>1
<1>2. \A r \in E : place[r] \in Int /\ m[r] \in Int
    OBVIOUS
<1> QED BY <1>1, <1>2 DEF Disposes

\* A new length fits at the end of a space extended by as much.
LEMMA DisposesPlus ==
    ASSUME NEW S, NEW E \in SUBSET S, NEW e \in S \ E, NEW m, NEW m1,
           \A r \in E : m1[r] = m[r], \A r \in E : m[r] \in Nat, m1[e] \in Nat,
           NEW n \in Nat, NEW place \in [S -> 0..n], Disposes(E, m, place, n)
    PROVE  \E p \in [S -> 0..(n + m1[e])] :
              Disposes(E \cup {e}, m1, p, n + m1[e])
<1> DEFINE p == [place EXCEPT ![e] = n]
           n1 == n + m1[e]
<1>1. n1 \in Nat /\ n <= n1
    OBVIOUS
<1>2. p \in [S -> 0..n1]
    <2>1. \A r \in S : p[r] = IF r = e THEN n ELSE place[r]
        OBVIOUS
    <2>2. \A r \in S : p[r] \in 0..n1
        BY <1>1, <2>1
    <2> QED BY <2>2
<1>3. /\ p[e] = n
      /\ \A r \in E : p[r] = place[r] /\ p[r] + m1[r] <= n /\ p[r] \in Int
                      /\ m1[r] \in Int
    BY DEF Disposes
<1>4. \A r, s \in E : r # s => \/ p[r] + m1[r] <= p[s]
                                \/ p[s] + m1[s] <= p[r]
    BY <1>3 DEF Disposes
<1> HIDE DEF p
<1>5. Disposes(E \cup {e}, m1, p, n1)
    BY <1>1, <1>3, <1>4 DEF Disposes
<1> QED BY <1>2, <1>5

\* When one length goes, with as much space, those after it move down.
LEMMA DisposesTasse ==
    ASSUME NEW S, NEW E \in SUBSET S, NEW e \in E, NEW m, NEW m1,
           \A r \in E \ {e} : m1[r] = m[r], \A r \in E : m[r] \in Nat,
           NEW n \in Nat, NEW place \in [S -> 0..n], Disposes(E, m, place, n)
    PROVE  /\ m[e] <= n
           /\ \E p \in [S -> 0..(n - m[e])] :
                 Disposes(E \ {e}, m1, p, n - m[e])
<1> DEFINE apres(r) == place[e] + m[e] <= place[r]
           p == [r \in S |-> IF r \notin E \ {e} THEN 0
                             ELSE IF apres(r) THEN place[r] - m[e] ELSE place[r]]
           n1 == n - m[e]
<1>1. \A r \in E : /\ place[r] \in Int /\ place[r] >= 0 /\ m[r] \in Int
                   /\ m[r] >= 0 /\ place[r] + m[r] <= n
    BY DEF Disposes
<1>2. m[e] <= n /\ n1 \in Nat
    BY <1>1
<1>3. \A r \in E \ {e} : /\ apres(r) => p[r] = place[r] - m[e]
                         /\ ~apres(r) => p[r] = place[r]
                                         /\ place[r] + m[r] <= place[e]
    BY <1>1 DEF Disposes
<1>5. \A r \in S \ (E \ {e}) : p[r] = 0
    OBVIOUS
<1>4. ASSUME NEW r \in E \ {e}
      PROVE  p[r] \in Int /\ p[r] >= 0 /\ p[r] + m[r] <= n1
    <2> HIDE DEF p
    <2>1. CASE apres(r)
        BY <1>1, <1>2, <1>3, <2>1
    <2>2. CASE ~apres(r)
        <3> HIDE DEF apres
        <3> QED BY <1>1, <1>2, <1>3, <2>2
    <2> QED BY <2>1, <2>2
<1>6. p \in [S -> 0..n1]
    <2>1. \A r \in S : p[r] \in 0..n1
        <3> HIDE DEF p
        <3>1. \A r \in E : m[r] >= 0
            BY <1>1
        <3>2. \A r \in E \ {e} : p[r] <= n1
            BY <1>2, <1>4, <3>1
        <3> QED BY <1>2, <1>4, <1>5, <3>2
    <2> QED BY <2>1
<1> HIDE DEF p
<1>7. ASSUME NEW r \in E \ {e}, NEW s \in E \ {e}, r # s
      PROVE  \/ p[r] + m1[r] <= p[s]
             \/ p[s] + m1[s] <= p[r]
    <2>1. \/ place[r] + m[r] <= place[s]
          \/ place[s] + m[s] <= place[r]
        BY <1>7 DEF Disposes
    <2>2. m1[r] = m[r] /\ m1[s] = m[s]
        OBVIOUS
    <2> QED BY <1>1, <1>3, <2>1, <2>2
<1>8. Disposes(E \ {e}, m1, p, n1)
    BY <1>4, <1>7 DEF Disposes
<1> QED BY <1>2, <1>6, <1>8
-----------------------------------------------------------------------------
\* A payment due for its audit entry is an amount paid by a client.
LEMMA DuType ==
    ASSUME Montants \subseteq Nat, TypeOK, NEW i \in Ids
    PROVE  /\ Dus(i) \in SUBSET Requetes
           /\ \A r \in Dus(i) : Montant[r] \in Nat /\ req[r].d \in Reglements
           /\ Reste(i) \in Int
<1>1. \A r \in Dus(i) : req[r].d \in Reglements
    <2>1. \A r \in Dus(i) : req[r].d \in Demandes /\ req[r].d.op = "payer"
        BY DEF Dus, TypeOK, RequeteOK
    <2> QED BY <2>1, DemandeType
<1>2. \A d \in Reglements : d.montant \in Nat
    BY DEF Reglements
<1>3. \A r \in Dus(i) : r \in Requetes /\ Montant[r] = req[r].d.montant
    BY DEF Dus, Montant
<1>4. paiements[i] \in Int /\ paiementsAudites[i] \in Int
    BY DEF TypeOK
<1> QED BY <1>1, <1>2, <1>3, <1>4 DEF Reste, Dus

\* What is not yet audited of invoice i, as a natural number, and the layout.
LEMMA AuditCouvertReste ==
    ASSUME TypeOK, NEW i \in Ids, AuditCouvert(i)
    PROVE  /\ Reste(i) \in Nat
           /\ \E place \in [Requetes -> 0..Reste(i)] :
                 Disposes(Dus(i), Montant, place, Reste(i))
<1>1. paiements[i] \in Int /\ paiementsAudites[i] \in Int
    BY DEF TypeOK
<1>2. Reste(i) \in Nat
    BY <1>1 DEF AuditCouvert, Reste
<1> QED BY <1>2 DEF AuditCouvert

\* Back from a layout to the invariant, in the next state.
LEMMA AuditCouvertSuivant ==
    ASSUME TypeOK', NEW i \in Ids, NEW n \in Nat, Reste(i)' = n,
           \E place \in [Requetes -> 0..n] :
              Disposes(Dus(i)', Montant', place, n)
    PROVE  AuditCouvert(i)'
<1>1. paiements'[i] \in Int /\ paiementsAudites'[i] \in Int
    BY DEF TypeOK
<1>2. paiementsAudites'[i] <= paiements'[i]
    BY <1>1 DEF Reste
<1> QED BY <1>2 DEF AuditCouvert, Disposes

\* A step that makes no payment due, and takes nothing from what is recorded
\* and not audited, keeps the layout of the payments that remain due.
LEMMA CadreAudit ==
    ASSUME Montants \subseteq Nat, TypeOK, TypeOK', NEW i \in Ids, AuditCouvert(i),
           Dus(i)' \subseteq Dus(i),
           \A r \in Dus(i)' : Montant'[r] = Montant[r],
           Reste(i)' >= Reste(i)
    PROVE  AuditCouvert(i)'
<1>1. /\ Reste(i) \in Nat /\ Reste(i)' \in Int
      /\ Dus(i) \in SUBSET Requetes /\ \A r \in Dus(i) : Montant[r] \in Nat
    <2>1. paiements'[i] \in Int /\ paiementsAudites'[i] \in Int
        BY DEF TypeOK
    <2>2. Reste(i)' \in Int
        BY <2>1 DEF Reste
    <2> QED BY <2>2, AuditCouvertReste, DuType
<1>2. PICK place \in [Requetes -> 0..Reste(i)] :
        Disposes(Dus(i), Montant, place, Reste(i))
    BY AuditCouvertReste
<1>3. PICK n \in Nat : n = Reste(i)'
    BY <1>1
<1>4. PICK k \in Nat : k = Reste(i)
    BY <1>1
<1>5. PICK E, F, m, m1 : /\ E = Dus(i) /\ F = Dus(i)' /\ m = Montant
                         /\ m1 = Montant'
    OBVIOUS
<1>6. /\ place \in [Requetes -> 0..n] /\ Disposes(F, m1, place, n)
    <2>1. /\ F \in SUBSET E /\ E \subseteq Requetes
          /\ \A r \in F : m1[r] = m[r] /\ \A q \in E : m[q] \in Nat
          /\ k <= n /\ place \in [Requetes -> 0..k] /\ Disposes(E, m, place, k)
        BY <1>1, <1>2, <1>3, <1>4, <1>5
    <2>2. \A r \in E : m[r] \in Nat
        BY <1>1, <1>5
    <2> QED BY <2>1, <2>2, DisposesMoins
<1> QED BY <1>3, <1>5, <1>6, AuditCouvertSuivant

\* Steps whose request has no payment due afterwards, unless it already had it.
LEMMA CadreAuditPas ==
    ASSUME Montants \subseteq Nat, TypeOK, TypeOK', InvAudit, NEW r \in Requetes,
           \A s \in Requetes \ {r} : req'[s] = req[s],
           \/ req'[r].pc \notin {"solder", "journal"}
           \/ req'[r].d.op # "payer"
           \/ /\ req[r].pc \in {"solder", "journal"}
              /\ req'[r].d = req[r].d /\ req'[r].id = req[r].id,
           purges \subseteq purges',
           \A i \in Ids \ purges' : /\ paiements'[i] >= paiements[i]
                                    /\ paiementsAudites'[i] = paiementsAudites[i]
    PROVE  InvAudit'
<1> SUFFICES ASSUME NEW i \in Ids \ purges' PROVE AuditCouvert(i)'
    BY DEF InvAudit
<1>1. i \in Ids /\ AuditCouvert(i)
    BY DEF InvAudit
<1>2. Dus(i)' \subseteq Dus(i)
    BY DEF Dus
<1>3. \A s \in Dus(i)' : Montant'[s] = Montant[s]
    BY DEF Dus, Montant
<1>4. Reste(i)' >= Reste(i)
    <2>1. /\ paiements'[i] \in Int /\ paiementsAudites'[i] \in Int
          /\ paiements[i] \in Int /\ paiementsAudites[i] \in Int
        BY <1>1 DEF TypeOK
    <2> QED BY <2>1 DEF Reste
<1> QED BY <1>1, <1>2, <1>3, <1>4, CadreAudit

\* Payments are registered and audited by natural amounts.
LEMMA ReglementDu ==
    ASSUME Montants \subseteq Nat, TypeOK, NEW r \in Requetes, req[r].d \in Reglements
    PROVE  /\ req[r].d.montant \in Nat /\ req[r].d.op = "payer"
           /\ Montant[r] = req[r].d.montant
BY DEF Reglements, Montant

\* registerPayment writes the payment: its amount joins those due.
LEMMA AuditPayer ==
    ASSUME Montants \subseteq Nat, TypeOK, TypeOK', InvAudit, NEW r \in Requetes, Payer(r)
    PROVE  InvAudit'
<1>1. /\ req[r].pc = "payer" /\ req[r].d \in Reglements /\ req[r].id \in Ids
      /\ \A s \in Requetes \ {r} : req'[s] = req[s]
      /\ req'[r].pc = "solder" /\ req'[r].d = req[r].d /\ req'[r].id = req[r].id
    BY AllerEffet DEF TypeOK, Payer, A, RequeteOK
<1> SUFFICES ASSUME NEW i \in Ids, i \notin purges' PROVE AuditCouvert(i)'
    BY DEF InvAudit
<1>2. /\ AuditCouvert(i) /\ paiementsAudites' = paiementsAudites
      /\ paiements \in [Ids -> Int]
      /\ paiements' = [paiements EXCEPT ![req[r].id] = @ + req[r].d.montant]
    BY DEF InvAudit, Payer, TypeOK
<1>3. CASE i # req[r].id
    <2>1. Dus(i)' \subseteq Dus(i) /\ \A s \in Dus(i)' : Montant'[s] = Montant[s]
        BY <1>1, <1>3 DEF Dus, Montant
    <2>2. Reste(i)' = Reste(i) /\ Reste(i) \in Int
        BY <1>2, <1>3, DuType DEF Reste
    <2> QED BY <1>2, <2>1, <2>2, CadreAudit
<1>4. CASE i = req[r].id
    <2>1. PICK n \in Nat, m \in Nat, place \in [Requetes -> 0..Reste(i)] :
            /\ n = Reste(i) /\ m = Montant[r]
            /\ Disposes(Dus(i), Montant, place, Reste(i))
        BY <1>1, <1>2, AuditCouvertReste, ReglementDu
    <2>2. PICK E, f, g : E = Dus(i) /\ f = Montant /\ g = Montant'
        OBVIOUS
    <2>3. /\ E \in SUBSET Requetes /\ r \in Requetes \ E
          /\ \A s \in E : g[s] = f[s] /\ f[s] \in Nat
          /\ g[r] = m
        BY <1>1, <2>1, <2>2, DuType DEF Dus, Montant
    <2>4. Dus(i)' = E \cup {r}
        BY <1>1, <1>4, <2>2, ReglementDu DEF Dus
    <2>5. Reste(i)' = n + m /\ n + m \in Nat
        <3>1. paiements[i] \in Int /\ paiementsAudites[i] \in Int
            BY DEF TypeOK
        <3>2. paiements'[i] = paiements[i] + m
            BY <1>1, <1>2, <1>4, <2>1, ReglementDu
        <3> QED BY <1>2, <2>1, <3>1, <3>2 DEF Reste
    <2>6. \E p \in [Requetes -> 0..(n + m)] : Disposes(E \cup {r}, g, p, n + m)
        <3>1. /\ place \in [Requetes -> 0..n] /\ Disposes(E, f, place, n)
              /\ g[r] \in Nat
            BY <2>1, <2>2, <2>3
        <3>2. \E p \in [Requetes -> 0..(n + g[r])] :
                 Disposes(E \cup {r}, g, p, n + g[r])
            BY <2>3, <3>1, DisposesPlus
        <3> QED BY <2>3, <3>2
    <2> QED BY <2>2, <2>4, <2>5, <2>6, AuditCouvertSuivant
<1> QED BY <1>3, <1>4

\* auditLogService.log of a payment: its amount leaves those due.
LEMMA AuditJournaliser ==
    ASSUME Montants \subseteq Nat, TypeOK, TypeOK', InvAudit, NEW r \in Requetes, Journaliser(r),
           req[r].d.op = "payer"
    PROVE  InvAudit'
<1>1. /\ req[r].pc = "journal" /\ req[r].d \in Reglements /\ req[r].id \in Ids
      /\ \A s \in Requetes \ {r} : req'[s] = req[s]
      /\ req'[r].pc \notin {"solder", "journal"}
    <2>1. req[r].pc = "journal" /\ RequeteOK(req[r])
        BY DEF TypeOK, Journaliser, A
    <2>2. req[r].d \in Reglements /\ req[r].id \in Ids
        BY <2>1, DemandeType DEF RequeteOK
    <2>3. Aller(r, "notifier") \/ Finir(r)
        BY DEF Journaliser
    <2> QED BY <2>1, <2>2, <2>3, AllerEffet, FinirEffet
<1> SUFFICES ASSUME NEW i \in Ids, i \notin purges' PROVE AuditCouvert(i)'
    BY DEF InvAudit
<1>2. /\ AuditCouvert(i) /\ paiements' = paiements
      /\ paiementsAudites \in [Ids -> Int]
      /\ paiementsAudites' =
            [paiementsAudites EXCEPT ![req[r].id] = @ + req[r].d.montant]
    BY DEF InvAudit, Journaliser, TypeOK
<1>3. CASE i # req[r].id
    <2>1. Dus(i)' \subseteq Dus(i) /\ \A s \in Dus(i)' : Montant'[s] = Montant[s]
        BY <1>1, <1>3 DEF Dus, Montant
    <2>2. Reste(i)' = Reste(i) /\ Reste(i) \in Int
        BY <1>2, <1>3, DuType DEF Reste
    <2> QED BY <1>2, <2>1, <2>2, CadreAudit
<1>4. CASE i = req[r].id
    <2>1. PICK n \in Nat, place \in [Requetes -> 0..Reste(i)] :
            n = Reste(i) /\ Disposes(Dus(i), Montant, place, Reste(i))
        BY <1>2, AuditCouvertReste
    <2>2. PICK E, f, g : E = Dus(i) /\ f = Montant /\ g = Montant'
        OBVIOUS
    <2>3. /\ E \in SUBSET Requetes /\ r \in E
          /\ \A s \in E : f[s] \in Nat
          /\ \A s \in E \ {r} : g[s] = f[s]
        BY <1>1, <1>4, <2>2, DuType DEF Dus, Montant
    <2>4. Dus(i)' = E \ {r}
        BY <1>1, <2>2 DEF Dus
    <2>5. /\ f[r] <= n
          /\ \E p \in [Requetes -> 0..(n - f[r])] : Disposes(E \ {r}, g, p, n - f[r])
        BY <2>1, <2>2, <2>3, DisposesTasse
    <2>6. Reste(i)' = n - f[r] /\ n - f[r] \in Nat
        <3>1. paiements[i] \in Int /\ paiementsAudites[i] \in Int /\ f[r] \in Nat
            BY <2>3 DEF TypeOK
        <3>2. paiementsAudites'[i] = paiementsAudites[i] + f[r]
            BY <1>1, <1>2, <1>4, <2>2, ReglementDu
        <3> QED BY <1>2, <2>1, <2>5, <3>1, <3>2 DEF Reste
    <2> QED BY <2>2, <2>4, <2>5, <2>6, AuditCouvertSuivant
<1> QED BY <1>3, <1>4

\* Every step keeps the payments due side by side in what is recorded and not
\* audited: only Payer adds one, with its row; only its audit entry uses it.
THEOREM AuditPas ==
    ASSUME Montants \subseteq Nat
    PROVE  TypeOK /\ InvAudit /\ [Next]_vars => InvAudit'
<1> SUFFICES ASSUME TypeOK, InvAudit, [Next]_vars PROVE InvAudit'
    OBVIOUS
<1>0. /\ TypeOK /\ TypeOK'
      /\ paiements \in [Ids -> Int] /\ \A i \in Ids : paiements[i] \in Int
    BY TypePas DEF TypeOK
<1> USE DEF A
\* Steps that write neither payments nor audited amounts.
<1>a. ASSUME NEW r \in Requetes, \A s \in Requetes \ {r} : req'[s] = req[s],
             \/ req'[r].pc \notin {"solder", "journal"}
             \/ req'[r].d.op # "payer"
             \/ /\ req[r].pc \in {"solder", "journal"}
                /\ req'[r].d = req[r].d /\ req'[r].id = req[r].id,
             UNCHANGED <<paiements, paiementsAudites, purges>>
      PROVE  InvAudit'
    <2>1. \A i \in Ids \ purges' : /\ paiements'[i] >= paiements[i]
                                   /\ paiementsAudites'[i] = paiementsAudites[i]
        BY <1>0, <1>a
    <2> QED BY <1>0, <1>a, <2>1, CadreAuditPas
\* Going on to a step, or ending, keeps what the request is about.
<1>b. ASSUME NEW r \in Requetes, NEW pc, Aller(r, pc)
      PROVE  /\ \A s \in Requetes \ {r} : req'[s] = req[s]
             /\ req'[r].pc = pc
             /\ req'[r].d = req[r].d /\ req'[r].id = req[r].id
    BY <1>0, <1>b, AllerEffet
<1>c. \A r \in Requetes :
         /\ req[r].pc \in {"effacer_lignes", "ecrire_lignes", "acompte", "maj",
                           "statut", "suppr_facture"} => req[r].d.op # "payer"
         /\ RequeteOK(req[r])
    BY <1>0 DEF TypeOK, RequeteOK, Creations, Modifications, ChangementsStatut,
                Suppressions
<1>1. CASE UNCHANGED vars
    <2>1. \A i \in Ids : Dus(i)' = Dus(i) /\ Reste(i)' = Reste(i)
        BY <1>1 DEF vars, tables, Dus, Reste
    <2>2. Montant' = Montant
        BY <1>1 DEF vars, Montant
    <2>3. purges' = purges /\ paiements' = paiements
          /\ paiementsAudites' = paiementsAudites
        BY <1>1 DEF vars, tables
    <2> QED BY <2>1, <2>2, <2>3 DEF InvAudit, AuditCouvert, Disposes
<1>2. ASSUME NEW r \in Requetes, Recevoir(r) PROVE InvAudit'
    <2>1. /\ \A s \in Requetes \ {r} : req'[s] = req[s]
          /\ \/ req'[r].pc \notin {"solder", "journal"}
             \/ req'[r].d.op # "payer"
        BY <1>0, <1>2 DEF TypeOK, Recevoir, Debut
    <2> QED BY <1>2, <1>a, <2>1 DEF Recevoir, tables
<1>3. ASSUME NEW r \in Requetes, Inserer(r) PROVE InvAudit'
    <2>1. /\ \A s \in Requetes \ {r} : req'[s] = req[s]
          /\ req'[r].pc = "effacer_lignes"
        BY <1>0, <1>3 DEF TypeOK, Inserer, Contextes
    <2> QED BY <1>3, <1>a, <2>1 DEF Inserer
<1>4. ASSUME NEW r \in Requetes,
             \/ RefuserInsertion(r) \/ Notifier(r) \/ Echouer(r)
      PROVE  InvAudit'
    BY <1>0, <1>4, <1>a, FinirEffet DEF RefuserInsertion, Notifier, Echouer, tables
<1>5. ASSUME NEW r \in Requetes, EffacerLignes(r) PROVE InvAudit'
    BY <1>5, <1>a, <1>b DEF EffacerLignes
<1>6. ASSUME NEW r \in Requetes, EcrireLignes(r) PROVE InvAudit'
    <2>1. PICK pc \in {"acompte", "journal"} : Aller(r, pc)
        BY <1>6 DEF EcrireLignes
    <2> QED BY <1>6, <1>a, <1>b, <1>c, <2>1 DEF EcrireLignes
<1>7. ASSUME NEW r \in Requetes, EnregistrerAcompte(r) PROVE InvAudit'
    <2>1. PICK i \in Ids, m \in Int :
            /\ m >= 0
            /\ paiements' = [paiements EXCEPT ![i] = @ + m]
        <3>1. /\ req[r].d \in Creations /\ req[r].id \in Ids
              /\ req[r].d.acompte > 0
            BY <1>c, <1>7 DEF EnregistrerAcompte, RequeteOK
        <3>2. req[r].d.acompte \in Int /\ req[r].d.acompte >= 0
            BY <3>1, MontantsType
        <3> QED BY <1>7, <3>1, <3>2 DEF EnregistrerAcompte
    <2>2. \A j \in Ids : paiements'[j] >= paiements[j]
        BY <1>0, <2>1
    <2>3. /\ \A s \in Requetes \ {r} : req'[s] = req[s]
          /\ req'[r].d.op # "payer"
        BY <1>7, <1>b, <1>c DEF EnregistrerAcompte
    <2>4. paiementsAudites' = paiementsAudites /\ purges' = purges
        BY <1>7 DEF EnregistrerAcompte
    <2> QED BY <1>0, <2>2, <2>3, <2>4, CadreAuditPas
<1>8. ASSUME NEW r \in Requetes, Lire(r) PROVE InvAudit'
    <2>1. /\ \A s \in Requetes \ {r} : req'[s] = req[s]
          /\ req'[r].pc \notin {"solder", "journal"}
        BY <1>0, <1>8, FinirEffet DEF TypeOK, Lire, Contextes, Suite
    <2> QED BY <1>8, <1>a, <2>1 DEF Lire, tables
<1>9. ASSUME NEW r \in Requetes, LireLignes(r) PROVE InvAudit'
    <2>1. /\ \A s \in Requetes \ {r} : req'[s] = req[s]
          /\ req'[r].pc = "maj"
        BY <1>0, <1>9 DEF TypeOK, LireLignes, Contextes
    <2> QED BY <1>9, <1>a, <2>1 DEF LireLignes, tables
<1>10. ASSUME NEW r \in Requetes, Maj(r) PROVE InvAudit'
    <2>1. PICK pc \in {"effacer_lignes", "journal"} : Aller(r, pc)
        BY <1>10 DEF Maj
    <2> QED BY <1>10, <1>a, <1>b, <1>c, <2>1 DEF Maj
<1>11. ASSUME NEW r \in Requetes, ChangerStatut(r) PROVE InvAudit'
    BY <1>11, <1>a, <1>b, <1>c DEF ChangerStatut
<1>12. ASSUME NEW r \in Requetes, Payer(r) PROVE InvAudit'
    BY <1>0, <1>12, AuditPayer
<1>13. ASSUME NEW r \in Requetes, Solder(r) PROVE InvAudit'
    BY <1>13, <1>a, <1>b DEF Solder
<1>14. ASSUME NEW r \in Requetes, SupprLignes(r) PROVE InvAudit'
    BY <1>14, <1>a, <1>b DEF SupprLignes
<1>15. ASSUME NEW r \in Requetes, SupprPaiements(r) PROVE InvAudit'
    <2>1. PICK i \in Ids :
            /\ paiements' = [paiements EXCEPT ![i] = 0]
            /\ purges' = purges \cup {i}
        BY <1>c, <1>15 DEF SupprPaiements, RequeteOK
    <2>2. \A j \in Ids \ purges' : /\ paiements'[j] >= paiements[j]
                                   /\ paiementsAudites'[j] = paiementsAudites[j]
        BY <1>0, <1>15, <2>1 DEF SupprPaiements
    <2>3. /\ \A s \in Requetes \ {r} : req'[s] = req[s]
          /\ req'[r].pc = "suppr_facture"
        BY <1>15, <1>b DEF SupprPaiements
    <2>4. purges \subseteq purges'
        BY <2>1
    <2> QED BY <1>0, <2>2, <2>3, <2>4, CadreAuditPas
<1>16. ASSUME NEW r \in Requetes, SupprFacture(r) PROVE InvAudit'
    BY <1>16, <1>a, <1>b, <1>c DEF SupprFacture
<1>17. ASSUME NEW r \in Requetes, Journaliser(r) PROVE InvAudit'
    <2>1. CASE req[r].d.op = "payer"
        BY <1>0, <1>17, <2>1, AuditJournaliser
    <2>2. CASE req[r].d.op # "payer"
        <3>1. PICK pc \in {"notifier"} : Aller(r, pc) \/ Finir(r)
            BY <1>17 DEF Journaliser
        <3>2. UNCHANGED <<paiements, paiementsAudites, purges>>
            BY <1>17, <2>2 DEF Journaliser
        <3> QED BY <1>0, <1>a, <1>b, <3>1, <3>2, FinirEffet
    <2> QED BY <2>1, <2>2
<1> QED BY <1>1, <1>2, <1>3, <1>4, <1>5, <1>6, <1>7, <1>8, <1>9, <1>10, <1>11,
           <1>12, <1>13, <1>14, <1>15, <1>16, <1>17
        DEF Next, Avancer

\* Nothing is paid, due or audited at the start.
THEOREM AuditInit == Init => InvAudit
<1> SUFFICES ASSUME Init, NEW i \in Ids PROVE AuditCouvert(i)
    BY DEF InvAudit
<1>1. /\ paiements[i] = 0 /\ paiementsAudites[i] = 0 /\ Reste(i) = 0
      /\ Dus(i) = {}
    BY DEF Init, Reste, Dus, Repos
<1> DEFINE place == [r \in Requetes |-> 0]
<1>2. place \in [Requetes -> 0..0]
    OBVIOUS
<1>3. Disposes({}, Montant, place, 0)
    BY DEF Disposes
<1> HIDE DEF place
<1> QED BY <1>1, <1>2, <1>3 DEF AuditCouvert

\* However requests interleave and fail, the audit trail never claims more
\* payments of an invoice than its payments table holds, deletions apart, when
\* no payment is negative.
THEOREM AuditToujoursFonde ==
    ASSUME Montants \subseteq Nat
    PROVE  Spec => []AuditFonde
<1>1. InvAudit => AuditFonde
    BY DEF InvAudit, AuditCouvert, AuditFonde
<1>2. TypeOK /\ InvAudit /\ [Next]_vars => (TypeOK /\ InvAudit)'
    BY TypePas, AuditPas
<1> QED BY <1>1, <1>2, TypeInit, AuditInit, PTL DEF Spec
-----------------------------------------------------------------------------
Traces(i) == {t \in {"attribuee"} : i < prochain}
             \cup {t \in {"creer", "supprimer"} : <<t, i>> \in journal}
             \cup {t \in {"notifiee"} : <<"creer", i>> \in notifications}

Dossier(i) == [facture |-> factures[i], lignes |-> lignes[i],
               paiements |-> paiements[i], audites |-> paiementsAudites[i],
               traces |-> Traces(i)]

Dossiers == [facture : Lignes \cup {Neant}, lignes : Int, paiements : Int,
             audites : Int,
             traces : SUBSET {"attribuee", "creer", "supprimer", "notifiee"}]

\* Before the payment row of the advance; and until the audit entry.
EnCreation(q) == /\ q.pc \in {"effacer_lignes", "ecrire_lignes", "acompte"}
                 /\ q.d.op = "creer"
Cree(q) == EnCreation(q) \/ (q.pc \in {"journal", "notifier"} /\ q.d.op = "creer")

\* The amount shown as paid less the payments, at each step.
Ecart(q) == IF EnCreation(q) THEN q.d.acompte
            ELSE IF q.pc = "solder" THEN -q.d.montant ELSE 0

\* The payments the audit trail will have, less those there are.
EcartAudit(q) ==
    IF EnCreation(q) THEN q.d.acompte
    ELSE IF q.pc = "solder" \/ (q.pc = "journal" /\ q.d.op = "payer")
      THEN -q.d.montant ELSE 0

\* The sum of the lines that saveLines inserts.
AEcrire(d) == IF d.op = "creer" THEN d.ht ELSE Ou(d.ht, 0)

\* createFacture writes no payment row for a negative advance.
AvancesPositives == Acomptes \subseteq Nat

SuiviPaye(x, q) ==
    x.facture # Neant /\ q.pc # "suppr_facture" =>
        /\ AvancesPositives =>
              x.facture.montant_paye = x.paiements + Ecart(q)
        /\ x.facture.solde_a_payer = Solde(x.facture)

SuiviLignes(x, q) ==
    /\ x.facture = Neant => x.lignes = 0 /\ x.paiements = 0
    /\ x.facture # Neant =>
        /\ q.pc \notin {"effacer_lignes", "ecrire_lignes", "suppr_paiements",
                        "suppr_facture"} => x.lignes = x.facture.sous_total_ht
        /\ q.pc \in {"effacer_lignes", "ecrire_lignes"} =>
              x.facture.sous_total_ht = AEcrire(q.d)
        /\ q.pc \in {"ecrire_lignes", "suppr_paiements", "suppr_facture"} =>
              x.lignes = 0
        /\ q.pc = "suppr_facture" => x.paiements = 0

SuiviAudit(x, q) ==
    /\ "attribuee" \notin x.traces =>
          x.facture = Neant /\ x.audites = 0 /\ q.pc \in {"repos", "lire"}
    /\ "attribuee" \in x.traces =>
        /\ ~Cree(q) => {"creer", "notifiee"} \subseteq x.traces
        /\ Cree(q) /\ q.pc = "notifier" => "creer" \in x.traces
        /\ x.facture = Neant => \/ "supprimer" \in x.traces
                                \/ q.pc = "journal" /\ q.d.op = "supprimer"
        /\ AvancesPositives /\ x.facture # Neant /\ q.pc # "suppr_facture" =>
              x.paiements + EcartAudit(q) - x.audites \in Acomptes

SuiviLu(x, q) ==
    /\ q.pc \in {"effacer_lignes", "ecrire_lignes", "acompte"} =>
          x.facture # Neant
    /\ q.pc \in {"lire_lignes", "maj", "payer", "solder"} => q.lu = x.facture
    /\ q.pc = "maj" => q.ht = Ou(q.d.ht, x.lignes)

Suivi(x, q) == /\ SuiviPaye(x, q) /\ SuiviLignes(x, q)
               /\ SuiviAudit(x, q) /\ SuiviLu(x, q)

Actif(r, i) == req[r].pc # "repos" /\ req[r].id = i

\* An invoice without trouble has one request at a time, at a step its file
\* agrees with.
InvExacte ==
    \A i \in Ids \ troubles :
        /\ \A r, s \in Requetes : Actif(r, i) /\ Actif(s, i) => r = s
        /\ (\A r \in Requetes : ~Actif(r, i)) => Suivi(Dossier(i), Repos)
        /\ \A r \in Requetes : Actif(r, i) => Suivi(Dossier(i), req[r])
-----------------------------------------------------------------------------
\* Steps before the first write of a handler.
Ordinaires == {"repos", "lire", "lire_lignes", "maj", "statut", "payer",
               "suppr_lignes"}

\* A file that is as requests find it, whatever request comes or goes.
LEMMA SuiviOrdinaire ==
    ASSUME NEW x, NEW q, NEW q1, Suivi(x, q),
           q.pc \in Ordinaires, q1.pc \in Ordinaires, SuiviLu(x, q1),
           q1.pc \notin {"repos", "lire"} => "attribuee" \in x.traces
    PROVE  Suivi(x, q1)
<1>1. /\ ~EnCreation(q) /\ ~EnCreation(q1) /\ ~Cree(q) /\ ~Cree(q1)
      /\ Ecart(q) = 0 /\ Ecart(q1) = 0 /\ EcartAudit(q) = 0 /\ EcartAudit(q1) = 0
    BY DEF Ordinaires, EnCreation, Cree, Ecart, EcartAudit
<1>2. SuiviPaye(x, q1)
    BY <1>1 DEF Suivi, SuiviPaye, Ordinaires
<1>3. SuiviLignes(x, q1)
    BY DEF Suivi, SuiviLignes, Ordinaires
<1>4. SuiviAudit(x, q1)
    BY <1>1 DEF Suivi, SuiviAudit, Ordinaires
<1> QED BY <1>2, <1>3, <1>4 DEF Suivi

\* A request that ends before its first write leaves the file in order.
LEMMA SuiviAbandon ==
    ASSUME NEW x, NEW q, Suivi(x, q), q.pc \in Ordinaires
    PROVE  Suivi(x, Repos)
<1>1. Repos.pc = "repos"
    BY DEF Repos
<1>2. SuiviLu(x, Repos)
    BY <1>1 DEF SuiviLu
<1> QED BY <1>1, <1>2, SuiviOrdinaire DEF Ordinaires

\* createFacture writes the row of a new invoice.
LEMMA SuiviInserer ==
    ASSUME NEW x \in Dossiers, Suivi(x, Repos), "attribuee" \notin x.traces,
           NEW d \in Creations, NEW x1 \in Dossiers, NEW q1,
           x1.facture = LigneNeuve(d), x1.lignes = x.lignes,
           x1.paiements = x.paiements, x1.audites = x.audites,
           "attribuee" \in x1.traces,
           q1.pc = "effacer_lignes", q1.d = d
    PROVE  Suivi(x1, q1)
<1>1. /\ x1.facture \in Lignes /\ x1.facture # Neant
      /\ x1.facture.montant_paye = d.acompte
      /\ d.op = "creer" /\ d.acompte \in Int /\ d.acompte \in Acomptes
    BY LigneNeuveType, MontantsType, NeantAssumption DEF Creations
<1>2. /\ x1.facture.solde_a_payer = Solde(x1.facture)
      /\ x1.facture.sous_total_ht = d.ht
    <2> DEFINE t == CalculateTotals(d.ht, d.remise, d.vente, d.acompte)
    <2>1. d.ht \in Int /\ d.remise \in Remises /\ d.acompte \in Int
        BY MontantsType DEF Creations
    <2>2. /\ t.sous_total_ht = d.ht
          /\ t.solde_a_payer = t.total_ttc - t.montant_paye
        BY <2>1, TotauxType
    <2>3. /\ x1.facture.solde_a_payer = t.solde_a_payer
          /\ x1.facture.total_ttc = t.total_ttc
          /\ x1.facture.montant_paye = t.montant_paye
          /\ x1.facture.sous_total_ht = t.sous_total_ht
        BY DEF LigneNeuve
    <2> HIDE DEF t
    <2> QED BY <2>2, <2>3 DEF Solde
<1>3. EnCreation(q1) /\ Cree(q1) /\ Ecart(q1) = d.acompte /\ EcartAudit(q1) = d.acompte
    BY <1>1 DEF EnCreation, Cree, Ecart, EcartAudit
<1>4. x.paiements = 0 /\ x.lignes = 0 /\ x.audites = 0
    BY DEF Suivi, SuiviAudit, SuiviLignes
<1>5. SuiviPaye(x1, q1)
    BY <1>1, <1>2, <1>3, <1>4 DEF SuiviPaye
<1>6. SuiviLignes(x1, q1)
    BY <1>1, <1>2, <1>4 DEF SuiviLignes, AEcrire
<1>7. SuiviLu(x1, q1)
    BY <1>1 DEF SuiviLu
<1>8. SuiviAudit(x1, q1)
    BY <1>1, <1>3, <1>4 DEF SuiviAudit
<1> QED BY <1>5, <1>6, <1>7, <1>8 DEF Suivi

\* saveLines deletes the lines.
LEMMA SuiviEffacer ==
    ASSUME NEW x \in Dossiers, NEW q, NEW x1, NEW q1, Suivi(x, q),
           q.pc = "effacer_lignes", x1 = [x EXCEPT !.lignes = 0],
           q1.pc = "ecrire_lignes", q1.d = q.d
    PROVE  Suivi(x1, q1)
<1>1. /\ x1.facture = x.facture /\ x1.paiements = x.paiements /\ x1.lignes = 0
      /\ x1.audites = x.audites /\ x1.traces = x.traces
    BY DEF Dossiers
<1>2. /\ EnCreation(q1) <=> EnCreation(q)
      /\ Cree(q1) <=> Cree(q)
      /\ Ecart(q1) = Ecart(q) /\ EcartAudit(q1) = EcartAudit(q)
    BY DEF EnCreation, Cree, Ecart, EcartAudit
<1>3. SuiviPaye(x1, q1)
    BY <1>1, <1>2 DEF Suivi, SuiviPaye
<1>4. SuiviLignes(x1, q1)
    BY <1>1 DEF Suivi, SuiviLignes, SuiviLu
<1>5. SuiviAudit(x1, q1)
    BY <1>1, <1>2 DEF Suivi, SuiviAudit
<1>6. SuiviLu(x1, q1)
    BY <1>1 DEF Suivi, SuiviLu
<1> QED BY <1>3, <1>4, <1>5, <1>6 DEF Suivi

\* saveLines inserts the lines the row was computed from.
LEMMA SuiviEcrire ==
    ASSUME NEW x \in Dossiers, NEW q, NEW x1, NEW q1, Suivi(x, q),
           q.pc = "ecrire_lignes", q.d \in Creations \cup Modifications,
           x1 = [x EXCEPT !.lignes = @ + AEcrire(q.d)], q1.d = q.d,
           q1.pc = IF q.d.op = "creer" /\ q.d.acompte > 0 THEN "acompte"
                                                          ELSE "journal"
    PROVE  Suivi(x1, q1)
<1>1. /\ x1.facture = x.facture /\ x1.paiements = x.paiements
      /\ x1.audites = x.audites /\ x1.traces = x.traces
      /\ x1.lignes = x.lignes + AEcrire(q.d)
      /\ x.facture \in Lignes /\ x.facture # Neant /\ x.lignes = 0
      /\ x.paiements \in Int /\ x.audites \in Int
    BY DEF Dossiers, Suivi, SuiviLu, SuiviLignes
<1>2. x.facture.sous_total_ht = AEcrire(q.d) /\ AEcrire(q.d) \in Int
    BY <1>1 DEF Suivi, SuiviLignes, Lignes
<1>3. x1.lignes = x1.facture.sous_total_ht
    BY <1>1, <1>2
<1>4. CASE q.d.op = "creer"
    <2>1. /\ q.d.acompte \in Int
          /\ AvancesPositives => q.d.acompte >= 0
        <3>1. q.d \in Creations
            BY <1>4, OperationType
        <3>2. AvancesPositives => q.d.acompte \in Nat
            BY <3>1 DEF AvancesPositives, Creations
        <3> QED BY <3>1, <3>2, MontantsType
    <2>2. /\ EnCreation(q) /\ Cree(q) /\ Cree(q1)
          /\ AvancesPositives => /\ Ecart(q1) = Ecart(q)
                                 /\ EcartAudit(q1) = EcartAudit(q)
          /\ q1.pc # "notifier"
        BY <1>4, <2>1 DEF EnCreation, Cree, Ecart, EcartAudit
    <2>3. SuiviPaye(x1, q1)
        BY <1>1, <2>2 DEF Suivi, SuiviPaye
    <2>4. SuiviLignes(x1, q1)
        BY <1>1, <1>3 DEF SuiviLignes
    <2>5. SuiviAudit(x1, q1)
        BY <1>1, <2>2 DEF Suivi, SuiviAudit
    <2>6. SuiviLu(x1, q1)
        BY <1>1 DEF SuiviLu
    <2> QED BY <2>3, <2>4, <2>5, <2>6 DEF Suivi
<1>5. CASE q.d.op # "creer"
    <2>1. q.d.op = "modifier" /\ q1.pc = "journal"
        BY <1>5, OperationType
    <2>2. /\ ~EnCreation(q) /\ ~EnCreation(q1) /\ ~Cree(q) /\ ~Cree(q1)
          /\ Ecart(q) = 0 /\ Ecart(q1) = 0
          /\ EcartAudit(q1) = 0 /\ EcartAudit(q) = 0
        BY <2>1 DEF EnCreation, Cree, Ecart, EcartAudit
    <2>3. SuiviPaye(x1, q1)
        BY <1>1, <2>2 DEF Suivi, SuiviPaye
    <2>4. SuiviLignes(x1, q1)
        BY <1>1, <1>3, <2>1 DEF SuiviLignes
    <2>5. SuiviAudit(x1, q1)
        BY <1>1, <2>1, <2>2 DEF Suivi, SuiviAudit
    <2>6. SuiviLu(x1, q1)
        BY <2>1 DEF SuiviLu
    <2> QED BY <2>3, <2>4, <2>5, <2>6 DEF Suivi
<1> QED BY <1>4, <1>5

\* The payment row of the advance.
LEMMA SuiviAcompte ==
    ASSUME NEW x \in Dossiers, NEW q, NEW x1, NEW q1, Suivi(x, q),
           q.pc = "acompte", q.d \in Creations,
           x1 = [x EXCEPT !.paiements = @ + q.d.acompte],
           q1.pc = "journal", q1.d = q.d
    PROVE  Suivi(x1, q1)
<1>1. /\ x1.facture = x.facture /\ x1.paiements = x.paiements + q.d.acompte
      /\ x1.audites = x.audites /\ x1.traces = x.traces /\ x1.lignes = x.lignes
      /\ x.facture \in Lignes /\ x.facture # Neant
      /\ x.paiements \in Int /\ x.audites \in Int
    BY DEF Dossiers, Suivi, SuiviLu
<1>2. q.d.acompte \in Int /\ q.d.op = "creer"
    BY MontantsType, OperationType
<1>3. /\ Cree(q) /\ Cree(q1)
      /\ Ecart(q) = q.d.acompte /\ Ecart(q1) = 0
      /\ EcartAudit(q) = q.d.acompte /\ EcartAudit(q1) = 0
    BY <1>2 DEF EnCreation, Cree, Ecart, EcartAudit
<1>4. SuiviPaye(x1, q1)
    BY <1>1, <1>2, <1>3 DEF Suivi, SuiviPaye
<1>5. SuiviLignes(x1, q1)
    BY <1>1 DEF Suivi, SuiviLignes
<1>6. SuiviAudit(x1, q1)
    <2>1. x1.paiements + EcartAudit(q1) - x1.audites
             = x.paiements + EcartAudit(q) - x.audites
        BY <1>1, <1>2, <1>3
    <2>2. /\ x1.facture = x.facture /\ x1.audites = x.audites
          /\ x1.traces = x.traces /\ x.facture # Neant
        BY <1>1
    <2>3. (Cree(q1) <=> Cree(q)) /\ q1.pc # "notifier"
        BY <1>3
    <2> QED BY <2>1, <2>2, <2>3 DEF Suivi, SuiviAudit
<1>7. SuiviLu(x1, q1)
    BY DEF SuiviLu
<1> QED BY <1>4, <1>5, <1>6, <1>7 DEF Suivi

\* updateFacture recomputes the row from the lines there are or will be.
LEMMA SuiviMaj ==
    ASSUME NEW x \in Dossiers, NEW q \in Contextes, NEW x1, NEW q1,
           Suivi(x, q), RequeteOK(q), q.pc = "maj",
           x1 = [x EXCEPT !.facture = LigneModifiee(x.facture, q.d, q.lu, q.ht)],
           q1.pc = IF q.d.ht # {} THEN "effacer_lignes" ELSE "journal",
           q1.d = q.d
    PROVE  Suivi(x1, q1)
<1> DEFINE d == q.d
           l == LigneModifiee(x.facture, d, q.lu, q.ht)
<1>1. /\ x1.facture = l /\ x1.paiements = x.paiements
      /\ x1.audites = x.audites /\ x1.traces = x.traces /\ x1.lignes = x.lignes
      /\ x.facture \in Lignes /\ x.facture # Neant /\ q.lu = x.facture
      /\ d \in Modifications /\ d.op = "modifier"
      /\ q.ht \in Int /\ q.ht = Ou(d.ht, x.lignes)
    BY NeantAssumption, OperationType
       DEF Dossiers, Suivi, SuiviLu, RequeteOK, Contextes
<1>2. /\ l \in Lignes /\ l # Neant /\ l.montant_paye = x.facture.montant_paye
      /\ l.sous_total_ht = q.ht /\ l.solde_a_payer = Solde(l)
    <2> DEFINE vente == Ou(d.vente, q.lu.type_vente)
               t == CalculateTotals(q.ht, d.remise, vente, q.lu.montant_paye)
    <2>1. l \in Lignes /\ l.montant_paye = x.facture.montant_paye
        BY <1>1, LigneModifieeType
    <2>2. d.remise \in Remises /\ q.lu.montant_paye \in Int
        BY <1>1 DEF Modifications, Lignes
    <2> HIDE DEF vente
    <2>3. /\ t.sous_total_ht = q.ht
          /\ t.solde_a_payer = t.total_ttc - t.montant_paye
        BY <1>1, <2>2, TotauxType
    <2>4. /\ l.solde_a_payer = t.solde_a_payer /\ l.total_ttc = t.total_ttc
          /\ l.montant_paye = t.montant_paye /\ l.sous_total_ht = t.sous_total_ht
        BY <1>1 DEF LigneModifiee, vente, Lignes
    <2> HIDE DEF t, l
    <2> QED BY <2>1, <2>3, <2>4, NeantAssumption DEF Solde
<1> HIDE DEF l
<1>3. /\ ~EnCreation(q) /\ ~EnCreation(q1) /\ ~Cree(q) /\ ~Cree(q1)
      /\ Ecart(q) = 0 /\ Ecart(q1) = 0
      /\ EcartAudit(q1) = 0 /\ EcartAudit(q) = 0
    BY <1>1 DEF EnCreation, Cree, Ecart, EcartAudit
<1>4. SuiviPaye(x1, q1)
    BY <1>1, <1>2, <1>3 DEF Suivi, SuiviPaye
<1>5. SuiviLignes(x1, q1)
    <2>1. CASE d.ht # {}
        <3>1. AEcrire(d) = q.ht
            BY <1>1, <2>1 DEF AEcrire, Ou
        <3> QED BY <1>1, <1>2, <2>1, <3>1 DEF SuiviLignes
    <2>2. CASE d.ht = {}
        <3>1. q.ht = x.lignes /\ q1.pc = "journal"
            BY <1>1, <2>2 DEF Ou
        <3> QED BY <1>1, <1>2, <3>1 DEF SuiviLignes
    <2> QED BY <2>1, <2>2
<1>6. SuiviAudit(x1, q1)
    BY <1>1, <1>2, <1>3 DEF Suivi, SuiviAudit
<1>7. SuiviLu(x1, q1)
    BY <1>1, <1>2 DEF SuiviLu
<1> QED BY <1>4, <1>5, <1>6, <1>7 DEF Suivi

\* updateStatus writes one column.
LEMMA SuiviStatut ==
    ASSUME NEW x \in Dossiers, NEW q, NEW x1, NEW q1, NEW s, Suivi(x, q),
           q.pc = "statut", q.d \in ChangementsStatut,
           x1 = [x EXCEPT !.facture = IF @ = Neant THEN Neant
                                      ELSE [@ EXCEPT !.statut = s]],
           x1.facture = Neant => x.facture = Neant,
           q1.pc = "journal", q1.d = q.d
    PROVE  Suivi(x1, q1)
<1>1. /\ x1.paiements = x.paiements /\ x1.lignes = x.lignes
      /\ x1.audites = x.audites /\ x1.traces = x.traces
      /\ x.facture = Neant <=> x1.facture = Neant
      /\ x.facture # Neant =>
           /\ x1.facture.montant_paye = x.facture.montant_paye
           /\ x1.facture.solde_a_payer = x.facture.solde_a_payer
           /\ x1.facture.total_ttc = x.facture.total_ttc
           /\ x1.facture.sous_total_ht = x.facture.sous_total_ht
    BY DEF Dossiers, Lignes
<1>2. q.d.op = "statut"
    BY OperationType
<1>3. /\ ~EnCreation(q) /\ ~EnCreation(q1) /\ ~Cree(q) /\ ~Cree(q1)
      /\ Ecart(q) = 0 /\ Ecart(q1) = 0
      /\ EcartAudit(q1) = 0 /\ EcartAudit(q) = 0
    BY <1>2 DEF EnCreation, Cree, Ecart, EcartAudit
<1>4. SuiviPaye(x1, q1)
    BY <1>1, <1>3 DEF Suivi, SuiviPaye, Solde
<1>5. SuiviLignes(x1, q1)
    BY <1>1 DEF Suivi, SuiviLignes
<1>6. SuiviAudit(x1, q1)
    BY <1>1, <1>2, <1>3 DEF Suivi, SuiviAudit
<1>7. SuiviLu(x1, q1)
    BY DEF SuiviLu
<1> QED BY <1>4, <1>5, <1>6, <1>7 DEF Suivi

\* registerPayment: the payment row,
LEMMA SuiviPayer ==
    ASSUME NEW x \in Dossiers, NEW q, NEW x1, NEW q1, Suivi(x, q),
           q.pc = "payer", q.d \in Reglements, q.lu \in Lignes,
           x1 = [x EXCEPT !.paiements = @ + q.d.montant],
           q1.pc = "solder", q1.d = q.d, q1.lu = q.lu
    PROVE  Suivi(x1, q1)
<1>1. /\ x1.facture = x.facture /\ x1.paiements = x.paiements + q.d.montant
      /\ x1.audites = x.audites /\ x1.traces = x.traces /\ x1.lignes = x.lignes
      /\ x.facture = q.lu /\ x.facture # Neant
      /\ x.paiements \in Int /\ x.audites \in Int
    BY NeantAssumption DEF Dossiers, Suivi, SuiviLu
<1>2. q.d.montant \in Int /\ q.d.op = "payer"
    BY MontantsType, OperationType
<1>3. /\ ~EnCreation(q) /\ ~EnCreation(q1) /\ ~Cree(q) /\ ~Cree(q1)
      /\ Ecart(q) = 0 /\ Ecart(q1) = -q.d.montant
      /\ EcartAudit(q) = 0 /\ EcartAudit(q1) = -q.d.montant
    BY <1>2 DEF EnCreation, Cree, Ecart, EcartAudit
<1>4. SuiviPaye(x1, q1)
    BY <1>1, <1>2, <1>3 DEF Suivi, SuiviPaye
<1>5. SuiviLignes(x1, q1)
    BY <1>1 DEF Suivi, SuiviLignes
<1>6. SuiviAudit(x1, q1)
    <2>1. x1.paiements + EcartAudit(q1) - x1.audites
             = x.paiements + EcartAudit(q) - x.audites
        BY <1>1, <1>2, <1>3
    <2>2. /\ x1.facture = x.facture /\ x1.audites = x.audites
          /\ x1.traces = x.traces /\ x.facture # Neant
        BY <1>1
    <2>3. (Cree(q1) <=> Cree(q)) /\ q1.pc # "notifier"
        BY <1>3
    <2> QED BY <2>1, <2>2, <2>3 DEF Suivi, SuiviAudit
<1>7. SuiviLu(x1, q1)
    BY <1>1 DEF SuiviLu
<1> QED BY <1>4, <1>5, <1>6, <1>7 DEF Suivi

\* then the totals of the row read before, which is still the row.
LEMMA SuiviSolder ==
    ASSUME NEW x \in Dossiers, NEW q, NEW x1, NEW q1, Suivi(x, q),
           q.pc = "solder", q.d \in Reglements, q.lu \in Lignes,
           x1 = [x EXCEPT !.facture = LignePayee(x.facture, q.lu, q.d.montant)],
           q1.pc = "journal", q1.d = q.d
    PROVE  Suivi(x1, q1)
<1> DEFINE l == LignePayee(x.facture, q.lu, q.d.montant)
<1>1. /\ x1.facture = l /\ x1.paiements = x.paiements
      /\ x1.audites = x.audites /\ x1.traces = x.traces /\ x1.lignes = x.lignes
      /\ x.facture = q.lu /\ x.facture \in Lignes /\ x.facture # Neant
      /\ x.paiements \in Int
    BY NeantAssumption DEF Dossiers, Suivi, SuiviLu
<1>2. q.d.montant \in Int /\ q.d.op = "payer"
    BY MontantsType, OperationType
<1>3. /\ l \in Lignes /\ l # Neant
      /\ l.montant_paye = x.facture.montant_paye + q.d.montant
      /\ l.sous_total_ht = x.facture.sous_total_ht
      /\ l.solde_a_payer = Solde(l)
    <2>1. l \in Lignes /\ l.montant_paye = x.facture.montant_paye + q.d.montant
        BY <1>1, <1>2, LignePayeeType
    <2>2. /\ l.sous_total_ht = x.facture.sous_total_ht
          /\ l.total_ttc = x.facture.total_ttc
          /\ l.solde_a_payer = x.facture.total_ttc - l.montant_paye
        BY <1>1 DEF LignePayee, Lignes
    <2> HIDE DEF l
    <2> QED BY <2>1, <2>2, NeantAssumption DEF Solde
<1> HIDE DEF l
<1>4. /\ ~Cree(q) /\ ~Cree(q1) /\ Ecart(q) = -q.d.montant /\ Ecart(q1) = 0
      /\ EcartAudit(q1) = EcartAudit(q)
    BY <1>2 DEF EnCreation, Cree, Ecart, EcartAudit
<1>5. SuiviPaye(x1, q1)
    BY <1>1, <1>2, <1>3, <1>4 DEF Suivi, SuiviPaye
<1>6. SuiviLignes(x1, q1)
    BY <1>1, <1>3 DEF Suivi, SuiviLignes
<1>7. SuiviAudit(x1, q1)
    BY <1>1, <1>2, <1>3, <1>4 DEF Suivi, SuiviAudit
<1>8. SuiviLu(x1, q1)
    BY DEF SuiviLu
<1> QED BY <1>5, <1>6, <1>7, <1>8 DEF Suivi

\* deleteFacture: lines, payments, invoice.
LEMMA SuiviSupprLignes ==
    ASSUME NEW x \in Dossiers, NEW q, NEW x1, NEW q1, Suivi(x, q),
           q.pc = "suppr_lignes", x1 = [x EXCEPT !.lignes = 0],
           q1.pc = "suppr_paiements"
    PROVE  Suivi(x1, q1)
<1>1. /\ x1.facture = x.facture /\ x1.paiements = x.paiements /\ x1.lignes = 0
      /\ x1.audites = x.audites /\ x1.traces = x.traces
    BY DEF Dossiers
<1>2. /\ ~Cree(q) /\ ~Cree(q1) /\ Ecart(q) = 0 /\ Ecart(q1) = 0
      /\ EcartAudit(q) = 0 /\ EcartAudit(q1) = 0
    BY DEF EnCreation, Cree, Ecart, EcartAudit
<1>3. SuiviPaye(x1, q1)
    BY <1>1, <1>2 DEF Suivi, SuiviPaye
<1>4. SuiviLignes(x1, q1)
    BY <1>1 DEF Suivi, SuiviLignes
<1>5. SuiviAudit(x1, q1)
    BY <1>1, <1>2 DEF Suivi, SuiviAudit
<1>6. SuiviLu(x1, q1)
    BY DEF SuiviLu
<1> QED BY <1>3, <1>4, <1>5, <1>6 DEF Suivi

\* The payments are gone: the row and they do not agree until it is gone too.
LEMMA SuiviSupprPaiements ==
    ASSUME NEW x \in Dossiers, NEW q, NEW x1, NEW q1, Suivi(x, q),
           q.pc = "suppr_paiements", x1 = [x EXCEPT !.paiements = 0],
           q1.pc = "suppr_facture"
    PROVE  Suivi(x1, q1)
<1>1. /\ x1.facture = x.facture /\ x1.paiements = 0 /\ x1.lignes = x.lignes
      /\ x1.audites = x.audites /\ x1.traces = x.traces
    BY DEF Dossiers
<1>2. ~Cree(q) /\ ~Cree(q1)
    BY DEF EnCreation, Cree
<1>3. SuiviPaye(x1, q1)
    BY DEF SuiviPaye
<1>4. SuiviLignes(x1, q1)
    BY <1>1 DEF Suivi, SuiviLignes
<1>5. SuiviAudit(x1, q1)
    BY <1>1, <1>2 DEF Suivi, SuiviAudit
<1>6. SuiviLu(x1, q1)
    BY DEF SuiviLu
<1> QED BY <1>3, <1>4, <1>5, <1>6 DEF Suivi

\* The row goes last; what is left to do is the audit entry.
LEMMA SuiviSupprFacture ==
    ASSUME NEW x \in Dossiers, NEW q, NEW x1, NEW q1, Suivi(x, q),
           q.pc = "suppr_facture", q.d \in Suppressions,
           x1 = [x EXCEPT !.facture = Neant],
           q1.pc = "journal", q1.d = q.d
    PROVE  Suivi(x1, q1)
<1>1. /\ x1.facture = Neant /\ x1.paiements = x.paiements
      /\ x1.lignes = x.lignes /\ x1.audites = x.audites /\ x1.traces = x.traces
    BY DEF Dossiers
<1>2. q.d.op = "supprimer" /\ ~Cree(q) /\ ~Cree(q1)
    BY OperationType DEF EnCreation, Cree
<1>3. SuiviPaye(x1, q1)
    BY <1>1 DEF SuiviPaye
<1>4. SuiviLignes(x1, q1)
    BY <1>1 DEF Suivi, SuiviLignes
<1>5. SuiviAudit(x1, q1)
    BY <1>1, <1>2 DEF Suivi, SuiviAudit
<1>6. SuiviLu(x1, q1)
    BY DEF SuiviLu
<1> QED BY <1>3, <1>4, <1>5, <1>6 DEF Suivi

\* The audit entry of a payment adds its amount.
LEMMA SuiviJournalPayer ==
    ASSUME NEW x \in Dossiers, NEW q, NEW x1, NEW q1, Suivi(x, q),
           q.pc = "journal", q.d \in Reglements,
           x1 = [x EXCEPT !.audites = @ + q.d.montant],
           q1.pc = "notifier", q1.d = q.d
    PROVE  Suivi(x1, q1)
<1>1. /\ x1.facture = x.facture /\ x1.paiements = x.paiements
      /\ x1.lignes = x.lignes /\ x1.traces = x.traces
      /\ x1.audites = x.audites + q.d.montant
      /\ x.paiements \in Int /\ x.audites \in Int
    BY DEF Dossiers
<1>2. q.d.montant \in Int /\ q.d.op = "payer"
    BY MontantsType, OperationType
<1>3. /\ ~Cree(q) /\ ~Cree(q1) /\ Ecart(q) = 0 /\ Ecart(q1) = 0
      /\ EcartAudit(q) = -q.d.montant /\ EcartAudit(q1) = 0
    BY <1>2 DEF EnCreation, Cree, Ecart, EcartAudit
<1>4. SuiviPaye(x1, q1)
    BY <1>1, <1>3 DEF Suivi, SuiviPaye
<1>5. SuiviLignes(x1, q1)
    BY <1>1 DEF Suivi, SuiviLignes
<1>6. SuiviAudit(x1, q1)
    <2>1. x1.paiements + EcartAudit(q1) - x1.audites
             = x.paiements + EcartAudit(q) - x.audites
        BY <1>1, <1>2, <1>3
    <2>2. "attribuee" \in x.traces
        BY DEF Suivi, SuiviAudit
    <2>3. /\ {"creer", "notifiee"} \subseteq x.traces
          /\ x.facture = Neant => "supprimer" \in x.traces
          /\ AvancesPositives /\ x.facture # Neant =>
                x.paiements + EcartAudit(q) - x.audites \in Acomptes
        BY <1>2, <1>3, <2>2 DEF Suivi, SuiviAudit
    <2>4. x1.facture = x.facture /\ x1.traces = x.traces /\ ~Cree(q1)
        BY <1>1, <1>3
    <2> QED BY <2>1, <2>2, <2>3, <2>4 DEF SuiviAudit
<1>7. SuiviLu(x1, q1)
    BY DEF SuiviLu
<1> QED BY <1>4, <1>5, <1>6, <1>7 DEF Suivi

\* That of the others leaves a trace when it is a creation or a deletion.
LEMMA SuiviJournalAutre ==
    ASSUME NEW x \in Dossiers, NEW q, NEW x1, NEW q1, Suivi(x, q),
           q.pc = "journal", q.d.op \in {"creer", "modifier", "statut", "supprimer"},
           x1 = [x EXCEPT !.traces = @ \cup ({q.d.op} \cap {"creer", "supprimer"})],
           \/ q.d.op = "creer" /\ q1.pc = "notifier" /\ q1.d = q.d
           \/ q.d.op # "creer" /\ q1.pc = "repos"
    PROVE  Suivi(x1, q1)
<1>1. /\ x1.facture = x.facture /\ x1.paiements = x.paiements
      /\ x1.lignes = x.lignes /\ x1.audites = x.audites
      /\ x1.traces = x.traces \cup ({q.d.op} \cap {"creer", "supprimer"})
    BY DEF Dossiers
<1>2. /\ Cree(q) <=> q.d.op = "creer"
      /\ Cree(q1) <=> q.d.op = "creer"
      /\ Ecart(q) = 0 /\ Ecart(q1) = 0
      /\ EcartAudit(q) = 0 /\ EcartAudit(q1) = 0
    BY DEF EnCreation, Cree, Ecart, EcartAudit
<1>3. SuiviPaye(x1, q1)
    BY <1>1, <1>2 DEF Suivi, SuiviPaye
<1>4. SuiviLignes(x1, q1)
    BY <1>1 DEF Suivi, SuiviLignes
<1>5. SuiviAudit(x1, q1)
    <2>1. "attribuee" \in x.traces /\ "attribuee" \in x1.traces
        BY <1>1 DEF Suivi, SuiviAudit
    <2>2. /\ ~Cree(q) => {"creer", "notifiee"} \subseteq x.traces
          /\ x.facture = Neant => \/ "supprimer" \in x.traces
                                  \/ q.d.op = "supprimer"
          /\ AvancesPositives /\ x.facture # Neant =>
                x.paiements + EcartAudit(q) - x.audites \in Acomptes
        BY <2>1 DEF Suivi, SuiviAudit
    <2>3. /\ ~Cree(q1) => {"creer", "notifiee"} \subseteq x1.traces
          /\ Cree(q1) => "creer" \in x1.traces
          /\ x1.facture = Neant => "supprimer" \in x1.traces
          /\ AvancesPositives /\ x1.facture # Neant =>
                x1.paiements + EcartAudit(q1) - x1.audites \in Acomptes
        BY <1>1, <1>2, <2>2
    <2> QED BY <2>1, <2>3 DEF SuiviAudit
<1>6. SuiviLu(x1, q1)
    BY DEF SuiviLu
<1> QED BY <1>3, <1>4, <1>5, <1>6 DEF Suivi

\* The notification of a creation or a payment ends the handler.
LEMMA SuiviNotifier ==
    ASSUME NEW x \in Dossiers, NEW q, NEW x1, Suivi(x, q),
           q.pc = "notifier", NEW ajout,
           ajout = IF q.d.op = "creer" THEN {"notifiee"} ELSE {},
           x1 = [x EXCEPT !.traces = @ \cup ajout]
    PROVE  Suivi(x1, Repos)
<1>1. /\ x1.facture = x.facture /\ x1.paiements = x.paiements
      /\ x1.lignes = x.lignes /\ x1.audites = x.audites
      /\ x1.traces = x.traces \cup IF q.d.op = "creer" THEN {"notifiee"} ELSE {}
    BY DEF Dossiers
<1>2. /\ Cree(q) <=> q.d.op = "creer"
      /\ ~Cree(Repos) /\ Repos.pc = "repos"
      /\ Ecart(q) = 0 /\ Ecart(Repos) = 0
      /\ EcartAudit(q) = 0 /\ EcartAudit(Repos) = 0
    BY DEF EnCreation, Cree, Ecart, EcartAudit, Repos
<1>3. SuiviPaye(x1, Repos)
    BY <1>1, <1>2 DEF Suivi, SuiviPaye
<1>4. SuiviLignes(x1, Repos)
    BY <1>1, <1>2 DEF Suivi, SuiviLignes
<1>5. SuiviAudit(x1, Repos)
    <2>1. "attribuee" \in x.traces /\ "attribuee" \in x1.traces
        BY <1>1 DEF Suivi, SuiviAudit
    <2>2. /\ ~Cree(q) => {"creer", "notifiee"} \subseteq x.traces
          /\ Cree(q) => "creer" \in x.traces
          /\ x.facture = Neant => "supprimer" \in x.traces
          /\ AvancesPositives /\ x.facture # Neant =>
                x.paiements + EcartAudit(q) - x.audites \in Acomptes
        BY <2>1 DEF Suivi, SuiviAudit
    <2>3. /\ {"creer", "notifiee"} \subseteq x1.traces
          /\ x1.facture = Neant => "supprimer" \in x1.traces
          /\ AvancesPositives /\ x1.facture # Neant =>
                x1.paiements + EcartAudit(Repos) - x1.audites \in Acomptes
        BY <1>1, <1>2, <2>2
    <2> QED BY <1>2, <2>1, <2>3 DEF SuiviAudit
<1>6. SuiviLu(x1, Repos)
    BY <1>2 DEF SuiviLu
<1> QED BY <1>3, <1>4, <1>5, <1>6 DEF Suivi
-----------------------------------------------------------------------------
\* The file of an invoice is typed.
LEMMA DossierType ==
    ASSUME TypeOK, NEW i \in Ids
    PROVE  Dossier(i) \in Dossiers
<1>1. /\ factures[i] \in Lignes \cup {Neant} /\ lignes[i] \in Int
      /\ paiements[i] \in Int /\ paiementsAudites[i] \in Int
    BY DEF TypeOK
<1>2. Traces(i) \subseteq {"attribuee", "creer", "supprimer", "notifiee"}
    BY DEF Traces
<1> QED BY <1>1, <1>2 DEF Dossier, Dossiers

\* The file of an invoice after a step, column by column.
LEMMA DossierSuivant ==
    ASSUME NEW i
    PROVE  Dossier(i)' =
             [facture |-> factures'[i], lignes |-> lignes'[i],
              paiements |-> paiements'[i], audites |-> paiementsAudites'[i],
              traces |-> Traces(i)']
BY DEF Dossier

\* A step that leaves the columns of an invoice and its traces leaves its file.
LEMMA DossierInchange ==
    ASSUME NEW i, factures'[i] = factures[i], lignes'[i] = lignes[i],
           paiements'[i] = paiements[i],
           paiementsAudites'[i] = paiementsAudites[i], Traces(i)' = Traces(i)
    PROVE  Dossier(i)' = Dossier(i)
BY DEF Dossier

\* One step of a handler, or its end, keeps the invariant when it changes the
\* file of its own invoice only, and that file agrees with the next step.
LEMMA CadreExact ==
    ASSUME TypeOK, InvExacte, NEW r \in Requetes, NEW id, id = req[r].id,
           req[r].pc # "repos",
           \A s \in Requetes \ {r} : req'[s] = req[s],
           \/ req'[r] = Repos
           \/ req'[r].pc # "repos" /\ req'[r].id = id,
           troubles \subseteq troubles',
           \A j \in Ids \ {id} : Dossier(j)' = Dossier(j),
           id \in Ids \ troubles' /\ Suivi(Dossier(id), req[r])
              => Suivi(Dossier(id)', req'[r])
    PROVE  InvExacte'
<1> SUFFICES ASSUME NEW i \in Ids, i \notin troubles'
             PROVE  /\ \A s, t \in Requetes : Actif(s, i)' /\ Actif(t, i)' => s = t
                    /\ (\A s \in Requetes : ~Actif(s, i)') => Suivi(Dossier(i)', Repos)
                    /\ \A s \in Requetes : Actif(s, i)' => Suivi(Dossier(i)', req'[s])
    BY DEF InvExacte
<1>1. /\ \A s, t \in Requetes : Actif(s, i) /\ Actif(t, i) => s = t
      /\ (\A s \in Requetes : ~Actif(s, i)) => Suivi(Dossier(i), Repos)
      /\ \A s \in Requetes : Actif(s, i) => Suivi(Dossier(i), req[s])
    BY DEF InvExacte
<1>2. /\ \A s \in Requetes \ {r} : Actif(s, i)' <=> Actif(s, i)
      /\ Actif(r, i)' => Actif(r, i)
      /\ Actif(r, i) <=> i = id
    BY DEF Actif, Repos
<1>3. CASE i # id
    <2>1. Dossier(i)' = Dossier(i) /\ ~Actif(r, i)' /\ ~Actif(r, i)
        BY <1>2, <1>3
    <2> QED BY <1>1, <1>2, <2>1
<1>4. CASE i = id
    <2>1. Suivi(Dossier(i)', req'[r])
        BY <1>1, <1>2, <1>4
    <2>2. \A s \in Requetes \ {r} : ~Actif(s, i)'
        BY <1>1, <1>2, <1>4
    <2>3. ~Actif(r, i)' => req'[r] = Repos
        BY <1>4 DEF Actif
    <2> QED BY <2>1, <2>2, <2>3
<1> QED BY <1>3, <1>4

\* What the steps of one handler have in common: it is typed, and a step that
\* touches the columns of its invoice only changes no other file.
LEMMA PasDeUn ==
    ASSUME TypeOK, TypeOK', NEW r \in Requetes
    PROVE  /\ RequeteOK(req[r]) /\ req[r] \in Contextes
           /\ UNCHANGED <<journal, notifications, prochain>> =>
                 \A i : Traces(i)' = Traces(i)
           /\ req[r].id \in Ids => Dossier(req[r].id) \in Dossiers
BY DossierType DEF TypeOK, Traces

\* A request that comes makes trouble when another one is about its invoice,
\* and otherwise finds the invoice in order.
LEMMA ExacteRecevoir ==
    ASSUME TypeOK, TypeOK', InvExacte, NEW r \in Requetes, Recevoir(r)
    PROVE  InvExacte'
<1>0. PICK d \in Demandes :
        LET id == IF d.op \in {"creer", "calculer"} THEN 0 ELSE d.id
            q == [pc |-> Debut(d), d |-> d, id |-> id, lu |-> Neant, ht |-> 0]
        IN  /\ req' = [req EXCEPT ![r] = q]
            /\ troubles' = troubles \cup {i \in Ids : i = id /\ Occupe(r, i)}
    BY DEF Recevoir
<1>1. PICK q :
        /\ q = [pc |-> Debut(d), d |-> d,
                id |-> IF d.op \in {"creer", "calculer"} THEN 0 ELSE d.id,
                lu |-> Neant, ht |-> 0]
        /\ req' = [req EXCEPT ![r] = q]
        /\ troubles' = troubles \cup {i \in Ids : i = q.id /\ Occupe(r, i)}
    <2> DEFINE id == IF d.op \in {"creer", "calculer"} THEN 0 ELSE d.id
               q == [pc |-> Debut(d), d |-> d, id |-> id, lu |-> Neant, ht |-> 0]
    <2>1. q.id = id
        OBVIOUS
    <2> QED BY <1>0, <2>1
<1>2. /\ req[r].pc = "repos" /\ req'[r] = q
      /\ \A s \in Requetes \ {r} : req'[s] = req[s]
    BY <1>1 DEF TypeOK, Recevoir, A
<1>3. \A i \in Ids : Dossier(i)' = Dossier(i)
    BY DossierInchange DEF Recevoir, tables, Traces
<1>4. q.id \in Ids => q.pc = "lire"
    BY <1>1, BornesAssumption DEF Debut, Ids
<1> SUFFICES ASSUME NEW i \in Ids, i \notin troubles'
             PROVE  /\ \A s, t \in Requetes : Actif(s, i)' /\ Actif(t, i)' => s = t
                    /\ (\A s \in Requetes : ~Actif(s, i)') => Suivi(Dossier(i)', Repos)
                    /\ \A s \in Requetes : Actif(s, i)' => Suivi(Dossier(i)', req'[s])
    BY DEF InvExacte
<1>5. /\ i \notin troubles
      /\ \A s, t \in Requetes : Actif(s, i) /\ Actif(t, i) => s = t
      /\ (\A s \in Requetes : ~Actif(s, i)) => Suivi(Dossier(i), Repos)
      /\ \A s \in Requetes : Actif(s, i) => Suivi(Dossier(i), req[s])
    BY <1>1 DEF InvExacte
<1>6. /\ \A s \in Requetes \ {r} : Actif(s, i)' <=> Actif(s, i)
      /\ ~Actif(r, i) /\ (Actif(r, i)' => q.id = i)
    BY <1>2 DEF Actif
<1>7. CASE q.id # i
    BY <1>2, <1>3, <1>5, <1>6, <1>7
<1>8. CASE q.id = i
    <2>1. \A s \in Requetes \ {r} : ~Actif(s, i)
        BY <1>1, <1>8 DEF Occupe, Actif, A
    <2>2. Suivi(Dossier(i), Repos)
        BY <1>5, <1>6, <2>1
    <2>3. Suivi(Dossier(i), q)
        <3>1. q.pc = "lire" /\ Repos.pc = "repos"
            BY <1>4, <1>8 DEF Repos
        <3>2. SuiviLu(Dossier(i), q)
            BY <3>1 DEF SuiviLu
        <3> QED BY <2>2, <3>1, <3>2, SuiviOrdinaire DEF Ordinaires
    <2> QED BY <1>2, <1>3, <1>6, <2>1, <2>2, <2>3
<1> QED BY <1>7, <1>8

\* A new invoice gets the next id; a request already about that id is trouble.
LEMMA ExacteInserer ==
    ASSUME TypeOK, TypeOK', InvExacte, NEW r \in Requetes, Inserer(r)
    PROVE  InvExacte'
<1>1. PICK n, q :
        /\ n = prochain /\ n \in Ids /\ n \in Int /\ prochain' = n + 1
        /\ req[r].pc = "inserer" /\ req[r].id = 0 /\ req[r].d \in Creations
        /\ q = req'[r] /\ q.pc = "effacer_lignes" /\ q.id = n /\ q.d = req[r].d
    <2>1. /\ prochain \in Ids /\ prochain' = prochain + 1
          /\ req[r].pc = "inserer" /\ req[r].id = 0 /\ req[r].d \in Creations
        BY DEF TypeOK, Inserer, Inserable, A, RequeteOK
    <2>2. /\ req'[r].pc = "effacer_lignes" /\ req'[r].id = prochain
          /\ req'[r].d = req[r].d
        BY DEF TypeOK, Inserer, Contextes
    <2> QED BY <2>1, <2>2 DEF Ids
<1>2. /\ \A s \in Requetes \ {r} : req'[s] = req[s]
      /\ troubles' = troubles \cup {i \in Ids : i = n /\ Occupe(r, i)}
    BY <1>1 DEF TypeOK, Inserer
<1>3. \A i \in Ids \ {n} : Dossier(i)' = Dossier(i)
    <2>1. \A i \in Ids \ {n} : i < prochain' <=> i < prochain
        BY <1>1 DEF Ids
    <2>2. \A i \in Ids \ {n} : Traces(i)' = Traces(i)
        BY <2>1 DEF Traces, Inserer
    <2>3. \A i \in Ids \ {n} : factures'[i] = factures[i]
        BY <1>1 DEF TypeOK, Inserer
    <2> QED BY <2>2, <2>3, DossierInchange DEF Inserer
<1> SUFFICES ASSUME NEW i \in Ids, i \notin troubles'
             PROVE  /\ \A s, t \in Requetes : Actif(s, i)' /\ Actif(t, i)' => s = t
                    /\ (\A s \in Requetes : ~Actif(s, i)') => Suivi(Dossier(i)', Repos)
                    /\ \A s \in Requetes : Actif(s, i)' => Suivi(Dossier(i)', req'[s])
    BY DEF InvExacte
<1>4. /\ i \notin troubles
      /\ \A s, t \in Requetes : Actif(s, i) /\ Actif(t, i) => s = t
      /\ (\A s \in Requetes : ~Actif(s, i)) => Suivi(Dossier(i), Repos)
      /\ \A s \in Requetes : Actif(s, i) => Suivi(Dossier(i), req[s])
    BY <1>2 DEF InvExacte
<1>5. /\ \A s \in Requetes \ {r} : Actif(s, i)' <=> Actif(s, i)
      /\ ~Actif(r, i) /\ (Actif(r, i)' <=> i = n)
    BY <1>1, <1>2 DEF Actif, Ids
<1>6. CASE i # n
    BY <1>2, <1>3, <1>4, <1>5, <1>6
<1>7. CASE i = n
    <2>1. \A s \in Requetes \ {r} : ~Actif(s, i)
        BY <1>2, <1>7 DEF Occupe, Actif, A
    <2>2. Suivi(Dossier(i), Repos)
        BY <1>4, <1>5, <2>1
    <2>3. /\ Dossier(i) \in Dossiers /\ "attribuee" \notin Traces(i)
          /\ Dossier(i).traces = Traces(i)
        BY <1>1, <1>7, DossierType DEF Traces, Dossier
    <2>4. /\ Dossier(i)'.facture = LigneNeuve(req[r].d)
          /\ Dossier(i)'.lignes = Dossier(i).lignes
          /\ Dossier(i)'.paiements = Dossier(i).paiements
          /\ Dossier(i)'.audites = Dossier(i).audites
          /\ "attribuee" \in Dossier(i)'.traces
        <3>1. factures'[i] = LigneNeuve(req[r].d)
            BY <1>1, <1>7 DEF TypeOK, Inserer
        <3>2. "attribuee" \in Traces(i)'
            BY <1>1, <1>7 DEF Traces
        <3> QED BY <3>1, <3>2 DEF Dossier, Inserer
    <2>5. PICK x, x1 : x = Dossier(i) /\ x1 = Dossier(i)'
        OBVIOUS
    <2>6. x1 \in Dossiers
        <3>1. factures' \in [Ids -> Lignes \cup {Neant}] /\ lignes' \in [Ids -> Int]
              /\ paiements' \in [Ids -> Int] /\ paiementsAudites' \in [Ids -> Int]
            BY DEF TypeOK
        <3>2. Traces(i)' \subseteq {"attribuee", "creer", "supprimer", "notifiee"}
            BY DEF Traces
        <3> QED BY <2>5, <3>1, <3>2, DossierSuivant DEF Dossiers
    <2>7. Suivi(x1, q)
        BY <1>1, <2>2, <2>3, <2>4, <2>5, <2>6, SuiviInserer
    <2> QED BY <1>1, <1>5, <1>7, <2>1, <2>5, <2>7
<1> QED BY <1>6, <1>7

\* Steps that write no table and end the handler before its first write.
LEMMA ExacteAbandon ==
    ASSUME TypeOK, TypeOK', InvExacte, NEW r \in Requetes, Finir(r),
           req[r].pc # "repos",
           UNCHANGED <<tables>>, troubles \subseteq troubles',
           req[r].id \in Ids \ troubles' => req[r].pc \in Ordinaires
    PROVE  InvExacte'
<1>1. PICK id : id = req[r].id
    OBVIOUS
<1>2. /\ \A s \in Requetes \ {r} : req'[s] = req[s]
      /\ req'[r] = Repos
    BY DEF TypeOK, Finir
<1>3. \A j : Dossier(j)' = Dossier(j)
    BY DossierInchange DEF tables, Traces
<1>4. id \in Ids \ troubles' /\ Suivi(Dossier(id), req[r])
         => Suivi(Dossier(id)', req'[r])
    BY <1>1, <1>2, <1>3, SuiviAbandon
<1> QED BY <1>1, <1>2, <1>3, <1>4, CadreExact

\* saveLines deletes.
LEMMA ExacteEffacerLignes ==
    ASSUME TypeOK, TypeOK', InvExacte, NEW r \in Requetes, EffacerLignes(r)
    PROVE  InvExacte'
<1>1. PICK id, q : /\ id = req[r].id /\ id \in Ids /\ q = req[r]
                   /\ q.pc = "effacer_lignes"
    BY PasDeUn DEF EffacerLignes, A, RequeteOK
<1>2. /\ \A s \in Requetes \ {r} : req'[s] = req[s]
      /\ req'[r].pc = "ecrire_lignes" /\ req'[r].id = id /\ req'[r].d = q.d
    BY <1>1, AllerEffet DEF EffacerLignes
<1>3. \A j : Traces(j)' = Traces(j)
    BY PasDeUn DEF EffacerLignes
<1>4. \A j \in Ids \ {id} : Dossier(j)' = Dossier(j)
    BY <1>1, <1>3, DossierInchange DEF TypeOK, EffacerLignes
<1>5. Dossier(id)' = [Dossier(id) EXCEPT !.lignes = 0]
    BY <1>1, <1>3, DossierSuivant DEF TypeOK, EffacerLignes, Dossier
<1>6. PICK x, x1, q1 : x = Dossier(id) /\ x1 = Dossier(id)' /\ q1 = req'[r]
    OBVIOUS
<1>7. Suivi(x, q) => Suivi(x1, q1)
    BY <1>1, <1>2, <1>5, <1>6, DossierType, SuiviEffacer
<1>8. troubles' = troubles
    BY DEF EffacerLignes
<1> QED BY <1>1, <1>2, <1>4, <1>6, <1>7, <1>8, CadreExact

\* deleteFacture: the lines,
LEMMA ExacteSupprLignes ==
    ASSUME TypeOK, TypeOK', InvExacte, NEW r \in Requetes, SupprLignes(r)
    PROVE  InvExacte'
<1>1. PICK id, q : /\ id = req[r].id /\ id \in Ids /\ q = req[r]
                   /\ q.pc = "suppr_lignes"
    BY PasDeUn DEF SupprLignes, A, RequeteOK
<1>2. /\ \A s \in Requetes \ {r} : req'[s] = req[s]
      /\ req'[r].pc = "suppr_paiements" /\ req'[r].id = id /\ req'[r].d = q.d
    BY <1>1, AllerEffet DEF SupprLignes
<1>3. \A j : Traces(j)' = Traces(j)
    BY PasDeUn DEF SupprLignes
<1>4. \A j \in Ids \ {id} : Dossier(j)' = Dossier(j)
    BY <1>1, <1>3, DossierInchange DEF TypeOK, SupprLignes
<1>5. Dossier(id)' = [Dossier(id) EXCEPT !.lignes = 0]
    BY <1>1, <1>3, DossierSuivant DEF TypeOK, SupprLignes, Dossier
<1>6. PICK x, x1, q1 : x = Dossier(id) /\ x1 = Dossier(id)' /\ q1 = req'[r]
    OBVIOUS
<1>7. Suivi(x, q) => Suivi(x1, q1)
    BY <1>1, <1>2, <1>5, <1>6, DossierType, SuiviSupprLignes
<1>8. troubles' = troubles
    BY DEF SupprLignes
<1> QED BY <1>1, <1>2, <1>4, <1>6, <1>7, <1>8, CadreExact

\* the payments,
LEMMA ExacteSupprPaiements ==
    ASSUME TypeOK, TypeOK', InvExacte, NEW r \in Requetes, SupprPaiements(r)
    PROVE  InvExacte'
<1>1. PICK id, q : /\ id = req[r].id /\ id \in Ids /\ q = req[r]
                   /\ q.pc = "suppr_paiements"
    BY PasDeUn DEF SupprPaiements, A, RequeteOK
<1>2. /\ \A s \in Requetes \ {r} : req'[s] = req[s]
      /\ req'[r].pc = "suppr_facture" /\ req'[r].id = id /\ req'[r].d = q.d
    BY <1>1, AllerEffet DEF SupprPaiements
<1>3. \A j : Traces(j)' = Traces(j)
    BY PasDeUn DEF SupprPaiements
<1>4. \A j \in Ids \ {id} : Dossier(j)' = Dossier(j)
    BY <1>1, <1>3, DossierInchange DEF TypeOK, SupprPaiements
<1>5. Dossier(id)' = [Dossier(id) EXCEPT !.paiements = 0]
    BY <1>1, <1>3, DossierSuivant DEF TypeOK, SupprPaiements, Dossier
<1>6. PICK x, x1, q1 : x = Dossier(id) /\ x1 = Dossier(id)' /\ q1 = req'[r]
    OBVIOUS
<1>7. Suivi(x, q) => Suivi(x1, q1)
    BY <1>1, <1>2, <1>5, <1>6, DossierType, SuiviSupprPaiements
<1>8. troubles' = troubles
    BY DEF SupprPaiements
<1> QED BY <1>1, <1>2, <1>4, <1>6, <1>7, <1>8, CadreExact

\* and the row.
LEMMA ExacteSupprFacture ==
    ASSUME TypeOK, TypeOK', InvExacte, NEW r \in Requetes, SupprFacture(r)
    PROVE  InvExacte'
<1>1. PICK id, q : /\ id = req[r].id /\ id \in Ids /\ q = req[r]
                   /\ q.pc = "suppr_facture" /\ q.d \in Suppressions
    BY PasDeUn DEF SupprFacture, A, RequeteOK
<1>2. /\ \A s \in Requetes \ {r} : req'[s] = req[s]
      /\ req'[r].pc = "journal" /\ req'[r].id = id /\ req'[r].d = q.d
    BY <1>1, AllerEffet DEF SupprFacture
<1>3. \A j : Traces(j)' = Traces(j)
    BY PasDeUn DEF SupprFacture
<1>4. \A j \in Ids \ {id} : Dossier(j)' = Dossier(j)
    BY <1>1, <1>3, DossierInchange DEF TypeOK, SupprFacture
<1>5. Dossier(id)' = [Dossier(id) EXCEPT !.facture = Neant]
    BY <1>1, <1>3, DossierSuivant DEF TypeOK, SupprFacture, Dossier
<1>6. PICK x, x1, q1 : x = Dossier(id) /\ x1 = Dossier(id)' /\ q1 = req'[r]
    OBVIOUS
<1>7. Suivi(x, q) => Suivi(x1, q1)
    BY <1>1, <1>2, <1>5, <1>6, DossierType, SuiviSupprFacture
<1>8. troubles' = troubles
    BY DEF SupprFacture
<1> QED BY <1>1, <1>2, <1>4, <1>6, <1>7, <1>8, CadreExact

\* saveLines inserts.
LEMMA ExacteEcrireLignes ==
    ASSUME TypeOK, TypeOK', InvExacte, NEW r \in Requetes, EcrireLignes(r)
    PROVE  InvExacte'
<1>1. PICK id, q : /\ id = req[r].id /\ id \in Ids /\ q = req[r]
                   /\ q.pc = "ecrire_lignes"
                   /\ q.d \in Creations \cup Modifications
    BY PasDeUn DEF EcrireLignes, A, RequeteOK
<1>2. /\ \A s \in Requetes \ {r} : req'[s] = req[s]
      /\ req'[r].pc = IF q.d.op = "creer" /\ q.d.acompte > 0 THEN "acompte"
                                                           ELSE "journal"
      /\ req'[r].id = id /\ req'[r].d = q.d
    BY <1>1, AllerEffet DEF EcrireLignes
<1>3. \A j : Traces(j)' = Traces(j)
    BY PasDeUn DEF EcrireLignes
<1>4. \A j \in Ids \ {id} : Dossier(j)' = Dossier(j)
    BY <1>1, <1>3, DossierInchange DEF TypeOK, EcrireLignes
<1>5. Dossier(id)' = [Dossier(id) EXCEPT !.lignes = @ + AEcrire(q.d)]
    <2>1. lignes'[id] = lignes[id] + AEcrire(q.d)
        BY <1>1 DEF TypeOK, EcrireLignes, AEcrire
    <2> QED BY <1>1, <1>3, <2>1, DossierSuivant DEF EcrireLignes, Dossier
<1>6. PICK x, x1, q1 : x = Dossier(id) /\ x1 = Dossier(id)' /\ q1 = req'[r]
    OBVIOUS
<1>7. Suivi(x, q) => Suivi(x1, q1)
    BY <1>1, <1>2, <1>5, <1>6, DossierType, SuiviEcrire
<1>8. troubles' = troubles
    BY DEF EcrireLignes
<1> QED BY <1>1, <1>2, <1>4, <1>6, <1>7, <1>8, CadreExact

\* createFacture: the payment row of the advance.
LEMMA ExacteEnregistrerAcompte ==
    ASSUME TypeOK, TypeOK', InvExacte, NEW r \in Requetes, EnregistrerAcompte(r)
    PROVE  InvExacte'
<1>1. PICK id, q : /\ id = req[r].id /\ id \in Ids /\ q = req[r]
                   /\ q.pc = "acompte" /\ q.d \in Creations
    BY PasDeUn DEF EnregistrerAcompte, A, RequeteOK
<1>2. /\ \A s \in Requetes \ {r} : req'[s] = req[s]
      /\ req'[r].pc = "journal" /\ req'[r].id = id /\ req'[r].d = q.d
    BY <1>1, AllerEffet DEF EnregistrerAcompte
<1>3. \A j : Traces(j)' = Traces(j)
    BY PasDeUn DEF EnregistrerAcompte
<1>4. \A j \in Ids \ {id} : Dossier(j)' = Dossier(j)
    BY <1>1, <1>3, DossierInchange DEF TypeOK, EnregistrerAcompte
<1>5. Dossier(id)' = [Dossier(id) EXCEPT !.paiements = @ + q.d.acompte]
    BY <1>1, <1>3, DossierSuivant DEF TypeOK, EnregistrerAcompte, Dossier
<1>6. PICK x, x1, q1 : x = Dossier(id) /\ x1 = Dossier(id)' /\ q1 = req'[r]
    OBVIOUS
<1>7. Suivi(x, q) => Suivi(x1, q1)
    BY <1>1, <1>2, <1>5, <1>6, DossierType, SuiviAcompte
<1>8. troubles' = troubles
    BY DEF EnregistrerAcompte
<1> QED BY <1>1, <1>2, <1>4, <1>6, <1>7, <1>8, CadreExact

\* findOne: the row it finds is the row there is; when it refuses, the handler
\* ends.
LEMMA ExacteLire ==
    ASSUME TypeOK, TypeOK', InvExacte, NEW r \in Requetes, Lire(r)
    PROVE  InvExacte'
<1>1. PICK id, q : /\ id = req[r].id /\ id \in Ids /\ q = req[r]
                   /\ q.pc = "lire"
    BY PasDeUn DEF Lire, A, RequeteOK
<1>2. UNCHANGED <<tables>> /\ troubles' = troubles
    BY DEF Lire
<1>3. CASE ~Accepte(q.d, factures[id])
    <2>1. Finir(r)
        BY <1>1, <1>3 DEF Lire
    <2> QED BY <1>1, <1>2, <2>1, ExacteAbandon DEF Ordinaires
<1>4. CASE Accepte(q.d, factures[id])
    <2>1. req' = [req EXCEPT ![r].pc = Suite(q.d), ![r].lu = factures[id]]
        BY <1>1, <1>4 DEF Lire
    <2>2. /\ \A s \in Requetes \ {r} : req'[s] = req[s]
          /\ req'[r].pc = Suite(q.d) /\ req'[r].id = id /\ req'[r].d = q.d
          /\ req'[r].lu = factures[id]
        BY <1>1, <2>1 DEF TypeOK, Contextes
    <2>3. \A j : Dossier(j)' = Dossier(j)
        BY <1>2, DossierInchange DEF tables, Traces
    <2>4. PICK x, q1 : x = Dossier(id) /\ q1 = req'[r]
        OBVIOUS
    <2>5. x.facture = factures[id] /\ x.facture # Neant
        BY <1>4, <2>4 DEF Accepte, Dossier
    <2>6. q1.pc \in {"lire_lignes", "statut", "payer", "suppr_lignes"}
        BY <2>2, <2>4 DEF Suite
    <2>7. ASSUME Suivi(x, q) PROVE Suivi(x, q1)
        <3>1. SuiviLu(x, q1)
            BY <2>2, <2>4, <2>5, <2>6 DEF SuiviLu
        <3>2. "attribuee" \in x.traces
            BY <2>5, <2>7 DEF Suivi, SuiviAudit
        <3> QED BY <1>1, <2>6, <2>7, <3>1, <3>2, SuiviOrdinaire DEF Ordinaires
    <2> QED BY <1>1, <1>2, <2>2, <2>3, <2>4, <2>6, <2>7, CadreExact
<1> QED BY <1>3, <1>4

\* updateFacture reads the lines when the request names none.
LEMMA ExacteLireLignes ==
    ASSUME TypeOK, TypeOK', InvExacte, NEW r \in Requetes, LireLignes(r)
    PROVE  InvExacte'
<1>1. PICK id, q : /\ id = req[r].id /\ id \in Ids /\ q = req[r]
                   /\ q.pc = "lire_lignes" /\ q.lu \in Lignes
    BY PasDeUn DEF LireLignes, A, RequeteOK
<1>2. /\ \A s \in Requetes \ {r} : req'[s] = req[s]
      /\ req'[r].pc = "maj" /\ req'[r].id = id /\ req'[r].d = q.d
      /\ req'[r].lu = q.lu /\ req'[r].ht = Ou(q.d.ht, lignes[id])
    BY <1>1 DEF TypeOK, Contextes, LireLignes
<1>3. \A j : Dossier(j)' = Dossier(j)
    BY DossierInchange DEF LireLignes, tables, Traces
<1>4. PICK x, q1 : x = Dossier(id) /\ q1 = req'[r]
    OBVIOUS
<1>5. ASSUME Suivi(x, q) PROVE Suivi(x, q1)
    <2>1. x.lignes = lignes[id] /\ x.facture = q.lu
        BY <1>1, <1>4, <1>5 DEF Dossier, Suivi, SuiviLu
    <2>2. SuiviLu(x, q1)
        BY <1>2, <1>4, <2>1 DEF SuiviLu
    <2>3. "attribuee" \in x.traces
        BY <1>1, <1>5 DEF Suivi, SuiviAudit
    <2> QED BY <1>1, <1>2, <1>4, <1>5, <2>2, <2>3, SuiviOrdinaire DEF Ordinaires
<1>6. troubles' = troubles
    BY DEF LireLignes
<1> QED BY <1>1, <1>2, <1>3, <1>4, <1>5, <1>6, CadreExact

\* updateFacture writes the row it read, recomputed: nobody deleted it since.
LEMMA ExacteMaj ==
    ASSUME TypeOK, TypeOK', InvExacte, NEW r \in Requetes, Maj(r)
    PROVE  InvExacte'
<1>1. PICK id, q : /\ id = req[r].id /\ id \in Ids /\ q = req[r]
                   /\ q.pc = "maj" /\ q.lu \in Lignes
                   /\ q \in Contextes /\ RequeteOK(q)
    BY PasDeUn DEF Maj, A, RequeteOK
<1>2. /\ \A s \in Requetes \ {r} : req'[s] = req[s]
      /\ req'[r].pc = IF q.d.ht # {} THEN "effacer_lignes" ELSE "journal"
      /\ req'[r].id = id /\ req'[r].d = q.d
    BY <1>1, AllerEffet DEF Maj
<1>3. \A j : Traces(j)' = Traces(j)
    BY PasDeUn DEF Maj
<1>4. \A j \in Ids \ {id} : Dossier(j)' = Dossier(j)
    BY <1>1, <1>3, DossierInchange DEF TypeOK, Maj, MettreAJour
<1>5. factures[id] # Neant =>
        Dossier(id)' = [Dossier(id) EXCEPT
                          !.facture = LigneModifiee(@, q.d, q.lu, q.ht)]
    <2>1. factures[id] # Neant =>
             factures'[id] = LigneModifiee(factures[id], q.d, q.lu, q.ht)
        BY <1>1 DEF TypeOK, Maj, MettreAJour
    <2> QED BY <1>1, <1>3, <2>1, DossierSuivant DEF Maj, Dossier
<1>6. PICK x, x1, q1 : x = Dossier(id) /\ x1 = Dossier(id)' /\ q1 = req'[r]
    OBVIOUS
<1>7. ASSUME Suivi(x, q) PROVE Suivi(x1, q1)
    <2>1. x.facture = factures[id] /\ x \in Dossiers
        BY <1>1, <1>6, DossierType DEF Dossier
    <2>2. x.facture = q.lu /\ q.lu # Neant
        BY <1>1, <1>7, NeantAssumption DEF Suivi, SuiviLu
    <2>3. x1 = [x EXCEPT !.facture = LigneModifiee(x.facture, q.d, q.lu, q.ht)]
        BY <1>5, <1>6, <2>1, <2>2 DEF Dossiers
    <2> QED BY <1>1, <1>2, <1>6, <1>7, <2>1, <2>3, SuiviMaj
<1>8. troubles' = troubles
    BY DEF Maj
<1>9. req'[r].pc # "repos"
    BY <1>2
<1> QED BY <1>1, <1>2, <1>4, <1>6, <1>7, <1>8, <1>9, CadreExact

\* updateStatus.
LEMMA ExacteChangerStatut ==
    ASSUME TypeOK, TypeOK', InvExacte, NEW r \in Requetes, ChangerStatut(r)
    PROVE  InvExacte'
<1>1. PICK id, q : /\ id = req[r].id /\ id \in Ids /\ q = req[r]
                   /\ q.pc = "statut" /\ q.d \in ChangementsStatut
    BY PasDeUn DEF ChangerStatut, A, RequeteOK
<1>2. /\ \A s \in Requetes \ {r} : req'[s] = req[s]
      /\ req'[r].pc = "journal" /\ req'[r].id = id /\ req'[r].d = q.d
    BY <1>1, AllerEffet DEF ChangerStatut
<1>3. \A j : Traces(j)' = Traces(j)
    BY PasDeUn DEF ChangerStatut
<1>4. \A j \in Ids \ {id} : Dossier(j)' = Dossier(j)
    BY <1>1, <1>3, DossierInchange DEF TypeOK, ChangerStatut, MettreAJour
<1>5. /\ Dossier(id)' = [Dossier(id) EXCEPT
                           !.facture = IF @ = Neant THEN Neant
                                       ELSE [@ EXCEPT !.statut = q.d.statut]]
      /\ factures'[id] = Neant => factures[id] = Neant
    <2>1. factures'[id] = IF factures[id] = Neant THEN Neant
                          ELSE [factures[id] EXCEPT !.statut = q.d.statut]
        BY <1>1 DEF TypeOK, ChangerStatut, MettreAJour
    <2>2. factures[id] # Neant => factures[id] \in Lignes
        BY <1>1 DEF TypeOK
    <2>3. q.d.statut \in Statuts
        BY <1>1, DonneesAssumption DEF ChangementsStatut
    <2>4. factures[id] # Neant =>
             [factures[id] EXCEPT !.statut = q.d.statut] # Neant
        BY <2>2, <2>3, NeantAssumption DEF Lignes
    <2> QED BY <1>1, <1>3, <2>1, <2>4, DossierSuivant DEF ChangerStatut, Dossier
<1>6. PICK x, x1, q1 : x = Dossier(id) /\ x1 = Dossier(id)' /\ q1 = req'[r]
    OBVIOUS
<1>7. ASSUME Suivi(x, q) PROVE Suivi(x1, q1)
    <2>1. x.facture = factures[id] /\ x1.facture = factures'[id]
        BY <1>6, DossierSuivant DEF Dossier
    <2>2. x \in Dossiers
        BY <1>1, <1>6, DossierType
    <2>3. PICK s : s = q.d.statut
        OBVIOUS
    <2>4. x1 = [x EXCEPT !.facture = IF @ = Neant THEN Neant
                                     ELSE [@ EXCEPT !.statut = s]]
        BY <1>5, <1>6, <2>3
    <2>5. x1.facture = Neant => x.facture = Neant
        BY <1>5, <2>1
    <2>6. q1.pc = "journal" /\ q1.d = q.d
        BY <1>2, <1>6
    <2>7. q.pc = "statut" /\ q.d \in ChangementsStatut
        BY <1>1
    <2> QED BY <1>7, <2>2, <2>4, <2>5, <2>6, <2>7, SuiviStatut
<1>8. troubles' = troubles
    BY DEF ChangerStatut
<1> QED BY <1>1, <1>2, <1>4, <1>6, <1>7, <1>8, CadreExact

\* registerPayment: the payment,
LEMMA ExactePayer ==
    ASSUME TypeOK, TypeOK', InvExacte, NEW r \in Requetes, Payer(r)
    PROVE  InvExacte'
<1>1. PICK id, q : /\ id = req[r].id /\ id \in Ids /\ q = req[r]
                   /\ q.pc = "payer" /\ q.d \in Reglements /\ q.lu \in Lignes
    BY PasDeUn DEF Payer, A, RequeteOK
<1>2. /\ \A s \in Requetes \ {r} : req'[s] = req[s]
      /\ req'[r].pc = "solder" /\ req'[r].id = id /\ req'[r].d = q.d
      /\ req'[r].lu = q.lu
    BY <1>1, AllerEffet DEF Payer
<1>3. \A j : Traces(j)' = Traces(j)
    BY PasDeUn DEF Payer
<1>4. \A j \in Ids \ {id} : Dossier(j)' = Dossier(j)
    BY <1>1, <1>3, DossierInchange DEF TypeOK, Payer
<1>5. Dossier(id)' = [Dossier(id) EXCEPT !.paiements = @ + q.d.montant]
    BY <1>1, <1>3, DossierSuivant DEF TypeOK, Payer, Dossier
<1>6. PICK x, x1, q1 : x = Dossier(id) /\ x1 = Dossier(id)' /\ q1 = req'[r]
    OBVIOUS
<1>7. Suivi(x, q) => Suivi(x1, q1)
    BY <1>1, <1>2, <1>5, <1>6, DossierType, SuiviPayer
<1>8. troubles' = troubles
    BY DEF Payer
<1> QED BY <1>1, <1>2, <1>4, <1>6, <1>7, <1>8, CadreExact

\* the totals.
LEMMA ExacteSolder ==
    ASSUME TypeOK, TypeOK', InvExacte, NEW r \in Requetes, Solder(r)
    PROVE  InvExacte'
<1>1. PICK id, q : /\ id = req[r].id /\ id \in Ids /\ q = req[r]
                   /\ q.pc = "solder" /\ q.d \in Reglements /\ q.lu \in Lignes
    BY PasDeUn DEF Solder, A, RequeteOK
<1>2. /\ \A s \in Requetes \ {r} : req'[s] = req[s]
      /\ req'[r].pc = "journal" /\ req'[r].id = id /\ req'[r].d = q.d
    BY <1>1, AllerEffet DEF Solder
<1>3. \A j : Traces(j)' = Traces(j)
    BY PasDeUn DEF Solder
<1>4. \A j \in Ids \ {id} : Dossier(j)' = Dossier(j)
    BY <1>1, <1>3, DossierInchange DEF TypeOK, Solder, MettreAJour
<1>5. factures[id] # Neant =>
        Dossier(id)' = [Dossier(id) EXCEPT
                          !.facture = LignePayee(@, q.lu, q.d.montant)]
    <2>1. factures[id] # Neant =>
             factures'[id] = LignePayee(factures[id], q.lu, q.d.montant)
        BY <1>1 DEF TypeOK, Solder, MettreAJour
    <2> QED BY <1>1, <1>3, <2>1, DossierSuivant DEF Solder, Dossier
<1>6. PICK x, x1, q1 : x = Dossier(id) /\ x1 = Dossier(id)' /\ q1 = req'[r]
    OBVIOUS
<1>7. ASSUME Suivi(x, q) PROVE Suivi(x1, q1)
    <2>1. x.facture = factures[id] /\ x \in Dossiers
        BY <1>1, <1>6, DossierType DEF Dossier
    <2>2. x.facture = q.lu /\ q.lu # Neant
        BY <1>1, <1>7, NeantAssumption DEF Suivi, SuiviLu
    <2>3. x1 = [x EXCEPT !.facture = LignePayee(x.facture, q.lu, q.d.montant)]
        BY <1>5, <1>6, <2>1, <2>2 DEF Dossiers
    <2> QED BY <1>1, <1>2, <1>6, <1>7, <2>1, <2>3, SuiviSolder
<1>8. troubles' = troubles
    BY DEF Solder
<1> QED BY <1>1, <1>2, <1>4, <1>6, <1>7, <1>8, CadreExact

\* A row that cannot be inserted ends the handler before its first write.
LEMMA ExacteRefuser ==
    ASSUME TypeOK, TypeOK', InvExacte, NEW r \in Requetes, RefuserInsertion(r)
    PROVE  InvExacte'
<1>1. req[r].pc = "inserer" /\ req[r].id = 0 /\ 0 \notin Ids
    BY PasDeUn DEF RefuserInsertion, A, RequeteOK, Ids
<1> QED BY <1>1, ExacteAbandon DEF RefuserInsertion

\* A failing call: before the first write nothing has changed, after it the
\* invoice is in trouble.
LEMMA ExacteEchouer ==
    ASSUME TypeOK, TypeOK', InvExacte, NEW r \in Requetes, Echouer(r)
    PROVE  InvExacte'
<1>1. /\ Finir(r) /\ req[r].pc # "repos" /\ UNCHANGED <<tables>>
      /\ troubles \subseteq troubles'
    BY DEF Echouer, A
<1>2. req[r].id \in Ids \ troubles' => ~Entame(r)
    BY DEF Echouer
<1>3. req[r].pc = "inserer" => req[r].id \notin Ids
    BY PasDeUn DEF RequeteOK, Ids
<1>4. ~Entame(r) /\ req[r].pc # "inserer" => req[r].pc \in Ordinaires
    BY DEF Entame, Ordinaires
<1> QED BY <1>1, <1>2, <1>3, <1>4, ExacteAbandon

\* The audit entry adds to the traces of the request's own invoice; that of a
\* computation is about none.
LEMMA TracesJournal ==
    ASSUME NEW r, Journaliser(r), NEW op, NEW id,
           op = req[r].d.op, id = req[r].id
    PROVE  /\ \A j \in Ids \ {id} : Traces(j)' = Traces(j)
           /\ Traces(id)' = Traces(id) \cup ({op} \cap {"creer", "supprimer"})
<1>1. journal' = journal \cup {<<op, id>>}
      /\ UNCHANGED <<notifications, prochain>>
    BY DEF Journaliser
<1>2. \A j, t : <<t, j>> \in journal' <=> <<t, j>> \in journal \/ (t = op /\ j = id)
    BY <1>1
<1>3. \A j \in Ids \ {id} : Traces(j)' = Traces(j)
    BY <1>1, <1>2 DEF Traces
<1>4. Traces(id)' = Traces(id) \cup ({op} \cap {"creer", "supprimer"})
    BY <1>1, <1>2 DEF Traces
<1> QED BY <1>3, <1>4

\* So does a notification.
LEMMA TracesNotifier ==
    ASSUME NEW r, Notifier(r), NEW op, NEW id,
           op = req[r].d.op, id = req[r].id
    PROVE  /\ \A j \in Ids \ {id} : Traces(j)' = Traces(j)
           /\ Traces(id)' = Traces(id)
                \cup IF op = "creer" THEN {"notifiee"} ELSE {}
<1>1. notifications' = notifications \cup {<<op, id>>}
      /\ UNCHANGED <<journal, prochain>>
    BY DEF Notifier
<1>2. \A j : <<"creer", j>> \in notifications'
               <=> <<"creer", j>> \in notifications \/ ("creer" = op /\ j = id)
    BY <1>1
<1>3. \A j \in Ids \ {id} : Traces(j)' = Traces(j)
    BY <1>1, <1>2 DEF Traces
<1>4. Traces(id)' = Traces(id) \cup IF op = "creer" THEN {"notifiee"} ELSE {}
    BY <1>1, <1>2 DEF Traces
<1> QED BY <1>3, <1>4

\* A handler's kind of request, by the name of its operation.
LEMMA DemandeParOperation ==
    ASSUME NEW d \in Demandes
    PROVE  /\ d.op \in {"creer", "modifier", "statut", "payer", "supprimer",
                        "calculer"}
           /\ d.op = "payer" => d \in Reglements
BY OperationType DEF Demandes, Calculs

\* The audit entry.
LEMMA ExacteJournaliser ==
    ASSUME TypeOK, TypeOK', InvExacte, NEW r \in Requetes, Journaliser(r)
    PROVE  InvExacte'
<1>1. PICK id, q : /\ id = req[r].id /\ q = req[r]
                   /\ q.pc = "journal" /\ q.d \in Demandes
                   /\ id \in Ids => q.d.op # "calculer"
    BY PasDeUn DEF Journaliser, A, RequeteOK, Ids
<1>2. /\ \A s \in Requetes \ {r} : req'[s] = req[s]
      /\ \/ req'[r] = Repos /\ q.d.op \notin {"creer", "payer"}
         \/ /\ req'[r].pc = "notifier" /\ req'[r].id = id /\ req'[r].d = q.d
            /\ q.d.op \in {"creer", "payer", "calculer"}
    BY <1>1, AllerEffet DEF TypeOK, Journaliser, Finir
<1>3. /\ \A j \in Ids \ {id} : Traces(j)' = Traces(j)
      /\ Traces(id)' = Traces(id) \cup ({q.d.op} \cap {"creer", "supprimer"})
    BY <1>1, TracesJournal
<1>4. \A j \in Ids \ {id} : Dossier(j)' = Dossier(j)
    BY <1>1, <1>3, DossierInchange DEF TypeOK, Journaliser
<1>5. PICK x, x1, q1 : x = Dossier(id) /\ x1 = Dossier(id)' /\ q1 = req'[r]
    OBVIOUS
<1>6. ASSUME id \in Ids, Suivi(x, q) PROVE Suivi(x1, q1)
    <2>1. x \in Dossiers
        BY <1>5, <1>6, DossierType
    <2>2. CASE q.d.op = "payer"
        <3>1. Traces(id)' = Traces(id) /\ q.d \in Reglements
            BY <1>1, <1>3, <2>2, DemandeParOperation
        <3>2. paiementsAudites'[id] = paiementsAudites[id] + q.d.montant
            BY <1>1, <1>6, <2>2 DEF TypeOK, Journaliser
        <3>3. Dossier(id)' = [Dossier(id) EXCEPT !.audites = @ + q.d.montant]
            BY <3>1, <3>2, DossierSuivant DEF Journaliser, Dossier
        <3>4. q1.pc = "notifier" /\ q1.d = q.d
            BY <1>2, <1>5, <2>2
        <3> QED BY <1>1, <1>5, <1>6, <2>1, <3>1, <3>3, <3>4, SuiviJournalPayer
    <2>3. CASE q.d.op # "payer"
        <3>1. q.d.op \in {"creer", "modifier", "statut", "supprimer"}
            BY <1>1, <1>6, <2>3, DemandeParOperation
        <3>2. Dossier(id)' = [Dossier(id) EXCEPT
                 !.traces = @ \cup ({q.d.op} \cap {"creer", "supprimer"})]
            BY <1>1, <1>3, <2>3, DossierSuivant DEF Journaliser, Dossier
        <3>3. \/ q.d.op = "creer" /\ q1.pc = "notifier" /\ q1.d = q.d
              \/ q.d.op # "creer" /\ q1.pc = "repos"
            BY <1>2, <1>5, <3>1 DEF Repos
        <3> QED BY <1>1, <1>5, <1>6, <2>1, <3>1, <3>2, <3>3, SuiviJournalAutre
    <2> QED BY <2>2, <2>3
<1>7. troubles' = troubles
    BY DEF Journaliser
<1> QED BY <1>1, <1>2, <1>4, <1>5, <1>6, <1>7, CadreExact

\* The notification.
LEMMA ExacteNotifier ==
    ASSUME TypeOK, TypeOK', InvExacte, NEW r \in Requetes, Notifier(r)
    PROVE  InvExacte'
<1>1. PICK id, q : id = req[r].id /\ q = req[r] /\ q.pc = "notifier"
    BY DEF Notifier, A
<1>2. /\ \A s \in Requetes \ {r} : req'[s] = req[s]
      /\ req'[r] = Repos
    BY DEF TypeOK, Notifier, Finir
<1>3. /\ \A j \in Ids \ {id} : Traces(j)' = Traces(j)
      /\ Traces(id)' = Traces(id)
           \cup IF q.d.op = "creer" THEN {"notifiee"} ELSE {}
    BY <1>1, TracesNotifier
<1>4. \A j \in Ids \ {id} : Dossier(j)' = Dossier(j)
    BY <1>1, <1>3, DossierInchange DEF Notifier
<1>5. PICK ajout : ajout = IF q.d.op = "creer" THEN {"notifiee"} ELSE {}
    OBVIOUS
<1>6. Dossier(id)' = [Dossier(id) EXCEPT !.traces = @ \cup ajout]
    <2>1. UNCHANGED <<factures, lignes, paiements, paiementsAudites>>
        BY DEF Notifier
    <2>2. Traces(id)' = Traces(id) \cup ajout
        BY <1>3, <1>5
    <2>3. PICK t, t1 : t = Traces(id) /\ t1 = Traces(id)'
        OBVIOUS
    <2>4. /\ Dossier(id) = [facture |-> factures[id], lignes |-> lignes[id],
                paiements |-> paiements[id], audites |-> paiementsAudites[id],
                traces |-> t]
          /\ Dossier(id)' = [facture |-> factures[id], lignes |-> lignes[id],
                paiements |-> paiements[id], audites |-> paiementsAudites[id],
                traces |-> t1]
        BY <2>1, <2>3, DossierSuivant DEF Dossier
    <2>5. t1 = t \cup ajout
        BY <2>2, <2>3
    <2> QED BY <2>4, <2>5
<1>7. PICK x, x1 : x = Dossier(id) /\ x1 = Dossier(id)'
    OBVIOUS
<1>8. id \in Ids /\ Suivi(x, q) => Suivi(x1, Repos)
    BY <1>1, <1>5, <1>6, <1>7, DossierType, SuiviNotifier
<1>9. troubles' = troubles
    BY DEF Notifier
<1> QED BY <1>1, <1>2, <1>4, <1>7, <1>8, <1>9, CadreExact

-----------------------------------------------------------------------------
\* Every statement of every handler keeps the files of the untroubled invoices
\* at the step of the one request about each.
THEOREM ExactePas == TypeOK /\ InvExacte /\ [Next]_vars => InvExacte'
<1> SUFFICES ASSUME TypeOK, InvExacte, [Next]_vars PROVE InvExacte'
    OBVIOUS
<1>0. TypeOK'
    BY TypePas
<1>1. CASE UNCHANGED vars
    <2>1. \A i : Dossier(i)' = Dossier(i)
        BY <1>1, DossierInchange DEF vars, tables, Traces
    <2>2. req' = req /\ troubles' = troubles
        BY <1>1 DEF vars
    <2> QED BY <2>1, <2>2 DEF InvExacte, Actif
<1>2. CASE Next
    <2>1. PICK r \in Requetes : Recevoir(r) \/ Avancer(r) \/ Echouer(r)
        BY <1>2 DEF Next
    <2>2. CASE Recevoir(r)
        BY <1>0, <2>2, ExacteRecevoir
    <2>3. CASE Echouer(r)
        BY <1>0, <2>3, ExacteEchouer
    <2>4. CASE Avancer(r)
        BY <1>0, <2>4, ExacteInserer, ExacteRefuser, ExacteEffacerLignes,
           ExacteEcrireLignes, ExacteEnregistrerAcompte, ExacteLire,
           ExacteLireLignes, ExacteMaj, ExacteChangerStatut, ExactePayer,
           ExacteSolder, ExacteSupprLignes, ExacteSupprPaiements,
           ExacteSupprFacture, ExacteJournaliser, ExacteNotifier
           DEF Avancer
    <2> QED BY <2>1, <2>2, <2>3, <2>4
<1> QED BY <1>1, <1>2

\* Before the first request no invoice exists and no file has anything in it.
THEOREM ExacteInit == Init => InvExacte
<1> SUFFICES ASSUME Init, NEW i \in Ids
             PROVE  /\ \A r \in Requetes : ~Actif(r, i)
                    /\ Suivi(Dossier(i), Repos)
    BY DEF InvExacte
<1>1. \A r \in Requetes : ~Actif(r, i)
    BY DEF Init, Actif, Repos
<1>2. PICK x : x = Dossier(i)
    OBVIOUS
<1>3. /\ x.facture = Neant /\ x.lignes = 0 /\ x.paiements = 0 /\ x.audites = 0
      /\ "attribuee" \notin x.traces
    <2>1. ~(i < prochain)
        BY DEF Init, Ids
    <2> QED BY <1>2, <2>1 DEF Init, Dossier, Traces
<1>4. Suivi(x, Repos)
    BY <1>3 DEF Suivi, SuiviPaye, SuiviLignes, SuiviAudit, SuiviLu, Repos
<1> QED BY <1>1, <1>2, <1>4

\* What the invariant says of an invoice no request is about.
LEMMA TranquilleEnOrdre ==
    ASSUME TypeOK, InvExacte, NEW i, Tranquille(i)
    PROVE  /\ AvancesPositives => PaiementExact(i)
           /\ TableAccordee(i)
           /\ i < prochain =>
                /\ <<"creer", i>> \in journal \cap notifications
                /\ factures[i] = Neant => <<"supprimer", i>> \in journal
                /\ AvancesPositives /\ factures[i] # Neant =>
                     paiements[i] - paiementsAudites[i] \in Acomptes
<1>1. i \in Ids \ troubles /\ \A r \in Requetes : ~Actif(r, i)
    BY DEF Tranquille, Actif, A
<1>2. PICK x : x = Dossier(i)
    OBVIOUS
<1>3. Suivi(x, Repos) /\ x \in Dossiers
    BY <1>1, <1>2, DossierType DEF InvExacte
<1>4. /\ x.facture = factures[i] /\ x.lignes = lignes[i]
      /\ x.paiements = paiements[i] /\ x.audites = paiementsAudites[i]
      /\ "attribuee" \in x.traces <=> i < prochain
      /\ "creer" \in x.traces <=> <<"creer", i>> \in journal
      /\ "supprimer" \in x.traces <=> <<"supprimer", i>> \in journal
      /\ "notifiee" \in x.traces <=> <<"creer", i>> \in notifications
    BY <1>2 DEF Dossier, Traces
<1>5. /\ Repos.pc = "repos" /\ ~Cree(Repos)
      /\ Ecart(Repos) = 0 /\ EcartAudit(Repos) = 0
    BY DEF Repos, Cree, EnCreation, Ecart, EcartAudit
<1>6. x.paiements \in Int /\ x.audites \in Int
    BY <1>3 DEF Dossiers
<1>7. AvancesPositives => PaiementExact(i)
    <2>1. AvancesPositives /\ x.facture # Neant =>
            /\ x.facture.montant_paye = x.paiements
            /\ x.facture.solde_a_payer = x.facture.total_ttc - x.facture.montant_paye
        BY <1>3, <1>5, <1>6 DEF Suivi, SuiviPaye, Solde
    <2> QED BY <1>4, <2>1 DEF PaiementExact
<1>8. TableAccordee(i)
    BY <1>3, <1>4, <1>5 DEF Suivi, SuiviLignes, TableAccordee
<1>9. "attribuee" \in x.traces =>
        /\ {"creer", "notifiee"} \subseteq x.traces
        /\ x.facture = Neant => "supprimer" \in x.traces
        /\ AvancesPositives /\ x.facture # Neant => x.paiements - x.audites \in Acomptes
    <2>1. x.paiements + 0 - x.audites = x.paiements - x.audites
        BY <1>6
    <2> QED BY <1>3, <1>5, <2>1 DEF Suivi, SuiviAudit
<1> QED BY <1>4, <1>7, <1>8, <1>9

\* The inductive invariant of every behaviour.
LEMMA ExacteToujours == Spec => [](TypeOK /\ InvExacte)
<1> QED BY TypeInit, ExacteInit, TypePas, ExactePas, PTL DEF Spec

\* Requests on one invoice that come one after the other keep what it shows
\* as paid the sum of its payments, and its balance what remains, provided
\* that no advance is negative: that one has no payment row.
THEOREM ToujoursExactes ==
    ASSUME Acomptes \subseteq Nat PROVE Spec => []FacturesExactes
<1>1. TypeOK /\ InvExacte => FacturesExactes
    BY TranquilleEnOrdre DEF FacturesExactes, AvancesPositives
<1> QED BY <1>1, ExacteToujours, PTL

\* They keep it computed from its own lines, and a deletion leaves nothing,
\* whatever the sign of the amounts.
THEOREM TablesToujoursExactes == Spec => []TablesExactes
<1>1. TypeOK /\ InvExacte => TablesExactes
    BY TranquilleEnOrdre DEF TablesExactes
<1> QED BY <1>1, ExacteToujours, PTL

\* And every effect on it has left its audit entry, advances as above.
THEOREM AuditsToujoursExacts ==
    ASSUME Acomptes \subseteq Nat PROVE Spec => []AuditsExacts
<1>1. TypeOK /\ InvExacte => AuditsExacts
    BY TranquilleEnOrdre DEF AuditsExacts, AvancesPositives
<1> QED BY <1>1, ExacteToujours, PTL
-----------------------------------------------------------------------------
\* No two requests in progress are about the same invoice.
SansRecouvrement ==
    \A r \in Requetes : \A i \in Ids : ~A(r, "repos") /\ req[r].id = i => ~Occupe(r, i)

\* A request about an invoice fails after its first write.
EchecEntame(r) == Echouer(r) /\ Entame(r) /\ req[r].id \in Ids

\* Nothing else puts an invoice among those of the history: a request that
\* arrives, or is given the id of its new invoice, would overlap in the next
\* state.
LEMMA TroublesVides ==
    ASSUME TypeOK, TypeOK', troubles = {}, SansRecouvrement', [Next]_vars,
           \A r \in Requetes : ~EchecEntame(r)
    PROVE  troubles' = {}
<1>1. ASSUME NEW r \in Requetes, NEW i \in Ids, Occupe(r, i),
             req'[r].pc # "repos", req'[r].id = i,
             \A s \in Requetes \ {r} : req'[s] = req[s]
      PROVE  FALSE
    <2>1. Occupe(r, i)'
        BY <1>1 DEF Occupe, A
    <2> QED BY <1>1, <2>1 DEF SansRecouvrement, A
<1>2. CASE UNCHANGED vars
    BY <1>2 DEF vars
<1>3. ASSUME NEW r \in Requetes, Recevoir(r) PROVE troubles' = {}
    <2>1. PICK d \in Demandes :
            LET id == IF d.op \in {"creer", "calculer"} THEN 0 ELSE d.id
            IN  /\ req' = [req EXCEPT ![r] = [pc |-> Debut(d), d |-> d, id |-> id,
                                             lu |-> Neant, ht |-> 0]]
                /\ troubles' = troubles \cup {i \in Ids : i = id /\ Occupe(r, i)}
        BY <1>3 DEF Recevoir
    <2> DEFINE id == IF d.op \in {"creer", "calculer"} THEN 0 ELSE d.id
    <2>2. req'[r].pc = Debut(d) /\ req'[r].id = id
        BY <2>1 DEF TypeOK
    <2>3. Debut(d) # "repos"
        BY DEF Debut
    <2>4. \A s \in Requetes \ {r} : req'[s] = req[s]
        BY <2>1 DEF TypeOK
    <2>5. \A i \in Ids : ~(i = id /\ Occupe(r, i))
        BY <1>1, <2>2, <2>3, <2>4
    <2> QED BY <2>1, <2>5
<1>4. ASSUME NEW r \in Requetes, Inserer(r) PROVE troubles' = {}
    <2>1. /\ req' = [req EXCEPT ![r].pc = "effacer_lignes", ![r].id = prochain]
          /\ troubles' = troubles \cup {i \in Ids : i = prochain /\ Occupe(r, i)}
        BY <1>4 DEF Inserer
    <2>2. req'[r].pc = "effacer_lignes" /\ req'[r].id = prochain
        BY <2>1 DEF TypeOK, Contextes
    <2>3. \A s \in Requetes \ {r} : req'[s] = req[s]
        BY <2>1 DEF TypeOK
    <2>4. \A i \in Ids : ~(i = prochain /\ Occupe(r, i))
        BY <1>1, <2>2, <2>3
    <2> QED BY <2>1, <2>4
<1>5. ASSUME NEW r \in Requetes, Echouer(r) PROVE troubles' = {}
    BY <1>5 DEF Echouer, EchecEntame
<1>6. ASSUME NEW r \in Requetes, Avancer(r), ~Inserer(r) PROVE troubles' = {}
    <2>1. UNCHANGED troubles
        BY <1>6 DEF Avancer, RefuserInsertion, EffacerLignes, EcrireLignes,
           EnregistrerAcompte, Lire, LireLignes, Maj, ChangerStatut, Payer,
           Solder, SupprLignes, SupprPaiements, SupprFacture, Journaliser,
           Notifier
    <2> QED BY <2>1
<1> QED BY <1>2, <1>3, <1>4, <1>5, <1>6 DEF Next

\* What is paid is the sum of the payments whenever no request is in progress,
\* provided that requests about one invoice never overlapped and none failed
\* after its first write: these two are all that loses a payment of
\* registerPayment.  Requests about different invoices may overlap at will, and
\* payments may be negative; advances may not.
THEOREM PaiementsComptesSansRecouvrement ==
    ASSUME Acomptes \subseteq Nat
    PROVE
    Spec /\ []SansRecouvrement /\ [][\A r \in Requetes : ~EchecEntame(r)]_vars
      => []PaiementsComptes
<1> DEFINE Intact == TypeOK /\ InvExacte /\ troubles = {}
           SansEchec == \A r \in Requetes : ~EchecEntame(r)
<1>1. Init => Intact
    BY TypeInit, ExacteInit DEF Init
<1>2. Intact /\ SansRecouvrement' /\ [Next]_vars /\ [SansEchec]_vars => Intact'
    <2> SUFFICES ASSUME Intact, SansRecouvrement', [Next]_vars, [SansEchec]_vars
                 PROVE  Intact'
        OBVIOUS
    <2>1. TypeOK' /\ InvExacte'
        BY TypePas, ExactePas
    <2>2. CASE SansEchec
        BY <2>1, <2>2, TroublesVides
    <2>3. CASE UNCHANGED vars
        BY <2>1, <2>3 DEF vars
    <2> QED BY <2>2, <2>3
<1>3. Intact => PaiementsComptes
    <2> SUFFICES ASSUME Intact, Calme, NEW i \in Ids PROVE PaiementExact(i)
        BY DEF PaiementsComptes
    <2>1. Tranquille(i)
        BY DEF Tranquille, Calme
    <2> QED BY <2>1, TranquilleEnOrdre DEF AvancesPositives
<1> HIDE DEF Intact
<1> QED BY <1>1, <1>2, <1>3, PTL DEF Spec
=============================================================================
