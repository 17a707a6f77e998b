---------------------------- MODULE FactureProofs ----------------------------
(***************************************************************************)
(* Proofs about Facture, for any number of requests and invoices, any       *)
(* advances and, where the theorem assumes it, payments of one sign.        *)
(***************************************************************************)
EXTENDS Facture, TLAPS

\* What findings in an optional field of a request body can be.
LEMMA OuType ==
    ASSUME NEW S, NEW T, S \subseteq T,
           NEW champ \in Optionnel(S), NEW defaut \in T
    PROVE  Ou(champ, defaut) \in T
<1>1. CASE champ = {}
    BY <1>1 DEF Ou
<1>2. CASE champ # {}
    <2>1. PICK x \in S : champ = {x}
        BY <1>2 DEF Optionnel
    <2>2. (CHOOSE y \in champ : TRUE) = x
        BY <2>1
    <2> QED BY <1>2, <2>1, <2>2 DEF Ou
<1> QED BY <1>1, <1>2

\* A rate applied to an integer amount gives an integer amount.
LEMMA TauxType ==
    ASSUME NEW m \in Int, NEW num \in Int, NEW den \in Nat \ {0}
    PROVE  Taux(m, num, den) \in Int
BY DEF Taux

\* calculateTotals yields integers, the amount paid is the advance and the
\* balance what is left of the total.
LEMMA TotauxType ==
    ASSUME NEW ht \in Int, NEW remise \in Remises, NEW vente, NEW acompte \in Int
    PROVE  LET t == CalculateTotals(ht, remise, vente, acompte)
           IN  /\ t.sous_total_ht = ht /\ t.total_ttc \in Int
               /\ t.acompte = acompte /\ t.montant_paye = acompte
               /\ t.solde_a_payer \in Int
               /\ t.solde_a_payer = t.total_ttc - t.montant_paye
<1> DEFINE mr == MontantRemise(ht, remise)
           net == ht - mr
           tps == Tps(net, vente)
           base == net - tps
           tva == Tva(base, vente)
<1>1. mr \in Int
    <2>1. remise.valeur \in Int
        BY RemisesAssumption
    <2>2. \A v \in Int : Taux(ht, v, 100) \in Int
        BY TauxType
    <2> QED BY <2>1, <2>2 DEF MontantRemise
<1>2. net \in Int
    BY <1>1
<1> HIDE DEF mr, net
<1>3. tps \in Int
    <2>1. Taux(net, 19, 200) \in Int
        BY <1>2, TauxType
    <2> QED BY <2>1 DEF Tps
<1>4. base \in Int
    BY <1>2, <1>3
<1> HIDE DEF tps, base
<1>5. tva \in Int
    <2>1. Taux(base, 77, 400) \in Int
        BY <1>4, TauxType
    <2> QED BY <2>1 DEF Tva
<1> HIDE DEF tva
<1>6. CalculateTotals(ht, remise, vente, acompte) =
        [sous_total_ht |-> ht, montant_remise |-> mr,
         sous_total_apres_remise |-> net, tps |-> tps,
         total_ht_apres_tps |-> base, tva |-> tva, total_ttc |-> base + tva,
         acompte |-> acompte, montant_paye |-> acompte,
         solde_a_payer |-> base + tva - acompte]
    BY DEF CalculateTotals, mr, net, tps, base, tva
<1> QED BY <1>4, <1>5, <1>6

\* The kind of a request is its operation.
LEMMA DemandeType ==
    ASSUME NEW d \in Demandes
    PROVE  /\ d \in UNION {Creations, Modifications, ChangementsStatut,
                           Reglements, Suppressions, Calculs}
           /\ d.op \in Operations
           /\ d.op = "creer" => d \in Creations
           /\ d.op = "modifier" => d \in Modifications
           /\ d.op = "statut" => d \in ChangementsStatut
           /\ d.op = "payer" => d \in Reglements
           /\ d.op = "supprimer" => d \in Suppressions
           /\ d.op \notin {"creer", "calculer"} => d.id \in Ids
           /\ d.op \in {"creer", "modifier", "statut", "payer", "supprimer",
                        "calculer"}
BY DEF Demandes, Creations, Modifications, ChangementsStatut, Reglements,
       Suppressions, Calculs

\* The operation of each kind of request.
LEMMA OperationType ==
    /\ \A d \in Creations : d.op = "creer"
    /\ \A d \in Modifications : d.op = "modifier"
    /\ \A d \in ChangementsStatut : d.op = "statut"
    /\ \A d \in Reglements : d.op = "payer"
    /\ \A d \in Suppressions : d.op = "supprimer"
BY DEF Creations, Modifications, ChangementsStatut, Reglements, Suppressions

\* Amounts a client sends are integers, of either sign.
LEMMA MontantsType ==
    /\ HTs \subseteq Int /\ Acomptes \subseteq Int /\ Montants \subseteq Int
    /\ \A d \in Creations : d.ht \in Int /\ d.acompte \in Int
    /\ \A d \in Reglements : d.montant \in Int
<1>1. \A d \in Creations : d.ht \in HTs /\ d.acompte \in Acomptes
    BY DEF Creations
<1>2. \A d \in Reglements : d.montant \in Montants
    BY DEF Reglements
<1> QED BY <1>1, <1>2, DonneesAssumption

\* Writing one integer, or adding one, in a table of amounts.
LEMMA TableModifiee ==
    ASSUME NEW S, NEW f \in [S -> Int], NEW i \in S, NEW v \in Int
    PROVE  /\ [f EXCEPT ![i] = v] \in [S -> Int]
           /\ [f EXCEPT ![i] = @ + v] \in [S -> Int]
           /\ [f EXCEPT ![i] = @ - v] \in [S -> Int]
OBVIOUS

\* The rows written by createFacture, updateFacture, updateStatus and
\* registerPayment, and the amount paid each of them shows.
LEMMA LigneNeuveType ==
    ASSUME NEW d \in Creations
    PROVE  LigneNeuve(d) \in Lignes /\ LigneNeuve(d).montant_paye = d.acompte
<1> DEFINE t == CalculateTotals(d.ht, d.remise, d.vente, d.acompte)
           statut == Ou(d.statut, StatutInitial(t.solde_a_payer))
<1>1. /\ d.numero \in Numeros /\ d.client \in Clients /\ d.vente \in TypesVente
      /\ d.ht \in Int /\ d.remise \in Remises /\ d.acompte \in Int
      /\ d.statut \in Optionnel(StatutsDemandes)
    <2>1. /\ d.numero \in Numeros /\ d.client \in Clients /\ d.vente \in Ventes
          /\ d.ht \in HTs /\ d.remise \in Remises /\ d.acompte \in Acomptes
          /\ d.statut \in Optionnel(StatutsDemandes)
        BY DEF Creations
    <2>2. Acomptes \subseteq Int
        BY DonneesAssumption
    <2> QED BY <2>2, <2>1, DonneesAssumption
<1>2. /\ t.sous_total_ht \in Int /\ t.total_ttc \in Int
      /\ t.acompte = d.acompte /\ t.montant_paye = d.acompte
      /\ t.solde_a_payer \in Int
    BY <1>1, TotauxType
<1>3. statut \in Statuts
    <2>1. StatutInitial(t.solde_a_payer) \in Statuts
        BY DEF StatutInitial, Statuts
    <2> QED BY <1>1, <2>1, OuType, DonneesAssumption
<1>4. LigneNeuve(d) =
        [numero |-> d.numero, client_id |-> d.client, type_vente |-> d.vente,
         sous_total_ht |-> t.sous_total_ht, total_ttc |-> t.total_ttc,
         acompte |-> t.acompte, montant_paye |-> t.montant_paye,
         solde_a_payer |-> t.solde_a_payer, statut |-> statut]
    BY DEF LigneNeuve
<1> HIDE DEF t, statut
<1> QED BY <1>1, <1>2, <1>3, <1>4 DEF Lignes

\* The row updateFacture writes is typed and keeps the paid amount it read.
LEMMA LigneModifieeType ==
    ASSUME NEW l \in Lignes, NEW d \in Modifications, NEW lu \in Lignes,
           NEW ht \in Int
    PROVE  /\ LigneModifiee(l, d, lu, ht) \in Lignes
           /\ LigneModifiee(l, d, lu, ht).montant_paye = lu.montant_paye
<1> DEFINE vente == Ou(d.vente, lu.type_vente)
           t == CalculateTotals(ht, d.remise, vente, lu.montant_paye)
           statut == Ou(d.statut, lu.statut)
<1>1. /\ d.remise \in Remises
      /\ d.vente \in Optionnel(Ventes)
      /\ d.statut \in Optionnel(StatutsDemandes)
    BY DEF Modifications
<1>2. /\ lu.montant_paye \in Int /\ lu.type_vente \in TypesVente
      /\ lu.statut \in Statuts
    BY DEF Lignes
<1>3. vente \in TypesVente /\ statut \in Statuts
    BY <1>1, <1>2, OuType, DonneesAssumption
<1> HIDE DEF vente, statut
<1>4. /\ t.sous_total_ht \in Int /\ t.total_ttc \in Int
      /\ t.acompte = lu.montant_paye /\ t.montant_paye = lu.montant_paye
      /\ t.solde_a_payer \in Int
    <2>1. d.remise \in Remises /\ lu.montant_paye \in Int
        BY <1>1, <1>2
    <2> QED BY <2>1, TotauxType
<1>5. LigneModifiee(l, d, lu, ht) =
        [l EXCEPT !.type_vente = vente, !.statut = statut,
                  !.sous_total_ht = t.sous_total_ht, !.total_ttc = t.total_ttc,
                  !.acompte = t.acompte, !.montant_paye = t.montant_paye,
                  !.solde_a_payer = t.solde_a_payer]
    BY DEF LigneModifiee, vente, statut
<1> HIDE DEF t
<1> QED BY <1>2, <1>3, <1>4, <1>5 DEF Lignes

\* updateStatus writes one column and leaves the paid amount alone.
LEMMA LigneStatutType ==
    ASSUME NEW l \in Lignes, NEW s \in Statuts
    PROVE  /\ [l EXCEPT !.statut = s] \in Lignes
           /\ [l EXCEPT !.statut = s].montant_paye = l.montant_paye
BY DEF Lignes

\* registerPayment writes the paid amount it read plus the payment.
LEMMA LignePayeeType ==
    ASSUME NEW l \in Lignes, NEW lu \in Lignes, NEW montant \in Int
    PROVE  /\ LignePayee(l, lu, montant) \in Lignes
           /\ LignePayee(l, lu, montant).montant_paye
                = lu.montant_paye + montant
<1> DEFINE paye == lu.montant_paye + montant
           solde == lu.total_ttc - paye
           statut == StatutApresPaiement(solde, paye, lu.statut)
<1>1. paye \in Int /\ solde \in Int /\ lu.statut \in Statuts
    BY DEF Lignes
<1> HIDE DEF paye, solde
<1>2. statut \in Statuts
    BY <1>1 DEF StatutApresPaiement, Statuts
<1>3. LignePayee(l, lu, montant) =
        [l EXCEPT !.montant_paye = paye, !.solde_a_payer = solde,
                  !.statut = statut]
    BY DEF LignePayee, paye, solde
<1> HIDE DEF statut
<1>4. LignePayee(l, lu, montant) \in Lignes
    BY <1>1, <1>2, <1>3 DEF Lignes
<1>5. LignePayee(l, lu, montant).montant_paye = paye
    BY <1>3 DEF Lignes
<1> QED BY <1>4, <1>5 DEF paye
-----------------------------------------------------------------------------
\* Replacing the context of one request by a well-typed one.
LEMMA ContexteType ==
    ASSUME TypeOK, NEW r \in Requetes, NEW q \in Contextes, RequeteOK(q),
           req' = [req EXCEPT ![r] = q]
    PROVE  /\ req' \in [Requetes -> Contextes]
           /\ \A s \in Requetes : RequeteOK(req'[s])
<1>1. req \in [Requetes -> Contextes] /\ \A s \in Requetes : RequeteOK(req[s])
    BY DEF TypeOK
<1>2. req' \in [Requetes -> Contextes]
    BY <1>1
<1>3. ASSUME NEW s \in Requetes PROVE RequeteOK(req'[s])
    BY <1>1 DEF RequeteOK
<1> QED BY <1>2, <1>3

\* Resting requests are well typed.
LEMMA ReposType == Repos \in Contextes /\ RequeteOK(Repos)
BY DEF Repos, Contextes, RequeteOK, Etapes

\* A handler that ends, and one that goes on to a step its request allows.
LEMMA FinirType ==
    ASSUME TypeOK, NEW r \in Requetes, Finir(r)
    PROVE  /\ req' \in [Requetes -> Contextes]
           /\ \A s \in Requetes : RequeteOK(req'[s])
BY ContexteType, ReposType DEF Finir

LEMMA AllerType ==
    ASSUME TypeOK, NEW r \in Requetes, NEW pc \in Etapes,
           RequeteOK([req[r] EXCEPT !.pc = pc]), Aller(r, pc)
    PROVE  /\ req' \in [Requetes -> Contextes]
           /\ \A s \in Requetes : RequeteOK(req'[s])
<1> DEFINE q == [req[r] EXCEPT !.pc = pc]
<1>1. req \in [Requetes -> Contextes] /\ req[r] \in Contextes
    BY DEF TypeOK
<1>2. q \in Contextes
    BY <1>1 DEF Contextes
<1>3. req' = [req EXCEPT ![r] = q]
    BY DEF Aller
<1> HIDE DEF q
<1>4. RequeteOK(q)
    BY DEF q
<1> QED BY <1>2, <1>3, <1>4, ContexteType

\* The empty tables are well typed.
THEOREM TypeInit == Init => TypeOK
<1> SUFFICES ASSUME Init PROVE TypeOK
    OBVIOUS
<1>1. 0 \in 0..MaxRequetes /\ 1 \in 1..(MaxFactures + 1)
    BY BornesAssumption
<1>2. req \in [Requetes -> Contextes] /\ \A r \in Requetes : RequeteOK(req[r])
    BY ReposType DEF Init
<1> QED BY <1>1, <1>2 DEF Init, TypeOK

\* Every statement of every handler keeps the tables and the requests typed.
THEOREM TypePas == TypeOK /\ [Next]_vars => TypeOK'
<1> SUFFICES ASSUME TypeOK, [Next]_vars PROVE TypeOK'
    OBVIOUS
<1>1. CASE UNCHANGED vars
    BY <1>1 DEF TypeOK, vars, tables
<1>2. ASSUME NEW r \in Requetes, Recevoir(r) PROVE TypeOK'
    <2>1. PICK d \in Demandes :
            req' = [req EXCEPT ![r] =
                      [pc |-> Debut(d), d |-> d,
                       id |-> IF d.op \in {"creer", "calculer"} THEN 0 ELSE d.id,
                       lu |-> Neant, ht |-> 0]]
        BY <1>2 DEF Recevoir
    <2> DEFINE id == IF d.op \in {"creer", "calculer"} THEN 0 ELSE d.id
               q == [pc |-> Debut(d), d |-> d, id |-> id, lu |-> Neant, ht |-> 0]
    <2>2. /\ id \in Ids \cup {0}
          /\ d.op \notin {"creer", "calculer"} => id \in Ids
          /\ d.op \in {"creer", "calculer"} => id = 0
        BY DemandeType
    <2> HIDE DEF id
    <2>3. /\ Debut(d) \in Etapes
          /\ Debut(d) \in {"inserer", "journal", "lire"}
          /\ Debut(d) = "inserer" => d.op = "creer"
          /\ Debut(d) = "lire" => d.op \notin {"creer", "calculer"}
          /\ Debut(d) = "journal" => d.op = "calculer"
        BY DEF Debut, Etapes
    <2>4. q \in Contextes
        BY <2>2, <2>3 DEF Contextes
    <2>5. RequeteOK(q)
        BY <2>2, <2>3, DemandeType DEF RequeteOK
    <2> HIDE DEF q
    <2>6. req' = [req EXCEPT ![r] = q]
        BY <2>1 DEF q, id
    <2>7. recues' \in 0..MaxRequetes
        BY <1>2, BornesAssumption DEF TypeOK, Recevoir
    <2> QED BY <1>2, <2>4, <2>5, <2>6, <2>7, ContexteType
            DEF TypeOK, Recevoir, tables
<1>3. ASSUME NEW r \in Requetes, Inserer(r) PROVE TypeOK'
    <2> DEFINE d == req[r].d
               q == [req[r] EXCEPT !.pc = "effacer_lignes", !.id = prochain]
    <2>1. /\ req[r] \in Contextes /\ RequeteOK(req[r])
          /\ req[r].pc = "inserer" /\ d \in Creations /\ d \in Demandes
          /\ prochain \in Ids
        BY <1>3 DEF TypeOK, Inserer, A, Inserable, RequeteOK
    <2>2. LigneNeuve(d) \in Lignes /\ d.acompte \in Int
        BY <2>1, LigneNeuveType DEF Lignes
    <2>3. q \in Contextes /\ RequeteOK(q)
        BY <2>1 DEF Contextes, RequeteOK, Etapes
    <2>4. req' = [req EXCEPT ![r] = q]
        BY <1>3 DEF Inserer
    <2>5. prochain' \in 1..(MaxFactures + 1)
        BY <1>3, <2>1, BornesAssumption DEF Inserer, Ids
    <2>6. factures' \in [Ids -> Lignes \cup {Neant}]
        BY <1>3, <2>1, <2>2 DEF TypeOK, Inserer
    <2>7. acompteDu' \in [Ids -> Int]
        BY <1>3, <2>1, <2>2 DEF TypeOK, Inserer
    <2> HIDE DEF q
    <2> QED BY <1>3, <2>3, <2>4, <2>5, <2>6, <2>7, ContexteType
            DEF TypeOK, Inserer
<1>4. ASSUME NEW r \in Requetes, RefuserInsertion(r) PROVE TypeOK'
    BY <1>4, FinirType DEF TypeOK, RefuserInsertion, tables
<1>5. ASSUME NEW r \in Requetes, EffacerLignes(r) PROVE TypeOK'
    <2>1. /\ req[r].pc = "effacer_lignes" /\ req[r] \in Contextes
          /\ RequeteOK(req[r]) /\ Aller(r, "ecrire_lignes")
        BY <1>5 DEF TypeOK, EffacerLignes, A
    <2>2. RequeteOK([req[r] EXCEPT !.pc = "ecrire_lignes"])
        BY <2>1 DEF RequeteOK, Contextes
    <2>3. lignes' \in [Ids -> Int]
        <3>1. /\ lignes \in [Ids -> Int] /\ req[r].id \in Ids
              /\ lignes' = [lignes EXCEPT ![req[r].id] = 0]
            BY <1>5, <2>1 DEF TypeOK, EffacerLignes, RequeteOK
        <3> QED BY <3>1, TableModifiee
    <2> QED BY <1>5, <2>1, <2>2, <2>3, AllerType DEF TypeOK, EffacerLignes, Etapes
<1>6. ASSUME NEW r \in Requetes, EcrireLignes(r) PROVE TypeOK'
    <2> DEFINE d == req[r].d
               ht == IF d.op = "creer" THEN d.ht ELSE Ou(d.ht, 0)
               pc == IF d.op = "creer" /\ d.acompte > 0 THEN "acompte"
                                                         ELSE "journal"
    <2>1. /\ req[r].pc = "ecrire_lignes" /\ req[r] \in Contextes
          /\ RequeteOK(req[r]) /\ Aller(r, pc)
          /\ lignes' = [lignes EXCEPT ![req[r].id] = @ + ht]
        BY <1>6 DEF TypeOK, EcrireLignes, A
    <2>2. d \in Demandes /\ d \in Creations \cup Modifications
        BY <2>1 DEF RequeteOK
    <2>3. ht \in Int
        <3>1. CASE d.op = "creer"
            BY <2>2, <3>1, DemandeType, MontantsType
        <3>2. CASE d.op # "creer"
            <4>1. d.ht \in Optionnel(HTs)
                BY <2>2, <3>2 DEF Creations, Modifications
            <4>2. HTs \subseteq Int /\ 0 \in Int
                BY MontantsType
            <4>3. \A champ \in Optionnel(HTs) : Ou(champ, 0) \in Int
                BY <4>2, OuType
            <4> QED BY <3>2, <4>1, <4>3
        <3> QED BY <3>1, <3>2
    <2> HIDE DEF ht
    <2>4. lignes' \in [Ids -> Int]
        <3>1. lignes \in [Ids -> Int] /\ req[r].id \in Ids
            BY <2>1 DEF TypeOK, RequeteOK
        <3> QED BY <2>1, <2>3, <3>1, TableModifiee
    <2>5. pc \in Etapes /\ RequeteOK([req[r] EXCEPT !.pc = pc])
        BY <2>1, <2>2, DemandeType, OperationType DEF RequeteOK, Contextes, Etapes
    <2> HIDE DEF pc
    <2> QED BY <1>6, <2>1, <2>4, <2>5, AllerType DEF TypeOK, EcrireLignes
<1>7. ASSUME NEW r \in Requetes, EnregistrerAcompte(r) PROVE TypeOK'
    <2>1. /\ req[r].pc = "acompte" /\ req[r] \in Contextes
          /\ RequeteOK(req[r]) /\ Aller(r, "journal") /\ req[r].d \in Creations
        BY <1>7 DEF TypeOK, EnregistrerAcompte, A, RequeteOK
    <2>2. RequeteOK([req[r] EXCEPT !.pc = "journal"])
        BY <2>1, OperationType DEF RequeteOK, Contextes
    <2>3. req[r].d.acompte \in Int
        BY <2>1, MontantsType
    <2>4. paiements' \in [Ids -> Int] /\ acompteDu' \in [Ids -> Int]
        <3> DEFINE m == req[r].d.acompte
        <3>1. /\ paiements \in [Ids -> Int] /\ acompteDu \in [Ids -> Int]
              /\ req[r].id \in Ids
              /\ paiements' = [paiements EXCEPT ![req[r].id] = @ + m]
              /\ acompteDu' = [acompteDu EXCEPT ![req[r].id] = @ - m]
            BY <1>7, <2>1 DEF TypeOK, EnregistrerAcompte, RequeteOK
        <3> HIDE DEF m
        <3>2. m \in Int
            BY <2>3 DEF m
        <3> QED BY <3>1, <3>2, TableModifiee
    <2> QED BY <1>7, <2>1, <2>2, <2>4, AllerType
            DEF TypeOK, EnregistrerAcompte, Etapes
<1>8. ASSUME NEW r \in Requetes, Lire(r) PROVE TypeOK'
    <2> DEFINE d == req[r].d
               lu == factures[req[r].id]
               q == [req[r] EXCEPT !.pc = Suite(d), !.lu = lu]
    <2>1. /\ req[r].pc = "lire" /\ req[r] \in Contextes /\ RequeteOK(req[r])
        BY <1>8 DEF TypeOK, Lire, A
    <2>2. CASE Accepte(d, lu)
        <3>1. /\ d \in Demandes /\ req[r].id \in Ids
              /\ lu \in Lignes
            BY <2>1, <2>2 DEF RequeteOK, Accepte, TypeOK
        <3>2. /\ Suite(d) \in {"lire_lignes", "statut", "payer", "suppr_lignes"}
              /\ Suite(d) = "lire_lignes" => d.op = "modifier"
              /\ Suite(d) = "statut" => d.op = "statut"
              /\ Suite(d) = "payer" => d.op = "payer"
              /\ Suite(d) = "suppr_lignes" => d.op = "supprimer"
            BY <2>1, <3>1, DemandeType DEF Suite, RequeteOK
        <3> HIDE DEF lu
        <3>3. q \in Contextes
            BY <2>1, <3>1, <3>2 DEF Contextes, Etapes
        <3>4. RequeteOK(q)
            BY <2>1, <3>1, <3>2, DemandeType DEF RequeteOK, Contextes
        <3>5. req' = [req EXCEPT ![r] = q]
            BY <1>8, <2>2 DEF Lire, lu
        <3> HIDE DEF q
        <3> QED BY <1>8, <3>3, <3>4, <3>5, ContexteType DEF TypeOK, Lire, tables
    <2>3. CASE ~Accepte(d, lu)
        BY <1>8, <2>3, FinirType DEF TypeOK, Lire, tables
    <2> QED BY <2>2, <2>3
<1>9. ASSUME NEW r \in Requetes, LireLignes(r) PROVE TypeOK'
    <2> DEFINE ht == Ou(req[r].d.ht, lignes[req[r].id])
               q == [req[r] EXCEPT !.pc = "maj", !.ht = ht]
    <2>1. /\ req[r].pc = "lire_lignes" /\ req[r] \in Contextes
          /\ RequeteOK(req[r]) /\ req[r].d \in Modifications
          /\ lignes[req[r].id] \in Int
        BY <1>9 DEF TypeOK, LireLignes, A, RequeteOK
    <2>2. req[r].d.ht \in Optionnel(HTs)
        BY <2>1 DEF Modifications
    <2>3. ht \in Int
        BY <2>1, <2>2, OuType, DonneesAssumption
    <2> HIDE DEF ht
    <2>4. q \in Contextes /\ RequeteOK(q)
        BY <2>1, <2>3 DEF Contextes, Etapes, RequeteOK
    <2>5. req' = [req EXCEPT ![r] = q]
        BY <1>9 DEF LireLignes, ht
    <2> HIDE DEF q
    <2> QED BY <1>9, <2>4, <2>5, ContexteType DEF TypeOK, LireLignes, tables
<1>10. ASSUME NEW r \in Requetes, Maj(r) PROVE TypeOK'
    <2> DEFINE d == req[r].d
               id == req[r].id
               pc == IF d.ht # {} THEN "effacer_lignes" ELSE "journal"
               l == LigneModifiee(factures[id], d, req[r].lu, req[r].ht)
    <2>1. /\ req[r].pc = "maj" /\ req[r] \in Contextes /\ RequeteOK(req[r])
          /\ d \in Modifications /\ id \in Ids /\ req[r].lu \in Lignes
          /\ req[r].ht \in Int
        BY <1>10 DEF TypeOK, Maj, A, RequeteOK, Contextes
    <2>2. factures' = [factures EXCEPT ![id] = IF @ = Neant THEN Neant ELSE l]
        BY <1>10 DEF Maj, MettreAJour
    <2>3. factures[id] # Neant => l \in Lignes
        BY <2>1, LigneModifieeType DEF TypeOK
    <2> HIDE DEF l
    <2>4. factures' \in [Ids -> Lignes \cup {Neant}]
        BY <2>1, <2>2, <2>3 DEF TypeOK
    <2>5. pc \in Etapes /\ RequeteOK([req[r] EXCEPT !.pc = pc])
        BY <2>1, OperationType DEF RequeteOK, Contextes, Etapes
    <2>6. Aller(r, pc)
        BY <1>10 DEF Maj
    <2> HIDE DEF pc
    <2> QED BY <1>10, <2>4, <2>5, <2>6, AllerType DEF TypeOK, Maj
<1>11. ASSUME NEW r \in Requetes, ChangerStatut(r) PROVE TypeOK'
    <2> DEFINE id == req[r].id
               l == [factures[id] EXCEPT !.statut = req[r].d.statut]
    <2>1. /\ req[r].pc = "statut" /\ req[r] \in Contextes /\ RequeteOK(req[r])
          /\ req[r].d \in ChangementsStatut /\ id \in Ids
          /\ Aller(r, "journal")
        BY <1>11 DEF TypeOK, ChangerStatut, A, RequeteOK
    <2>2. factures' = [factures EXCEPT ![id] = IF @ = Neant THEN Neant ELSE l]
        BY <1>11 DEF ChangerStatut, MettreAJour
    <2>3. factures[id] # Neant => l \in Lignes
        <3>1. req[r].d.statut \in Statuts
            BY <2>1, DonneesAssumption DEF ChangementsStatut
        <3> QED BY <2>1, <3>1, LigneStatutType DEF TypeOK
    <2> HIDE DEF l
    <2>4. factures' \in [Ids -> Lignes \cup {Neant}]
        BY <2>1, <2>2, <2>3 DEF TypeOK
    <2>5. RequeteOK([req[r] EXCEPT !.pc = "journal"])
        BY <2>1, OperationType DEF RequeteOK, Contextes
    <2> QED BY <1>11, <2>1, <2>4, <2>5, AllerType
            DEF TypeOK, ChangerStatut, Etapes
<1>12. ASSUME NEW r \in Requetes, Payer(r) PROVE TypeOK'
    <2>1. /\ req[r].pc = "payer" /\ req[r] \in Contextes /\ RequeteOK(req[r])
          /\ Aller(r, "solder") /\ req[r].d \in Reglements
        BY <1>12 DEF TypeOK, Payer, A, RequeteOK
    <2>2. RequeteOK([req[r] EXCEPT !.pc = "solder"])
        BY <2>1 DEF RequeteOK, Contextes
    <2>3. req[r].d.montant \in Int
        BY <2>1, MontantsType
    <2>4. paiements' \in [Ids -> Int]
        <3> DEFINE m == req[r].d.montant
        <3>1. /\ paiements \in [Ids -> Int] /\ req[r].id \in Ids
              /\ paiements' = [paiements EXCEPT ![req[r].id] = @ + m]
            BY <1>12, <2>1 DEF TypeOK, Payer, RequeteOK
        <3> HIDE DEF m
        <3>2. m \in Int
            BY <2>3 DEF m
        <3> QED BY <3>1, <3>2, TableModifiee
    <2> QED BY <1>12, <2>1, <2>2, <2>4, AllerType DEF TypeOK, Payer, Etapes
<1>13. ASSUME NEW r \in Requetes, Solder(r) PROVE TypeOK'
    <2> DEFINE id == req[r].id
               l == LignePayee(factures[id], req[r].lu, req[r].d.montant)
    <2>1. /\ req[r].pc = "solder" /\ req[r] \in Contextes /\ RequeteOK(req[r])
          /\ req[r].d \in Reglements /\ id \in Ids /\ req[r].lu \in Lignes
          /\ Aller(r, "journal")
        BY <1>13 DEF TypeOK, Solder, A, RequeteOK
    <2>2. factures' = [factures EXCEPT ![id] = IF @ = Neant THEN Neant ELSE l]
        BY <1>13 DEF Solder, MettreAJour
    <2>3. factures[id] # Neant => l \in Lignes
        <3>1. req[r].d.montant \in Int
            BY <2>1, MontantsType
        <3> QED BY <2>1, <3>1, LignePayeeType DEF TypeOK
    <2> HIDE DEF l
    <2>4. factures' \in [Ids -> Lignes \cup {Neant}]
        BY <2>1, <2>2, <2>3 DEF TypeOK
    <2>5. RequeteOK([req[r] EXCEPT !.pc = "journal"])
        BY <2>1, OperationType DEF RequeteOK, Contextes
    <2> QED BY <1>13, <2>1, <2>4, <2>5, AllerType DEF TypeOK, Solder, Etapes
<1>14. ASSUME NEW r \in Requetes, SupprLignes(r) PROVE TypeOK'
    <2>1. /\ req[r].pc = "suppr_lignes" /\ req[r] \in Contextes
          /\ RequeteOK(req[r]) /\ req[r].id \in Ids /\ Aller(r, "suppr_paiements")
        BY <1>14 DEF TypeOK, SupprLignes, A, RequeteOK
    <2>2. RequeteOK([req[r] EXCEPT !.pc = "suppr_paiements"])
        BY <2>1 DEF RequeteOK, Contextes
    <2>3. lignes' \in [Ids -> Int]
        BY <1>14, <2>1 DEF TypeOK, SupprLignes
    <2> QED BY <1>14, <2>1, <2>2, <2>3, AllerType DEF TypeOK, SupprLignes, Etapes
<1>15. ASSUME NEW r \in Requetes, SupprPaiements(r) PROVE TypeOK'
    <2>1. /\ req[r].pc = "suppr_paiements" /\ req[r] \in Contextes
          /\ RequeteOK(req[r]) /\ req[r].id \in Ids /\ Aller(r, "suppr_facture")
        BY <1>15 DEF TypeOK, SupprPaiements, A, RequeteOK
    <2>2. RequeteOK([req[r] EXCEPT !.pc = "suppr_facture"])
        BY <2>1 DEF RequeteOK, Contextes
    <2>3. paiements' \in [Ids -> Int] /\ purges' \subseteq Ids
        BY <1>15, <2>1 DEF TypeOK, SupprPaiements
    <2> QED BY <1>15, <2>1, <2>2, <2>3, AllerType DEF TypeOK, SupprPaiements, Etapes
<1>16. ASSUME NEW r \in Requetes, SupprFacture(r) PROVE TypeOK'
    <2>1. /\ req[r].pc = "suppr_facture" /\ req[r] \in Contextes
          /\ RequeteOK(req[r]) /\ req[r].id \in Ids /\ Aller(r, "journal")
        BY <1>16 DEF TypeOK, SupprFacture, A, RequeteOK
    <2>2. RequeteOK([req[r] EXCEPT !.pc = "journal"])
        BY <2>1, OperationType DEF RequeteOK, Contextes
    <2>3. factures' \in [Ids -> Lignes \cup {Neant}]
        BY <1>16, <2>1 DEF TypeOK, SupprFacture
    <2> QED BY <1>16, <2>1, <2>2, <2>3, AllerType DEF TypeOK, SupprFacture, Etapes
<1>17. ASSUME NEW r \in Requetes, Journaliser(r) PROVE TypeOK'
    <2> DEFINE d == req[r].d
               id == req[r].id
    <2>1. /\ req[r].pc = "journal" /\ req[r] \in Contextes
          /\ RequeteOK(req[r]) /\ d \in Demandes /\ id \in Ids \cup {0}
        BY <1>17 DEF TypeOK, Journaliser, A, RequeteOK, Contextes
    <2>2. journal' \subseteq Operations \X (Ids \cup {0})
        BY <1>17, <2>1, DemandeType DEF TypeOK, Journaliser
    <2>3. paiementsAudites' \in [Ids -> Int]
        <3>1. CASE d.op = "payer"
            <4>1. d \in Reglements
                BY <2>1, <3>1, DemandeType
            <4> DEFINE m == d.montant
            <4>2. /\ paiementsAudites \in [Ids -> Int] /\ id \in Ids
                  /\ paiementsAudites' = [paiementsAudites EXCEPT ![id] = @ + m]
                BY <1>17, <2>1, <3>1 DEF TypeOK, Journaliser, RequeteOK
            <4>3. m \in Int
                BY <4>1, MontantsType
            <4> HIDE DEF m
            <4> QED BY <4>2, <4>3, TableModifiee
        <3>2. CASE d.op # "payer"
            BY <1>17, <3>2 DEF TypeOK, Journaliser
        <3> QED BY <3>1, <3>2
    <2>4. Aller(r, "notifier") \/ Finir(r)
        BY <1>17 DEF Journaliser
    <2>5. RequeteOK([req[r] EXCEPT !.pc = "notifier"])
        BY <2>1 DEF RequeteOK, Contextes
    <2>6. /\ req' \in [Requetes -> Contextes]
          /\ \A s \in Requetes : RequeteOK(req'[s])
        <3>1. "notifier" \in Etapes
            BY DEF Etapes
        <3> QED BY <2>4, <2>5, <3>1, AllerType, FinirType
    <2> QED BY <1>17, <2>2, <2>3, <2>6 DEF TypeOK, Journaliser
<1>18. ASSUME NEW r \in Requetes, Notifier(r) PROVE TypeOK'
    <2>1. /\ req[r].pc = "notifier" /\ req[r] \in Contextes
          /\ req[r].d \in Demandes /\ req[r].id \in Ids \cup {0}
        BY <1>18 DEF TypeOK, Notifier, A, RequeteOK, Contextes
    <2>2. notifications' \subseteq Operations \X (Ids \cup {0})
        BY <1>18, <2>1, DemandeType DEF TypeOK, Notifier
    <2> QED BY <1>18, <2>2, FinirType DEF TypeOK, Notifier
<1>19. ASSUME NEW r \in Requetes, Echouer(r) PROVE TypeOK'
    BY <1>19, FinirType DEF TypeOK, Echouer, tables
<1> QED BY <1>1, <1>2, <1>3, <1>4, <1>5, <1>6, <1>7, <1>8, <1>9, <1>10, <1>11,
           <1>12, <1>13, <1>14, <1>15, <1>16, <1>17, <1>18, <1>19
        DEF Next, Avancer

\* The tables keep their types and every handler works on data of its kind.
THEOREM TypeCorrecte == Spec => []TypeOK
<1> QED BY TypeInit, TypePas, PTL DEF Spec
-----------------------------------------------------------------------------
\* The step a handler is at after Aller and after Finir.
LEMMA AllerEffet ==
    ASSUME TypeOK, NEW r \in Requetes, NEW pc, Aller(r, pc)
    PROVE  /\ \A s \in Requetes \ {r} : req'[s] = req[s]
           /\ req'[r].pc = pc /\ req'[r].d = req[r].d
           /\ req'[r].id = req[r].id /\ req'[r].lu = req[r].lu
BY DEF TypeOK, Aller, Contextes

\* The step a handler is at after it ends.
LEMMA FinirEffet ==
    ASSUME TypeOK, NEW r \in Requetes, Finir(r)
    PROVE  /\ \A s \in Requetes \ {r} : req'[s] = req[s]
           /\ req'[r].pc = "repos"
BY DEF TypeOK, Finir, Repos

\* The ids of the sequence, whatever the amounts and their signs.
InvIds == TypeOK /\ IdsAttribues

\* A step that writes no invoice at an id not yet given keeps the ids in order
\* if its request does.
LEMMA CadreIds ==
    ASSUME InvIds, TypeOK', NEW r \in Requetes,
           \A s \in Requetes \ {r} : req'[s] = req[s],
           prochain' >= prochain,
           \A i \in Ids : \/ factures'[i] = factures[i]
                          \/ factures'[i] = Neant
                          \/ factures[i] # Neant \/ i < prochain',
           req'[r].pc \in {"lire_lignes", "maj", "payer", "solder"} =>
              req'[r].id < prochain
    PROVE  InvIds'
<1>1. prochain \in Int /\ prochain' \in Int /\ Ids \subseteq Int
    BY BornesAssumption DEF InvIds, TypeOK, Ids
<1>2. ASSUME NEW i \in Ids, i >= prochain' PROVE factures'[i] = Neant
    <2>1. i \in Int /\ i >= prochain /\ ~(i < prochain')
        BY <1>1, <1>2
    <2>2. factures[i] = Neant
        BY <2>1 DEF InvIds, IdsAttribues
    <2> QED BY <2>1, <2>2
<1>3. ASSUME NEW s \in Requetes,
             req'[s].pc \in {"lire_lignes", "maj", "payer", "solder"}
      PROVE  req'[s].id < prochain'
    <2>1. RequeteOK(req'[s])
        BY DEF TypeOK, RequeteOK
    <2>2. req'[s].id \in Int
        BY <1>1, <1>3, <2>1 DEF RequeteOK
    <2>3. req'[s].id < prochain
        <3>1. CASE s = r
            BY <1>3, <3>1
        <3>2. CASE s # r
            BY <1>3, <3>2 DEF InvIds, IdsAttribues
        <3> QED BY <3>1, <3>2
    <2> QED BY <1>1, <2>2, <2>3
<1> QED BY <1>2, <1>3 DEF InvIds, IdsAttribues

\* Ids of the sequence stay unused until createFacture takes them.
LEMMA IdsPas == InvIds /\ [Next]_vars => InvIds'
<1> SUFFICES ASSUME InvIds, [Next]_vars PROVE InvIds'
    OBVIOUS
<1>0. TypeOK /\ TypeOK' /\ prochain \in Int /\ prochain' \in Int
    <2>1. TypeOK /\ TypeOK'
        BY TypePas DEF InvIds
    <2> QED BY <2>1, BornesAssumption DEF TypeOK
<1> USE DEF A
\* Steps that leave the sequence alone and create no invoice.
<1>a. ASSUME NEW r \in Requetes, \A s \in Requetes \ {r} : req'[s] = req[s],
             prochain' = prochain,
             \A i \in Ids : factures'[i] = factures[i] \/ factures'[i] = Neant
                            \/ factures[i] # Neant,
             \/ req'[r].pc \notin {"lire_lignes", "maj", "payer", "solder"}
             \/ /\ req[r].pc \in {"lire_lignes", "maj", "payer", "solder"}
                /\ req'[r].id = req[r].id
      PROVE  InvIds'
    <2>1. req'[r].pc \in {"lire_lignes", "maj", "payer", "solder"} =>
             req'[r].id < prochain
        BY <1>a DEF InvIds, IdsAttribues
    <2> QED BY <1>0, <1>a, <2>1, CadreIds
<1>b. ASSUME NEW id \in Ids, NEW l, MettreAJour(id, l)
      PROVE  \A i \in Ids : \/ factures'[i] = factures[i]
                            \/ factures'[i] = Neant \/ factures[i] # Neant
    BY <1>0, <1>b DEF MettreAJour, TypeOK
<1>1. CASE UNCHANGED vars
    BY <1>1 DEF vars, tables, InvIds, IdsAttribues, TypeOK, RequeteOK
<1>2. ASSUME NEW r \in Requetes, Recevoir(r) PROVE InvIds'
    <2>1. /\ \A s \in Requetes \ {r} : req'[s] = req[s]
          /\ req'[r].pc \notin {"lire_lignes", "maj", "payer", "solder"}
        BY <1>0, <1>2 DEF TypeOK, Recevoir, Debut
    <2> QED BY <1>2, <1>a, <2>1 DEF Recevoir, tables
<1>3. ASSUME NEW r \in Requetes, Inserer(r) PROVE InvIds'
    <2>1. /\ \A s \in Requetes \ {r} : req'[s] = req[s]
          /\ req'[r].pc = "effacer_lignes"
        BY <1>0, <1>3 DEF TypeOK, Inserer, Contextes
    <2>2. \A i \in Ids : factures'[i] = factures[i] \/ i < prochain'
        BY <1>0, <1>3 DEF Inserer, TypeOK
    <2>3. prochain' >= prochain
        BY <1>0, <1>3 DEF Inserer
    <2> QED BY <1>0, <2>1, <2>2, <2>3, CadreIds
<1>4. ASSUME NEW r \in Requetes,
             \/ RefuserInsertion(r) \/ Notifier(r) \/ Echouer(r)
      PROVE  InvIds'
    BY <1>0, <1>4, <1>a, FinirEffet DEF RefuserInsertion, Notifier, Echouer, tables
<1>5. ASSUME NEW r \in Requetes, EffacerLignes(r) \/ EnregistrerAcompte(r)
      PROVE  InvIds'
    BY <1>0, <1>5, <1>a, AllerEffet DEF EffacerLignes, EnregistrerAcompte
<1>6. ASSUME NEW r \in Requetes, EcrireLignes(r) PROVE InvIds'
    <2>1. PICK pc \in {"acompte", "journal"} : Aller(r, pc)
        BY <1>6 DEF EcrireLignes
    <2> QED BY <1>0, <1>6, <1>a, <2>1, AllerEffet DEF EcrireLignes
<1>7. ASSUME NEW r \in Requetes, Lire(r) PROVE InvIds'
    <2>1. CASE Finir(r)
        BY <1>0, <1>7, <1>a, <2>1, FinirEffet DEF Lire, tables
    <2>2. CASE ~Finir(r)
        <3>1. /\ \A s \in Requetes \ {r} : req'[s] = req[s]
              /\ req'[r].id = req[r].id /\ req[r].id \in Ids
              /\ factures[req[r].id] # Neant
              /\ prochain' = prochain /\ factures' = factures
            BY <1>0, <1>7, <2>2 DEF Lire, Accepte, TypeOK, RequeteOK, Contextes, tables
        <3>2. req[r].id \in Int /\ req[r].id < prochain
            BY <1>0, <3>1 DEF InvIds, IdsAttribues, Ids
        <3> QED BY <1>0, <3>1, <3>2, CadreIds
    <2> QED BY <2>1, <2>2
<1>8. ASSUME NEW r \in Requetes, LireLignes(r) PROVE InvIds'
    <2>1. /\ \A s \in Requetes \ {r} : req'[s] = req[s]
          /\ req'[r].id = req[r].id /\ req[r].pc = "lire_lignes"
        BY <1>0, <1>8 DEF TypeOK, LireLignes, Contextes
    <2> QED BY <1>8, <1>a, <2>1 DEF LireLignes, tables
<1>9. ASSUME NEW r \in Requetes, Maj(r) PROVE InvIds'
    <2>1. PICK pc \in {"effacer_lignes", "journal"} : Aller(r, pc)
        BY <1>9 DEF Maj
    <2>2. PICK l : MettreAJour(req[r].id, l)
        BY <1>9 DEF Maj
    <2>3. req[r].id \in Ids
        BY <1>0, <1>9 DEF Maj, TypeOK, RequeteOK
    <2> QED BY <1>0, <1>9, <1>a, <1>b, <2>1, <2>2, <2>3, AllerEffet DEF Maj
<1>10. ASSUME NEW r \in Requetes, ChangerStatut(r) \/ Solder(r) PROVE InvIds'
    <2>1. PICK l : MettreAJour(req[r].id, l)
        BY <1>10 DEF ChangerStatut, Solder
    <2>2. req[r].id \in Ids
        BY <1>0, <1>10 DEF ChangerStatut, Solder, TypeOK, RequeteOK
    <2> QED BY <1>0, <1>10, <1>a, <1>b, <2>1, <2>2, AllerEffet
            DEF ChangerStatut, Solder
<1>11. ASSUME NEW r \in Requetes, Payer(r) PROVE InvIds'
    BY <1>0, <1>11, <1>a, AllerEffet DEF Payer
<1>12. ASSUME NEW r \in Requetes, SupprLignes(r) \/ SupprPaiements(r)
       PROVE  InvIds'
    BY <1>0, <1>12, <1>a, AllerEffet DEF SupprLignes, SupprPaiements
<1>13. ASSUME NEW r \in Requetes, SupprFacture(r) PROVE InvIds'
    <2>1. \A i \in Ids : factures'[i] = factures[i] \/ factures'[i] = Neant
        BY <1>0, <1>13 DEF SupprFacture, TypeOK
    <2> QED BY <1>0, <1>13, <1>a, <2>1, AllerEffet DEF SupprFacture
<1>14. ASSUME NEW r \in Requetes, Journaliser(r) PROVE InvIds'
    <2>1. Aller(r, "notifier") \/ Finir(r)
        BY <1>14 DEF Journaliser
    <2> QED BY <1>0, <1>14, <1>a, <2>1, AllerEffet, FinirEffet DEF Journaliser
<1> QED BY <1>1, <1>2, <1>3, <1>4, <1>5, <1>6, <1>7, <1>8, <1>9, <1>10, <1>11,
           <1>12, <1>13, <1>14 DEF Next, Avancer

\* No id is given at the start.
LEMMA IdsInit == Init => InvIds
<1> SUFFICES ASSUME Init PROVE InvIds
    OBVIOUS
<1>1. /\ \A i \in Ids : factures[i] = Neant
      /\ \A r \in Requetes : req[r].pc = "repos"
    BY DEF Init, Repos
<1> QED BY <1>1, TypeInit DEF InvIds, IdsAttribues
-----------------------------------------------------------------------------
\* What LectureCouverte and IdsAttribues say of one request.
RequeteCouverte(r) ==
    /\ req[r].pc \in {"lire_lignes", "maj", "payer", "solder"} =>
          req[r].id < prochain
    /\ req[r].id \notin purges =>
          /\ req[r].pc \in {"lire_lignes", "maj", "payer"} =>
                req[r].lu.montant_paye <= Couverture(req[r].id)
          /\ req[r].pc = "solder" =>
                req[r].lu.montant_paye + req[r].d.montant
                  <= Couverture(req[r].id)

\* The invariants on snapshots, cut into one statement per request.
LEMMA Decoupage ==
    LectureCouverte /\ IdsAttribues /\ PaiementsPositifs
      <=> /\ \A r \in Requetes : RequeteCouverte(r)
          /\ \A i \in Ids : paiements[i] >= 0
                             /\ (i >= prochain => factures[i] = Neant)
BY DEF LectureCouverte, IdsAttribues, PaiementsPositifs, RequeteCouverte

\* The same about the next state.
LEMMA DecoupageSuivant ==
    LectureCouverte' /\ IdsAttribues' /\ PaiementsPositifs'
      <=> /\ \A r \in Requetes : RequeteCouverte(r)'
          /\ \A i \in Ids : paiements'[i] >= 0
                             /\ (i >= prochain' => factures'[i] = Neant)
BY DEF LectureCouverte, IdsAttribues, PaiementsPositifs, RequeteCouverte

\* A snapshot that is written back concerns an invoice that was created.
LEMMA LuType ==
    ASSUME TypeOK, NEW s \in Requetes,
           req[s].pc \in {"lire_lignes", "maj", "payer", "solder"}
    PROVE  /\ req[s].id \in Ids /\ req[s].lu.montant_paye \in Int
           /\ req[s].pc = "solder" => req[s].d.montant \in Int
<1>1. RequeteOK(req[s])
    BY DEF TypeOK
<1>2. req[s].id \in Ids /\ req[s].lu \in Lignes
    BY <1>1 DEF RequeteOK
<1>3. req[s].pc = "solder" => req[s].d \in Reglements
    BY <1>1 DEF RequeteOK
<1> QED BY <1>2, <1>3, MontantsType DEF Lignes

\* The money recorded for an invoice is an integer.
LEMMA CouvertureType ==
    ASSUME TypeOK, NEW i \in Ids PROVE Couverture(i) \in Int
BY DEF TypeOK, Couverture

\* So it is in the next state.
LEMMA CouvertureTypeSuivante ==
    ASSUME TypeOK', NEW i \in Ids PROVE Couverture(i)' \in Int
BY DEF TypeOK, Couverture

\* A step of one request preserves the invariant when it takes no money away
\* from an invoice whose payments are kept, covers the rows it writes and
\* leaves its own request covered.
LEMMA Cadre ==
    ASSUME InvCouverture, TypeOK', NEW r \in Requetes,
           \A s \in Requetes \ {r} : req'[s] = req[s],
           purges \subseteq purges', prochain' >= prochain,
           \A i \in Ids \ purges' :
               i < prochain => Couverture(i)' >= Couverture(i),
           \A i \in Ids : paiements'[i] >= 0,
           \A i \in Ids : factures'[i] # factures[i] /\ factures'[i] # Neant =>
               /\ i < prochain'
               /\ i \notin purges' =>
                     factures'[i].montant_paye <= Couverture(i)',
           RequeteCouverte(r)'
    PROVE  InvCouverture'
<1>1. /\ TypeOK /\ PayeCouvert
      /\ \A s \in Requetes : RequeteCouverte(s)
      /\ \A i \in Ids : i >= prochain => factures[i] = Neant
    BY Decoupage DEF InvCouverture
<1>2. prochain \in Int /\ prochain' \in Int /\ Ids \subseteq Int
    BY <1>1, BornesAssumption DEF TypeOK, Ids
<1>3. PayeCouvert'
    <2> SUFFICES ASSUME NEW i \in Ids \ purges', factures'[i] # Neant
                 PROVE  factures'[i].montant_paye <= Couverture(i)'
        BY DEF PayeCouvert
    <2>1. CASE factures'[i] # factures[i]
        BY <2>1
    <2>2. CASE factures'[i] = factures[i]
        <3>1. i < prochain
            BY <1>1, <1>2, <2>2
        <3>2. factures[i] \in Lignes
            BY <1>1, <2>2 DEF TypeOK
        <3>3. factures[i].montant_paye \in Int
            BY <3>2 DEF Lignes
        <3>4. factures[i].montant_paye <= Couverture(i)
            BY <1>1, <2>2 DEF PayeCouvert
        <3>5. Couverture(i)' >= Couverture(i)
            BY <3>1
        <3> QED BY <1>1, <2>2, <3>3, <3>4, <3>5, CouvertureType,
                   CouvertureTypeSuivante
    <2> QED BY <2>1, <2>2
<1>4. ASSUME NEW s \in Requetes PROVE RequeteCouverte(s)'
    <2>1. CASE s = r
        BY <2>1
    <2>2. CASE s # r /\ req[s].pc \in {"lire_lignes", "maj", "payer", "solder"}
        <3>1. req'[s] = req[s] /\ RequeteCouverte(s)
            BY <1>1, <2>2
        <3>2. /\ req[s].id \in Ids /\ req[s].lu.montant_paye \in Int
              /\ req[s].pc = "solder" => req[s].d.montant \in Int
            BY <1>1, <2>2, LuType
        <3>3. req[s].id < prochain
            BY <2>2, <3>1 DEF RequeteCouverte
        <3>4. PICK i \in Ids, paye \in Int :
                i = req[s].id /\ paye = req[s].lu.montant_paye
            BY <3>2
        <3>5. Couverture(i) \in Int /\ Couverture(i)' \in Int
            BY <1>1, CouvertureType, CouvertureTypeSuivante
        <3>6. i < prochain /\ i < prochain'
            BY <1>2, <3>3, <3>4
        <3>7. ASSUME i \notin purges' PROVE Couverture(i) <= Couverture(i)'
            BY <3>5, <3>6, <3>7
        <3>8. ASSUME i \notin purges', req[s].pc # "solder"
              PROVE  paye <= Couverture(i)'
            <4>1. paye <= Couverture(i)
                BY <2>2, <3>1, <3>4, <3>8 DEF RequeteCouverte
            <4> QED BY <3>5, <3>7, <3>8, <4>1
        <3>9. ASSUME i \notin purges', req[s].pc = "solder"
              PROVE  paye + req[s].d.montant <= Couverture(i)'
            <4>1. paye + req[s].d.montant <= Couverture(i)
                BY <3>1, <3>4, <3>9 DEF RequeteCouverte
            <4> QED BY <3>2, <3>5, <3>7, <3>9, <4>1
        <3>10. /\ i < prochain'
               /\ i \notin purges' =>
                    /\ req[s].pc \in {"lire_lignes", "maj", "payer"} =>
                          paye <= Couverture(i)'
                    /\ req[s].pc = "solder" =>
                          paye + req[s].d.montant <= Couverture(i)'
            BY <3>6, <3>8, <3>9
        <3> QED BY <3>1, <3>4, <3>10 DEF RequeteCouverte, Couverture
    <2>3. CASE s # r /\ req[s].pc \notin {"lire_lignes", "maj", "payer", "solder"}
        BY <2>3 DEF RequeteCouverte
    <2> QED BY <2>1, <2>2, <2>3
<1>5. ASSUME NEW i \in Ids, i >= prochain' PROVE factures'[i] = Neant
    <2>1. i \in Int /\ ~(i < prochain') /\ i >= prochain
        BY <1>2, <1>5
    <2>2. factures[i] = Neant
        BY <1>1, <2>1
    <2> QED BY <2>1, <2>2
<1>6. \A s \in Requetes : RequeteCouverte(s)'
    BY <1>4
<1>7. \A i \in Ids : paiements'[i] >= 0 /\ (i >= prochain' => factures'[i] = Neant)
    BY <1>5
<1>8. LectureCouverte' /\ IdsAttribues' /\ PaiementsPositifs'
    BY ONLY <1>6, <1>7, DecoupageSuivant
<1> QED BY <1>3, <1>8 DEF InvCouverture

\* No invoice exists at the start, and no snapshot is held.
THEOREM CouvertureInit == Init => InvCouverture
<1> SUFFICES ASSUME Init PROVE InvCouverture
    OBVIOUS
<1>1. TypeOK
    BY TypeInit
<1>2. PayeCouvert
    BY DEF Init, PayeCouvert
<1>3. LectureCouverte
    BY DEF Init, LectureCouverte, Repos
<1>4. IdsAttribues
    <2>1. \A i \in Ids : paiements[i] = 0 /\ factures[i] = Neant
        BY DEF Init
    <2>2. \A r \in Requetes : req[r].pc = "repos"
        BY DEF Init, Repos
    <2> QED BY <2>1, <2>2 DEF IdsAttribues
<1>5. PaiementsPositifs
    BY DEF Init, PaiementsPositifs
<1> QED BY <1>1, <1>2, <1>3, <1>4, <1>5 DEF InvCouverture

\* Steps that touch neither money nor an invoice that shows money.
LEMMA CadreNeutre ==
    ASSUME InvCouverture, TypeOK', NEW r \in Requetes,
           \A s \in Requetes \ {r} : req'[s] = req[s],
           UNCHANGED <<factures, paiements, acompteDu, purges, prochain>>,
           req'[r].pc \notin {"lire_lignes", "maj", "payer", "solder"}
    PROVE  InvCouverture'
<1>1. \A i \in Ids : Couverture(i)' = Couverture(i)
    BY DEF Couverture
<1>2. \A i \in Ids : Couverture(i) \in Int /\ paiements[i] >= 0
    BY CouvertureType, Decoupage DEF InvCouverture
<1>3. RequeteCouverte(r)'
    BY DEF RequeteCouverte
<1>4. prochain' >= prochain
    BY BornesAssumption DEF InvCouverture, TypeOK
<1> QED BY <1>1, <1>2, <1>3, <1>4, Cadre

\* Every step keeps what an invoice shows as paid, and every snapshot that
\* will be written back, within the money recorded.
THEOREM CouverturePas ==
    ASSUME Montants \subseteq Nat
    PROVE  InvCouverture /\ [Next]_vars => InvCouverture'
<1> SUFFICES ASSUME InvCouverture, [Next]_vars PROVE InvCouverture'
    OBVIOUS
<1>0. TypeOK /\ TypeOK'
    BY TypePas DEF InvCouverture
<1> DEFINE Croit == \A i \in Ids \ purges' :
                       i < prochain => Couverture(i)' >= Couverture(i)
<1>1. CASE UNCHANGED vars
    BY <1>1 DEF vars, tables, InvCouverture, TypeOK, RequeteOK, PayeCouvert,
                LectureCouverte, IdsAttribues, PaiementsPositifs, Couverture
<1>2. ASSUME NEW r \in Requetes, Recevoir(r) PROVE InvCouverture'
    <2>1. /\ \A s \in Requetes \ {r} : req'[s] = req[s]
          /\ req'[r].pc \notin {"lire_lignes", "maj", "payer", "solder"}
        BY <1>0, <1>2 DEF TypeOK, Recevoir, Debut
    <2> QED BY <1>0, <1>2, <2>1, CadreNeutre DEF Recevoir, tables
<1>3. ASSUME NEW r \in Requetes, Inserer(r) PROVE InvCouverture'
    <2>1. PICK a \in Int :
            /\ LigneNeuve(req[r].d).montant_paye = a
            /\ acompteDu' = [acompteDu EXCEPT ![prochain] = a]
        <3>1. req[r].d \in Creations
            BY <1>0, <1>3 DEF TypeOK, Inserer, A, RequeteOK
        <3> QED BY <1>3, <3>1, LigneNeuveType, MontantsType DEF Inserer
    <2>2. /\ prochain \in Ids /\ prochain \in Int /\ prochain' = prochain + 1
          /\ factures' = [factures EXCEPT ![prochain] = LigneNeuve(req[r].d)]
          /\ paiements' = paiements /\ purges' = purges
        BY <1>3, BornesAssumption DEF Inserer, Inserable, Ids
    <2>3. /\ \A s \in Requetes \ {r} : req'[s] = req[s]
          /\ req'[r].pc = "effacer_lignes"
        BY <1>0, <1>3 DEF TypeOK, Inserer, Contextes
    <2>4. \A i \in Ids : paiements[i] \in Int /\ paiements[i] >= 0
        BY <1>0 DEF InvCouverture, PaiementsPositifs, TypeOK
    <2>5. \A i \in Ids : i < prochain => Couverture(i)' = Couverture(i)
        BY <1>0, <2>1, <2>2 DEF Couverture, TypeOK
    <2>6. Couverture(prochain) \in Int /\ a <= paiements'[prochain] + acompteDu'[prochain]
        BY <1>0, <2>1, <2>2, <2>4, CouvertureType DEF TypeOK
    <2>7. Croit
        BY <1>0, <2>5, CouvertureType
    <2>8. \A i \in Ids : factures'[i] # factures[i] /\ factures'[i] # Neant =>
              /\ i < prochain'
              /\ i \notin purges' =>
                    factures'[i].montant_paye <= Couverture(i)'
        BY <1>0, <2>1, <2>2, <2>6 DEF TypeOK, Couverture
    <2>9. RequeteCouverte(r)'
        BY <2>3 DEF RequeteCouverte
    <2>10. /\ purges \subseteq purges' /\ prochain' >= prochain
           /\ \A i \in Ids : paiements'[i] >= 0
        BY <2>2, <2>4
    <2> QED BY <1>0, <2>3, <2>7, <2>8, <2>9, <2>10, Cadre
<1>4. ASSUME NEW r \in Requetes, RefuserInsertion(r) PROVE InvCouverture'
    BY <1>0, <1>4, FinirEffet, CadreNeutre DEF RefuserInsertion, tables
<1>5. ASSUME NEW r \in Requetes, EffacerLignes(r) PROVE InvCouverture'
    BY <1>0, <1>5, AllerEffet, CadreNeutre DEF EffacerLignes
<1>6. ASSUME NEW r \in Requetes, EcrireLignes(r) PROVE InvCouverture'
    <2>1. PICK pc \in {"acompte", "journal"} : Aller(r, pc)
        BY <1>6 DEF EcrireLignes
    <2> QED BY <1>0, <1>6, <2>1, AllerEffet, CadreNeutre DEF EcrireLignes
<1>7. ASSUME NEW r \in Requetes, EnregistrerAcompte(r) PROVE InvCouverture'
    <2>1. PICK m \in Int :
            /\ m >= 0
            /\ paiements' = [paiements EXCEPT ![req[r].id] = @ + m]
            /\ acompteDu' = [acompteDu EXCEPT ![req[r].id] = @ - m]
        <3>1. req[r].d \in Creations /\ req[r].d.acompte > 0
            BY <1>0, <1>7 DEF TypeOK, EnregistrerAcompte, A, RequeteOK
        <3>2. req[r].d.acompte \in Int /\ req[r].d.acompte >= 0
            BY <3>1, MontantsType
        <3> QED BY <1>7, <3>2 DEF EnregistrerAcompte
    <2>2. /\ \A s \in Requetes \ {r} : req'[s] = req[s]
          /\ req'[r].pc = "journal"
        BY <1>0, <1>7, AllerEffet DEF EnregistrerAcompte
    <2>3. \A i \in Ids : /\ paiements[i] \in Int /\ paiements[i] >= 0
                         /\ acompteDu[i] \in Int
        BY <1>0 DEF InvCouverture, PaiementsPositifs, TypeOK
    <2>4. \A i \in Ids : paiements'[i] >= 0 /\ Couverture(i)' = Couverture(i)
        BY <1>0, <2>1, <2>3 DEF Couverture, TypeOK
    <2>5. /\ purges' = purges /\ prochain' = prochain /\ factures' = factures
          /\ prochain \in Int
        BY <1>0, <1>7, BornesAssumption DEF EnregistrerAcompte, TypeOK
    <2>6. Croit
        BY <1>0, <2>4, CouvertureType
    <2>7. RequeteCouverte(r)'
        BY <2>2 DEF RequeteCouverte
    <2>8. purges \subseteq purges' /\ prochain' >= prochain
        BY <2>5
    <2> QED BY <1>0, <2>2, <2>4, <2>5, <2>6, <2>7, <2>8, Cadre
<1>8. ASSUME NEW r \in Requetes, Lire(r) PROVE InvCouverture'
    <2>1. CASE Finir(r)
        BY <1>0, <1>8, <2>1, FinirEffet, CadreNeutre DEF Lire, tables
    <2>2. CASE Accepte(req[r].d, factures[req[r].id])
        <3>1. /\ purges \subseteq purges' /\ prochain' >= prochain
              /\ \A i \in Ids : paiements'[i] >= 0
              /\ \A i \in Ids : Couverture(i)' = Couverture(i) /\ Couverture(i) \in Int
            <4>1. /\ paiements' = paiements /\ acompteDu' = acompteDu
                  /\ purges' = purges /\ prochain' = prochain
                BY <1>8 DEF Lire, tables
            <4>2. prochain \in Int /\ \A i \in Ids : paiements[i] >= 0
                BY <1>0, BornesAssumption DEF InvCouverture, PaiementsPositifs, TypeOK
            <4> QED BY <1>0, <4>1, <4>2, CouvertureType DEF Couverture
        <3>2. PICK i \in Ids : i = req[r].id /\ factures[i] # Neant
            BY <1>0, <1>8, <2>2 DEF TypeOK, Lire, A, RequeteOK, Accepte
        <3>3. /\ \A s \in Requetes \ {r} : req'[s] = req[s]
              /\ req'[r].id = i /\ req'[r].lu = factures[i]
              /\ req'[r].pc # "solder"
            BY <1>0, <1>8, <2>2, <3>2 DEF TypeOK, Lire, Contextes, Suite
        <3>4. i < prochain /\ prochain' = prochain
            BY <1>0, <1>8, <3>2, BornesAssumption
               DEF InvCouverture, IdsAttribues, TypeOK, Lire, tables, Ids
        <3>5. i \notin purges => factures[i].montant_paye <= Couverture(i)
            BY <3>2 DEF InvCouverture, PayeCouvert
        <3>6. purges' = purges /\ factures' = factures
            BY <1>8 DEF Lire, tables
        <3>7. RequeteCouverte(r)'
            BY <3>1, <3>3, <3>4, <3>5, <3>6 DEF RequeteCouverte, Couverture
        <3>8. Croit
            BY <3>1
        <3> QED BY <1>0, <3>1, <3>3, <3>6, <3>7, <3>8, Cadre
    <2> QED BY <1>8, <2>1, <2>2 DEF Lire
<1>9. ASSUME NEW r \in Requetes, LireLignes(r) PROVE InvCouverture'
    <2>1. /\ purges \subseteq purges' /\ prochain' >= prochain
          /\ \A i \in Ids : paiements'[i] >= 0
          /\ \A i \in Ids : Couverture(i)' = Couverture(i) /\ Couverture(i) \in Int
        <3>1. /\ paiements' = paiements /\ acompteDu' = acompteDu
              /\ purges' = purges /\ prochain' = prochain
            BY <1>9 DEF LireLignes, tables
        <3>2. prochain \in Int /\ \A i \in Ids : paiements[i] >= 0
            BY <1>0, BornesAssumption DEF InvCouverture, PaiementsPositifs, TypeOK
        <3> QED BY <1>0, <3>1, <3>2, CouvertureType DEF Couverture
    <2>2. /\ \A s \in Requetes \ {r} : req'[s] = req[s]
          /\ req'[r].id = req[r].id /\ req'[r].lu = req[r].lu
          /\ req'[r].pc = "maj" /\ req[r].pc = "lire_lignes"
        BY <1>0, <1>9 DEF TypeOK, LireLignes, A, Contextes
    <2>3. factures' = factures /\ purges' = purges /\ prochain' = prochain
        BY <1>9 DEF LireLignes, tables
    <2>4. req[r].id \in Ids /\ RequeteCouverte(r)
        BY <1>0, <2>2, LuType, Decoupage DEF InvCouverture
    <2>5. RequeteCouverte(r)'
        BY <2>1, <2>2, <2>3, <2>4 DEF RequeteCouverte, Couverture
    <2>6. Croit
        BY <2>1
    <2> QED BY <1>0, <2>1, <2>2, <2>3, <2>5, <2>6, Cadre
<1>10. ASSUME NEW r \in Requetes, Maj(r) PROVE InvCouverture'
    <2>1. /\ purges \subseteq purges' /\ prochain' >= prochain
          /\ \A i \in Ids : paiements'[i] >= 0
          /\ \A i \in Ids : Couverture(i)' = Couverture(i) /\ Couverture(i) \in Int
        <3>1. /\ paiements' = paiements /\ acompteDu' = acompteDu
              /\ purges' = purges /\ prochain' = prochain
            BY <1>10 DEF Maj
        <3>2. prochain \in Int /\ \A i \in Ids : paiements[i] >= 0
            BY <1>0, BornesAssumption DEF InvCouverture, PaiementsPositifs, TypeOK
        <3> QED BY <1>0, <3>1, <3>2, CouvertureType DEF Couverture
    <2>2. /\ \A s \in Requetes \ {r} : req'[s] = req[s]
          /\ req'[r].pc \in {"effacer_lignes", "journal"}
        BY <1>0, <1>10, AllerEffet DEF Maj
    <2>3. /\ req[r].pc = "maj" /\ req[r].id \in Ids /\ req[r].lu \in Lignes
          /\ req[r].d \in Modifications /\ req[r].ht \in Int
          /\ prochain' = prochain /\ purges' = purges
        BY <1>0, <1>10 DEF TypeOK, Maj, A, RequeteOK, Contextes
    <2>4. PICK i, ligne :
            /\ i \in Ids /\ i = req[r].id
            /\ factures' = [factures EXCEPT ![i] = IF @ = Neant THEN Neant
                                                               ELSE ligne]
            /\ factures[i] # Neant => ligne.montant_paye = req[r].lu.montant_paye
        <3> DEFINE id == req[r].id
                   l == LigneModifiee(factures[id], req[r].d, req[r].lu, req[r].ht)
        <3>1. factures' = [factures EXCEPT ![id] = IF @ = Neant THEN Neant ELSE l]
            BY <1>10 DEF Maj, MettreAJour
        <3>2. factures[id] # Neant => l.montant_paye = req[r].lu.montant_paye
            BY <1>0, <2>3, LigneModifieeType DEF TypeOK
        <3> HIDE DEF l
        <3> QED BY <2>3, <3>1, <3>2
    <2>5. \A j \in Ids : factures'[j] # factures[j] /\ factures'[j] # Neant =>
              /\ j < prochain'
              /\ j \notin purges' =>
                    factures'[j].montant_paye <= Couverture(j)'
        <3>1. RequeteCouverte(r)
            BY Decoupage DEF InvCouverture
        <3>2. i < prochain /\ (i \notin purges =>
                                 req[r].lu.montant_paye <= Couverture(i))
            BY <2>3, <2>4, <3>1 DEF RequeteCouverte
        <3> QED BY <1>0, <2>1, <2>3, <2>4, <3>2 DEF TypeOK
    <2>6. RequeteCouverte(r)'
        BY <2>2 DEF RequeteCouverte
    <2>7. Croit
        BY <2>1
    <2> QED BY <1>0, <2>1, <2>2, <2>5, <2>6, <2>7, Cadre
<1>11. ASSUME NEW r \in Requetes, ChangerStatut(r) PROVE InvCouverture'
    <2>1. /\ purges \subseteq purges' /\ prochain' >= prochain
          /\ \A i \in Ids : paiements'[i] >= 0
          /\ \A i \in Ids : Couverture(i)' = Couverture(i) /\ Couverture(i) \in Int
        <3>1. /\ paiements' = paiements /\ acompteDu' = acompteDu
              /\ purges' = purges /\ prochain' = prochain
            BY <1>11 DEF ChangerStatut
        <3>2. prochain \in Int /\ \A i \in Ids : paiements[i] >= 0
            BY <1>0, BornesAssumption DEF InvCouverture, PaiementsPositifs, TypeOK
        <3> QED BY <1>0, <3>1, <3>2, CouvertureType DEF Couverture
    <2>2. /\ \A s \in Requetes \ {r} : req'[s] = req[s]
          /\ req'[r].pc \in {"journal"}
        BY <1>0, <1>11, AllerEffet DEF ChangerStatut
    <2>3. /\ req[r].pc = "statut" /\ req[r].id \in Ids /\ req[r].d \in ChangementsStatut
          /\ prochain' = prochain /\ purges' = purges
        BY <1>0, <1>11 DEF TypeOK, ChangerStatut, A, RequeteOK, Contextes
    <2>4. PICK i, ligne :
            /\ i \in Ids
            /\ factures' = [factures EXCEPT ![i] = IF @ = Neant THEN Neant
                                                               ELSE ligne]
            /\ factures[i] # Neant => ligne.montant_paye = factures[i].montant_paye
        <3> DEFINE id == req[r].id
                   l == [factures[id] EXCEPT !.statut = req[r].d.statut]
        <3>1. factures' = [factures EXCEPT ![id] = IF @ = Neant THEN Neant ELSE l]
            BY <1>11 DEF ChangerStatut, MettreAJour
        <3>3. req[r].d.statut \in Statuts
            BY <2>3, DonneesAssumption DEF ChangementsStatut
        <3>2. factures[id] # Neant => l.montant_paye = factures[id].montant_paye
            BY <1>0, <2>3, <3>3, LigneStatutType DEF TypeOK
        <3> HIDE DEF l
        <3> QED BY <2>3, <3>1, <3>2
    <2>5. \A j \in Ids : factures'[j] # factures[j] /\ factures'[j] # Neant =>
              /\ j < prochain'
              /\ j \notin purges' =>
                    factures'[j].montant_paye <= Couverture(j)'
        <3>1. prochain \in Int /\ i \in Int
            BY <1>0, <2>4, BornesAssumption DEF TypeOK, Ids
        <3>2. factures[i] # Neant =>
                 /\ i < prochain
                 /\ i \notin purges => factures[i].montant_paye <= Couverture(i)
            BY <2>4, <3>1 DEF InvCouverture, PayeCouvert, IdsAttribues
        <3> QED BY <1>0, <2>1, <2>3, <2>4, <3>2 DEF TypeOK
    <2>6. RequeteCouverte(r)'
        BY <2>2 DEF RequeteCouverte
    <2>7. Croit
        BY <2>1
    <2> QED BY <1>0, <2>1, <2>2, <2>5, <2>6, <2>7, Cadre
<1>12. ASSUME NEW r \in Requetes, Payer(r) PROVE InvCouverture'
    <2>1. PICK i \in Ids, m \in Int :
            /\ m >= 0 /\ i = req[r].id /\ m = req[r].d.montant
            /\ paiements' = [paiements EXCEPT ![i] = @ + m]
            /\ req[r].pc = "payer"
        <3>1. req[r].d \in Reglements /\ req[r].id \in Ids
            BY <1>0, <1>12 DEF TypeOK, Payer, A, RequeteOK
        <3>2. req[r].d.montant \in Nat
            BY <3>1 DEF Reglements
        <3>3. req[r].d.montant \in Int /\ req[r].d.montant >= 0
            BY <3>2
        <3> QED BY <1>12, <3>1, <3>3 DEF Payer, A
    <2>2. /\ \A s \in Requetes \ {r} : req'[s] = req[s]
          /\ req'[r].pc = "solder" /\ req'[r].id = i
          /\ req'[r].d.montant = m /\ req'[r].lu = req[r].lu
        BY <1>0, <1>12, <2>1, AllerEffet DEF Payer
    <2>3. /\ \A j \in Ids : /\ paiements[j] \in Int /\ paiements[j] >= 0
                            /\ acompteDu[j] \in Int
          /\ paiements \in [Ids -> Int] /\ prochain \in Int
        BY <1>0, BornesAssumption DEF InvCouverture, PaiementsPositifs, TypeOK
    <2>4. /\ purges' = purges /\ prochain' = prochain /\ factures' = factures
          /\ acompteDu' = acompteDu
        BY <1>12 DEF Payer
    <2>5. /\ \A j \in Ids : paiements'[j] >= 0 /\ Couverture(j)' >= Couverture(j)
          /\ Couverture(i)' = Couverture(i) + m
        BY <2>1, <2>3, <2>4 DEF Couverture
    <2>6. RequeteCouverte(r)'
        <3>1. RequeteCouverte(r)
            BY Decoupage DEF InvCouverture
        <3>2. i < prochain /\ (i \notin purges =>
                                 req[r].lu.montant_paye <= Couverture(i))
            BY <2>1, <3>1 DEF RequeteCouverte
        <3>3. req[r].lu.montant_paye \in Int /\ Couverture(i) \in Int
            BY <1>0, <2>1, LuType, CouvertureType
        <3>4. i \notin purges' =>
                 req[r].lu.montant_paye + m <= Couverture(i)'
            BY <2>4, <2>5, <3>2, <3>3
        <3> QED BY <2>2, <2>4, <3>2, <3>4 DEF RequeteCouverte, Couverture
    <2>7. Croit /\ purges \subseteq purges' /\ prochain' >= prochain
        BY <2>3, <2>4, <2>5
    <2> QED BY <1>0, <2>2, <2>4, <2>5, <2>6, <2>7, Cadre
<1>13. ASSUME NEW r \in Requetes, Solder(r) PROVE InvCouverture'
    <2>1. /\ purges \subseteq purges' /\ prochain' >= prochain
          /\ \A i \in Ids : paiements'[i] >= 0
          /\ \A i \in Ids : Couverture(i)' = Couverture(i) /\ Couverture(i) \in Int
        <3>1. /\ paiements' = paiements /\ acompteDu' = acompteDu
              /\ purges' = purges /\ prochain' = prochain
            BY <1>13 DEF Solder
        <3>2. prochain \in Int /\ \A i \in Ids : paiements[i] >= 0
            BY <1>0, BornesAssumption DEF InvCouverture, PaiementsPositifs, TypeOK
        <3> QED BY <1>0, <3>1, <3>2, CouvertureType DEF Couverture
    <2>2. /\ \A s \in Requetes \ {r} : req'[s] = req[s]
          /\ req'[r].pc \in {"journal"}
        BY <1>0, <1>13, AllerEffet DEF Solder
    <2>3. /\ req[r].pc = "solder" /\ req[r].id \in Ids /\ req[r].lu \in Lignes
          /\ req[r].d \in Reglements
          /\ prochain' = prochain /\ purges' = purges
        BY <1>0, <1>13 DEF TypeOK, Solder, A, RequeteOK, Contextes
    <2>4. PICK i, ligne :
            /\ i \in Ids /\ i = req[r].id
            /\ factures' = [factures EXCEPT ![i] = IF @ = Neant THEN Neant
                                                               ELSE ligne]
            /\ factures[i] # Neant =>
                 ligne.montant_paye = req[r].lu.montant_paye + req[r].d.montant
        <3> DEFINE id == req[r].id
                   l == LignePayee(factures[id], req[r].lu, req[r].d.montant)
        <3>1. factures' = [factures EXCEPT ![id] = IF @ = Neant THEN Neant ELSE l]
            BY <1>13 DEF Solder, MettreAJour
        <3>3. req[r].d.montant \in Int
            BY <2>3, MontantsType
        <3>2. factures[id] # Neant => l.montant_paye = 
                 req[r].lu.montant_paye + req[r].d.montant
            BY <1>0, <2>3, <3>3, LignePayeeType DEF TypeOK
        <3> HIDE DEF l
        <3> QED BY <2>3, <3>1, <3>2
    <2>5. \A j \in Ids : factures'[j] # factures[j] /\ factures'[j] # Neant =>
              /\ j < prochain'
              /\ j \notin purges' =>
                    factures'[j].montant_paye <= Couverture(j)'
        <3>1. RequeteCouverte(r)
            BY Decoupage DEF InvCouverture
        <3>2. i < prochain /\ (i \notin purges =>
                  req[r].lu.montant_paye + req[r].d.montant <= Couverture(i))
            BY <2>3, <2>4, <3>1 DEF RequeteCouverte
        <3> QED BY <1>0, <2>1, <2>3, <2>4, <3>2 DEF TypeOK
    <2>6. RequeteCouverte(r)'
        BY <2>2 DEF RequeteCouverte
    <2>7. Croit
        BY <2>1
    <2> QED BY <1>0, <2>1, <2>2, <2>5, <2>6, <2>7, Cadre
<1>14. ASSUME NEW r \in Requetes, SupprLignes(r) PROVE InvCouverture'
    BY <1>0, <1>14, AllerEffet, CadreNeutre DEF SupprLignes
<1>15. ASSUME NEW r \in Requetes, SupprPaiements(r) PROVE InvCouverture'
    <2>1. PICK i \in Ids :
            /\ paiements' = [paiements EXCEPT ![i] = 0]
            /\ purges' = purges \cup {i}
        BY <1>0, <1>15 DEF TypeOK, SupprPaiements, A, RequeteOK
    <2>2. /\ \A s \in Requetes \ {r} : req'[s] = req[s]
          /\ req'[r].pc = "suppr_facture"
        BY <1>0, <1>15, AllerEffet DEF SupprPaiements
    <2>3. /\ paiements \in [Ids -> Int] /\ prochain \in Int
          /\ \A j \in Ids : paiements[j] >= 0
        BY <1>0, BornesAssumption DEF InvCouverture, PaiementsPositifs, TypeOK
    <2>4. /\ prochain' = prochain /\ factures' = factures
          /\ acompteDu' = acompteDu
        BY <1>15 DEF SupprPaiements
    <2>5. /\ \A j \in Ids : paiements'[j] >= 0
          /\ \A j \in Ids \ purges' : Couverture(j)' = Couverture(j)
        BY <2>1, <2>3, <2>4 DEF Couverture
    <2>6. RequeteCouverte(r)'
        BY <2>2 DEF RequeteCouverte
    <2>7. Croit /\ purges \subseteq purges' /\ prochain' >= prochain
        BY <1>0, <2>1, <2>3, <2>4, <2>5, CouvertureType
    <2> QED BY <1>0, <2>2, <2>4, <2>5, <2>6, <2>7, Cadre
<1>16. ASSUME NEW r \in Requetes, SupprFacture(r) PROVE InvCouverture'
    <2>1. /\ purges \subseteq purges' /\ prochain' >= prochain
          /\ \A i \in Ids : paiements'[i] >= 0
          /\ \A i \in Ids : Couverture(i)' = Couverture(i) /\ Couverture(i) \in Int
        <3>1. /\ paiements' = paiements /\ acompteDu' = acompteDu
              /\ purges' = purges /\ prochain' = prochain
            BY <1>16 DEF SupprFacture
        <3>2. prochain \in Int /\ \A i \in Ids : paiements[i] >= 0
            BY <1>0, BornesAssumption DEF InvCouverture, PaiementsPositifs, TypeOK
        <3> QED BY <1>0, <3>1, <3>2, CouvertureType DEF Couverture
    <2>2. /\ \A s \in Requetes \ {r} : req'[s] = req[s]
          /\ req'[r].pc \in {"journal"}
        BY <1>0, <1>16, AllerEffet DEF SupprFacture
    <2>5. \A j \in Ids : factures'[j] = factures[j] \/ factures'[j] = Neant
        BY <1>0, <1>16 DEF SupprFacture, TypeOK
    <2>6. RequeteCouverte(r)'
        BY <2>2 DEF RequeteCouverte
    <2>7. Croit
        BY <2>1
    <2> QED BY <1>0, <2>1, <2>2, <2>5, <2>6, <2>7, Cadre
<1>17. ASSUME NEW r \in Requetes, Journaliser(r) PROVE InvCouverture'
    <2>1. Aller(r, "notifier") \/ Finir(r)
        BY <1>17 DEF Journaliser
    <2> QED BY <1>0, <1>17, <2>1, AllerEffet, FinirEffet, CadreNeutre
            DEF Journaliser
<1>18. ASSUME NEW r \in Requetes, Notifier(r) PROVE InvCouverture'
    BY <1>0, <1>18, FinirEffet, CadreNeutre DEF Notifier
<1>19. ASSUME NEW r \in Requetes, Echouer(r) PROVE InvCouverture'
    BY <1>0, <1>19, FinirEffet, CadreNeutre DEF Echouer, tables
<1> QED BY <1>1, <1>2, <1>3, <1>4, <1>5, <1>6, <1>7, <1>8, <1>9, <1>10, <1>11,
           <1>12, <1>13, <1>14, <1>15, <1>16, <1>17, <1>18, <1>19
        DEF Next, Avancer

\* Whatever the interleaving and wherever requests fail, no invoice shows more
\* paid than was recorded for it, for any number of requests and invoices and
\* any advances, when no payment is negative.
THEOREM JamaisTropPaye ==
    ASSUME Montants \subseteq Nat
    PROVE  Spec => []PayeCouvert
<1>1. InvCouverture => PayeCouvert
    BY DEF InvCouverture
<1> QED BY <1>1, CouvertureInit, CouverturePas, PTL DEF Spec
=============================================================================
