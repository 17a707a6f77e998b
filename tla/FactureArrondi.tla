--------------------------- MODULE FactureArrondi ---------------------------
(***************************************************************************)
(* The amounts of one invoice as they are stored: created, paid and         *)
(* modified one request at a time, each write rounding every column to the  *)
(* cent (facture.entity.ts) while the decisions of the code are taken on    *)
(* the unrounded numbers.  Interleavings are the subject of Facture.        *)
(***************************************************************************)
EXTENDS FactureCalcul

CONSTANTS
    HTs,          \* sums of the invoice lines a request may carry
    Remises,      \* discounts a request may carry
    Acomptes,     \* advances paid at creation
    Montants,     \* amounts of later payments
    MaxVersions,  \* bound on the writes after the creation
    Neant         \* no invoice yet

VARIABLES
    fiche,        \* the stored amounts and status of the invoice
    saisie,       \* what the amounts were last computed from
    versions      \* writes so far

vars == <<fiche, saisie, versions>>

Saisies == [ht : HTs, remise : Remises, vente : TypesVente]

\* Amounts are signed: nothing in the code bounds a discount or a price.
ASSUME MontantsAssumption ==
    /\ HTs \subseteq Int /\ Acomptes \subseteq Int /\ Montants \subseteq Int
    /\ Remises \subseteq [type : {"fixe", "pourcentage"}, valeur : Int]
    /\ MaxVersions \in Nat

\* The unit of the instance makes every rate exact.
ASSUME ExactitudeAssumption ==
    \A s \in Saisies :
        LET net == s.ht - MontantRemise(s.ht, s.remise)
        IN  /\ s.ht % 100 = 0
            /\ net % 200 = 0
            /\ (net - Tps(net, s.vente)) % 400 = 0

Init ==
    /\ fiche = Neant
    /\ saisie = Neant
    /\ versions = 0

Totaux(s, acompte) == CalculateTotals(s.ht, s.remise, s.vente, acompte)

\* createFacture: the status is chosen before the columns are rounded.
Creer ==
    /\ fiche = Neant
    /\ \E s \in Saisies, a \in Acomptes :
          LET t == Totaux(s, a)
          IN  /\ fiche' = [montants |-> Colonnes(t),
                           statut   |-> StatutInitial(t.solde_a_payer)]
              /\ saisie' = s
    /\ UNCHANGED versions

\* Variant: the balance forgets what was paid before.
PayerSansCumul ==
    /\ fiche # Neant
    /\ versions < MaxVersions
    /\ \E m \in Montants :
          fiche' = [fiche EXCEPT
                      !.montants.montant_paye = Colonne(@ + m),
                      !.montants.solde_a_payer =
                          Colonne(fiche.montants.total_ttc - m)]
    /\ versions' = versions + 1
    /\ UNCHANGED saisie

\* registerPayment: starts from the stored columns.
Payer ==
    /\ fiche # Neant
    /\ versions < MaxVersions
    /\ \E m \in Montants :
          LET paye  == fiche.montants.montant_paye + m
              solde == fiche.montants.total_ttc - paye
          IN  fiche' =
                [montants |-> [fiche.montants EXCEPT
                                  !.montant_paye  = Colonne(paye),
                                  !.solde_a_payer = Colonne(solde)],
                 statut   |-> StatutApresPaiement(solde, paye, fiche.statut)]
    /\ versions' = versions + 1
    /\ UNCHANGED saisie

\* updateFacture: a full recalculation with what is paid as the advance; the
\* status stays.
Modifier ==
    /\ fiche # Neant
    /\ versions < MaxVersions
    /\ \E s \in Saisies :
          /\ fiche' = [fiche EXCEPT
                         !.montants = Colonnes(Totaux(s, @.montant_paye))]
          /\ saisie' = s
    /\ versions' = versions + 1

Next == Creer \/ Payer \/ Modifier

Spec == Init /\ [][Next]_vars
-----------------------------------------------------------------------------
TypeOK ==
    /\ saisie \in Saisies \cup {Neant}
    /\ versions \in 0..MaxVersions
    /\ \/ fiche = Neant
       \/ /\ fiche.statut \in Statuts
          /\ \A c \in DOMAIN fiche.montants : fiche.montants[c] % Centime = 0

\* The amount due for a sale, by the rates in closed form: a service is
\* charged 1.1925 * 0.905 of its net amount, goods 1.1925 above the threshold
\* and their net amount up to it.
TTCReference(s) ==
    LET net == IF s.remise.type = "pourcentage"
                 THEN (s.ht \div 100) * (100 - s.remise.valeur)
                 ELSE s.ht - s.remise.valeur
    IN  CASE s.vente = "service" -> (net \div 80000) * 86337
          [] s.vente = "marchandise" /\ net > SeuilTVA -> (net \div 400) * 477
          [] OTHER -> net

\* The stored total is the reference total to the nearest cent, whatever
\* payments and modifications came before.
TotalDeReference ==
    fiche # Neant =>
        LET ecart == 2 * (fiche.montants.total_ttc - TTCReference(saisie))
        IN  -Centime <= ecart /\ ecart <= Centime

EcartMax(x, y) == x - y <= Centime /\ y - x <= Centime

\* Columns are rounded one by one, so a printed invoice may not add up
\* exactly; it is never off by more than one cent per sum, also after
\* payments registered on the rounded columns.
ColonnesCoherentes ==
    fiche # Neant =>
        LET m == fiche.montants
        IN  /\ EcartMax(m.sous_total_apres_remise,
                        m.sous_total_ht - m.montant_remise)
            /\ EcartMax(m.total_ht_apres_tps, m.sous_total_apres_remise - m.tps)
            /\ EcartMax(m.total_ttc, m.total_ht_apres_tps + m.tva)
            /\ EcartMax(m.solde_a_payer, m.total_ttc - m.montant_paye)

Reglee == fiche # Neant /\ fiche.statut = "reglee"

\* Rounding never settles an invoice that is stored with an amount still due:
\* the write that makes it 'reglee' stores a balance of zero or less, and a
\* payment settles it exactly when the balance it stores is zero or less.
ReglementArrondi ==
    [][/\ ~Reglee /\ Reglee' => fiche'.montants.solde_a_payer <= 0
       /\ fiche # Neant
            => (fiche'.montants.montant_paye # fiche.montants.montant_paye
                  => (Reglee' <=> fiche'.montants.solde_a_payer <= 0))]_vars
=============================================================================
