--------------------------- MODULE FactureCalcul ---------------------------
(***************************************************************************)
(* The arithmetic of an invoice: FactureService.calculateTotals and the     *)
(* rounding PostgreSQL applies when the result is written to the decimal    *)
(* columns of the factures table.                                           *)
(*                                                                          *)
(* Amounts are integers in a unit chosen by the instance; Centime says how  *)
(* many units make 0.01 XAF, the precision of a decimal(15,2) column.  The  *)
(* instances pick a unit in which every division below is exact, so the     *)
(* operators compute what the code's real-number formulas mean; the binary  *)
(* floating-point error of the JavaScript numbers is not modelled.          *)
(***************************************************************************)
EXTENDS Integers

CONSTANTS
    Centime,    \* units in one hundredth of XAF
    SeuilTVA    \* a sale of goods above this net amount bears VAT (line 48)

ASSUME CentimeAssumption == Centime \in Nat \ {0}
ASSUME SeuilAssumption == SeuilTVA \in Nat

TypesVente == {"service", "marchandise"}
Statuts == {"brouillon", "envoyee", "reglee", "impayee"}

\* An absent discount and a fixed discount of zero are the same to the code.
SansRemise == [type |-> "fixe", valeur |-> 0]

Taux(montant, num, den) == (montant \div den) * num

MontantRemise(ht, remise) ==
    IF remise.type = "pourcentage" THEN Taux(ht, remise.valeur, 100)
                                   ELSE remise.valeur

\* 9.5% withheld on services only.
Tps(net, vente) == IF vente = "service" THEN Taux(net, 19, 200) ELSE 0

\* Variant: the threshold is a sale of goods that bears VAT.
TvaSeuilInclus(base, vente) ==
    IF vente = "service" \/ base >= SeuilTVA THEN Taux(base, 77, 400) ELSE 0

\* 19.25%: always on services, above the threshold on goods.
Tva(base, vente) ==
    IF vente = "service" \/ base > SeuilTVA THEN Taux(base, 77, 400) ELSE 0

CalculateTotals(ht, remise, vente, acompte) ==
    LET montantRemise == MontantRemise(ht, remise)
        net  == ht - montantRemise
        tps  == Tps(net, vente)
        base == net - tps
        tva  == Tva(base, vente)
    IN  [sous_total_ht           |-> ht,
         montant_remise          |-> montantRemise,
         sous_total_apres_remise |-> net,
         tps                     |-> tps,
         total_ht_apres_tps      |-> base,
         tva                     |-> tva,
         total_ttc               |-> base + tva,
         acompte                 |-> acompte,
         montant_paye            |-> acompte,
         solde_a_payer           |-> base + tva - acompte]

\* createFacture: the status follows the balance unless the request sets it.
StatutInitial(solde) == IF solde <= 0 THEN "reglee" ELSE "brouillon"

\* Variants: the amount paid compared with the balance; a strict comparison.
StatutSiMoitie(solde, paye, ancien) ==
    IF solde <= paye THEN "reglee" ELSE IF paye > 0 THEN "impayee" ELSE ancien
StatutStrict(solde, paye, ancien) ==
    IF solde < 0 THEN "reglee" ELSE IF paye > 0 THEN "impayee" ELSE ancien

\* registerPayment: the status a payment leaves behind.
StatutApresPaiement(solde, paye, ancien) ==
    IF solde <= 0 THEN "reglee" ELSE IF paye > 0 THEN "impayee" ELSE ancien

\* Variant: a column without a scale.
ColonneBrute(x) == x

\* A decimal(15,2) column keeps the nearest cent, halves away from zero.
Colonne(x) ==
    IF x >= 0 THEN ((2 * x + Centime) \div (2 * Centime)) * Centime
              ELSE -(((2 * (-x) + Centime) \div (2 * Centime)) * Centime)

Colonnes(totaux) == [c \in DOMAIN totaux |-> Colonne(totaux[c])]
=============================================================================
