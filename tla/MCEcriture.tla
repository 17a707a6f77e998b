----------------------------- MODULE MCEcriture -----------------------------
(***************************************************************************)
(* A purchase and a sale, each against a third party, with amounts that no  *)
(* two sums share; a file of both, and one with a row that is refused.      *)
(***************************************************************************)
EXTENDS Ecriture, TLC

Ligne(compte, debit, credit) ==
    [compte |-> compte, debit |-> debit, credit |-> credit]

Achat == Ligne(60, 1, 0)
DetteFournisseur == Ligne(40, 0, 1)
Vente == Ligne(70, 0, 2)
Stock == Ligne(31, 2, 0)
Tresorerie == Ligne(52, 2, 0)
SansCompte == Ligne(Neant, 4, 0)

MCSaisies == {Achat, Vente}
MCFichiers == {<<>>, <<Achat, DetteFournisseur>>, <<Stock, SansCompte, Vente>>,
               <<Tresorerie, Vente>>}

Symetrie == Permutations(Requetes)
=============================================================================
