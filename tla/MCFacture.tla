----------------------------- MODULE MCFacture -----------------------------
(***************************************************************************)
(* Amounts in cents.  1600 XAF of service are billed 1726.74 and half of it *)
(* 863.37, so that a payment may settle an invoice exactly or fall short.   *)
(***************************************************************************)
EXTENDS Facture, TLC

MCHTs == {160000, 320000}
\* A part of the total, half of it, and the whole of it paid back.
MCMontants == {40000, 86337, -172674}
MCAcomptes == {0, 86337}
Demi == [type |-> "pourcentage", valeur |-> 50]
MCSansRemise == {SansRemise}
MCRemises == {SansRemise, Demi}
MCSeuil == 1000000000

Symetrie == Permutations(Requetes)

\* The rates are exact on these inputs, also on lines written twice.
ASSUME ExactitudeAssumption ==
    \A ht \in HTs, remise \in Remises :
        LET net == ht - MontantRemise(ht, remise)
        IN  /\ ht % 100 = 0
            /\ net % 200 = 0
            /\ (net - Tps(net, "service")) % 400 = 0
=============================================================================
