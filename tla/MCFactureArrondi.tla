-------------------------- MODULE MCFactureArrondi --------------------------
(***************************************************************************)
(* Unit: 1/80000 of a cent, in which 1.1925 * 0.905 of a whole number of    *)
(* cents is an integer.  All prices are whole XAF, 8000000 units.           *)
(***************************************************************************)
EXTENDS FactureArrondi

XAF == 8000000

\* 7 XAF of service are billed 7.5544875; 4 XAF of goods stay below the
\* threshold of the instance (10 XAF), 10 XAF sit on it, 11 are above.
MCHTs == {4 * XAF, 7 * XAF, 10 * XAF, 11 * XAF, 63 * XAF}
MCRemises == {SansRemise,
              [type |-> "pourcentage", valeur |-> 15],
              [type |-> "fixe", valeur |-> 3 * XAF]}
MCAcomptes == {0, 755 * Centime, 2 * XAF}
MCMontants == {XAF \div 2, 755 * Centime}
MCSeuil == 10 * XAF
=============================================================================
