------------------------------ MODULE Serveur ------------------------------
(***************************************************************************)
(* What the services of the process share: slots for the requests in       *)
(* progress.  A service keeps a function from slots to contexts, that is,   *)
(* to what its handler holds across an await; pc names the awaited call.    *)
(***************************************************************************)
EXTENDS Integers, FiniteSets

CONSTANTS
    Requetes,    \* slots for requests in progress
    MaxRequetes, \* bound on the requests ever received
    Pannes,      \* whether awaited calls may be rejected, or the process end
    Neant        \* no value

ASSUME RequetesFinies == IsFiniteSet(Requetes)
ASSUME MaxRequetesNaturel == MaxRequetes \in Nat

\* Contexts of requests whose slot r goes on at pc.
Aller(contextes, r, pc) == [contextes EXCEPT ![r].pc = pc]
=============================================================================
