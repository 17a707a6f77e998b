------------------------------- MODULE Redis -------------------------------
(***************************************************************************)
(* What RedisService promises its callers: every command takes effect at    *)
(* once on a store whose entries disappear when their time is over.         *)
(***************************************************************************)
EXTENDS MagasinTTL

CONSTANTS Cles, Valeurs, Durees

VARIABLES magasin,   \* key -> entry
          reponse    \* what the last get or incr returned, 0 for null

vars == <<magasin, reponse>>

Init == magasin = [k \in Cles |-> Absent] /\ reponse = 0

Set(k, v, ttl) == magasin' = Poser(magasin, k, v, ttl) /\ UNCHANGED reponse
Get(k) == reponse' = magasin[k].valeur /\ UNCHANGED magasin
Del(k) == magasin' = Effacer(magasin, k) /\ UNCHANGED reponse
Incr(k) == /\ magasin' = Incrementer(magasin, k)
           /\ reponse' = magasin[k].valeur + 1
Expire(k, ttl) == magasin' = Expirer(magasin, k, ttl) /\ UNCHANGED reponse
Temps == /\ magasin' = [k \in Cles |-> Vieillir(magasin[k])]
         /\ UNCHANGED reponse

Next == \/ \E k \in Cles :
              \/ Get(k) \/ Del(k) \/ Incr(k)
              \/ \E v \in Valeurs, ttl \in Durees : Set(k, v, ttl)
              \/ \E ttl \in Durees : Expire(k, ttl)
        \/ Temps

Spec == Init /\ [][Next]_vars
=============================================================================
