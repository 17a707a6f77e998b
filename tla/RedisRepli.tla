----------------------------- MODULE RedisRepli -----------------------------
(***************************************************************************)
(* RedisService without a Redis server: a Map whose entries carry the date  *)
(* they expire at and are removed only when a read comes across them.       *)
(***************************************************************************)
EXTENDS Integers

CONSTANTS
    ClesRepli, ValeursRepli, DureesRepli,
    MaxTemps,      \* bound on the clock
    MaxCompteur,   \* bound on the counters
    Nul            \* no item, no date

\* Values are counters and stored codes, durations come from the settings and
\* are positive; a missing item is no item and a missing date no date.
ASSUME DonneesAssumption ==
    /\ ValeursRepli \subseteq Nat /\ DureesRepli \subseteq Nat \ {0}
    /\ Nul \notin Nat
    /\ Nul \notin [value : Nat, expiresAt : Nat \cup {Nul}]

VARIABLES
    fallbackStore, \* key -> item or Nul
    maintenant,    \* Date.now()
    reponse        \* what the last get or incr returned, 0 for null

varsRepli == <<fallbackStore, maintenant, reponse>>

InitRepli ==
    /\ fallbackStore = [k \in ClesRepli |-> Nul]
    /\ maintenant = 0
    /\ reponse = 0

IsExpired(item) ==
    item # Nul /\ item.expiresAt # Nul /\ item.expiresAt <= maintenant

\* fallbackGet: the item it returns, and the store it leaves.
Lu(k) == IF IsExpired(fallbackStore[k]) THEN Nul ELSE fallbackStore[k]
\* Variant: a dead item stays in the Map.
EpureOubli(k) == fallbackStore

Epure(k) == [fallbackStore EXCEPT ![k] = Lu(k)]
Valeur(item) == IF item = Nul THEN 0 ELSE item.value

FallbackSet(k, v, ttl) ==
    fallbackStore' = [fallbackStore EXCEPT ![k] =
        [value |-> v, expiresAt |-> IF ttl > 0 THEN maintenant + ttl ELSE Nul]]

Set(k, v, ttl) == FallbackSet(k, v, ttl) /\ UNCHANGED <<maintenant, reponse>>

Get(k) ==
    /\ reponse' = Valeur(Lu(k))
    /\ fallbackStore' = Epure(k)
    /\ UNCHANGED maintenant

Del(k) ==
    /\ fallbackStore' = [fallbackStore EXCEPT ![k] = Nul]
    /\ UNCHANGED <<maintenant, reponse>>

Incr(k) ==
    LET existing == Epure(k)[k]
        value == Valeur(Lu(k)) + 1
    IN  /\ value <= MaxCompteur
        /\ fallbackStore' = [fallbackStore EXCEPT ![k] =
              [value |-> value,
               expiresAt |-> IF existing = Nul THEN Nul ELSE existing.expiresAt]]
        /\ reponse' = value
        /\ UNCHANGED maintenant

Expire(k, ttl) ==
    /\ IF Lu(k) # Nul THEN FallbackSet(k, Lu(k).value, ttl)
                      ELSE fallbackStore' = Epure(k)
    /\ UNCHANGED <<maintenant, reponse>>

Temps ==
    /\ maintenant < MaxTemps
    /\ maintenant' = maintenant + 1
    /\ UNCHANGED <<fallbackStore, reponse>>

NextRepli == \/ \E k \in ClesRepli :
              \/ Get(k) \/ Del(k) \/ Incr(k)
              \/ \E v \in ValeursRepli, ttl \in DureesRepli : Set(k, v, ttl)
              \/ \E ttl \in DureesRepli : Expire(k, ttl)
        \/ Temps

SpecRepli == InitRepli /\ [][NextRepli]_varsRepli
-----------------------------------------------------------------------------
\* The store callers can observe: live items with the time they have left.
Visible(item) ==
    IF item = Nul \/ IsExpired(item)
      THEN [valeur |-> 0, ttl |-> 0]
      ELSE [valeur |-> item.value,
            ttl |-> IF item.expiresAt = Nul THEN -1
                                            ELSE item.expiresAt - maintenant]

Promesse == INSTANCE Redis
    WITH magasin <- [k \in ClesRepli |-> Visible(fallbackStore[k])],
         Cles <- ClesRepli, Valeurs <- ValeursRepli, Durees <- DureesRepli

\* Every command on the fallback Map does and answers what a store with exact
\* expiry does: items that are dead but not yet removed are never observed, a
\* counter neither survives its window nor loses its deadline.
CommeRedis == Promesse!Spec
=============================================================================
