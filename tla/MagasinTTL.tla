----------------------------- MODULE MagasinTTL -----------------------------
(***************************************************************************)
(* A key-value store whose entries expire, as the services use it through   *)
(* RedisService: functions from a store to a store.  An entry counts down   *)
(* the time it has left, so an expired entry and an absent one are the same.*)
(***************************************************************************)
EXTENDS Integers

Eternel == -1
Absent == [valeur |-> 0, ttl |-> 0]

Present(m, k) == m[k].ttl # 0

Poser(m, k, valeur, ttl) ==
    [m EXCEPT ![k] = [valeur |-> valeur, ttl |-> IF ttl > 0 THEN ttl ELSE Eternel]]

Effacer(m, k) == [m EXCEPT ![k] = Absent]

\* A new counter does not expire; an existing one keeps its deadline.
Incrementer(m, k) ==
    [m EXCEPT ![k] = [valeur |-> @.valeur + 1,
                      ttl |-> IF @.ttl = 0 THEN Eternel ELSE @.ttl]]

Expirer(m, k, ttl) ==
    IF Present(m, k) THEN [m EXCEPT ![k].ttl = ttl] ELSE m

\* One unit of time.
Vieillir(e) == CASE e.ttl = 1 -> Absent
                 [] e.ttl > 1 -> [e EXCEPT !.ttl = @ - 1]
                 [] OTHER -> e
=============================================================================
