-------------------------- MODULE RedisRepliProofs --------------------------
(***************************************************************************)
(* The Map that stands in for a Redis server implements the store Redis     *)
(* describes, for any keys, values, durations and length of time.           *)
(*                                                                          *)
(* Each command is followed on one entry of the Map: what callers see of    *)
(* the entry it leaves is what Redis makes of what they saw before.         *)
(***************************************************************************)
EXTENDS RedisRepli, TLAPS

Items == [value : Nat, expiresAt : Nat \cup {Nul}]

\* Entries of the Map are items or missing.
TypesRepli ==
    /\ fallbackStore \in [ClesRepli -> Items \cup {Nul}]
    /\ maintenant \in Nat

\* What is read and seen of an item at a date, and of a Map.
Perime(item, t) == item # Nul /\ item.expiresAt # Nul /\ item.expiresAt <= t
Frais(item, t) == IF Perime(item, t) THEN Nul ELSE item
Vu(item, t) ==
    IF item = Nul \/ Perime(item, t)
      THEN [valeur |-> 0, ttl |-> 0]
      ELSE [valeur |-> item.value,
            ttl |-> IF item.expiresAt = Nul THEN -1 ELSE item.expiresAt - t]
Image(store, t) == [k \in ClesRepli |-> Vu(store[k], t)]

\* An item, and what is seen of it while it lives.
LEMMA ItemVu ==
    ASSUME NEW item \in Items, NEW t \in Nat
    PROVE  /\ item # Nul /\ item.value \in Nat
           /\ item.expiresAt = Nul \/ item.expiresAt \in Nat
           /\ item = [value |-> item.value, expiresAt |-> item.expiresAt]
           /\ ~Perime(item, t) =>
                 /\ Vu(item, t).valeur = item.value
                 /\ item.expiresAt = Nul => Vu(item, t).ttl = -1
                 /\ item.expiresAt # Nul =>
                       Vu(item, t).ttl = item.expiresAt - t /\ item.expiresAt > t
  BY DonneesAssumption DEF Items, Perime, Vu

\* What is missing or dead is not seen.
LEMMA AbsentVu ==
    ASSUME NEW item, NEW t, item = Nul \/ Perime(item, t)
    PROVE  Vu(item, t) = [valeur |-> 0, ttl |-> 0] /\ Frais(item, t) = Nul
  BY DEF Vu, Frais, Perime

\* A new item is seen with the time it is given.
LEMMA NouveauVu ==
    ASSUME NEW v \in Nat, NEW e \in Nat \cup {Nul}, NEW t \in Nat,
           e # Nul => e > t
    PROVE  /\ [value |-> v, expiresAt |-> e] \in Items
           /\ Vu([value |-> v, expiresAt |-> e], t)
                = [valeur |-> v, ttl |-> IF e = Nul THEN -1 ELSE e - t]
  <1>1. PICK item : item = [value |-> v, expiresAt |-> e]
    OBVIOUS
  <1>2. item \in Items /\ item.value = v /\ item.expiresAt = e
    BY <1>1 DEF Items
  <1>3. item # Nul
    BY <1>2, DonneesAssumption DEF Items
  <1>4. ~Perime(item, t)
    BY <1>2 DEF Perime
  <1>5. Vu(item, t) = [valeur |-> v, ttl |-> IF e = Nul THEN -1 ELSE e - t]
    BY <1>2, <1>3, <1>4 DEF Vu
  <1> QED BY <1>1, <1>2, <1>5

\* A Map or a store with one entry replaced.
Avec(f, k, e) == [f EXCEPT ![k] = e]

\* Changing one entry of a Map changes what is seen of that key.
LEMMA ImageModifiee ==
    ASSUME NEW store \in [ClesRepli -> Items \cup {Nul}], NEW k \in ClesRepli,
           NEW item, NEW t
    PROVE  Image(Avec(store, k, item), t) = Avec(Image(store, t), k, Vu(item, t))
  <1>1. PICK s : s = Avec(store, k, item) /\ s = [store EXCEPT ![k] = item]
    BY DEF Avec
  <1>2. s[k] = item /\ \A j \in ClesRepli \ {k} : s[j] = store[j]
    BY <1>1
  <1>3. Image(s, t) = [j \in ClesRepli |-> Vu(s[j], t)]
    BY DEF Image
  <1>4. Image(store, t) = [j \in ClesRepli |-> Vu(store[j], t)]
    BY DEF Image
  <1>5. \A j \in ClesRepli : Vu(s[j], t) = IF j = k THEN Vu(item, t) ELSE Vu(store[j], t)
    BY <1>2
  <1>6. Image(s, t) = [Image(store, t) EXCEPT ![k] = Vu(item, t)]
    BY <1>3, <1>4, <1>5
  <1> QED BY <1>1, <1>6 DEF Avec

\* The store of the refinement is what is seen of the Map, now and next.
LEMMA MagasinVu ==
    /\ [k \in ClesRepli |-> Visible(fallbackStore[k])] = Image(fallbackStore, maintenant)
    /\ [k \in ClesRepli |-> Visible(fallbackStore[k])]' = Image(fallbackStore', maintenant')
  BY DEF Visible, IsExpired, Image, Vu, Perime
-----------------------------------------------------------------------------
\* A value that is set is seen with its whole time.
LEMMA SetRaffine ==
    ASSUME TypesRepli, NEW k \in ClesRepli, NEW v \in ValeursRepli, NEW ttl \in DureesRepli,
           Set(k, v, ttl)
    PROVE  Promesse!Set(k, v, ttl) /\ TypesRepli'
  <1>1. PICK s, t, item :
          /\ s = fallbackStore /\ t = maintenant
          /\ item = [value |-> v, expiresAt |-> IF ttl > 0 THEN t + ttl ELSE Nul]
    OBVIOUS
  <1>2. /\ fallbackStore' = [s EXCEPT ![k] = item] /\ maintenant' = t
        /\ reponse' = reponse
    BY <1>1 DEF Set, FallbackSet
  <1>3. s \in [ClesRepli -> Items \cup {Nul}] /\ t \in Nat
    BY <1>1 DEF TypesRepli
  <1>4. v \in Nat /\ ttl \in Nat /\ ttl > 0 /\ t + ttl \in Nat
    BY <1>3, DonneesAssumption
  <1>5. item = [value |-> v, expiresAt |-> t + ttl] /\ t + ttl # Nul
    BY <1>1, <1>4, DonneesAssumption
  <1>6. item \in Items /\ Vu(item, t) = [valeur |-> v, ttl |-> t + ttl - t]
    BY <1>3, <1>4, <1>5, NouveauVu
  <1>7. Vu(item, t) = [valeur |-> v, ttl |-> ttl]
    BY <1>3, <1>4, <1>6
  <1>8. Image(fallbackStore', maintenant')
          = [Image(fallbackStore, maintenant) EXCEPT
               ![k] = [valeur |-> v, ttl |-> IF ttl > 0 THEN ttl ELSE -1]]
    <2>1. Image(Avec(s, k, item), t) = Avec(Image(s, t), k, Vu(item, t))
      BY <1>3, ImageModifiee
    <2>2. Vu(item, t) = [valeur |-> v, ttl |-> IF ttl > 0 THEN ttl ELSE -1]
      BY <1>4, <1>7
    <2> QED BY <1>1, <1>2, <2>1, <2>2 DEF Avec
  <1>9. Promesse!Set(k, v, ttl)
    BY <1>2, <1>8, MagasinVu DEF Promesse!Set, Promesse!Poser, Promesse!Eternel
  <1>10. TypesRepli'
    BY <1>2, <1>3, <1>6 DEF TypesRepli
  <1> QED BY <1>9, <1>10

\* Removing a dead item changes nothing that is seen.
LEMMA EpureVu ==
    ASSUME TypesRepli, NEW k \in ClesRepli
    PROVE  /\ Epure(k) \in [ClesRepli -> Items \cup {Nul}]
           /\ Image(Epure(k), maintenant) = Image(fallbackStore, maintenant)
           /\ Epure(k)[k] = Lu(k) /\ Lu(k) = Frais(fallbackStore[k], maintenant)
           /\ Lu(k) \in Items \cup {Nul}
           /\ Valeur(Lu(k)) = Image(fallbackStore, maintenant)[k].valeur
  <1>1. PICK s, t, item, lu :
          /\ s = fallbackStore /\ t = maintenant /\ item = s[k]
          /\ lu = Frais(item, t)
    OBVIOUS
  <1>2. s \in [ClesRepli -> Items \cup {Nul}] /\ t \in Nat /\ item \in Items \cup {Nul}
    BY <1>1 DEF TypesRepli
  <1>3. Lu(k) = lu /\ Epure(k) = [s EXCEPT ![k] = lu]
    BY <1>1 DEF Lu, Epure, Frais, IsExpired, Perime
  <1>4. lu \in Items \cup {Nul} /\ Vu(lu, t) = Vu(item, t)
    BY <1>1, <1>2 DEF Frais, Vu
  <1>5. Valeur(lu) = Vu(item, t).valeur
    BY <1>1 DEF Frais, Vu, Valeur
  <1>6. Image(s, t)[k] = Vu(item, t) /\ Image(s, t) \in [ClesRepli -> {Vu(s[j], t) : j \in ClesRepli}]
    BY <1>1 DEF Image
  <1>7. [Image(s, t) EXCEPT ![k] = Vu(item, t)] = Image(s, t)
    BY <1>6
  <1>8. Image([s EXCEPT ![k] = lu], t) = Image(s, t)
    <2>1. Image(Avec(s, k, lu), t) = Avec(Image(s, t), k, Vu(lu, t))
      BY <1>2, ImageModifiee
    <2> QED BY <1>4, <1>7, <2>1 DEF Avec
  <1>9. [s EXCEPT ![k] = lu] \in [ClesRepli -> Items \cup {Nul}] /\ [s EXCEPT ![k] = lu][k] = lu
    BY <1>2, <1>4
  <1> QED BY <1>1, <1>3, <1>4, <1>5, <1>6, <1>8, <1>9

\* A read answers what is seen, and removes a dead item nobody sees.
LEMMA GetRaffine ==
    ASSUME TypesRepli, NEW k \in ClesRepli, Get(k)
    PROVE  Promesse!Get(k) /\ TypesRepli'
  <1>1. /\ reponse' = Valeur(Lu(k)) /\ fallbackStore' = Epure(k)
        /\ maintenant' = maintenant
    BY DEF Get
  <1>2. reponse' = Image(fallbackStore, maintenant)[k].valeur
    BY <1>1, EpureVu
  <1>3. PICK s : s = fallbackStore' /\ s \in [ClesRepli -> Items \cup {Nul}]
                 /\ Image(s, maintenant) = Image(fallbackStore, maintenant)
    BY <1>1, EpureVu
  <1>4. Image(fallbackStore', maintenant') = Image(fallbackStore, maintenant)
    BY <1>1, <1>3
  <1>5. Promesse!Get(k)
    BY <1>2, <1>4, MagasinVu DEF Promesse!Get
  <1>6. TypesRepli'
    BY <1>1, <1>3 DEF TypesRepli
  <1> QED BY <1>5, <1>6

\* A deleted key is not seen.
LEMMA DelRaffine ==
    ASSUME TypesRepli, NEW k \in ClesRepli, Del(k)
    PROVE  Promesse!Del(k) /\ TypesRepli'
  <1>1. PICK s, t : s = fallbackStore /\ t = maintenant
    OBVIOUS
  <1>2. /\ fallbackStore' = [s EXCEPT ![k] = Nul] /\ maintenant' = t
        /\ reponse' = reponse
    BY <1>1 DEF Del
  <1>3. s \in [ClesRepli -> Items \cup {Nul}] /\ t \in Nat
    BY <1>1 DEF TypesRepli
  <1>4. Image(fallbackStore', maintenant')
          = [Image(fallbackStore, maintenant) EXCEPT ![k] = [valeur |-> 0, ttl |-> 0]]
    <2>1. Image(Avec(s, k, Nul), t) = Avec(Image(s, t), k, Vu(Nul, t))
      BY <1>3, ImageModifiee
    <2>2. Vu(Nul, t) = [valeur |-> 0, ttl |-> 0]
      BY AbsentVu
    <2> QED BY <1>1, <1>2, <2>1, <2>2 DEF Avec
  <1>5. Promesse!Del(k)
    BY <1>2, <1>4, MagasinVu DEF Promesse!Del, Promesse!Effacer, Promesse!Absent
  <1>6. TypesRepli'
    BY <1>2, <1>3 DEF TypesRepli
  <1> QED BY <1>5, <1>6

\* A counter goes on from what is seen, keeps its deadline, and starts without
\* one.
LEMMA IncrRaffine ==
    ASSUME TypesRepli, NEW k \in ClesRepli, Incr(k)
    PROVE  Promesse!Incr(k) /\ TypesRepli'
  <1>1. PICK s, t, lu, e, n, item :
          /\ s = fallbackStore /\ t = maintenant /\ lu = Frais(s[k], t)
          /\ e = IF lu = Nul THEN Nul ELSE lu.expiresAt
          /\ n = Valeur(lu) + 1 /\ item = [value |-> n, expiresAt |-> e]
    OBVIOUS
  <1>2. s \in [ClesRepli -> Items \cup {Nul}] /\ t \in Nat
    BY <1>1 DEF TypesRepli
  <1>3. /\ Lu(k) = lu /\ Epure(k)[k] = lu /\ lu \in Items \cup {Nul}
        /\ Valeur(lu) = Image(s, t)[k].valeur
    BY <1>1, EpureVu
  <1>4. /\ fallbackStore' = [s EXCEPT ![k] = item] /\ maintenant' = t
        /\ reponse' = n
    BY <1>1, <1>3 DEF Incr
  <1>5. PICK avant : avant = Vu(s[k], t) /\ avant = Image(s, t)[k]
    BY <1>2 DEF Image
  <1>6. n \in Nat /\ n = avant.valeur + 1
    <2>1. Valeur(lu) \in Nat
      BY <1>3 DEF Valeur, Items
    <2> QED BY <1>1, <1>3, <1>5, <2>1
  <1>7. /\ e \in Nat \cup {Nul} /\ (e # Nul => e > t)
        /\ (IF e = Nul THEN -1 ELSE e - t) = IF avant.ttl = 0 THEN -1 ELSE avant.ttl
    <2>1. CASE lu = Nul
      <3>1. s[k] = Nul \/ Perime(s[k], t)
        BY <1>1, <2>1 DEF Frais
      <3>2. Vu(s[k], t) = [valeur |-> 0, ttl |-> 0]
        BY <3>1, AbsentVu, Zenon
      <3>3. avant = [valeur |-> 0, ttl |-> 0]
        BY <1>5, <3>2, Zenon
      <3> QED BY <1>1, <2>1, <3>3
    <2>2. CASE lu # Nul
      <3>1. lu = s[k] /\ ~Perime(s[k], t) /\ lu \in Items /\ e = lu.expiresAt
        BY <1>1, <1>3, <2>2 DEF Frais
      <3>2. /\ e = Nul \/ e \in Nat
            /\ e = Nul => avant.ttl = -1
            /\ e # Nul => avant.ttl = e - t /\ e > t
        <4>1. /\ lu.expiresAt = Nul \/ lu.expiresAt \in Nat
              /\ lu.expiresAt = Nul => Vu(lu, t).ttl = -1
              /\ lu.expiresAt # Nul =>
                    Vu(lu, t).ttl = lu.expiresAt - t /\ lu.expiresAt > t
          BY <1>2, <3>1, ItemVu, Zenon
        <4> QED BY <1>5, <3>1, <4>1
      <3> QED BY <1>2, <3>2
    <2> QED BY <2>1, <2>2
  <1>8. /\ item \in Items
        /\ Vu(item, t) = [valeur |-> avant.valeur + 1,
                          ttl |-> IF avant.ttl = 0 THEN -1 ELSE avant.ttl]
    BY <1>1, <1>2, <1>6, <1>7, NouveauVu
  <1>9. Image(fallbackStore', maintenant')
          = [Image(s, t) EXCEPT
               ![k] = [valeur |-> avant.valeur + 1,
                       ttl |-> IF avant.ttl = 0 THEN -1 ELSE avant.ttl]]
    <2>1. Image(Avec(s, k, item), t) = Avec(Image(s, t), k, Vu(item, t))
      BY <1>2, ImageModifiee
    <2> QED BY <1>4, <1>8, <2>1 DEF Avec
  <1>10. Promesse!Incr(k)
    <2>1. Image(fallbackStore', maintenant')
            = [Image(s, t) EXCEPT
                 ![k] = [valeur |-> @.valeur + 1,
                         ttl |-> IF @.ttl = 0 THEN -1 ELSE @.ttl]]
      BY <1>5, <1>9
    <2>2. reponse' = Image(s, t)[k].valeur + 1
      BY <1>4, <1>5, <1>6
    <2> QED BY <1>1, <2>1, <2>2, MagasinVu
            DEF Promesse!Incr, Promesse!Incrementer, Promesse!Eternel
  <1>11. TypesRepli'
    BY <1>2, <1>4, <1>8 DEF TypesRepli
  <1> QED BY <1>10, <1>11

\* A live key gets its new deadline, a dead or missing one stays missing.
LEMMA ExpireRaffine ==
    ASSUME TypesRepli, NEW k \in ClesRepli, NEW ttl \in DureesRepli, Expire(k, ttl)
    PROVE  Promesse!Expire(k, ttl) /\ TypesRepli'
  <1>1. PICK s, t, lu, item :
          /\ s = fallbackStore /\ t = maintenant /\ lu = Frais(s[k], t)
          /\ item = [value |-> lu.value, expiresAt |-> t + ttl]
    OBVIOUS
  <1>2. s \in [ClesRepli -> Items \cup {Nul}] /\ t \in Nat
    BY <1>1 DEF TypesRepli
  <1>3. ttl \in Nat /\ ttl > 0 /\ t + ttl \in Nat /\ t + ttl # Nul
    BY <1>2, DonneesAssumption
  <1>4. Lu(k) = lu /\ lu \in Items \cup {Nul}
    BY <1>1, EpureVu
  <1>5. PICK avant : avant = Vu(s[k], t) /\ avant = Image(s, t)[k]
    BY <1>2 DEF Image
  <1>6. maintenant' = t /\ reponse' = reponse
    BY <1>1 DEF Expire
  <1>7. CASE lu = Nul
    <2>1. fallbackStore' = Epure(k)
      BY <1>4, <1>7 DEF Expire
    <2>2. PICK s1 : /\ s1 = fallbackStore' /\ s1 \in [ClesRepli -> Items \cup {Nul}]
                    /\ Image(s1, t) = Image(s, t)
      BY <1>1, <2>1, EpureVu
    <2>3. avant.ttl = 0
      <3>1. s[k] = Nul \/ Perime(s[k], t)
        BY <1>1, <1>7 DEF Frais
      <3>2. Vu(s[k], t) = [valeur |-> 0, ttl |-> 0]
        BY <3>1, AbsentVu, Zenon
      <3>3. avant = [valeur |-> 0, ttl |-> 0]
        BY <1>5, <3>2, Zenon
      <3> QED BY <3>3
    <2>4. Image(fallbackStore', maintenant') = Image(fallbackStore, maintenant)
      BY <1>1, <1>6, <2>2
    <2>5. ~Promesse!Present([j \in ClesRepli |-> Visible(fallbackStore[j])], k)
      BY <1>1, <1>5, <2>3, MagasinVu DEF Promesse!Present
    <2>6. Promesse!Expire(k, ttl)
      BY <1>6, <2>4, <2>5, MagasinVu DEF Promesse!Expire, Promesse!Expirer
    <2> QED BY <1>2, <1>6, <2>2, <2>6 DEF TypesRepli
  <1>8. CASE lu # Nul
    <2>1. lu = s[k] /\ ~Perime(s[k], t) /\ lu \in Items
      BY <1>1, <1>4, <1>8 DEF Frais
    <2>2. /\ lu.value \in Nat /\ avant.valeur = lu.value
          /\ avant.ttl # 0
          /\ avant = [valeur |-> avant.valeur, ttl |-> avant.ttl]
      <3>1. lu # Nul /\ avant = Vu(lu, t) /\ ~Perime(lu, t)
        BY <1>5, <1>8, <2>1
      <3>2. avant = [valeur |-> avant.valeur, ttl |-> avant.ttl]
        BY <3>1 DEF Vu
      <3>3. /\ lu.value \in Nat /\ Vu(lu, t).valeur = lu.value
            /\ lu.expiresAt = Nul \/ lu.expiresAt \in Nat
            /\ lu.expiresAt = Nul => Vu(lu, t).ttl = -1
            /\ lu.expiresAt # Nul =>
                  Vu(lu, t).ttl = lu.expiresAt - t /\ lu.expiresAt > t
        BY <1>2, <2>1, ItemVu, Zenon
      <3>4. avant.ttl # 0
        BY <1>2, <3>1, <3>3
      <3> QED BY <3>1, <3>2, <3>3, <3>4
    <2>3. fallbackStore' = [s EXCEPT ![k] = item]
      BY <1>1, <1>3, <1>4, <1>8 DEF Expire, FallbackSet
    <2>4. item \in Items /\ Vu(item, t) = [valeur |-> lu.value, ttl |-> ttl]
      <3>1. item \in Items /\ Vu(item, t) = [valeur |-> lu.value, ttl |-> t + ttl - t]
        BY <1>1, <1>2, <1>3, <2>2, NouveauVu
      <3> QED BY <1>2, <1>3, <3>1
    <2>5. Vu(item, t) = [avant EXCEPT !.ttl = ttl]
      BY <2>2, <2>4
    <2>6. Image(fallbackStore', maintenant') = [Image(s, t) EXCEPT ![k].ttl = ttl]
      <3>1. Image(Avec(s, k, item), t) = Avec(Image(s, t), k, Vu(item, t))
        BY <1>2, ImageModifiee
      <3> QED BY <1>5, <1>6, <2>3, <2>5, <3>1 DEF Avec
    <2>7. Promesse!Present([j \in ClesRepli |-> Visible(fallbackStore[j])], k)
      BY <1>1, <1>5, <2>2, MagasinVu DEF Promesse!Present
    <2>8. Promesse!Expire(k, ttl)
      BY <1>1, <1>6, <2>6, <2>7, MagasinVu DEF Promesse!Expire, Promesse!Expirer
    <2>9. TypesRepli'
      BY <1>2, <1>6, <2>3, <2>4 DEF TypesRepli
    <2> QED BY <2>8, <2>9
  <1> QED BY <1>7, <1>8

\* One unit of time later, what is seen has aged by one unit.
LEMMA TempsVu ==
    ASSUME NEW item \in Items \cup {Nul}, NEW t \in Nat
    PROVE  Vu(item, t + 1) = Promesse!Vieillir(Vu(item, t))
  <1>1. CASE item = Nul \/ Perime(item, t)
    <2>1. item = Nul \/ Perime(item, t + 1)
      BY <1>1, DonneesAssumption DEF Perime, Items
    <2>2. PICK e : e = [valeur |-> 0, ttl |-> 0]
      OBVIOUS
    <2>3. Vu(item, t) = e /\ Vu(item, t + 1) = e
      BY <1>1, <2>1, <2>2, AbsentVu, Zenon
    <2>4. Promesse!Vieillir(e) = e
      BY <2>2 DEF Promesse!Vieillir
    <2> QED BY <2>3, <2>4
  <1>2. CASE item # Nul /\ ~Perime(item, t)
    <2>1. item \in Items
      BY <1>2
    <2>2. PICK v, x : v = item.value /\ x = item.expiresAt
      OBVIOUS
    <2>3. v \in Nat /\ (x = Nul \/ x \in Nat) /\ (x # Nul => x > t)
      BY <1>2, <2>1, <2>2 DEF Items, Perime
    <2>4. Vu(item, t) = [valeur |-> v, ttl |-> IF x = Nul THEN -1 ELSE x - t]
      BY <1>2, <2>2 DEF Vu
    <2>5. CASE x = Nul
      <3>1. ~Perime(item, t + 1)
        BY <2>2, <2>5 DEF Perime
      <3>2. PICK e : e = [valeur |-> v, ttl |-> -1]
        OBVIOUS
      <3>3. Vu(item, t) = e /\ Vu(item, t + 1) = e
        BY <1>2, <2>2, <2>4, <2>5, <3>1, <3>2 DEF Vu
      <3>4. Promesse!Vieillir(e) = e
        BY <3>2 DEF Promesse!Vieillir
      <3> QED BY <3>3, <3>4
    <2>6. CASE x # Nul /\ x = t + 1
      <3>1. Perime(item, t + 1)
        BY <1>2, <2>2, <2>3, <2>6 DEF Perime
      <3>2. PICK e : e = [valeur |-> v, ttl |-> 1]
        OBVIOUS
      <3>3. Vu(item, t) = e
        BY <2>4, <2>6, <3>2
      <3>4. Vu(item, t + 1) = [valeur |-> 0, ttl |-> 0]
        BY <3>1 DEF Vu
      <3>5. Promesse!Vieillir(e) = [valeur |-> 0, ttl |-> 0]
        BY <3>2 DEF Promesse!Vieillir, Promesse!Absent
      <3> QED BY <3>3, <3>4, <3>5
    <2>7. CASE x # Nul /\ x # t + 1
      <3>1. ~Perime(item, t + 1) /\ x > t + 1 /\ x - (t + 1) = x - t - 1
        BY <2>2, <2>3, <2>7 DEF Perime
      <3>2. PICK e, d : d = x - t /\ d \in Nat /\ d > 1 /\ e = [valeur |-> v, ttl |-> d]
        <4>1. PICK d : d = x - t
          OBVIOUS
        <4>2. d \in Nat /\ d > 1
          BY <2>3, <2>7, <3>1, <4>1
        <4> QED BY <4>1, <4>2
      <3>3. Vu(item, t) = e /\ Vu(item, t + 1) = [valeur |-> v, ttl |-> d - 1]
        BY <1>2, <2>2, <2>3, <2>4, <2>7, <3>1, <3>2 DEF Vu
      <3>4. Promesse!Vieillir(e) = [valeur |-> v, ttl |-> d - 1]
        BY <3>2 DEF Promesse!Vieillir
      <3> QED BY <3>3, <3>4
    <2> QED BY <2>5, <2>6, <2>7
  <1> QED BY <1>1, <1>2

\* The clock ages everything that is seen.
LEMMA TempsRaffine ==
    ASSUME TypesRepli, Temps
    PROVE  Promesse!Temps /\ TypesRepli'
  <1>1. PICK s, t : s = fallbackStore /\ t = maintenant
    OBVIOUS
  <1>2. s \in [ClesRepli -> Items \cup {Nul}] /\ t \in Nat
    BY <1>1 DEF TypesRepli
  <1>3. fallbackStore' = s /\ maintenant' = t + 1 /\ reponse' = reponse
    BY <1>1 DEF Temps
  <1>4. \A k \in ClesRepli : Vu(s[k], t + 1) = Promesse!Vieillir(Image(s, t)[k])
    <2> TAKE k \in ClesRepli
    <2>1. s[k] \in Items \cup {Nul} /\ Image(s, t)[k] = Vu(s[k], t)
      BY <1>2 DEF Image
    <2> QED BY <1>2, <2>1, TempsVu
  <1>5. Image(s, t + 1) = [k \in ClesRepli |-> Promesse!Vieillir(Image(s, t)[k])]
    BY <1>4 DEF Image
  <1>6. Promesse!Temps
    BY <1>1, <1>3, <1>5, MagasinVu DEF Promesse!Temps
  <1>7. TypesRepli'
    BY <1>2, <1>3 DEF TypesRepli
  <1> QED BY <1>6, <1>7

\* An empty Map is an empty store.
LEMMA InitRaffine ==
    ASSUME InitRepli
    PROVE  Promesse!Init /\ TypesRepli
  <1>1. TypesRepli
    BY DEF InitRepli, TypesRepli
  <1>2. Image(fallbackStore, maintenant) = [k \in ClesRepli |-> [valeur |-> 0, ttl |-> 0]]
    BY DEF InitRepli, Image, Vu
  <1>3. Promesse!Init
    BY <1>2, MagasinVu DEF InitRepli, Promesse!Init, Promesse!Absent
  <1> QED BY <1>1, <1>3

\* Every command on the Map is the command of the promise.
LEMMA PasRaffine ==
    ASSUME TypesRepli, [NextRepli]_varsRepli
    PROVE  [Promesse!Next]_(Promesse!vars) /\ TypesRepli'
  <1>1. CASE UNCHANGED varsRepli
    <2>1. /\ Image(fallbackStore', maintenant') = Image(fallbackStore, maintenant)
          /\ reponse' = reponse
      BY <1>1 DEF varsRepli
    <2> QED BY <1>1, <2>1, MagasinVu DEF varsRepli, TypesRepli, Promesse!vars
  <1>2. ASSUME NEW k \in ClesRepli, Get(k)
        PROVE  Promesse!Next /\ TypesRepli'
    BY <1>2, GetRaffine DEF Promesse!Next
  <1>3. ASSUME NEW k \in ClesRepli, Del(k)
        PROVE  Promesse!Next /\ TypesRepli'
    BY <1>3, DelRaffine DEF Promesse!Next
  <1>4. ASSUME NEW k \in ClesRepli, Incr(k)
        PROVE  Promesse!Next /\ TypesRepli'
    BY <1>4, IncrRaffine DEF Promesse!Next
  <1>5. ASSUME NEW k \in ClesRepli, NEW v \in ValeursRepli, NEW ttl \in DureesRepli, Set(k, v, ttl)
        PROVE  Promesse!Next /\ TypesRepli'
    BY <1>5, SetRaffine DEF Promesse!Next
  <1>6. ASSUME NEW k \in ClesRepli, NEW ttl \in DureesRepli, Expire(k, ttl)
        PROVE  Promesse!Next /\ TypesRepli'
    BY <1>6, ExpireRaffine DEF Promesse!Next
  <1>7. CASE Temps
    BY <1>7, TempsRaffine DEF Promesse!Next
  <1> QED BY <1>1, <1>2, <1>3, <1>4, <1>5, <1>6, <1>7 DEF NextRepli

\* The in-memory store implements the store with exact expiry: entries that are
\* dead and still in the Map are never observed, a counter does not outlive its
\* window and does not lose its deadline, for any keys, values and durations.
THEOREM RepliCommeRedis == SpecRepli => CommeRedis
  <1>1. InitRepli => Promesse!Init /\ TypesRepli
    BY InitRaffine
  <1>2. TypesRepli /\ [NextRepli]_varsRepli => [Promesse!Next]_(Promesse!vars) /\ TypesRepli'
    BY PasRaffine
  <1> QED BY <1>1, <1>2, PTL DEF SpecRepli, CommeRedis, Promesse!Spec
=============================================================================
