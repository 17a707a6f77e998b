----------------------------- MODULE OtpProofs -----------------------------
(***************************************************************************)
(* Theorems about Otp, for any number of users, of concurrent requests and  *)
(* any limits: its types, the bound on the codes sent in a window, and the  *)
(* codes that every change of an account goes back to.                      *)
(*                                                                          *)
(* The last part is about OtpLivraison: requests with their delivery are    *)
(* requests of Otp, so that what is proved of Otp holds of them; and a code *)
(* that was answered for can be had.                                        *)
(***************************************************************************)
EXTENDS OtpLivraison, FiniteSetTheorems, TLAPS

Entrees == [valeur : Nat, ttl : Nat \cup {Eternel}]
Magasins == [Cles -> Entrees]
EnVolPc == {"ecrire_code", "incrementer"}

\* The operators of the store keep the type of its entries.
LEMMA MagasinType ==
    ASSUME NEW m \in Magasins, NEW k \in Cles, NEW v \in Nat, NEW t \in Nat
    PROVE  /\ Poser(m, k, v, t) \in Magasins
           /\ Effacer(m, k) \in Magasins
           /\ Incrementer(m, k) \in Magasins
           /\ Expirer(m, k, t) \in Magasins
  BY DEF Magasins, Entrees, Poser, Effacer, Incrementer, Expirer, Absent,
         Present, Eternel

\* Time may remove an entry, and never raises a counter.
LEMMA VieillirType ==
    ASSUME NEW e \in Entrees
    PROVE  Vieillir(e) \in Entrees /\ Vieillir(e).valeur <= e.valeur
  <1>1. CASE e.ttl = 1
    BY <1>1 DEF Entrees, Vieillir, Absent, Eternel
  <1>2. CASE e.ttl > 1
    <2>1. Vieillir(e) = [e EXCEPT !.ttl = @ - 1]
      BY <1>2 DEF Vieillir, Entrees, Eternel
    <2>2. e.ttl - 1 \in Nat
      BY <1>2 DEF Entrees, Eternel
    <2> QED BY <2>1, <2>2 DEF Entrees
  <1>3. CASE ~(e.ttl = 1) /\ ~(e.ttl > 1)
    <2>1. Vieillir(e) = e
      BY <1>3 DEF Vieillir
    <2> QED BY <2>1 DEF Entrees
  <1> QED BY <1>1, <1>2, <1>3

\* A code and a counter are never kept under the same key.
LEMMA ClesType ==
    ASSUME NEW u \in Users
    PROVE  /\ RateLimitKey(u) \in Cles
           /\ \A objet \in Objets : /\ StorageKey(objet, u) \in Cles
                                    /\ StorageKey(objet, u) \in Objets \X Users
                                    /\ \A v \in Users : StorageKey(objet, u)
                                                          # RateLimitKey(v)
  BY DEF RateLimitKey, StorageKey, Cles, Objets

\* What the type of a request says of its fields.
LEMMA RequeteType ==
    ASSUME TypeOK, NEW r \in Requetes
    PROVE  /\ req[r] \in Contextes
           /\ RequeteOK(req[r])
           /\ req[r].code \in Nat
           /\ req[r].objet \in Objets
           /\ req[r].pc # "repos" => /\ req[r].u \in Users
                                     /\ Cle(r) \in Cles
                                     /\ Cle(r) \in Objets \X Users
                                     /\ <<req[r].objet, req[r].u>> \in Objets \X Users
                                     /\ RateLimitKey(req[r].u) \in Cles
  <1>1. req[r] \in Contextes /\ RequeteOK(req[r])
    BY DEF TypeOK
  <1>2. req[r].code \in Nat /\ req[r].objet \in Objets
    BY <1>1 DEF Contextes
  <1>3. req[r].pc # "repos" => req[r].u \in Users
    BY <1>1 DEF RequeteOK
  <1> QED BY <1>1, <1>2, <1>3, ClesType DEF Cle

\* Resting requests are well typed.
LEMMA ReposType == Repos \in Contextes /\ RequeteOK(Repos)
  BY DEF Repos, Contextes, RequeteOK, Objets, EtapesCode, EtapesUsage

\* Ending a request keeps the requests well typed.
LEMMA FinirType ==
    ASSUME TypeOK, NEW r \in Requetes, Finir(r)
    PROVE  req' \in [Requetes -> Contextes] /\ \A s \in Requetes : RequeteOK(req'[s])
  BY ReposType DEF TypeOK, Finir

\* Going to a step that is not one of a verification keeps them so as well.
LEMMA AllerType ==
    ASSUME TypeOK, NEW r \in Requetes, req[r].pc # "repos",
           NEW pc \in {"journal"} \cup EtapesCode \cup EtapesUsage,
           pc \in EtapesUsage \ {"lire_user"} => req[r].lu \in Comptes,
           Aller(r, pc)
    PROVE  req' \in [Requetes -> Contextes] /\ \A s \in Requetes : RequeteOK(req'[s])
  <1>1. req[r] \in Contextes /\ req[r].u \in Users
    BY RequeteType
  <1>2. [req[r] EXCEPT !.pc = pc] \in Contextes
    BY <1>1 DEF Contextes
  <1>3. RequeteOK([req[r] EXCEPT !.pc = pc])
    BY <1>1 DEF RequeteOK, Contextes
  <1>4. \A s \in Requetes : req'[s] = IF s = r THEN [req[r] EXCEPT !.pc = pc] ELSE req[s]
    BY DEF Aller, TypeOK
  <1>5. req' = [s \in Requetes |-> req'[s]]
    BY DEF Aller, TypeOK
  <1> QED BY <1>2, <1>3, <1>4, <1>5 DEF TypeOK
-----------------------------------------------------------------------------
\* The tables are well typed at the start.
THEOREM TypeInit == Init => TypeOK
  <1> SUFFICES ASSUME Init PROVE TypeOK
    OBVIOUS
  <1>1. magasin \in [Cles -> [valeur : Nat, ttl : Nat \cup {Eternel}]]
    BY DEF Init, Absent
  <1>2. users \in [Users -> Comptes]
    BY DEF Init, Comptes
  <1>3. req \in [Requetes -> Contextes] /\ \A r \in Requetes : RequeteOK(req[r])
    BY ReposType DEF Init
  <1>4. recues \in 0..MaxRequetes
    BY OtpAssumption DEF Init
  <1>5. /\ emis \in Seq(Objets \X Users)
        /\ usages \in [Codes -> Nat]
        /\ audits = {}
        /\ sansFenetre = {}
    BY DEF Init
  <1> QED BY <1>1, <1>2, <1>3, <1>4, <1>5 DEF TypeOK

\* Every step keeps the types.
THEOREM TypePas == TypeOK /\ [Next]_vars => TypeOK'
  <1> SUFFICES ASSUME TypeOK, [Next]_vars PROVE TypeOK'
    OBVIOUS
  <1> USE DEF A
  <1>1. CASE UNCHANGED vars
    BY <1>1 DEF TypeOK, vars
  <1>2. CASE Temps
    <2>1. magasin' \in [Cles -> [valeur : Nat, ttl : Nat \cup {Eternel}]]
      BY <1>2, VieillirType DEF Temps, TypeOK, Entrees
    <2> QED BY <1>2, <2>1 DEF Temps, TypeOK
  <1>3. ASSUME NEW r \in Requetes, Recevoir(r) PROVE TypeOK'
    <2>1. recues' \in 0..MaxRequetes
      BY <1>3, OtpAssumption DEF Recevoir, TypeOK
    <2>2. PICK q : /\ q \in Contextes /\ RequeteOK(q)
                   /\ req' = [req EXCEPT ![r] = q]
      <3>1. CASE DemanderCode(r)
        <4>1. PICK u \in Users, objet \in Objets :
                 req' = [req EXCEPT ![r] = [Repos EXCEPT !.pc = "lire_taux",
                                                         !.u = u, !.objet = objet]]
          BY <3>1 DEF DemanderCode
        <4>2. [Repos EXCEPT !.pc = "lire_taux", !.u = u, !.objet = objet] \in Contextes
          BY <4>1 DEF Repos, Contextes, EtapesCode
        <4>3. RequeteOK([Repos EXCEPT !.pc = "lire_taux", !.u = u, !.objet = objet])
          BY <4>1 DEF Repos, RequeteOK, EtapesUsage
        <4> QED BY <4>1, <4>2, <4>3
      <3>2. CASE UtiliserCode(r)
        <4>1. PICK u \in Users, op \in {"verifier", "reset"},
                   code \in 0..Len(emis), motDePasse \in MotsDePasse :
                req' = [req EXCEPT ![r] =
                  [pc |-> "lire_user", op |-> op, u |-> u,
                   objet |-> IF op = "verifier" THEN "verification"
                                                ELSE "password_reset",
                   code |-> code, lu |-> Neant,
                   motDePasse |-> IF op = "reset" THEN motDePasse ELSE Initial]]
          BY <3>2 DEF UtiliserCode
        <4>2. code \in Nat
          BY <4>1 DEF TypeOK
        <4> DEFINE q == [pc |-> "lire_user", op |-> op, u |-> u,
                   objet |-> IF op = "verifier" THEN "verification"
                                                ELSE "password_reset",
                   code |-> code, lu |-> Neant,
                   motDePasse |-> IF op = "reset" THEN motDePasse ELSE Initial]
        <4>3. q \in Contextes
          BY <4>1, <4>2 DEF Contextes, Objets, EtapesUsage
        <4>4. RequeteOK(q)
          BY <4>1 DEF RequeteOK, EtapesUsage
        <4> QED BY <4>1, <4>3, <4>4
      <3> QED BY <1>3, <3>1, <3>2 DEF Recevoir
    <2>3. req' \in [Requetes -> Contextes] /\ \A s \in Requetes : RequeteOK(req'[s])
      BY <2>2 DEF TypeOK
    <2> QED BY <1>3, <2>1, <2>3 DEF Recevoir, TypeOK
  <1>4. ASSUME NEW r \in Requetes, Avancer(r) PROVE TypeOK'
    <2> DEFINE ReqOK == /\ req' \in [Requetes -> Contextes]
                        /\ \A s \in Requetes : RequeteOK(req'[s])
    <2> USE DEF EtapesCode, EtapesUsage
    <2>1. CASE LireTaux(r)
      <3>1. ReqOK
        BY <2>1, FinirType, AllerType DEF LireTaux
      <3> QED BY <2>1, <3>1 DEF LireTaux, TypeOK
    <2>2. CASE EcrireCode(r)
      <3>1. ReqOK
        BY <2>2, AllerType DEF EcrireCode
      <3>2. Cle(r) \in Cles /\ <<req[r].objet, req[r].u>> \in Objets \X Users
        BY <2>2, RequeteType DEF EcrireCode
      <3>3. Len(emis) + 1 \in Nat
        BY DEF TypeOK
      <3>4. magasin' \in [Cles -> [valeur : Nat, ttl : Nat \cup {Eternel}]]
        BY <2>2, <3>2, <3>3, MagasinType, OtpAssumption
           DEF EcrireCode, TypeOK, Magasins, Entrees
      <3>5. emis' \in Seq(Objets \X Users)
        BY <2>2, <3>2 DEF EcrireCode, TypeOK
      <3> QED BY <2>2, <3>1, <3>4, <3>5 DEF EcrireCode, TypeOK
    <2>3. CASE IncrementerTaux(r)
      <3>1. ReqOK
        BY <2>3, AllerType DEF IncrementerTaux
      <3>2. magasin' \in [Cles -> [valeur : Nat, ttl : Nat \cup {Eternel}]]
        BY <2>3, RequeteType, MagasinType
           DEF IncrementerTaux, TypeOK, Magasins, Entrees
      <3> QED BY <2>3, <3>1, <3>2 DEF IncrementerTaux, TypeOK
    <2>4. CASE ExpirerTaux(r)
      <3>1. ReqOK
        BY <2>4, AllerType DEF ExpirerTaux
      <3>2. magasin' \in [Cles -> [valeur : Nat, ttl : Nat \cup {Eternel}]]
        BY <2>4, RequeteType, MagasinType, OtpAssumption
           DEF ExpirerTaux, TypeOK, Magasins, Entrees
      <3> QED BY <2>4, <3>1, <3>2 DEF ExpirerTaux, TypeOK
    <2>5. CASE Envoyer(r)
      <3>1. ReqOK
        BY <2>5, AllerType DEF Envoyer
      <3> QED BY <2>5, <3>1 DEF Envoyer, TypeOK
    <2>6. CASE LireUser(r)
      <3>1. req[r].u \in Users /\ req[r] \in Contextes
        BY <2>6, RequeteType DEF LireUser
      <3>2. users[req[r].u] \in Comptes
        BY <3>1 DEF TypeOK
      <3> DEFINE q == [req[r] EXCEPT !.pc = "lire_code", !.lu = users[req[r].u]]
      <3>3. q \in Contextes
        BY <3>1, <3>2 DEF Contextes
      <3>4. RequeteOK(q)
        BY <3>1, <3>2 DEF Contextes, RequeteOK
      <3>5. req' = [req EXCEPT ![r] = q]
        BY <2>6 DEF LireUser
      <3>6. ReqOK
        BY <3>3, <3>4, <3>5 DEF TypeOK
      <3> QED BY <2>6, <3>6 DEF LireUser, TypeOK
    <2>7. CASE LireCode(r)
      <3>1. ReqOK
        <4>1. req[r].lu \in Comptes
          BY <2>7, RequeteType DEF LireCode, RequeteOK
        <4> QED BY <2>7, <4>1, FinirType, AllerType DEF LireCode
      <3> QED BY <2>7, <3>1 DEF LireCode, TypeOK
    <2>8. CASE Hacher(r)
      <3>1. ReqOK
        <4>1. req[r].lu \in Comptes
          BY <2>8, RequeteType DEF Hacher, RequeteOK
        <4> QED BY <2>8, <4>1, AllerType DEF Hacher
      <3> QED BY <2>8, <3>1 DEF Hacher, TypeOK
    <2>9. CASE SupprimerCode(r)
      <3>1. ReqOK
        <4>1. req[r].lu \in Comptes
          BY <2>9, RequeteType DEF SupprimerCode, RequeteOK
        <4> QED BY <2>9, <4>1, AllerType DEF SupprimerCode
      <3>2. magasin' \in [Cles -> [valeur : Nat, ttl : Nat \cup {Eternel}]]
        <4>1. Cle(r) \in Cles
          BY <2>9, RequeteType DEF SupprimerCode
        <4>2. magasin \in Magasins
          BY DEF TypeOK, Magasins, Entrees
        <4>3. Effacer(magasin, Cle(r)) \in Magasins
          BY <4>1, <4>2, MagasinType
        <4> QED BY <2>9, <4>3 DEF SupprimerCode, Magasins, Entrees
      <3> QED BY <2>9, <3>1, <3>2 DEF SupprimerCode, TypeOK
    <2>10. CASE Sauver(r)
      <3>1. ReqOK
        BY <2>10, AllerType DEF Sauver
      <3>2. req[r] \in Contextes /\ req[r].lu \in Comptes /\ req[r].u \in Users
        BY <2>10, RequeteType DEF Sauver, RequeteOK
      <3>3. CompteModifie(req[r]) \in Comptes
        BY <3>2 DEF CompteModifie, Comptes, Contextes
      <3>4. users' \in [Users -> Comptes]
        BY <2>10, <3>3 DEF Sauver, TypeOK
      <3>5. usages' \in [Codes -> Nat]
        <4>1. usages \in [Codes -> Nat]
          BY DEF TypeOK
        <4>2. usages' = [c \in Codes |-> IF c = req[r].code THEN usages[c] + 1
                                                           ELSE usages[c]]
          BY <2>10, <4>1 DEF Sauver
        <4> QED BY <4>1, <4>2
      <3> QED BY <2>10, <3>1, <3>4, <3>5 DEF Sauver, TypeOK
    <2>11. CASE Journaliser(r)
      <3>1. ReqOK
        BY <2>11, FinirType DEF Journaliser
      <3>2. req[r] \in Contextes /\ req[r].u \in Users
        BY <2>11, RequeteType DEF Journaliser
      <3>3. <<req[r].op, req[r].objet, req[r].u>>
              \in {"code", "verifier", "reset"} \X Objets \X Users
        BY <3>2 DEF Contextes
      <3> QED BY <2>11, <3>1, <3>3 DEF Journaliser, TypeOK
    <2> QED BY <1>4, <2>1, <2>2, <2>3, <2>4, <2>5, <2>6, <2>7, <2>8, <2>9,
               <2>10, <2>11 DEF Avancer
  <1>5. ASSUME NEW r \in Requetes, Echouer(r) PROVE TypeOK'
    <2>1. req' \in [Requetes -> Contextes] /\ \A s \in Requetes : RequeteOK(req'[s])
      BY <1>5, FinirType DEF Echouer
    <2> QED BY <1>5, <2>1 DEF Echouer, TypeOK
  <1> QED BY <1>1, <1>2, <1>3, <1>4, <1>5 DEF Next

\* The store, the accounts and the requests keep their types.
THEOREM TypeCorrecte == Spec => []TypeOK
  <1> QED BY TypeInit, TypePas, PTL DEF Spec
-----------------------------------------------------------------------------
\* There are finitely many requests in flight, no more than slots.
LEMMA EnVolFini ==
    ASSUME NEW u
    PROVE  /\ IsFiniteSet(EnVol(u))
           /\ Cardinality(EnVol(u)) \in Nat
           /\ Cardinality(Requetes) \in Nat
           /\ Cardinality(EnVol(u)) <= Cardinality(Requetes)
  <1>1. EnVol(u) \subseteq Requetes
    BY DEF EnVol
  <1> QED BY <1>1, RequetesAssumption, FS_Subset, FS_CardinalityType

\* The same about the next state, where EnVol is another set.
LEMMA EnVolFiniSuivant ==
    ASSUME NEW u
    PROVE  /\ IsFiniteSet(EnVol(u)')
           /\ Cardinality(EnVol(u)') \in Nat
           /\ Cardinality(EnVol(u)') <= Cardinality(Requetes)
  <1>1. EnVol(u)' \subseteq Requetes
    BY DEF EnVol
  <1> QED BY <1>1, RequetesAssumption, FS_Subset, FS_CardinalityType

\* A counter is a natural number.
LEMMA EssaisType ==
    ASSUME TypeOK, NEW u \in Users
    PROVE  Essais(u) \in Nat
  <1>1. RateLimitKey(u) \in Cles
    BY ClesType
  <1>2. magasin[RateLimitKey(u)] \in [valeur : Nat, ttl : Nat \cup {Eternel}]
    BY <1>1 DEF TypeOK
  <1> QED BY <1>2 DEF Essais

\* A counter of the next state is a natural number too.
LEMMA EssaisTypeSuivant ==
    ASSUME TypeOK', NEW u \in Users
    PROVE  Essais(u)' \in Nat
  <1>1. RateLimitKey(u) \in Cles
    BY ClesType
  <1>2. magasin'[RateLimitKey(u)] \in [valeur : Nat, ttl : Nat \cup {Eternel}]
    BY <1>1 DEF TypeOK
  <1> QED BY <1>2 DEF Essais

\* A step that raises no counter and lets no request through keeps the bound.
LEMMA Conserve ==
    ASSUME TypeOK, TypeOK', TauxReserve,
           \A u \in Users : Essais(u)' <= Essais(u),
           \A u \in Users : EnVol(u)' \subseteq EnVol(u)
    PROVE  TauxReserve'
  <1> SUFFICES ASSUME NEW u \in Users
               PROVE  Essais(u)' + Cardinality(EnVol(u)')
                        <= OtpMaxAttempts - 1 + Cardinality(Requetes)
    BY DEF TauxReserve
  <1>1. Cardinality(EnVol(u)') <= Cardinality(EnVol(u))
    BY EnVolFini, FS_Subset
  <1>2. Essais(u) + Cardinality(EnVol(u))
          <= OtpMaxAttempts - 1 + Cardinality(Requetes)
    BY DEF TauxReserve
  <1>3. Essais(u)' <= Essais(u)
    OBVIOUS
  <1> HIDE DEF Essais, EnVol
  <1> QED BY <1>1, <1>2, <1>3, EnVolFini, EnVolFiniSuivant, EssaisType,
             EssaisTypeSuivant, OtpAssumption

\* A request that ends, or goes on to a step outside EnVolPc, leaves flight.
LEMMA Sortie ==
    ASSUME TypeOK, NEW r \in Requetes, NEW pc, pc \notin EnVolPc,
           Finir(r) \/ Aller(r, pc)
    PROVE  \A u \in Users : EnVol(u)' = EnVol(u) \ {r}
  <1>1. req'[r].pc \notin EnVolPc
    <2>1. req[r] \in Contextes
      BY RequeteType
    <2>2. CASE Finir(r)
      BY <2>2 DEF Finir, TypeOK, Repos, EnVolPc
    <2>3. CASE Aller(r, pc)
      <3>1. req' = [req EXCEPT ![r].pc = pc]
        BY <2>3 DEF Aller
      <3>2. req'[r].pc = pc
        BY <2>1, <3>1 DEF TypeOK, Contextes
      <3> QED BY <3>2
    <2> QED BY <2>2, <2>3
  <1>2. \A s \in Requetes \ {r} : req'[s] = req[s]
    BY DEF TypeOK, Finir, Aller
  <1> QED BY <1>1, <1>2 DEF EnVol, EnVolPc

\* A command on the key of a code touches no counter.
LEMMA AutreCle ==
    ASSUME TypeOK, NEW r \in Requetes, req[r].pc # "repos", NEW v, NEW t,
           \/ magasin' = Poser(magasin, Cle(r), v, t)
           \/ magasin' = Effacer(magasin, Cle(r))
    PROVE  \A u \in Users : Essais(u)' = Essais(u)
  <1>1. req[r].u \in Users /\ req[r].objet \in Objets
    BY RequeteType
  <1>2. \A u \in Users : /\ RateLimitKey(u) \in Cles
                         /\ RateLimitKey(u) # Cle(r)
    BY <1>1, ClesType DEF Cle
  <1>3. \A k \in Cles \ {Cle(r)} : magasin'[k] = magasin[k]
    BY DEF Poser, Effacer, TypeOK
  <1> QED BY <1>2, <1>3 DEF Essais
-----------------------------------------------------------------------------
InvTaux == TypeOK /\ TauxReserve

\* Nothing is counted and nothing in flight at the start.
THEOREM TauxInit == Init => TauxReserve
  <1> SUFFICES ASSUME Init, NEW u \in Users
               PROVE  Essais(u) + Cardinality(EnVol(u))
                        <= OtpMaxAttempts - 1 + Cardinality(Requetes)
    BY DEF TauxReserve
  <1>1. Essais(u) = 0
    BY ClesType DEF Init, Essais, Absent
  <1>2. Cardinality(EnVol(u)) <= Cardinality(Requetes)
    BY EnVolFini
  <1> QED BY <1>1, <1>2, EnVolFini, OtpAssumption

\* What a step does to the counters and to the requests in flight: nothing that
\* raises them; a request about v let through below the limit; or request r,
\* which was let through, counted.
Calme == \A u \in Users : Essais(u)' <= Essais(u) /\ EnVol(u)' \subseteq EnVol(u)

Admis(v) ==
    /\ Essais(v) < OtpMaxAttempts
    /\ \A u \in Users : Essais(u)' = Essais(u)
    /\ \A u \in Users \ {v} : EnVol(u)' \subseteq EnVol(u)

Compte(v, r) ==
    /\ r \in EnVol(v)
    /\ Essais(v)' = Essais(v) + 1
    /\ \A u \in Users \ {v} : Essais(u)' = Essais(u)
    /\ \A u \in Users : EnVol(u)' = EnVol(u) \ {r}

TauxEtape ==
    \/ Calme
    \/ \E v \in Users : Admis(v)
    \/ \E v \in Users, r \in Requetes : Compte(v, r)

\* There is no other step.
LEMMA TauxEtapes == ASSUME TypeOK, [Next]_vars PROVE TauxEtape
  <1>0. TypeOK
    OBVIOUS
  <1> DEFINE Egaux == \A u \in Users : Essais(u)' = Essais(u)
  <1> DEFINE Sortant(r) == \A u \in Users : EnVol(u)' = EnVol(u) \ {r}
  <1> USE DEF TauxEtape
  <1>a. ASSUME NEW r \in Requetes, Egaux, Sortant(r) PROVE TauxEtape
    BY <1>0, <1>a, EssaisType DEF Calme
  <1>1. CASE UNCHANGED vars
    <2>1. \A u \in Users : Essais(u)' = Essais(u) /\ EnVol(u)' = EnVol(u)
      BY <1>1 DEF vars, Essais, EnVol
    <2> QED BY <1>0, <2>1, EssaisType DEF Calme
  <1>2. CASE Temps
    <2>1. \A u \in Users : Essais(u)' <= Essais(u)
      BY <1>0, <1>2, ClesType, VieillirType DEF Temps, Essais, TypeOK, Entrees
    <2>2. \A u \in Users : EnVol(u)' \subseteq EnVol(u)
      BY <1>2 DEF Temps, EnVol
    <2> QED BY <2>1, <2>2 DEF Calme
  <1>3. ASSUME NEW r \in Requetes, Recevoir(r) PROVE TauxEtape
    <2>1. \A u \in Users : Essais(u)' = Essais(u)
      BY <1>3 DEF Recevoir, Essais
    <2>2. \E q : req' = [req EXCEPT ![r] = q] /\ q.pc \notin EnVolPc
      <3>1. CASE DemanderCode(r)
        <4>1. PICK u \in Users, objet \in Objets :
                 req' = [req EXCEPT ![r] = [Repos EXCEPT !.pc = "lire_taux",
                                                         !.u = u, !.objet = objet]]
          BY <3>1 DEF DemanderCode
        <4>2. [Repos EXCEPT !.pc = "lire_taux", !.u = u, !.objet = objet].pc
                 \notin EnVolPc
          BY DEF Repos, EnVolPc
        <4> QED BY <4>1, <4>2
      <3>2. CASE UtiliserCode(r)
        <4>1. PICK u \in Users, op \in {"verifier", "reset"} \cap Operations,
                code \in 0..Len(emis), motDePasse \in MotsDePasse :
                req' = [req EXCEPT ![r] =
                  [pc |-> "lire_user", op |-> op, u |-> u,
                   objet |-> IF op = "verifier" THEN "verification"
                                                ELSE "password_reset",
                   code |-> code, lu |-> Neant,
                   motDePasse |-> IF op = "reset" THEN motDePasse ELSE Initial]]
          BY <3>2 DEF UtiliserCode
        <4> DEFINE q == [pc |-> "lire_user", op |-> op, u |-> u,
                   objet |-> IF op = "verifier" THEN "verification"
                                                ELSE "password_reset",
                   code |-> code, lu |-> Neant,
                   motDePasse |-> IF op = "reset" THEN motDePasse ELSE Initial]
        <4>2. q.pc \notin EnVolPc
          BY DEF EnVolPc
        <4>3. req' = [req EXCEPT ![r] = q]
          BY <4>1
        <4> HIDE DEF q
        <4> QED BY <4>2, <4>3
      <3> QED BY <1>3, <3>1, <3>2 DEF Recevoir
    <2>3. \A u \in Users : EnVol(u)' \subseteq EnVol(u)
      BY <1>0, <2>2 DEF EnVol, EnVolPc, TypeOK
    <2> QED BY <1>0, <2>1, <2>3, EssaisType DEF Calme
  <1>4. ASSUME NEW r \in Requetes, Avancer(r) PROVE TauxEtape
    <2> USE DEF A
    <2>1. CASE LireTaux(r)
      <3>0. PICK v : v = req[r].u
        OBVIOUS
      <3>1. v \in Users /\ req[r] \in Contextes /\ Egaux
        BY <1>0, <2>1, <3>0, RequeteType DEF LireTaux, Essais
      <3>2. CASE Essais(v) >= OtpMaxAttempts
        <4>1. Sortant(r)
          BY <1>0, <2>1, <3>0, <3>2, Sortie DEF LireTaux, EnVolPc, Essais
        <4> QED BY <1>a, <3>1, <4>1
      <3>3. CASE ~(Essais(v) >= OtpMaxAttempts)
        <4>1. Aller(r, "ecrire_code")
          BY <2>1, <3>0, <3>3 DEF LireTaux, Essais
        <4>2. \A s \in Requetes \ {r} : req'[s] = req[s]
          BY <1>0, <4>1 DEF Aller, TypeOK
        <4>3. req'[r].u = v
          BY <1>0, <3>0, <3>1, <4>1 DEF Aller, TypeOK, Contextes
        <4>4. \A u \in Users \ {v} : EnVol(u)' \subseteq EnVol(u)
          BY <3>0, <4>2, <4>3 DEF EnVol
        <4>5. Essais(v) < OtpMaxAttempts
          BY <1>0, <3>1, <3>3, EssaisType, OtpAssumption
        <4>6. Admis(v)
          BY <3>1, <4>4, <4>5 DEF Admis
        <4> QED BY <3>1, <4>6
      <3> QED BY <3>2, <3>3
    <2>2. CASE EcrireCode(r)
      <3>1. Egaux
        BY <1>0, <2>2, AutreCle DEF EcrireCode
      <3>2. \A u \in Users : EnVol(u)' \subseteq EnVol(u)
        <4>1. \A s \in Requetes \ {r} : req'[s] = req[s]
          BY <1>0, <2>2 DEF EcrireCode, Aller, TypeOK
        <4>2. req'[r].u = req[r].u /\ req[r].pc = "ecrire_code"
          BY <1>0, <2>2, RequeteType DEF EcrireCode, Aller, TypeOK, Contextes
        <4> QED BY <4>1, <4>2 DEF EnVol
      <3> QED BY <1>0, <3>1, <3>2, EssaisType DEF Calme
    <2>3. CASE IncrementerTaux(r)
      <3>0. PICK v : v = req[r].u
        OBVIOUS
      <3>1. v \in Users /\ RateLimitKey(v) \in Cles /\ req[r].pc = "incrementer"
        BY <1>0, <2>3, <3>0, RequeteType, ClesType DEF IncrementerTaux
      <3>2. Sortant(r)
        <4>1. PICK pc \in {"expirer", "envoyer"} : Aller(r, pc)
          BY <2>3 DEF IncrementerTaux
        <4> QED BY <1>0, <4>1, Sortie DEF EnVolPc
      <3>3. Essais(v)' = Essais(v) + 1
        BY <1>0, <2>3, <3>0, <3>1 DEF IncrementerTaux, Incrementer, Essais, TypeOK
      <3>4. \A u \in Users \ {v} : Essais(u)' = Essais(u)
        BY <1>0, <2>3, <3>0, <3>1, ClesType
           DEF IncrementerTaux, Incrementer, Essais, TypeOK, RateLimitKey
      <3>5. r \in EnVol(v)
        BY <3>0, <3>1 DEF EnVol
      <3>6. Compte(v, r)
        BY <3>2, <3>3, <3>4, <3>5 DEF Compte
      <3> QED BY <3>1, <3>6
    <2>4. CASE ExpirerTaux(r)
      <3>1. Egaux
        BY <1>0, <2>4, ClesType DEF ExpirerTaux, Expirer, Essais, TypeOK
      <3>2. Sortant(r)
        BY <1>0, <2>4, Sortie DEF ExpirerTaux, EnVolPc
      <3> QED BY <1>a, <3>1, <3>2
    <2>5. CASE Envoyer(r) \/ Hacher(r) \/ Journaliser(r)
      <3>1. Egaux
        BY <2>5 DEF Envoyer, Hacher, Journaliser, Essais
      <3>2. Sortant(r)
        BY <1>0, <2>5, Sortie DEF Envoyer, Hacher, Journaliser, EnVolPc
      <3> QED BY <1>a, <3>1, <3>2
    <2>6. CASE LireUser(r)
      <3>1. Egaux
        BY <2>6 DEF LireUser, Essais
      <3>2. req[r] \in Contextes
        BY <1>0, RequeteType
      <3>3. req'[r].pc = "lire_code"
        BY <1>0, <2>6, <3>2 DEF LireUser, TypeOK, Contextes
      <3>4. \A s \in Requetes \ {r} : req'[s] = req[s]
        BY <1>0, <2>6 DEF LireUser, TypeOK
      <3>5. Sortant(r)
        BY <3>3, <3>4 DEF EnVol
      <3> QED BY <1>a, <3>1, <3>5
    <2>7. CASE LireCode(r)
      <3>1. Egaux
        BY <2>7 DEF LireCode, Essais
      <3>2. PICK pc \in {"hacher", "supprimer"} : Finir(r) \/ Aller(r, pc)
        BY <2>7 DEF LireCode
      <3>3. Sortant(r)
        BY <1>0, <3>2, Sortie DEF EnVolPc
      <3> QED BY <1>a, <3>1, <3>3
    <2>8. CASE SupprimerCode(r)
      <3>1. Egaux
        BY <1>0, <2>8, AutreCle DEF SupprimerCode
      <3>2. Sortant(r)
        BY <1>0, <2>8, Sortie DEF SupprimerCode, EnVolPc
      <3> QED BY <1>a, <3>1, <3>2
    <2>9. CASE Sauver(r)
      <3>1. Egaux
        BY <2>9 DEF Sauver, Essais
      <3>2. Sortant(r)
        BY <1>0, <2>9, Sortie DEF Sauver, EnVolPc
      <3> QED BY <1>a, <3>1, <3>2
    <2> QED BY <1>4, <2>1, <2>2, <2>3, <2>4, <2>5, <2>6, <2>7, <2>8, <2>9
            DEF Avancer
  <1>5. ASSUME NEW r \in Requetes, Echouer(r) PROVE TauxEtape
    <2>1. Egaux
      BY <1>5 DEF Echouer, Essais
    <2>2. Sortant(r)
      BY <1>0, <1>5, Sortie DEF Echouer, EnVolPc
    <2> QED BY <1>a, <2>1, <2>2
  <1> QED BY <1>1, <1>2, <1>3, <1>4, <1>5 DEF Next

\* Every step keeps the counters, with the requests in flight, bounded.
THEOREM TauxPas == InvTaux /\ [Next]_vars => TauxReserve'
  <1> SUFFICES ASSUME InvTaux, [Next]_vars PROVE TauxReserve'
    OBVIOUS
  <1>0. TypeOK /\ TauxReserve /\ TypeOK'
    BY TypePas DEF InvTaux
  <1>1. CASE Calme
    BY <1>0, <1>1, Conserve DEF Calme
  <1>2. ASSUME NEW v \in Users, Admis(v) PROVE TauxReserve'
    <2> SUFFICES ASSUME NEW u \in Users
                 PROVE  Essais(u)' + Cardinality(EnVol(u)')
                          <= OtpMaxAttempts - 1 + Cardinality(Requetes)
      BY DEF TauxReserve
    <2>1. CASE u = v
      <3>1. Essais(u)' <= OtpMaxAttempts - 1
        BY <1>0, <1>2, <2>1, EssaisType, OtpAssumption DEF Admis
      <3>2. Essais(u)' \in Nat
        BY <1>0, EssaisTypeSuivant
      <3>3. /\ Cardinality(EnVol(u)') \in Nat
            /\ Cardinality(Requetes) \in Nat
            /\ Cardinality(EnVol(u)') <= Cardinality(Requetes)
        BY EnVolFini, EnVolFiniSuivant
      <3> HIDE DEF Essais, EnVol
      <3> QED BY <3>1, <3>2, <3>3, OtpAssumption
    <2>2. CASE u # v
      <3>1. Cardinality(EnVol(u)') <= Cardinality(EnVol(u))
        BY <1>2, <2>2, EnVolFini, FS_Subset DEF Admis
      <3>2. Essais(u)' = Essais(u)
        BY <1>2 DEF Admis
      <3>3. Essais(u) + Cardinality(EnVol(u))
              <= OtpMaxAttempts - 1 + Cardinality(Requetes)
        BY <1>0 DEF TauxReserve
      <3> HIDE DEF Essais, EnVol
      <3> QED BY <1>0, <3>1, <3>2, <3>3, EnVolFini, EnVolFiniSuivant, EssaisType,
                 OtpAssumption
    <2> QED BY <2>1, <2>2
  <1>3. ASSUME NEW v \in Users, NEW r \in Requetes, Compte(v, r)
        PROVE  TauxReserve'
    <2> SUFFICES ASSUME NEW u \in Users
                 PROVE  Essais(u)' + Cardinality(EnVol(u)')
                          <= OtpMaxAttempts - 1 + Cardinality(Requetes)
      BY DEF TauxReserve
    <2>1. Essais(u) + Cardinality(EnVol(u))
            <= OtpMaxAttempts - 1 + Cardinality(Requetes)
      BY <1>0 DEF TauxReserve
    <2>2. EnVol(u)' = EnVol(u) \ {r}
      BY <1>3 DEF Compte
    <2>3. CASE u = v
      <3>1. r \in EnVol(u) /\ Essais(u)' = Essais(u) + 1
        BY <1>3, <2>3 DEF Compte
      <3>2. Cardinality(EnVol(u) \ {r}) = Cardinality(EnVol(u)) - 1
        BY <3>1, EnVolFini, FS_RemoveElement
      <3> QED BY <1>0, <2>1, <2>2, <3>1, <3>2, EnVolFini, EssaisType,
                 OtpAssumption
    <2>4. CASE u # v
      <3>1. Cardinality(EnVol(u)') <= Cardinality(EnVol(u))
        BY <2>2, EnVolFini, FS_Subset
      <3>2. Essais(u)' = Essais(u)
        BY <1>3, <2>4 DEF Compte
      <3> QED BY <1>0, <2>1, <3>1, <3>2, EnVolFini, EnVolFiniSuivant,
                 EssaisType, OtpAssumption
    <2> QED BY <2>3, <2>4
  <1> QED BY <1>0, <1>1, <1>2, <1>3, TauxEtapes DEF TauxEtape

\* However many requests overlap, fail or are repeated, the counter of a user
\* exceeds OTP_MAX_ATTEMPTS - 1 by no more than the number of requests in
\* progress at a time: the check before the increment is late, never blind.
THEOREM TauxJamaisDepasse == Spec => [](TauxReserve /\ TauxBorne)
  <1>1. Init => InvTaux
    BY TypeInit, TauxInit DEF InvTaux
  <1>2. InvTaux /\ [Next]_vars => InvTaux'
    BY TypePas, TauxPas DEF InvTaux
  <1>3. InvTaux => TauxBorne
    BY EssaisType, EnVolFini, OtpAssumption DEF InvTaux, TauxReserve, TauxBorne
  <1>4. InvTaux => TauxReserve
    BY DEF InvTaux
  <1> QED BY <1>1, <1>2, <1>3, <1>4, PTL DEF Spec

\* Of the requests of a user, one at a time is between check and increment.
UnSeulEnVol == \A u \in Users : \A r, s \in EnVol(u) : r = s

\* A counter never passes the limit, and is below it while a request that was
\* let through is still to be counted.
TauxSerie ==
    \A u \in Users : /\ Essais(u) <= OtpMaxAttempts
                     /\ EnVol(u) # {} => Essais(u) < OtpMaxAttempts

\* A step from a state where no two are in flight keeps this.
LEMMA TauxSeriePas ==
    ASSUME TypeOK, TauxSerie, UnSeulEnVol, [Next]_vars
    PROVE  TauxSerie'
  <1>0. TypeOK'
    BY TypePas
  <1> SUFFICES ASSUME NEW u \in Users
               PROVE  /\ Essais(u)' <= OtpMaxAttempts
                      /\ EnVol(u)' # {} => Essais(u)' < OtpMaxAttempts
    BY DEF TauxSerie
  <1>1. /\ Essais(u) \in Nat /\ Essais(u)' \in Nat
        /\ Essais(u) <= OtpMaxAttempts
        /\ EnVol(u) # {} => Essais(u) < OtpMaxAttempts
    BY <1>0, EssaisType, EssaisTypeSuivant DEF TauxSerie
  <1>2. ASSUME Essais(u)' <= Essais(u), EnVol(u)' \subseteq EnVol(u)
        PROVE  /\ Essais(u)' <= OtpMaxAttempts
               /\ EnVol(u)' # {} => Essais(u)' < OtpMaxAttempts
    BY <1>1, <1>2, OtpAssumption
  <1>3. CASE Calme
    BY <1>2, <1>3 DEF Calme
  <1>4. ASSUME NEW v \in Users, Admis(v)
        PROVE  /\ Essais(u)' <= OtpMaxAttempts
               /\ EnVol(u)' # {} => Essais(u)' < OtpMaxAttempts
    <2>1. Essais(u)' = Essais(u)
      BY <1>4 DEF Admis
    <2>2. CASE u = v
      BY <1>1, <1>4, <2>1, <2>2, OtpAssumption DEF Admis
    <2>3. CASE u # v
      <3>1. EnVol(u)' \subseteq EnVol(u)
        BY <1>4, <2>3 DEF Admis
      <3> HIDE DEF Essais, EnVol
      <3> QED BY <1>1, <2>1, <3>1, OtpAssumption
    <2> QED BY <2>2, <2>3
  <1>5. ASSUME NEW v \in Users, NEW r \in Requetes, Compte(v, r)
        PROVE  /\ Essais(u)' <= OtpMaxAttempts
               /\ EnVol(u)' # {} => Essais(u)' < OtpMaxAttempts
    <2>1. EnVol(u)' = EnVol(u) \ {r}
      BY <1>5 DEF Compte
    <2>2. CASE u = v
      <3>1. r \in EnVol(u) /\ Essais(u)' = Essais(u) + 1
        BY <1>5, <2>2 DEF Compte
      <3>2. EnVol(u)' = {}
        BY <2>1, <3>1 DEF UnSeulEnVol
      <3> QED BY <1>1, <3>1, <3>2, OtpAssumption
    <2>3. CASE u # v
      <3>1. Essais(u)' = Essais(u)
        BY <1>5, <2>3 DEF Compte
      <3> QED BY <1>1, <2>1, <3>1, OtpAssumption
    <2> QED BY <2>2, <2>3
  <1> QED BY <1>3, <1>4, <1>5, TauxEtapes DEF TauxEtape

\* The limit that the README of the repository announces is the limit as long as
\* no two requests of a user are between check and increment at once: nothing
\* but their overlap sends more codes than OTP_MAX_ATTEMPTS, whatever else
\* requests, failures and the end of windows do meanwhile.
THEOREM TauxRespecteSansRecouvrement ==
    Spec /\ []UnSeulEnVol => []TauxRespecte
  <1>1. Init => TypeOK /\ TauxSerie
    <2> SUFFICES ASSUME Init, NEW u \in Users
                 PROVE  /\ Essais(u) <= OtpMaxAttempts
                        /\ EnVol(u) # {} => Essais(u) < OtpMaxAttempts
      BY TypeInit DEF TauxSerie
    <2>1. Essais(u) = 0
      BY ClesType DEF Init, Essais, Absent
    <2> QED BY <2>1, OtpAssumption
  <1>2. (TypeOK /\ TauxSerie) /\ UnSeulEnVol /\ [Next]_vars
          => (TypeOK /\ TauxSerie)'
    BY TypePas, TauxSeriePas
  <1>3. TauxSerie => TauxRespecte
    BY DEF TauxSerie, TauxRespecte
  <1> QED BY <1>1, <1>2, <1>3, PTL DEF Spec
-----------------------------------------------------------------------------
InvCodes == TypeOK /\ CodesFondes /\ ChangementParCode

\* The history of codes is only added to.
Prolonge ==
    /\ Len(emis) <= Len(emis')
    /\ \A c \in 1..Len(emis) : emis'[c] = emis[c]
    /\ \A c \in Codes : usages'[c] >= usages[c]

\* What a code was generated for, and what it gave, is never taken back.
LEMMA ResteFonde ==
    ASSUME TypeOK, TypeOK', Len(emis) <= MaxRequetes, Prolonge
    PROVE  /\ \A c, objet, u : Emis(c, objet, u) => Emis(c, objet, u)'
           /\ \A compte, u : CompteFonde(compte, u) => CompteFonde(compte, u)'
  <1>1. Len(emis) \in Nat /\ Len(emis') \in Nat
    BY DEF TypeOK
  <1>2. \A c, objet, u : Emis(c, objet, u) => Emis(c, objet, u)'
    BY <1>1 DEF Emis, Prolonge
  <1>3. \A objet, u : Utilise(objet, u) => Utilise(objet, u)'
    <2> SUFFICES ASSUME NEW objet, NEW u, Utilise(objet, u)
                 PROVE  Utilise(objet, u)'
      OBVIOUS
    <2>1. PICK c \in 1..Len(emis) : Emis(c, objet, u) /\ usages[c] > 0
      BY DEF Utilise
    <2>2. c \in Codes
      BY <1>1, <2>1, OtpAssumption DEF Codes
    <2>3. usages[c] \in Nat /\ usages'[c] \in Nat
      BY <2>2 DEF TypeOK
    <2>4. usages'[c] > 0
      BY <2>1, <2>2, <2>3 DEF Prolonge
    <2>5. Emis(c, objet, u)' /\ c \in 1..Len(emis')
      BY <1>1, <1>2, <2>1 DEF Prolonge
    <2> QED BY <2>4, <2>5 DEF Utilise
  <1> QED BY <1>2, <1>3 DEF CompteFonde

\* A step of one request, which leaves the codes in the store where they are or
\* removes them, and the accounts as they are or as the history justifies.
LEMMA CadreCodes ==
    ASSUME InvCodes, TypeOK', Prolonge, Len(emis') <= MaxRequetes,
           \A r \in Requetes : req'[r] = req[r] \/ RequeteFondee(req[r])',
           StockFonde',
           \A u \in Users : users'[u] = users[u] \/ CompteFonde(users[u], u)'
    PROVE  CodesFondes' /\ ChangementParCode'
  <1>1. /\ \A c, objet, u : Emis(c, objet, u) => Emis(c, objet, u)'
        /\ \A compte, u : CompteFonde(compte, u) => CompteFonde(compte, u)'
    BY ResteFonde DEF InvCodes, CodesFondes
  <1>2. \A r \in Requetes : RequeteFondee(req[r])'
    BY <1>1 DEF InvCodes, CodesFondes, RequeteFondee
  <1>3. ChangementParCode'
    BY <1>1 DEF InvCodes, ChangementParCode
  <1> QED BY <1>2, <1>3 DEF CodesFondes

\* Codes that stay in the store, or leave it, are still those of their key.
LEMMA StockConserve ==
    ASSUME InvCodes, TypeOK', Prolonge,
           \A objet \in Objets, u \in Users :
               LET k == StorageKey(objet, u)
               IN  magasin'[k] = magasin[k] \/ magasin'[k].ttl = 0
                     \/ (magasin'[k].valeur = magasin[k].valeur
                           /\ magasin[k].ttl # 0)
    PROVE  StockFonde'
  <1>1. \A c, objet, u : Emis(c, objet, u) => Emis(c, objet, u)'
    BY ResteFonde DEF InvCodes, CodesFondes
  <1> SUFFICES ASSUME NEW objet \in Objets, NEW u \in Users,
                      magasin'[StorageKey(objet, u)].ttl # 0
               PROVE  Emis(magasin[StorageKey(objet, u)].valeur, objet, u)'
    BY DEF StockFonde, Present, StorageKey
  <1>2. /\ magasin'[StorageKey(objet, u)].valeur
             = magasin[StorageKey(objet, u)].valeur
        /\ magasin[StorageKey(objet, u)].ttl # 0
    OBVIOUS
  <1>3. PICK v : /\ v = magasin[StorageKey(objet, u)].valeur
                 /\ Emis(v, objet, u)
    BY <1>2 DEF InvCodes, CodesFondes, StockFonde, Present
  <1>4. Emis(v, objet, u)'
    BY <1>1, <1>3
  <1>5. magasin'[StorageKey(objet, u)].valeur = v
    BY <1>2, <1>3
  <1> QED BY <1>4, <1>5 DEF Emis, StorageKey

\* No code exists at the start, and no account shows one.
THEOREM CodesInit == Init => CodesFondes /\ ChangementParCode
  <1> SUFFICES ASSUME Init PROVE CodesFondes /\ ChangementParCode
    OBVIOUS
  <1>1. Len(emis) <= MaxRequetes
    BY OtpAssumption DEF Init
  <1>2. StockFonde
    BY ClesType DEF Init, StockFonde, Present, Absent
  <1>3. \A r \in Requetes : RequeteFondee(req[r])
    BY DEF Init, Repos, RequeteFondee, EtapesUsage
  <1>4. ChangementParCode
    BY DEF Init, ChangementParCode, CompteFonde
  <1> QED BY <1>1, <1>2, <1>3, <1>4 DEF CodesFondes

\* A step that writes no code and changes no account.
LEMMA RienDeNeuf ==
    ASSUME TypeOK, emis' = emis, usages' = usages
    PROVE  Prolonge /\ (Len(emis) <= MaxRequetes => Len(emis') <= MaxRequetes)
  BY DEF TypeOK, Prolonge

\* The request that ends or goes on, and the others.
LEMMA ApresFinir ==
    ASSUME TypeOK, NEW r \in Requetes, Finir(r)
    PROVE  /\ \A s \in Requetes \ {r} : req'[s] = req[s]
           /\ RequeteFondee(req[r])'
  <1>1. req'[r].pc = "repos"
    BY DEF TypeOK, Finir, Repos
  <1> QED BY <1>1 DEF TypeOK, Finir, RequeteFondee, EtapesUsage

\* A request that goes on changes nothing but its step.
LEMMA ApresAller ==
    ASSUME TypeOK, NEW r \in Requetes, NEW pc, Aller(r, pc)
    PROVE  /\ \A s \in Requetes \ {r} : req'[s] = req[s]
           /\ req'[r].pc = pc /\ req'[r].op = req[r].op
           /\ req'[r].u = req[r].u /\ req'[r].objet = req[r].objet
           /\ req'[r].code = req[r].code /\ req'[r].lu = req[r].lu
  <1>1. req[r] \in Contextes
    BY DEF TypeOK
  <1> QED BY <1>1 DEF TypeOK, Aller, Contextes

\* A request as Recevoir starts it.
Debut(q) ==
    /\ q.pc \in {"lire_taux", "lire_user"}
    /\ q.pc = "lire_user" =>
          <<q.op, q.objet>> \in {<<"verifier", "verification">>,
                                <<"reset", "password_reset">>}

\* A request that comes starts with its first step.
LEMMA RequeteCommencee ==
    ASSUME NEW r, Recevoir(r)
    PROVE  \E q : Debut(q) /\ req' = [req EXCEPT ![r] = q]
  <1>1. CASE DemanderCode(r)
    <2>1. PICK u \in Users, objet \in Objets :
             req' = [req EXCEPT ![r] = [Repos EXCEPT !.pc = "lire_taux",
                                                     !.u = u, !.objet = objet]]
      BY <1>1 DEF DemanderCode
    <2> DEFINE q == [Repos EXCEPT !.pc = "lire_taux", !.u = u, !.objet = objet]
    <2>2. Debut(q)
      BY DEF Repos, Debut
    <2>3. req' = [req EXCEPT ![r] = q]
      BY <2>1
    <2> HIDE DEF q
    <2> QED BY <2>2, <2>3
  <1>2. CASE UtiliserCode(r)
    <2>1. PICK u \in Users, op \in {"verifier", "reset"} \cap Operations,
            code \in 0..Len(emis), motDePasse \in MotsDePasse :
            req' = [req EXCEPT ![r] =
              [pc |-> "lire_user", op |-> op, u |-> u,
               objet |-> IF op = "verifier" THEN "verification"
                                            ELSE "password_reset",
               code |-> code, lu |-> Neant,
               motDePasse |-> IF op = "reset" THEN motDePasse ELSE Initial]]
      BY <1>2 DEF UtiliserCode
    <2> DEFINE q == [pc |-> "lire_user", op |-> op, u |-> u,
               objet |-> IF op = "verifier" THEN "verification"
                                            ELSE "password_reset",
               code |-> code, lu |-> Neant,
               motDePasse |-> IF op = "reset" THEN motDePasse ELSE Initial]
    <2>2. Debut(q)
      BY <2>1 DEF Debut
    <2>3. req' = [req EXCEPT ![r] = q]
      BY <2>1
    <2> HIDE DEF q
    <2> QED BY <2>2, <2>3
  <1> QED BY <1>1, <1>2 DEF Recevoir

\* Every step keeps codes with their purpose and accounts with their codes.
THEOREM CodesPas == InvCodes /\ [Next]_vars => CodesFondes' /\ ChangementParCode'
  <1> SUFFICES ASSUME InvCodes, [Next]_vars PROVE CodesFondes' /\ ChangementParCode'
    OBVIOUS
  <1>0. TypeOK /\ TypeOK' /\ Len(emis) <= MaxRequetes
    BY TypePas DEF InvCodes, CodesFondes
  <1>f. \A r \in Requetes : RequeteFondee(req[r])
    BY DEF InvCodes, CodesFondes
  <1> DEFINE Stock == \A objet \in Objets, u \in Users :
                 LET k == StorageKey(objet, u)
                 IN  magasin'[k] = magasin[k] \/ magasin'[k].ttl = 0
                       \/ (magasin'[k].valeur = magasin[k].valeur
                             /\ magasin[k].ttl # 0)
  <1>m. ASSUME magasin' = magasin PROVE Stock
    BY <1>m
  \* A step that leaves the accounts and the history alone.
  <1>a. ASSUME emis' = emis, usages' = usages, users' = users, Stock,
               \A r \in Requetes : req'[r] = req[r] \/ RequeteFondee(req[r])'
        PROVE  CodesFondes' /\ ChangementParCode'
    <2>1. Prolonge /\ Len(emis') <= MaxRequetes
      BY <1>0, <1>a, RienDeNeuf
    <2>2. StockFonde'
      BY <1>0, <1>a, <2>1, StockConserve
    <2> QED BY <1>0, <1>a, <2>1, <2>2, CadreCodes
  <1>b. ASSUME emis' = emis, usages' = usages
        PROVE  /\ \A c, objet, u : Emis(c, objet, u) => Emis(c, objet, u)'
               /\ \A compte, u : CompteFonde(compte, u) => CompteFonde(compte, u)'
    BY <1>0, <1>b, RienDeNeuf, ResteFonde
  <1> HIDE DEF Stock
  <1>1. CASE UNCHANGED vars
    BY <1>1 DEF vars, InvCodes, CodesFondes, ChangementParCode, StockFonde,
                RequeteFondee, CompteFonde, Utilise, Emis
  <1>2. CASE Temps
    <2>1. Stock
      <3>1. \A e : Vieillir(e) = e \/ Vieillir(e).ttl = 0
                      \/ (Vieillir(e).valeur = e.valeur /\ e.ttl # 0)
        BY DEF Vieillir, Absent
      <3> QED BY <1>2, <3>1, ClesType DEF Temps, Stock
    <2>2. \A s \in Requetes : req'[s] = req[s]
      BY <1>2 DEF Temps
    <2> QED BY <1>2, <1>a, <2>1, <2>2 DEF Temps
  <1>3. ASSUME NEW r \in Requetes, Recevoir(r)
        PROVE  CodesFondes' /\ ChangementParCode'
    <2>1. PICK q : Debut(q) /\ req' = [req EXCEPT ![r] = q]
      BY <1>3, RequeteCommencee
    <2>2. req'[r] = q /\ \A s \in Requetes \ {r} : req'[s] = req[s]
      BY <1>0, <2>1 DEF TypeOK
    <2>3. RequeteFondee(req[r])'
      BY <2>1, <2>2 DEF Debut, RequeteFondee, EtapesUsage
    <2> QED BY <1>3, <1>a, <1>m, <2>2, <2>3 DEF Recevoir
  <1>4. ASSUME NEW r \in Requetes, Avancer(r)
        PROVE  CodesFondes' /\ ChangementParCode'
    <2> USE DEF A
    <2>1. CASE LireTaux(r)
      <3>1. RequeteFondee(req[r])' /\ \A s \in Requetes \ {r} : req'[s] = req[s]
        BY <1>0, <2>1, ApresFinir, ApresAller DEF LireTaux, RequeteFondee, EtapesUsage
      <3> QED BY <2>1, <3>1, <1>a, <1>m DEF LireTaux
    <2>2. CASE EcrireCode(r)
      <3>1. RequeteFondee(req[r])' /\ \A s \in Requetes \ {r} : req'[s] = req[s]
        BY <1>0, <2>2, ApresAller DEF EcrireCode, RequeteFondee, EtapesUsage
      <3>2. /\ Len(emis) \in Nat /\ Len(emis') = Len(emis) + 1
            /\ emis'[Len(emis) + 1] = <<req[r].objet, req[r].u>>
            /\ \A c \in 1..Len(emis) : emis'[c] = emis[c]
        BY <1>0, <2>2 DEF EcrireCode, TypeOK
      <3>3. Prolonge /\ Len(emis') <= MaxRequetes
        <4>1. Len(emis) + 1 \in 1..MaxRequetes /\ usages' = usages
          BY <2>2 DEF EcrireCode, Codes
        <4>2. \A c \in Codes : usages[c] \in Nat
          BY <1>0 DEF TypeOK
        <4> QED BY <3>2, <4>1, <4>2, OtpAssumption DEF Prolonge
      <3>4. StockFonde'
        <4> SUFFICES ASSUME NEW objet \in Objets, NEW u \in Users,
                            magasin'[StorageKey(objet, u)].ttl # 0
                     PROVE  Emis(magasin[StorageKey(objet, u)].valeur, objet, u)'
          BY DEF StockFonde, Present, StorageKey
        <4>1. \A c, o, v : Emis(c, o, v) => Emis(c, o, v)'
          BY <1>0, <3>3, ResteFonde
        <4>2. StorageKey(objet, u) \in Cles /\ Cle(r) \in Cles
          BY <1>0, <2>2, ClesType, RequeteType DEF EcrireCode
        <4>3. CASE StorageKey(objet, u) = Cle(r)
          <5>1. objet = req[r].objet /\ u = req[r].u
            BY <4>3 DEF StorageKey, Cle
          <5>2. magasin'[StorageKey(objet, u)].valeur = Len(emis) + 1
            BY <1>0, <2>2, <4>2, <4>3 DEF EcrireCode, Poser, TypeOK
          <5> QED BY <3>2, <5>1, <5>2 DEF Emis, StorageKey
        <4>4. CASE StorageKey(objet, u) # Cle(r)
          <5>1. magasin'[StorageKey(objet, u)] = magasin[StorageKey(objet, u)]
            BY <1>0, <2>2, <4>2, <4>4 DEF EcrireCode, Poser, TypeOK
          <5>2. PICK v : /\ v = magasin[StorageKey(objet, u)].valeur
                         /\ Emis(v, objet, u)
            BY <5>1 DEF InvCodes, CodesFondes, StockFonde, Present
          <5>3. Emis(v, objet, u)'
            BY <4>1, <5>2
          <5> QED BY <5>1, <5>2, <5>3 DEF Emis, StorageKey
        <4> QED BY <4>3, <4>4
      <3> QED BY <1>0, <2>2, <3>1, <3>3, <3>4, CadreCodes DEF EcrireCode
    <2>3. CASE IncrementerTaux(r)
      <3>1. RequeteFondee(req[r])' /\ \A s \in Requetes \ {r} : req'[s] = req[s]
        BY <1>0, <2>3, ApresAller DEF IncrementerTaux, RequeteFondee, EtapesUsage
      <3>2. \A objet \in Objets, u \in Users :
               StorageKey(objet, u) # RateLimitKey(req[r].u)
        BY <1>0, <2>3, ClesType, RequeteType DEF IncrementerTaux
      <3>3. Stock
        BY <1>0, <2>3, <3>2, ClesType
           DEF Stock, IncrementerTaux, Incrementer, TypeOK
      <3> QED BY <2>3, <3>1, <3>3, <1>a DEF IncrementerTaux
    <2>4. CASE ExpirerTaux(r)
      <3>1. RequeteFondee(req[r])' /\ \A s \in Requetes \ {r} : req'[s] = req[s]
        BY <1>0, <2>4, ApresAller DEF ExpirerTaux, RequeteFondee, EtapesUsage
      <3>2. \A objet \in Objets, u \in Users :
               StorageKey(objet, u) # RateLimitKey(req[r].u)
        BY <1>0, <2>4, ClesType, RequeteType DEF ExpirerTaux
      <3>3. Stock
        BY <1>0, <2>4, <3>2, ClesType DEF Stock, ExpirerTaux, Expirer, TypeOK
      <3> QED BY <2>4, <3>1, <3>3, <1>a DEF ExpirerTaux
    <2>5. CASE Envoyer(r)
      <3>1. RequeteFondee(req[r])' /\ \A s \in Requetes \ {r} : req'[s] = req[s]
        BY <1>0, <2>5, ApresAller DEF Envoyer, RequeteFondee, EtapesUsage
      <3> QED BY <2>5, <3>1, <1>a, <1>m DEF Envoyer
    <2>6. CASE LireUser(r)
      <3>1. /\ \A s \in Requetes \ {r} : req'[s] = req[s]
            /\ req'[r].pc = "lire_code" /\ req'[r].op = req[r].op
            /\ req'[r].u = req[r].u /\ req'[r].objet = req[r].objet
            /\ req'[r].lu = users[req[r].u] /\ req[r].u \in Users
        BY <1>0, <2>6, RequeteType DEF LireUser, TypeOK, Contextes
      <3>2. PICK lu, u : lu = req'[r].lu /\ u = req'[r].u /\ CompteFonde(lu, u)
        BY <3>1 DEF InvCodes, ChangementParCode
      <3>3. CompteFonde(lu, u)'
        BY <1>b, <2>6, <3>2 DEF LireUser
      <3>4. RequeteFondee(req[r])'
        BY <1>f, <2>6, <3>1, <3>2, <3>3
           DEF LireUser, RequeteFondee, EtapesUsage, CompteFonde
      <3> QED BY <2>6, <3>1, <3>4, <1>a, <1>m DEF LireUser
    <2>7. CASE LireCode(r)
      <3>1. CASE Finir(r)
        BY <1>0, <2>7, <3>1, ApresFinir, <1>a, <1>m DEF LireCode
      <3>2. CASE ~Finir(r)
        <4>1. PICK pc \in {"hacher", "supprimer"} : Aller(r, pc)
          BY <2>7, <3>2 DEF LireCode
        <4>2. /\ Present(magasin, Cle(r)) /\ magasin[Cle(r)].valeur = req[r].code
              /\ req[r].u \in Users /\ req[r].objet \in Objets
          BY <1>0, <2>7, <3>2, RequeteType DEF LireCode
        <4>3. Emis(req[r].code, req[r].objet, req[r].u)
          BY <4>2 DEF InvCodes, CodesFondes, StockFonde, Cle
        <4> QED BY <1>0, <1>a, <1>b, <1>f, <1>m, <2>7, <4>1, <4>3, ApresAller
                DEF LireCode, RequeteFondee, EtapesUsage
      <3> QED BY <3>1, <3>2
    <2>8. CASE Hacher(r)
      <3>1. RequeteFondee(req[r])' /\ \A s \in Requetes \ {r} : req'[s] = req[s]
        BY <1>0, <1>b, <1>f, <2>8, ApresAller DEF Hacher, RequeteFondee, EtapesUsage
      <3> QED BY <2>8, <3>1, <1>a, <1>m DEF Hacher
    <2>9. CASE SupprimerCode(r)
      <3>1. RequeteFondee(req[r])' /\ \A s \in Requetes \ {r} : req'[s] = req[s]
        BY <1>0, <1>b, <1>f, <2>9, ApresAller
           DEF SupprimerCode, RequeteFondee, EtapesUsage
      <3>2. Stock
        BY <1>0, <2>9, ClesType DEF Stock, SupprimerCode, Effacer, Absent, TypeOK
      <3> QED BY <2>9, <3>1, <3>2, <1>a DEF SupprimerCode
    <2>10. CASE Sauver(r)
      <3>1. /\ req[r].u \in Users /\ req[r].code \in Nat
            /\ req[r].lu \in Comptes /\ req[r] \in Contextes
        BY <1>0, <2>10, RequeteType DEF Sauver, RequeteOK, EtapesUsage
      <3>2. Emis(req[r].code, req[r].objet, req[r].u)
            /\ CompteFonde(req[r].lu, req[r].u)
            /\ <<req[r].op, req[r].objet>> \in {<<"verifier", "verification">>,
                                               <<"reset", "password_reset">>}
        BY <1>f, <2>10 DEF Sauver, RequeteFondee, EtapesUsage
      <3>3. req[r].code \in Codes /\ req[r].code \in 1..Len(emis)
            /\ Len(emis) \in Nat
        <4>1. Len(emis) \in Nat
          BY <1>0 DEF TypeOK
        <4>2. req[r].code \in 1..Len(emis)
          BY <3>2 DEF Emis
        <4> QED BY <1>0, <3>1, <4>1, <4>2, OtpAssumption DEF Codes
      <3>4. /\ emis' = emis
            /\ usages \in [Codes -> Nat]
            /\ usages' = [usages EXCEPT ![req[r].code] = @ + 1]
        BY <1>0, <2>10 DEF Sauver, TypeOK
      <3>5. /\ \A c \in Codes : usages'[c] >= usages[c]
            /\ usages'[req[r].code] > 0
        BY <3>3, <3>4
      <3>6. Prolonge /\ Len(emis') <= MaxRequetes
        BY <1>0, <3>3, <3>4, <3>5 DEF Prolonge
      <3>7. PICK compte, objet, u :
               /\ compte = CompteModifie(req[r]) /\ u = req[r].u
               /\ objet = req[r].objet /\ users' = [users EXCEPT ![u] = compte]
               /\ compte.isVerified => req[r].lu.isVerified \/ objet = "verification"
               /\ compte.motDePasse # Initial =>
                     req[r].lu.motDePasse # Initial \/ objet = "password_reset"
        <4> DEFINE q == req[r]
        <4>1. /\ CompteModifie(q).isVerified =>
                    q.lu.isVerified \/ q.objet = "verification"
              /\ CompteModifie(q).motDePasse # Initial =>
                    q.lu.motDePasse # Initial \/ q.objet = "password_reset"
          BY <3>1, <3>2 DEF CompteModifie, Comptes
        <4> QED BY <2>10, <4>1 DEF Sauver
      <3>8. Utilise(objet, u)'
        BY <3>2, <3>3, <3>4, <3>5, <3>7 DEF Utilise, Emis
      <3>9. PICK lu : lu = req[r].lu /\ CompteFonde(lu, u)
        BY <3>2, <3>7
      <3>10. CompteFonde(lu, u)'
        BY <1>0, <3>6, <3>9, ResteFonde
      <3>11. CompteFonde(compte, u)'
        BY <3>7, <3>8, <3>9, <3>10 DEF CompteFonde
      <3>12. \A v \in Users : users'[v] = users[v] \/ CompteFonde(users[v], v)'
        BY <1>0, <3>1, <3>7, <3>11 DEF TypeOK, CompteFonde
      <3>13. StockFonde'
        BY <1>0, <2>10, <3>6, <1>m, StockConserve DEF Sauver, Stock
      <3>14. RequeteFondee(req[r])' /\ \A s \in Requetes \ {r} : req'[s] = req[s]
        BY <1>0, <2>10, ApresAller DEF Sauver, RequeteFondee, EtapesUsage
      <3> QED BY <1>0, <3>6, <3>12, <3>13, <3>14, CadreCodes
    <2>11. CASE Journaliser(r)
      <3>1. RequeteFondee(req[r])' /\ \A s \in Requetes \ {r} : req'[s] = req[s]
        BY <1>0, <2>11, ApresFinir DEF Journaliser
      <3> QED BY <2>11, <3>1, <1>a, <1>m DEF Journaliser
    <2> QED BY <1>4, <2>1, <2>2, <2>3, <2>4, <2>5, <2>6, <2>7, <2>8, <2>9,
               <2>10, <2>11 DEF Avancer
  <1>5. ASSUME NEW r \in Requetes, Echouer(r)
        PROVE  CodesFondes' /\ ChangementParCode'
    <2>1. RequeteFondee(req[r])' /\ \A s \in Requetes \ {r} : req'[s] = req[s]
      BY <1>0, <1>5, ApresFinir DEF Echouer
    <2> QED BY <1>5, <2>1, <1>a, <1>m DEF Echouer
  <1> QED BY <1>1, <1>2, <1>3, <1>4, <1>5 DEF Next

\* Whatever requests and failures overlap, an account is verified only by a code
\* generated for its verification, and its password reset only by one for that.
THEOREM JamaisSansCode == Spec => []ChangementParCode
  <1>1. Init => InvCodes
    BY TypeInit, CodesInit DEF InvCodes
  <1>2. InvCodes /\ [Next]_vars => InvCodes'
    BY TypePas, CodesPas DEF InvCodes
  <1>3. InvCodes => ChangementParCode
    BY DEF InvCodes
  <1> QED BY <1>1, <1>2, <1>3, PTL DEF Spec
-----------------------------------------------------------------------------
\* The requests of a user do not overlap.
Serie ==
    \A r, s \in Requetes :
        r # s /\ req[r].pc # "repos" /\ req[s].pc # "repos"
           => req[r].u # req[s].u

\* With the store m, the uses us and n codes generated: a code is used once at
\* most, and neither one to come nor one in the store was.
CodesLibres(m, us, n) ==
    /\ \A c \in Codes : us[c] <= 1 /\ (c > n => us[c] = 0)
    /\ \A k \in Objets \X Users : m[k].ttl # 0 => us[m[k].valeur] = 0

\* A request past the check holds a code that was not used, and the one that is
\* still in the store if any is; once it has removed it, no key has it; and the
\* entity it will save is the row of the table.
SuiviUsage(q, m, us, comptes) ==
    /\ q.pc \in {"hacher", "supprimer", "sauver"} => us[q.code] = 0
    /\ q.pc \in {"hacher", "supprimer"} =>
          \A k \in Objets \X Users :
             k = <<q.objet, q.u>> /\ m[k].ttl # 0 => m[k].valeur = q.code
    /\ q.pc = "sauver" =>
          \A k \in Objets \X Users : m[k].ttl # 0 => m[k].valeur # q.code
    /\ q.pc \in EtapesUsage \ {"lire_user"} => q.lu = comptes[q.u]

InvSerie ==
    /\ CodesLibres(magasin, usages, Len(emis))
    /\ \A r \in Requetes : SuiviUsage(req[r], magasin, usages, users)

\* The codes of a store m1 are those of the store m, or fewer.
Garde(m, m1) ==
    \A k \in Objets \X Users :
        \/ m1[k] = m[k]
        \/ m1[k].ttl = 0
        \/ m1[k].valeur = m[k].valeur /\ m[k].ttl # 0

\* A key of a code is a key of the store, and never that of a counter.
LEMMA CleDeCode ==
    ASSUME NEW k \in Objets \X Users
    PROVE  k \in Cles /\ \A v \in Users : k # RateLimitKey(v)
  BY DEF Cles, Objets, RateLimitKey

\* A request that has passed no check yet, or has ended.
LEMMA SuiviVide ==
    ASSUME NEW q, q.pc \notin EtapesUsage \ {"lire_user"},
           NEW m, NEW us, NEW comptes
    PROVE  SuiviUsage(q, m, us, comptes)
  BY DEF SuiviUsage, EtapesUsage

\* Codes that leave the store, or stay, take nothing from a request.
LEMMA SuiviGarde ==
    ASSUME NEW q, NEW m, NEW m1, NEW us, NEW comptes,
           Garde(m, m1), SuiviUsage(q, m, us, comptes)
    PROVE  SuiviUsage(q, m1, us, comptes)
  BY DEF SuiviUsage, Garde

\* Nor from the codes that are still free.
LEMMA LibresGarde ==
    ASSUME NEW m, NEW m1, NEW us, NEW n, Garde(m, m1), CodesLibres(m, us, n)
    PROVE  CodesLibres(m1, us, n)
  BY DEF CodesLibres, Garde

\* A step of one request that neither generates nor uses a code.
LEMMA CadreSerie ==
    ASSUME InvSerie, NEW r \in Requetes,
           \A s \in Requetes \ {r} : req'[s] = req[s],
           Garde(magasin, magasin'),
           UNCHANGED <<users, emis, usages>>,
           SuiviUsage(req'[r], magasin, usages, users)
    PROVE  InvSerie'
  <1>1. \A s \in Requetes : SuiviUsage(req'[s], magasin, usages, users)
    BY DEF InvSerie
  <1>2. \A s \in Requetes : SuiviUsage(req'[s], magasin', usages, users)
    BY <1>1, SuiviGarde
  <1>3. CodesLibres(magasin', usages, Len(emis))
    BY LibresGarde DEF InvSerie
  <1> QED BY <1>2, <1>3 DEF InvSerie

\* In particular one that leaves the codes of the store where they are.
LEMMA CadreImmobile ==
    ASSUME InvSerie, NEW r \in Requetes,
           \A s \in Requetes \ {r} : req'[s] = req[s],
           \A k \in Objets \X Users : magasin'[k] = magasin[k],
           UNCHANGED <<users, emis, usages>>,
           SuiviUsage(req'[r], magasin, usages, users)
    PROVE  InvSerie'
  <1>1. Garde(magasin, magasin')
    BY DEF Garde
  <1> QED BY <1>1, CadreSerie

\* A request that ends is in no step.
LEMMA FinSerie ==
    ASSUME TypeOK, NEW r \in Requetes, Finir(r)
    PROVE  /\ \A s \in Requetes \ {r} : req'[s] = req[s]
           /\ req'[r].pc = "repos"
  BY DEF TypeOK, Finir, Repos

\* The first state.
THEOREM SerieInit == Init => InvSerie
  <1> SUFFICES ASSUME Init PROVE InvSerie
    OBVIOUS
  <1>1. \A k \in Objets \X Users : magasin[k].ttl = 0
    BY CleDeCode DEF Init, Absent
  <1>2. \A r \in Requetes : SuiviUsage(req[r], magasin, usages, users)
    <2>1. \A r \in Requetes : req[r].pc \notin EtapesUsage \ {"lire_user"}
      BY DEF Init, Repos, EtapesUsage
    <2> QED BY <2>1, SuiviVide
  <1>3. \A c \in Codes : usages[c] = 0
    BY DEF Init
  <1> QED BY <1>1, <1>2, <1>3 DEF InvSerie, CodesLibres

\* Time takes codes away and changes none.
LEMMA SerieTemps ==
    ASSUME InvSerie, Temps
    PROVE  InvSerie'
  <1>1. \A k \in Objets \X Users : magasin'[k] = Vieillir(magasin[k])
    BY CleDeCode DEF Temps
  <1>2. Garde(magasin, magasin')
    <2>1. \A e : Vieillir(e) = e \/ Vieillir(e).ttl = 0
                    \/ (Vieillir(e).valeur = e.valeur /\ e.ttl # 0)
      BY DEF Vieillir, Absent
    <2> QED BY <1>1, <2>1 DEF Garde
  <1>3. CodesLibres(magasin', usages, Len(emis))
    BY <1>2, LibresGarde DEF InvSerie
  <1>4. \A r \in Requetes : SuiviUsage(req[r], magasin', usages, users)
    BY <1>2, SuiviGarde DEF InvSerie
  <1>5. UNCHANGED <<users, req, emis, usages>>
    BY DEF Temps
  <1> QED BY <1>3, <1>4, <1>5 DEF InvSerie

\* The steps that neither write, check, remove nor use a code.
LEMMA SerieCalme ==
    ASSUME TypeOK, InvSerie, NEW r \in Requetes,
           \/ Recevoir(r) \/ LireTaux(r) \/ IncrementerTaux(r) \/ ExpirerTaux(r)
           \/ Envoyer(r) \/ LireUser(r) \/ Hacher(r) \/ Journaliser(r)
           \/ Echouer(r)
    PROVE  InvSerie'
  <1>1. UNCHANGED <<users, emis, usages>>
    BY DEF Recevoir, LireTaux, IncrementerTaux, ExpirerTaux, Envoyer, LireUser,
           Hacher, Journaliser, Echouer
  <1>2. \A k \in Objets \X Users : magasin'[k] = magasin[k]
    <2>1. CASE IncrementerTaux(r) \/ ExpirerTaux(r)
      <3>1. req[r].u \in Users
        BY <2>1, RequeteType DEF IncrementerTaux, ExpirerTaux, A
      <3>2. \A k \in Objets \X Users : k \in Cles /\ k # RateLimitKey(req[r].u)
        BY <3>1, CleDeCode
      <3> QED BY <2>1, <3>2
              DEF IncrementerTaux, ExpirerTaux, Incrementer, Expirer, TypeOK
    <2>2. CASE ~(IncrementerTaux(r) \/ ExpirerTaux(r))
      <3>1. magasin' = magasin
        BY <2>2 DEF Recevoir, LireTaux, Envoyer, LireUser, Hacher, Journaliser,
                    Echouer
      <3> QED BY <3>1
    <2> QED BY <2>1, <2>2
  <1>3. /\ \A s \in Requetes \ {r} : req'[s] = req[s]
        /\ SuiviUsage(req'[r], magasin, usages, users)
    <2>1. CASE Recevoir(r)
      <3>1. PICK q : Debut(q) /\ req' = [req EXCEPT ![r] = q]
        BY <2>1, RequeteCommencee
      <3>2. req'[r] = q /\ \A s \in Requetes \ {r} : req'[s] = req[s]
        BY <3>1 DEF TypeOK
      <3>3. q.pc \notin EtapesUsage \ {"lire_user"}
        BY <3>1 DEF Debut, EtapesUsage
      <3> QED BY <3>2, <3>3, SuiviVide
    <2>2. CASE LireTaux(r) \/ Journaliser(r) \/ Echouer(r)
      <3>1. Finir(r) \/ Aller(r, "ecrire_code")
        BY <2>2 DEF LireTaux, Journaliser, Echouer
      <3>2. /\ \A s \in Requetes \ {r} : req'[s] = req[s]
            /\ req'[r].pc \in {"repos", "ecrire_code"}
        BY <3>1, FinSerie, ApresAller
      <3>3. req'[r].pc \notin EtapesUsage \ {"lire_user"}
        BY <3>2 DEF EtapesUsage
      <3> QED BY <3>2, <3>3, SuiviVide
    <2>3. CASE IncrementerTaux(r) \/ ExpirerTaux(r) \/ Envoyer(r)
      <3>1. PICK pc \in {"expirer", "envoyer", "journal"} : Aller(r, pc)
        BY <2>3 DEF IncrementerTaux, ExpirerTaux, Envoyer
      <3>2. /\ \A s \in Requetes \ {r} : req'[s] = req[s] /\ req'[r].pc = pc
        BY <3>1, ApresAller
      <3>3. req'[r].pc \notin EtapesUsage \ {"lire_user"}
        BY <3>1, ApresAller DEF EtapesUsage
      <3>4. \A s \in Requetes \ {r} : req'[s] = req[s]
        BY <3>1, ApresAller
      <3> QED BY <3>3, <3>4, SuiviVide
    <2>4. CASE LireUser(r)
      <3>1. /\ \A s \in Requetes \ {r} : req'[s] = req[s]
            /\ req'[r].pc = "lire_code" /\ req'[r].u = req[r].u
            /\ req'[r].lu = users[req[r].u]
        BY <2>4 DEF LireUser, TypeOK, Contextes
      <3> QED BY <3>1 DEF SuiviUsage, EtapesUsage
    <2>5. CASE Hacher(r)
      <3>1. /\ \A s \in Requetes \ {r} : req'[s] = req[s]
            /\ req'[r].pc = "supprimer" /\ req'[r].code = req[r].code
            /\ req'[r].objet = req[r].objet /\ req'[r].u = req[r].u
            /\ req'[r].lu = req[r].lu /\ req[r].pc = "hacher"
        BY <2>5, ApresAller DEF Hacher, A
      <3>2. SuiviUsage(req[r], magasin, usages, users)
        BY DEF InvSerie
      <3> QED BY <3>1, <3>2 DEF SuiviUsage, EtapesUsage
    <2> QED BY <2>1, <2>2, <2>3, <2>4, <2>5
  <1> QED BY <1>1, <1>2, <1>3, CadreImmobile

\* What two requests of different users hold differs.
LEMMA CodesDistincts ==
    ASSUME CodesFondes, Serie, NEW r \in Requetes, NEW s \in Requetes \ {r},
           req[r].pc # "repos", req[s].pc \in {"hacher", "supprimer", "sauver"}
    PROVE  /\ req[s].u # req[r].u /\ req[s].code \in 1..Len(emis)
           /\ req[r].pc \in {"hacher", "supprimer", "sauver"} =>
                 req[s].code # req[r].code
  <1>1. req[s].u # req[r].u
    BY DEF Serie
  <1>2. Emis(req[s].code, req[s].objet, req[s].u)
    BY DEF CodesFondes, RequeteFondee
  <1>3. req[r].pc \in {"hacher", "supprimer", "sauver"} =>
           Emis(req[r].code, req[r].objet, req[r].u)
    BY DEF CodesFondes, RequeteFondee
  <1> QED BY <1>1, <1>2, <1>3 DEF Emis

\* A new code is one that nobody used; no request of its user is past a check.
LEMMA SerieEcrire ==
    ASSUME TypeOK, CodesFondes, InvSerie, Serie, NEW r \in Requetes, EcrireCode(r)
    PROVE  InvSerie'
  <1>1. PICK k, c, n :
          /\ k = <<req[r].objet, req[r].u>> /\ n = Len(emis) /\ n \in Nat
          /\ c = n + 1 /\ c \in Codes
          /\ magasin' = Poser(magasin, k, c, OtpExpiry)
          /\ Len(emis') = c /\ UNCHANGED <<users, usages>>
    <2>1. PICK k, c, n :
            /\ k = <<req[r].objet, req[r].u>> /\ n = Len(emis) /\ c = n + 1
      OBVIOUS
    <2>2. n \in Nat /\ Len(Append(emis, k)) = c
      BY <2>1 DEF TypeOK
    <2>3. /\ c \in Codes /\ magasin' = Poser(magasin, k, c, OtpExpiry)
          /\ emis' = Append(emis, k) /\ UNCHANGED <<users, usages>>
      BY <2>1 DEF EcrireCode, Cle, StorageKey
    <2> QED BY <2>1, <2>2, <2>3
  <1>2. k \in Objets \X Users /\ req[r].pc # "repos"
    BY <1>1, RequeteType DEF EcrireCode, A
  <1>3. /\ magasin'[k].valeur = c /\ magasin'[k].ttl = OtpExpiry
        /\ \A j \in Objets \X Users : j # k => magasin'[j] = magasin[j]
    BY <1>1, <1>2, CleDeCode, OtpAssumption DEF Poser, TypeOK
  <1>4. CodesLibres(magasin', usages', Len(emis'))
    <2>1. CodesLibres(magasin, usages, n)
      BY <1>1 DEF InvSerie
    <2>2. \A d \in Codes : d > c => d > n
      BY <1>1 DEF Codes
    <2>3. usages[c] = 0
      BY <1>1, <2>1 DEF CodesLibres
    <2> QED BY <1>1, <1>3, <2>1, <2>2, <2>3 DEF CodesLibres
  <1>5. /\ \A s \in Requetes \ {r} : req'[s] = req[s]
        /\ req'[r].pc = "incrementer"
    BY ApresAller DEF EcrireCode
  <1>6. ASSUME NEW s \in Requetes
        PROVE  SuiviUsage(req'[s], magasin', usages', users')
    <2>1. CASE s = r
      BY <1>5, <2>1, SuiviVide DEF EtapesUsage
    <2>2. CASE s # r
      <3>1. SuiviUsage(req[s], magasin, usages, users)
        BY DEF InvSerie
      <3>2. CASE req[s].pc \in {"hacher", "supprimer", "sauver"}
        <4>1. req[s].u # req[r].u /\ req[s].code \in 1..n
          BY <1>1, <1>2, <2>2, <3>2, CodesDistincts
        <4>2. /\ <<req[s].objet, req[s].u>> \in Objets \X Users
              /\ <<req[s].objet, req[s].u>> # k
          BY <1>1, <3>2, <4>1, RequeteType
        <4>3. req[s].code # c
          BY <1>1, <4>1
        <4> QED BY <1>1, <1>3, <1>5, <2>2, <3>1, <4>2, <4>3 DEF SuiviUsage
      <3>3. CASE req[s].pc \notin {"hacher", "supprimer", "sauver"}
        BY <1>1, <1>5, <2>2, <3>1, <3>3 DEF SuiviUsage
      <3> QED BY <3>2, <3>3
    <2> QED BY <2>1, <2>2
  <1> QED BY <1>4, <1>6 DEF InvSerie

\* The check of a code: once it passes, the request holds the one of the store.
LEMMA SerieLire ==
    ASSUME TypeOK, InvSerie, NEW r \in Requetes, LireCode(r)
    PROVE  InvSerie'
  <1>1. UNCHANGED <<magasin, users, emis, usages>>
    BY DEF LireCode
  <1>2. CASE Finir(r)
    <2>1. /\ \A s \in Requetes \ {r} : req'[s] = req[s]
          /\ req'[r].pc \notin EtapesUsage \ {"lire_user"}
      BY <1>2, FinSerie DEF EtapesUsage
    <2> QED BY <1>1, <2>1, SuiviVide, CadreImmobile
  <1>3. CASE ~Finir(r)
    <2>1. PICK k, pc :
            /\ k = <<req[r].objet, req[r].u>> /\ pc \in {"hacher", "supprimer"}
            /\ magasin[k].ttl # 0 /\ magasin[k].valeur = req[r].code
            /\ Aller(r, pc) /\ req[r].pc = "lire_code"
      BY <1>3 DEF LireCode, Present, Cle, StorageKey, A
    <2>2. k \in Objets \X Users
      BY <2>1, RequeteType
    <2>3. /\ \A s \in Requetes \ {r} : req'[s] = req[s]
          /\ req'[r].pc = pc /\ req'[r].code = req[r].code
          /\ req'[r].objet = req[r].objet /\ req'[r].u = req[r].u
          /\ req'[r].lu = req[r].lu
      BY <2>1, ApresAller
    <2>4. SuiviUsage(req'[r], magasin, usages, users)
      <3>1. usages[req[r].code] = 0
        BY <2>1, <2>2 DEF InvSerie, CodesLibres
      <3>2. req[r].lu = users[req[r].u]
        BY <2>1 DEF InvSerie, SuiviUsage, EtapesUsage
      <3> QED BY <2>1, <2>3, <3>1, <3>2 DEF SuiviUsage
    <2> QED BY <1>1, <2>3, <2>4, CadreImmobile
  <1> QED BY <1>2, <1>3

\* The removal of a code, after which no key has it.
LEMMA SerieSupprimer ==
    ASSUME TypeOK, CodesFondes, InvSerie, NEW r \in Requetes, SupprimerCode(r)
    PROVE  InvSerie'
  <1>1. PICK k :
          /\ k = <<req[r].objet, req[r].u>> /\ magasin' = Effacer(magasin, k)
          /\ Aller(r, "sauver") /\ req[r].pc = "supprimer"
          /\ UNCHANGED <<users, emis, usages>>
    BY DEF SupprimerCode, Cle, StorageKey, A
  <1>2. k \in Objets \X Users
    BY <1>1, RequeteType
  <1>3. /\ magasin'[k].ttl = 0
        /\ \A j \in Objets \X Users : j # k => magasin'[j] = magasin[j]
    BY <1>1, <1>2, CleDeCode DEF Effacer, Absent, TypeOK
  <1>4. Garde(magasin, magasin')
    BY <1>3 DEF Garde
  <1>5. SuiviUsage(req[r], magasin, usages, users)
    BY DEF InvSerie
  <1>6. /\ \A s \in Requetes \ {r} : req'[s] = req[s]
        /\ req'[r].pc = "sauver" /\ req'[r].code = req[r].code
        /\ req'[r].objet = req[r].objet /\ req'[r].u = req[r].u
        /\ req'[r].lu = req[r].lu
    BY <1>1, ApresAller
  <1>7. ASSUME NEW j \in Objets \X Users, magasin'[j].ttl # 0
        PROVE  magasin'[j].valeur # req[r].code
    <2>1. j # k /\ magasin'[j] = magasin[j]
      BY <1>3, <1>7
    <2>2. PICK o \in Objets, u \in Users : j = <<o, u>>
      OBVIOUS
    <2>3. Emis(magasin[j].valeur, o, u)
      BY <1>7, <2>1, <2>2 DEF CodesFondes, StockFonde, Present, StorageKey
    <2>4. Emis(req[r].code, req[r].objet, req[r].u)
      BY <1>1 DEF CodesFondes, RequeteFondee
    <2> QED BY <1>1, <2>1, <2>2, <2>3, <2>4 DEF Emis
  <1>8. SuiviUsage(req'[r], magasin', usages, users)
    BY <1>1, <1>5, <1>6, <1>7 DEF SuiviUsage, EtapesUsage
  <1>9. ASSUME NEW s \in Requetes \ {r}
         PROVE  SuiviUsage(req'[s], magasin', usages, users)
    BY <1>4, <1>6, SuiviGarde DEF InvSerie
  <1>10. CodesLibres(magasin', usages, Len(emis))
    BY <1>4, LibresGarde DEF InvSerie
  <1> QED BY <1>1, <1>8, <1>9, <1>10 DEF InvSerie

\* The use of a code, the first one.
LEMMA SerieSauver ==
    ASSUME TypeOK, CodesFondes, InvSerie, Serie, NEW r \in Requetes, Sauver(r)
    PROVE  InvSerie'
  <1>1. PICK c, u, compte :
          /\ c = req[r].code /\ u = req[r].u /\ req[r].pc = "sauver"
          /\ users' = [users EXCEPT ![u] = compte]
          /\ usages' = [usages EXCEPT ![c] = usages[c] + 1]
          /\ Aller(r, "journal")
          /\ UNCHANGED <<magasin, emis>>
    BY DEF Sauver, A, TypeOK
  <1>2. SuiviUsage(req[r], magasin, usages, users)
    BY DEF InvSerie
  <1>3. /\ c \in Codes /\ c \in 1..Len(emis) /\ Len(emis) \in Nat
        /\ usages[c] = 0
    <2>1. Emis(c, req[r].objet, u) /\ Len(emis) <= MaxRequetes
      BY <1>1 DEF CodesFondes, RequeteFondee
    <2>2. Len(emis) \in Nat
      BY DEF TypeOK
    <2> QED BY <1>1, <1>2, <2>1, <2>2, OtpAssumption DEF SuiviUsage, Emis, Codes
  <1>4. /\ usages'[c] = 1 /\ \A d : d # c /\ d \in Codes => usages'[d] = usages[d]
    BY <1>1, <1>3 DEF TypeOK
  <1>5. CodesLibres(magasin, usages', Len(emis))
    <2>1. CodesLibres(magasin, usages, Len(emis))
      BY DEF InvSerie
    <2>2. \A d \in Codes : usages'[d] <= 1 /\ (d > Len(emis) => usages'[d] = 0)
      BY <1>3, <1>4, <2>1 DEF CodesLibres
    <2>3. \A k \in Objets \X Users : magasin[k].ttl # 0 =>
             magasin[k].valeur \in Codes /\ magasin[k].valeur # c
      <3> SUFFICES ASSUME NEW k \in Objets \X Users, magasin[k].ttl # 0
                   PROVE  magasin[k].valeur \in Codes /\ magasin[k].valeur # c
        OBVIOUS
      <3>1. PICK o \in Objets, v \in Users : k = <<o, v>>
        OBVIOUS
      <3>2. Emis(magasin[k].valeur, o, v) /\ Len(emis) <= MaxRequetes
        BY <3>1 DEF CodesFondes, StockFonde, Present, StorageKey
      <3>3. magasin[k].valeur # c
        BY <1>1, <1>2 DEF SuiviUsage
      <3> QED BY <1>3, <3>2, <3>3, OtpAssumption DEF Emis, Codes
    <2>4. \A k \in Objets \X Users : magasin[k].ttl # 0 =>
             usages'[magasin[k].valeur] = 0
      BY <1>4, <2>1, <2>3 DEF CodesLibres
    <2> QED BY <2>2, <2>4 DEF CodesLibres
  <1>6. /\ \A s \in Requetes \ {r} : req'[s] = req[s]
        /\ req'[r].pc = "journal"
    BY <1>1, ApresAller
  <1>7. ASSUME NEW s \in Requetes
        PROVE  SuiviUsage(req'[s], magasin, usages', users')
    <2>1. CASE s = r
      BY <1>6, <2>1, SuiviVide DEF EtapesUsage
    <2>2. CASE s # r
      <3>1. SuiviUsage(req[s], magasin, usages, users)
        BY DEF InvSerie
      <3>2. req[s].pc # "repos" => /\ users'[req[s].u] = users[req[s].u]
        <4>1. req[s].pc # "repos" => req[s].u # u /\ req[s].u \in Users
          BY <1>1, <2>2, RequeteType DEF Serie
        <4> QED BY <1>1, <4>1 DEF TypeOK
      <3>3. req[s].pc \in {"hacher", "supprimer", "sauver"} =>
               usages'[req[s].code] = usages[req[s].code]
        <4>1. req[s].pc \in {"hacher", "supprimer", "sauver"} =>
                 req[s].code # c /\ req[s].code \in 1..Len(emis)
          BY <1>1, <2>2, CodesDistincts
        <4>2. Len(emis) <= MaxRequetes
          BY DEF CodesFondes
        <4> QED BY <1>3, <1>4, <4>1, <4>2, OtpAssumption DEF Codes
      <3> QED BY <1>6, <2>2, <3>1, <3>2, <3>3 DEF SuiviUsage, EtapesUsage
    <2> QED BY <2>1, <2>2
  <1> QED BY <1>1, <1>5, <1>7 DEF InvSerie

\* As long as the requests of a user do not overlap, every step keeps codes used
\* once at most and a request past a check with the code of the store.
THEOREM SeriePas ==
    TypeOK /\ CodesFondes /\ InvSerie /\ Serie /\ [Next]_vars => InvSerie'
  <1> SUFFICES ASSUME TypeOK, CodesFondes, InvSerie, Serie, [Next]_vars
               PROVE  InvSerie'
    OBVIOUS
  <1>1. CASE UNCHANGED vars
    BY <1>1 DEF vars, InvSerie
  <1>2. CASE Next
    BY <1>2, SerieTemps, SerieCalme, SerieEcrire, SerieLire, SerieSupprimer,
       SerieSauver DEF Next, Avancer
  <1> QED BY <1>1, <1>2

\* What every state of such a behaviour satisfies.
LEMMA SerieTenue ==
    Spec /\ []Serie => [](TypeOK /\ CodesFondes /\ InvSerie)
  <1>1. Init => InvCodes /\ InvSerie
    BY TypeInit, CodesInit, SerieInit DEF InvCodes
  <1>2. InvCodes /\ InvSerie /\ Serie /\ [Next]_vars => InvCodes' /\ InvSerie'
    BY TypePas, CodesPas, SeriePas DEF InvCodes
  <1>3. InvCodes /\ InvSerie => TypeOK /\ CodesFondes /\ InvSerie
    BY DEF InvCodes
  <1> QED BY <1>1, <1>2, <1>3, PTL DEF Spec

\* A one-time code changes an account at most once, as long as the requests of a
\* user do not overlap: the use removes the code before it changes the account,
\* and a code that failed between the two is lost, not usable again.
THEOREM CodesUneFois == Spec /\ []Serie => []CodeUneFois
  <1>1. InvSerie => CodeUneFois
    BY DEF InvSerie, CodesLibres, CodeUneFois
  <1> QED BY <1>1, SerieTenue, PTL

\* What a step does to the codes in the store.
LEMMA CodePas ==
    ASSUME TypeOK, InvSerie, [Next]_vars, NEW k \in Objets \X Users,
           Present(magasin, k), magasin'[k].valeur # magasin[k].valeur
    PROVE  \/ magasin[k].ttl = 1 /\ UNCHANGED req
           \/ \E r \in Requetes :
                 /\ <<req[r].objet, req[r].u>> = k
                 /\ \/ A(r, "ecrire_code")
                    \/ A(r, "supprimer") /\ req[r].code = magasin[k].valeur
  <1>1. k \in Cles /\ k \in DOMAIN magasin
    BY CleDeCode DEF TypeOK
  <1>2. CASE Temps
    <2>1. magasin'[k] = Vieillir(magasin[k])
      BY <1>1, <1>2 DEF Temps
    <2>2. \A e : e.ttl # 1 => Vieillir(e).valeur = e.valeur
      BY DEF Vieillir
    <2> QED BY <1>2, <2>1, <2>2 DEF Temps
  <1>3. ASSUME NEW r \in Requetes, IncrementerTaux(r) \/ ExpirerTaux(r)
        PROVE  FALSE
    <2>1. req[r].u \in Users
      BY <1>3, RequeteType DEF IncrementerTaux, ExpirerTaux, A
    <2>2. k # RateLimitKey(req[r].u)
      BY <2>1, CleDeCode
    <2> QED BY <1>1, <1>3, <2>2
            DEF IncrementerTaux, ExpirerTaux, Incrementer, Expirer, TypeOK
  <1>4. ASSUME NEW r \in Requetes, EcrireCode(r)
        PROVE  <<req[r].objet, req[r].u>> = k /\ A(r, "ecrire_code")
    BY <1>1, <1>4 DEF EcrireCode, Poser, Cle, StorageKey
  <1>5. ASSUME NEW r \in Requetes, SupprimerCode(r)
        PROVE  /\ <<req[r].objet, req[r].u>> = k /\ A(r, "supprimer")
               /\ req[r].code = magasin[k].valeur
    <2>1. <<req[r].objet, req[r].u>> = k /\ A(r, "supprimer")
      BY <1>1, <1>5 DEF SupprimerCode, Effacer, Cle, StorageKey
    <2>2. SuiviUsage(req[r], magasin, usages, users)
      BY DEF InvSerie
    <2> QED BY <2>1, <2>2 DEF SuiviUsage, Present, A
  <1>6. \/ Temps
        \/ \E r \in Requetes : IncrementerTaux(r) \/ ExpirerTaux(r)
                               \/ EcrireCode(r) \/ SupprimerCode(r)
    BY DEF Next, vars, Recevoir, Avancer, Echouer, LireTaux, Envoyer, LireUser,
           LireCode, Hacher, Sauver, Journaliser
  <1> QED BY <1>2, <1>3, <1>4, <1>5, <1>6

\* As long as the requests of a user do not overlap, a code in the store is lost
\* only to time, to a new code that replaces it, or to a request that presented
\* it: no request removes a code it has not checked.
THEOREM CodesGardes == Spec /\ []Serie => CodeGarde
  <1>1. TypeOK /\ InvSerie /\ [Next]_vars =>
           [\A k \in Objets \X Users :
              Present(magasin, k) /\ magasin'[k].valeur # magasin[k].valeur =>
                 \/ magasin[k].ttl = 1 /\ UNCHANGED req
                 \/ \E r \in Requetes :
                       /\ <<req[r].objet, req[r].u>> = k
                       /\ \/ A(r, "ecrire_code")
                          \/ /\ A(r, "supprimer")
                             /\ req[r].code = magasin[k].valeur]_vars
    BY CodePas
  <1> QED BY <1>1, SerieTenue, PTL DEF Spec, CodeGarde

\* What a step does to the accounts: one account, from the row as it is.
LEMMA ComptePas ==
    ASSUME TypeOK, InvSerie, [Next]_vars, NEW u \in Users, users'[u] # users[u]
    PROVE  \E r \in Requetes :
              /\ req[r].u = u /\ req[r] \in Contextes /\ req[r].lu = users[u]
              /\ users[u] \in Comptes /\ users'[u] = CompteModifie(req[r])
  <1>1. PICK r \in Requetes : Sauver(r)
    BY DEF Next, vars, Temps, Recevoir, Avancer, Echouer, LireTaux, EcrireCode,
           IncrementerTaux, ExpirerTaux, Envoyer, LireUser, LireCode, Hacher,
           SupprimerCode, Journaliser
  <1>2. PICK compte :
          /\ compte = CompteModifie(req[r])
          /\ users' = [users EXCEPT ![req[r].u] = compte]
    BY <1>1 DEF Sauver
  <1>3. u = req[r].u /\ users'[u] = compte
    BY <1>2 DEF TypeOK
  <1>4. req[r].lu = users[u] /\ users[u] \in Comptes /\ req[r] \in Contextes
    BY <1>1, <1>3, RequeteType DEF Sauver, A, InvSerie, SuiviUsage, EtapesUsage, TypeOK
  <1> QED BY <1>2, <1>3, <1>4

\* Under the same condition an account that was verified stays verified: a reset
\* writes back the row it read, which is still the one of the table.
THEOREM VerificationsDurables == Spec /\ []Serie => VerificationDurable
  <1>1. TypeOK /\ InvSerie /\ [Next]_vars =>
           [\A u \in Users : users[u].isVerified => users'[u].isVerified]_vars
    <2> SUFFICES ASSUME TypeOK, InvSerie, [Next]_vars, NEW u \in Users,
                        users[u].isVerified
                 PROVE  users'[u].isVerified
      OBVIOUS
    <2>1. CASE users'[u] = users[u]
      BY <2>1
    <2>2. CASE users'[u] # users[u]
      <3>1. PICK q : /\ q \in Contextes /\ q.lu = users[u] /\ q.lu \in Comptes
                     /\ users'[u] = CompteModifie(q)
        BY <2>2, ComptePas
      <3>2. CompteModifie(q).isVerified = TRUE
        BY <3>1 DEF CompteModifie, Comptes
      <3> QED BY <3>1, <3>2
    <2> QED BY <2>1, <2>2
  <1> QED BY <1>1, SerieTenue, PTL DEF Spec, VerificationDurable

\* And a password changes only to the one of a reset in progress.
THEOREM MotsDePasseChoisis == Spec /\ []Serie => MotDePasseChoisi
  <1>1. TypeOK /\ InvSerie /\ [Next]_vars =>
           [\A u \in Users : users'[u].motDePasse # users[u].motDePasse =>
              \E r \in Requetes : /\ req[r].u = u /\ req[r].op = "reset"
                                  /\ users'[u].motDePasse = req[r].motDePasse]_vars
    <2> SUFFICES ASSUME TypeOK, InvSerie, [Next]_vars, NEW u \in Users,
                        users'[u].motDePasse # users[u].motDePasse
                 PROVE  \E r \in Requetes :
                           /\ req[r].u = u /\ req[r].op = "reset"
                           /\ users'[u].motDePasse = req[r].motDePasse
      OBVIOUS
    <2>1. PICK r \in Requetes :
              /\ req[r].u = u /\ req[r] \in Contextes /\ req[r].lu = users[u]
              /\ users[u] \in Comptes /\ users'[u] = CompteModifie(req[r])
      BY ComptePas
    <2>2. PICK q : q = req[r]
      OBVIOUS
    <2>3. q.op = "reset" /\ users'[u].motDePasse = q.motDePasse
      BY <2>1, <2>2 DEF CompteModifie, Comptes
    <2> QED BY <2>1, <2>2, <2>3
  <1> QED BY <1>1, SerieTenue, PTL DEF Spec, MotDePasseChoisi

-----------------------------------------------------------------------------
(***************************************************************************)
(* Delivery.                                                                *)
(***************************************************************************)

\* A request about to answer for a code has had it delivered.
EnvoiFait(r) ==
    /\ req[r].pc \in EtapesUsage => req[r].op # "code"
    /\ req[r].pc = "journal" /\ req[r].op = "code" =>
          \/ envois[r].mode = "local"
          \/ envois[r].mode # "erreur" /\ envois[r].code \in remis

\* What the Twilio client is once it was looked for.
ClientGarde ==
    /\ twilio.client => twilio.charge /\ voies \subseteq {"twilio"}
    /\ ~twilio.charge => voies = {}
    /\ ~twilio.client => "twilio" \notin voies

\* The inductive invariant: types, deliveries behind the answers to come, and
\* one provider.
IInvLivree ==
    /\ TypesLivree
    /\ \A r \in Requetes : EnvoiFait(r)
    /\ CodeParvenu
    /\ ClientGarde
-----------------------------------------------------------------------------
\* Every step of a request with its delivery is a step of Otp, or none.
LEMMA PasRaffine == [NextLivree]_varsLivree => [Next]_vars
<1> SUFFICES ASSUME [NextLivree]_varsLivree PROVE [Next]_vars
  OBVIOUS
<1>1. CASE UNCHANGED varsLivree
  BY <1>1 DEF varsLivree
<1>2. CASE TempsLivre
  BY <1>2 DEF TempsLivre, Next
<1>3. ASSUME NEW r \in Requetes, EcrireCodeLivre(r) PROVE Next
  BY <1>3 DEF EcrireCodeLivre, Next, Avancer
<1>4. ASSUME NEW r \in Requetes, EnvoyerLivre(r) PROVE Next
  BY <1>4 DEF EnvoyerLivre, Next, Avancer
<1>5. ASSUME NEW r \in Requetes, JournaliserLivre(r) PROVE Next
  BY <1>5 DEF JournaliserLivre, Next, Avancer
<1>6. ASSUME NEW r \in Requetes, EchouerLivre(r) PROVE Next
  BY <1>6 DEF EchouerLivre, Next
<1>7. ASSUME NEW r \in Requetes, SupprimerCodeLivre(r) PROVE Next
  BY <1>7 DEF SupprimerCodeLivre, Next, Avancer
<1>8. ASSUME NEW r \in Requetes, Autre(r) PROVE Next
  BY <1>8 DEF Autre, Next, Avancer
<1> QED
  BY <1>1, <1>2, <1>3, <1>4, <1>5, <1>6, <1>7, <1>8 DEF NextLivree

\* Requests with their delivery implement Otp: whatever the environment and
\* the providers do, requestCode does to the store, the accounts and the rate
\* limit what Otp says.
THEOREM LivraisonRaffine == SpecLivree => Spec
<1>1. InitLivree => Init
  BY DEF InitLivree
<1> QED
  BY <1>1, PasRaffine, PTL DEF SpecLivree, Spec

\* With any environment and providers, an account is verified, and its password
\* reset, only by a code generated for that account and that purpose.
THEOREM JamaisSansCodeLivre == SpecLivree => []ChangementParCode
<1> QED
  BY LivraisonRaffine, JamaisSansCode, PTL

\* A slot at a time: the requests do not overlap.
LEMMA UneALaFois ==
  ASSUME \A r, s \in Requetes : r = s
  PROVE  Spec => []Serie
<1>1. Serie
  BY DEF Serie
<1> QED
  BY <1>1, PTL

\* Where a user is served one request after the other, with the deliveries that
\* fail and the handlers that stop between two steps, a code changes an account
\* once at most and is lost only to time, to its successor or to its use, a
\* verified account stays so, and a password changes only to the one of a reset
\* in progress.
THEOREM CodesEnSerieLivres ==
  ASSUME \A r, s \in Requetes : r = s
  PROVE  SpecLivree => /\ []CodeUneFois /\ CodeGarde
                       /\ VerificationDurable /\ MotDePasseChoisi
<1>1. SpecLivree => Spec /\ []Serie
  BY LivraisonRaffine, UneALaFois, PTL
<1> QED
  BY <1>1, CodesUneFois, CodesGardes, VerificationsDurables, MotsDePasseChoisis, PTL
-----------------------------------------------------------------------------
\* The invariant holds at the start.
LEMMA InitIInvLivree == InitLivree => IInvLivree
<1> SUFFICES ASSUME InitLivree PROVE IInvLivree
  OBVIOUS
<1> USE DEF InitLivree, Init, InitLivraison
<1>1. TypesLivree
  BY DEF TypesLivree, TypesLivraison, RienEnvoye
<1>2. \A r \in Requetes : EnvoiFait(r)
  BY DEF EnvoiFait, Repos, EtapesUsage
<1>3. CodeParvenu /\ ClientGarde
  BY DEF CodeParvenu, ClientGarde
<1> QED
  BY <1>1, <1>2, <1>3 DEF IInvLivree

\* A step of request r that leaves the deliveries alone keeps what is known of
\* them, if r does not get to answer for a code by it.
LEMMA SlotLivre ==
  ASSUME IInvLivree, TypeOK, TypeOK', NEW r \in Requetes,
         \A s \in Requetes \ {r} : req'[s] = req[s],
         \A s \in Requetes \ {r} : envois'[s] = envois[s],
         EnvoiFait(r)', remis \subseteq remis',
         TypesLivree', CodeParvenu', ClientGarde'
  PROVE  IInvLivree'
<1>1. ASSUME NEW s \in Requetes PROVE EnvoiFait(s)'
  <2>1. CASE s = r
    BY <2>1
  <2>2. CASE s # r
    <3>1. req'[s] = req[s] /\ envois'[s] = envois[s] /\ EnvoiFait(s)
      BY <2>2 DEF IInvLivree
    <3> QED
      BY <3>1 DEF EnvoiFait
  <2> QED
    BY <2>1, <2>2
<1> QED
  BY <1>1 DEF IInvLivree

\* A step that changes no delivery and no answer keeps their types.
LEMMA LivraisonStable ==
  ASSUME IInvLivree, UNCHANGED <<varsLivraison, reponses>>,
         annonces' \in [Codes -> Nat],
         envois' \in [Requetes -> [code : Nat, mode : Remises \cup {"erreur"}]]
  PROVE  TypesLivree' /\ CodeParvenu' /\ ClientGarde' /\ remis \subseteq remis'
<1> QED
  BY DEF IInvLivree, varsLivraison, TypesLivree, TypesLivraison, CodeParvenu,
         ClientGarde
-----------------------------------------------------------------------------
\* A step that only moves request r within its operation, to a step at which
\* nothing was delivered or that does not use a code, keeps what is known.
LEMMA AvanceLivre ==
  ASSUME IInvLivree, TypeOK, TypeOK', NEW r \in Requetes,
         NEW q \in Contextes, req' = [req EXCEPT ![r] = q],
         UNCHANGED <<varsLivraison, reponses>>, annonces' \in [Codes -> Nat],
         envois' \in [Requetes -> [code : Nat, mode : Remises \cup {"erreur"}]],
         \A s \in Requetes \ {r} : envois'[s] = envois[s],
         q.pc \in EtapesUsage \cup {"journal"} => q.op # "code"
  PROVE  IInvLivree'
<1>1. /\ req'[r] = q
      /\ \A s \in Requetes \ {r} : req'[s] = req[s]
  BY DEF TypeOK
<1>2. EnvoiFait(r)'
  BY <1>1 DEF EnvoiFait
<1> QED
  BY <1>1, <1>2, SlotLivre, LivraisonStable

\* The context after a step of a request is one of Otp, whose operation the step
\* keeps.
LEMMA AllerContexte ==
  ASSUME TypeOK, NEW r \in Requetes,
         NEW pc \in {"repos", "journal"} \cup EtapesCode \cup EtapesUsage
  PROVE  /\ [req[r] EXCEPT !.pc = pc] \in Contextes
         /\ [req[r] EXCEPT !.pc = pc].op = req[r].op
         /\ [req[r] EXCEPT !.pc = pc].pc = pc
         /\ [req EXCEPT ![r].pc = pc] = [req EXCEPT ![r] = [req[r] EXCEPT !.pc = pc]]
<1>1. req[r] \in Contextes
  BY DEF TypeOK
<1> QED
  BY <1>1 DEF Contextes

\* The steps that deliver nothing keep the invariant.
LEMMA AutreConserve ==
  ASSUME IInvLivree, TypeOK, TypeOK', NEW r \in Requetes,
         annonces' \in [Codes -> Nat], Autre(r) \/ SupprimerCodeLivre(r)
  PROVE  IInvLivree'
<1>0. /\ UNCHANGED <<varsLivraison, reponses>>
      /\ envois' = envois
      /\ envois' \in [Requetes -> [code : Nat, mode : Remises \cup {"erreur"}]]
      /\ EnvoiFait(r) /\ req[r] \in Contextes
      /\ Repos \in Contextes /\ Repos.pc = "repos"
  BY DEF Autre, SupprimerCodeLivre, IInvLivree, TypesLivree, TypeOK, Contextes, Repos, Objets
<1> USE DEF A, Aller, Finir, EtapesUsage, EtapesCode
<1>1. CASE Recevoir(r)
  <2>1. /\ req'[r].pc = "lire_taux" \/ req'[r].op # "code"
        /\ req' = [req EXCEPT ![r] = req'[r]]
    <3>0. DOMAIN req = Requetes
      BY DEF TypeOK
    <3>1. CASE DemanderCode(r)
      <4>1. PICK u \in Users, objet \in Objets :
              req' = [req EXCEPT ![r] = [Repos EXCEPT !.pc = "lire_taux",
                                                     !.u = u, !.objet = objet]]
        BY <3>1 DEF DemanderCode
      <4> QED
        BY <3>0, <4>1 DEF Repos
    <3>2. CASE UtiliserCode(r)
      <4>1. PICK u \in Users, op \in {"verifier", "reset"} \cap Operations,
                 code \in 0..Len(emis), motDePasse \in MotsDePasse :
              req' = [req EXCEPT ![r] =
                  [pc |-> "lire_user", op |-> op, u |-> u,
                   objet |-> IF op = "verifier" THEN "verification"
                                                ELSE "password_reset",
                   code |-> code, lu |-> Neant,
                   motDePasse |-> IF op = "reset" THEN motDePasse
                                                  ELSE Initial]]
        BY <3>2 DEF UtiliserCode
      <4>2. /\ req'[r].pc = "lire_user" /\ req'[r].op = op
            /\ req' = [req EXCEPT ![r] = req'[r]]
        BY <3>0, <4>1
      <4> QED
        BY <4>2
    <3> QED
      BY <1>1, <3>1, <3>2 DEF Recevoir
  <2>2. req'[r] \in Contextes
    BY DEF TypeOK
  <2> QED
    BY <1>0, <2>1, <2>2, AvanceLivre
<1>2. CASE LireTaux(r) \/ IncrementerTaux(r) \/ ExpirerTaux(r)
  <2>1. \/ Finir(r)
        \/ Aller(r, "ecrire_code") \/ Aller(r, "expirer") \/ Aller(r, "envoyer")
    BY <1>2 DEF LireTaux, IncrementerTaux, ExpirerTaux
  <2>2. CASE Finir(r)
    BY <1>0, <2>2, AvanceLivre
  <2>3. ASSUME NEW pc \in EtapesCode, Aller(r, pc) PROVE IInvLivree'
    BY <1>0, <2>3, AvanceLivre, AllerContexte
  <2> QED
    BY <2>1, <2>2, <2>3
<1>3. CASE LireUser(r)
  <2>1. req' = [req EXCEPT ![r].pc = "lire_code", ![r].lu = users[req[r].u]]
    BY <1>3 DEF LireUser
  <2>2. /\ req'[r].op = req[r].op
        /\ req' = [req EXCEPT ![r] = req'[r]]
    BY <1>0, <2>1 DEF TypeOK, Contextes
  <2>3. req'[r] \in Contextes
    BY DEF TypeOK
  <2>4. req[r].op # "code"
    BY <1>0, <1>3 DEF LireUser, EnvoiFait
  <2> QED
    BY <1>0, <2>2, <2>3, <2>4, AvanceLivre
<1>4. CASE LireCode(r) \/ Hacher(r) \/ SupprimerCode(r) \/ Sauver(r)
  <2>1. /\ req[r].pc \in EtapesUsage
        /\ \/ Finir(r)
           \/ Aller(r, "hacher") \/ Aller(r, "supprimer") \/ Aller(r, "sauver")
           \/ Aller(r, "journal")
    BY <1>4 DEF LireCode, Hacher, SupprimerCode, Sauver
  <2>2. CASE Finir(r)
    BY <1>0, <2>2, AvanceLivre
  <2>3. ASSUME NEW pc \in EtapesUsage \cup {"journal"}, Aller(r, pc)
        PROVE IInvLivree'
    <3>1. req[r].op # "code"
      BY <1>0, <2>1 DEF EnvoiFait
    <3> QED
      BY <1>0, <2>3, <3>1, AvanceLivre, AllerContexte
  <2> QED
    BY <2>1, <2>2, <2>3
<1> QED
  BY <1>1, <1>2, <1>3, <1>4 DEF Autre, SupprimerCodeLivre

\* A new code, or the end of a request that failed, has nothing to answer for.
LEMMA EcrireEchouerConserve ==
  ASSUME IInvLivree, TypeOK, TypeOK', NEW r \in Requetes,
         annonces' \in [Codes -> Nat],
         EcrireCodeLivre(r) \/ EchouerLivre(r)
  PROVE  IInvLivree'
<1>0. /\ UNCHANGED <<varsLivraison, reponses>>
      /\ envois \in [Requetes -> [code : Nat, mode : Remises \cup {"erreur"}]]
      /\ Repos \in Contextes /\ Repos.pc = "repos"
      /\ RienEnvoye \in [code : Nat, mode : Remises \cup {"erreur"}]
  BY DEF EcrireCodeLivre, EchouerLivre, IInvLivree, TypesLivree, TypeOK,
         Contextes, Repos, Objets, RienEnvoye
<1> USE DEF Finir, Aller, EtapesUsage, EtapesCode
<1>1. CASE EcrireCodeLivre(r)
  <2>1. /\ Aller(r, "incrementer")
        /\ envois' = [envois EXCEPT ![r] =
                        [code |-> Len(emis) + 1, mode |-> "erreur"]]
        /\ Len(emis) \in Nat
    BY <1>1 DEF EcrireCodeLivre, EcrireCode, TypeOK
  <2>2. /\ envois' \in [Requetes -> [code : Nat, mode : Remises \cup {"erreur"}]]
        /\ \A s \in Requetes \ {r} : envois'[s] = envois[s]
    BY <1>0, <2>1
  <2>3. PICK q \in Contextes : /\ req' = [req EXCEPT ![r] = q]
                               /\ q.pc = "incrementer"
    BY <2>1, AllerContexte
  <2> QED
    BY <1>0, <2>2, <2>3, AvanceLivre
<1>2. CASE EchouerLivre(r)
  <2>1. /\ Finir(r)
        /\ envois' = [envois EXCEPT ![r] = RienEnvoye]
    BY <1>2 DEF EchouerLivre, Echouer, Oublier
  <2> QED
    BY <1>0, <2>1, AvanceLivre
<1> QED
  BY <1>1, <1>2

\* What getTwilioClient returns is what it returned before, if it was called.
LEMMA ClientConserve ==
  ASSUME TypesLivraison, ClientGarde, NEW client \in BOOLEAN,
         GetTwilioClient(client)
  PROVE  /\ twilio' \in [charge : BOOLEAN, client : BOOLEAN]
         /\ twilio'.charge
         /\ twilio'.client = client
         /\ client => voies \subseteq {"twilio"}
         /\ ~client => "twilio" \notin voies
<1>1. config.cles \in BOOLEAN
  BY ConfigurationsAssumption DEF TypesLivraison, Configuration
<1>2. CASE twilio.charge
  BY <1>2 DEF TypesLivraison, ClientGarde, GetTwilioClient
<1>3. CASE ~twilio.charge
  <2>1. twilio' = [charge |-> TRUE, client |-> client] /\ voies = {}
    BY <1>3, Zenon DEF ClientGarde, GetTwilioClient
  <2> QED
    BY <2>1
<1> QED
  BY <1>2, <1>3

\* What a provider took, and the mode that tells it.
LEMMA RemettreConserve ==
  ASSUME NEW code \in Nat, NEW mode \in Remises \cup {"erreur"},
         NEW reussi \in Remises \cup {"erreur"}, NEW echoue \in Remises \cup {"erreur"},
         Remettre(code, mode, reussi, echoue)
  PROVE  /\ remis \subseteq remis'
         /\ mode = echoue \/ (mode = reussi /\ code \in remis')
<1>1. PICK issue \in Issues :
        /\ remis' = IF issue = "refuse" THEN remis ELSE remis \cup {code}
        /\ mode = IF issue = "accepte" THEN reussi ELSE echoue
  BY DEF Remettre
<1>2. CASE issue = "accepte"
  BY <1>1, <1>2
<1>3. CASE issue # "accepte"
  BY <1>1, <1>3
<1> QED
  BY <1>2, <1>3

\* A delivery keeps its types and the provider; when it succeeds, the code is
\* shown or a provider took it.
LEMMA SendCodeConserve ==
  ASSUME TypesLivraison, ClientGarde, NEW canal \in Canaux, NEW code \in Nat,
         NEW mode \in Remises \cup {"erreur"}, SendCode(canal, code, mode)
  PROVE  /\ TypesLivraison' /\ ClientGarde'
         /\ remis \subseteq remis'
         /\ mode \in {"local", "erreur"} \/ code \in remis'
<1> USE DEF Remises
<1>1. CASE canal = "email"
  <2>1. SendEmail(code, mode) /\ UNCHANGED <<twilio, voies, config>>
    BY <1>1 DEF SendCode
  <2>2. /\ remis \subseteq remis'
        /\ mode \in {"local", "erreur"} \/ code \in remis'
    BY <2>1, RemettreConserve DEF SendEmail
  <2> QED
    BY <2>1, <2>2 DEF TypesLivraison, ClientGarde
<1>2. CASE canal # "email"
  <2>1. /\ SendWebhookMessage(canal, code, mode) /\ UNCHANGED config
        /\ voies' = voies \cup ({mode} \ {"erreur"})
    BY <1>2 DEF SendCode
  <2>2. PICK client \in BOOLEAN :
          /\ GetTwilioClient(client)
          /\ \/ /\ client /\ ~config.service
                /\ mode = "erreur" /\ UNCHANGED remis
             \/ /\ client /\ config.service
                /\ Remettre(code, mode, "twilio", "erreur")
             \/ /\ ~client /\ canal \notin config.urls
                /\ mode = "local" /\ UNCHANGED remis
             \/ /\ ~client /\ canal \in config.urls
                /\ Remettre(code, mode, "webhook", "erreur")
    BY <2>1 DEF SendWebhookMessage
  <2>3. /\ remis \subseteq remis'
        /\ mode \in {"local", "erreur"} \/ code \in remis'
        /\ client => mode \in {"twilio", "erreur"}
        /\ ~client => mode # "twilio"
    BY <2>2, RemettreConserve
  <2>4. /\ twilio' \in [charge : BOOLEAN, client : BOOLEAN]
        /\ twilio'.charge
        /\ twilio'.client = client
        /\ client => voies \subseteq {"twilio"}
        /\ ~client => "twilio" \notin voies
    BY <2>2, ClientConserve
  <2> QED
    BY <2>1, <2>3, <2>4 DEF TypesLivraison, ClientGarde
<1> QED
  BY <1>1, <1>2

\* A delivery keeps the invariant: the mode it records is the one it ended in.
LEMMA EnvoyerConserve ==
  ASSUME IInvLivree, TypeOK, TypeOK', NEW r \in Requetes, EnvoyerLivre(r),
         annonces' \in [Codes -> Nat]
  PROVE  IInvLivree'
<1>0. /\ TypesLivraison /\ ClientGarde /\ CodeParvenu /\ EnvoiFait(r)
      /\ envois \in [Requetes -> [code : Nat, mode : Remises \cup {"erreur"}]]
      /\ reponses \subseteq [code : Nat, montre : BOOLEAN]
      /\ reponses' = reponses
      /\ DOMAIN req = Requetes /\ req[r] \in Contextes
  BY DEF EnvoyerLivre, IInvLivree, TypesLivree, TypeOK
<1>1. PICK canal \in Canaux, mode \in Remises \cup {"erreur"} :
        /\ SendCode(canal, envois[r].code, mode)
        /\ \/ /\ mode = "erreur" /\ Echouer(r)
              /\ envois' = [envois EXCEPT ![r] = RienEnvoye]
           \/ /\ mode # "erreur" /\ Envoyer(r)
              /\ envois' = [envois EXCEPT ![r].mode = mode]
  BY DEF EnvoyerLivre, Oublier
<1>2. /\ TypesLivraison' /\ ClientGarde' /\ remis \subseteq remis'
      /\ mode \in {"local", "erreur"} \/ envois[r].code \in remis'
  <2>1. envois[r].code \in Nat
    BY <1>0
  <2> QED
    BY <1>0, <1>1, <2>1, SendCodeConserve
<1>3. CodeParvenu'
  BY <1>0, <1>2 DEF CodeParvenu
<1>4. /\ envois' \in [Requetes -> [code : Nat, mode : Remises \cup {"erreur"}]]
      /\ \A s \in Requetes \ {r} : envois'[s] = envois[s]
      /\ envois'[r] = IF mode = "erreur" THEN RienEnvoye
                      ELSE [code |-> envois[r].code, mode |-> mode]
  <2>1. CASE mode = "erreur"
    BY <1>0, <1>1, <2>1 DEF RienEnvoye
  <2>2. CASE mode # "erreur"
    BY <1>0, <1>1, <2>2
  <2> QED
    BY <2>1, <2>2
<1>5. /\ \A s \in Requetes \ {r} : req'[s] = req[s]
      /\ req'[r].pc \notin EtapesUsage
      /\ req'[r].pc = "journal" => mode # "erreur"
  <2>1. CASE Echouer(r)
    BY <1>0, <2>1 DEF Echouer, Finir, Repos, EtapesUsage
  <2>2. CASE mode # "erreur" /\ Envoyer(r)
    BY <1>0, <2>2 DEF Envoyer, Aller, Contextes, EtapesUsage
  <2> QED
    BY <1>1, <2>1, <2>2
<1>6. EnvoiFait(r)'
  BY <1>2, <1>4, <1>5 DEF EnvoiFait
<1>7. TypesLivree'
  BY <1>0, <1>2, <1>4 DEF TypesLivree
<1> QED
  BY <1>2, <1>3, <1>4, <1>5, <1>6, <1>7, SlotLivre

\* An answer for a code is given for one that was delivered.
LEMMA JournaliserConserve ==
  ASSUME IInvLivree, TypeOK, TypeOK', NEW r \in Requetes, JournaliserLivre(r),
         annonces' \in [Codes -> Nat]
  PROVE  IInvLivree'
<1>0. /\ TypesLivree /\ TypesLivraison /\ ClientGarde /\ CodeParvenu
      /\ EnvoiFait(r)
      /\ envois \in [Requetes -> [code : Nat, mode : Remises \cup {"erreur"}]]
      /\ reponses \subseteq [code : Nat, montre : BOOLEAN]
      /\ DOMAIN req = Requetes
  BY DEF IInvLivree, TypesLivree, TypeOK
<1>1. /\ req[r].pc = "journal" /\ req' = [req EXCEPT ![r] = Repos]
      /\ envois' = [envois EXCEPT ![r] = RienEnvoye]
      /\ UNCHANGED varsLivraison
      /\ reponses' = IF req[r].op # "code" THEN reponses
           ELSE reponses \cup {[code |-> envois[r].code,
                                montre |-> envois[r].mode = "local"]}
  BY DEF JournaliserLivre, Journaliser, A, Finir, Oublier
<1>2. /\ TypesLivraison' /\ ClientGarde' /\ remis' = remis
  BY <1>0, <1>1 DEF TypesLivraison, ClientGarde, varsLivraison
<1>3. /\ envois' \in [Requetes -> [code : Nat, mode : Remises \cup {"erreur"}]]
      /\ \A s \in Requetes \ {r} : envois'[s] = envois[s]
      /\ reponses' \subseteq [code : Nat, montre : BOOLEAN]
  <2>1. PICK montre \in BOOLEAN : montre = (envois[r].mode = "local")
    OBVIOUS
  <2>2. reponses' \subseteq reponses \cup {[code |-> envois[r].code,
                                            montre |-> montre]}
    BY <1>1, <2>1
  <2>3. [code |-> envois[r].code, montre |-> montre]
          \in [code : Nat, montre : BOOLEAN]
    BY <1>0
  <2>4. reponses' \subseteq [code : Nat, montre : BOOLEAN]
    BY <1>0, <2>2, <2>3
  <2> QED
    BY <1>0, <1>1, <2>4 DEF RienEnvoye
<1>4. CodeParvenu'
  <2>1. CASE req[r].op # "code"
    BY <1>0, <1>1, <1>2, <2>1 DEF CodeParvenu
  <2>2. CASE req[r].op = "code"
    <3>1. envois[r].mode = "local" \/ envois[r].code \in remis
      BY <1>0, <1>1, <2>2 DEF EnvoiFait
    <3>2. PICK montre \in BOOLEAN : montre = (envois[r].mode = "local")
      OBVIOUS
    <3>3. reponses' = reponses \cup {[code |-> envois[r].code, montre |-> montre]}
      BY <1>1, <2>2, <3>2
    <3>4. montre \/ envois[r].code \in remis
      BY <3>1, <3>2
    <3> QED
      BY <1>0, <1>2, <3>3, <3>4 DEF CodeParvenu
  <2> QED
    BY <2>1, <2>2
<1>5. EnvoiFait(r)' /\ \A s \in Requetes \ {r} : req'[s] = req[s]
  BY <1>0, <1>1 DEF EnvoiFait, Repos, EtapesUsage
<1>6. TypesLivree'
  BY <1>2, <1>3 DEF TypesLivree
<1> QED
  BY <1>2, <1>3, <1>4, <1>5, <1>6, SlotLivre

\* What the messages still promise is a time.
LEMMA AnnoncesPas ==
  ASSUME annonces \in [Codes -> Nat], [NextLivree]_varsLivree
  PROVE  annonces' \in [Codes -> Nat]
<1>1. CASE TempsLivre
  <2>1. \A n \in Nat : n > 0 => n - 1 \in Nat
    OBVIOUS
  <2> QED
    BY <1>1, <2>1 DEF TempsLivre
<1>2. ASSUME NEW r \in Requetes, EnvoyerLivre(r)
      PROVE  annonces' \in [Codes -> Nat]
  <2>1. PICK mode \in Remises \cup {"erreur"} :
          \/ UNCHANGED annonces
          \/ annonces' = [c \in Codes |->
                            IF EnvoiAnnonce(r, c, mode) THEN DureeAnnoncee
                                                        ELSE annonces[c]]
    BY <1>2 DEF EnvoyerLivre
  <2> QED
    BY <2>1, AnnonceAssumption
<1>3. ASSUME NEW r \in Requetes, SupprimerCodeLivre(r)
      PROVE  annonces' \in [Codes -> Nat]
  BY <1>3 DEF SupprimerCodeLivre
<1>4. CASE \/ UNCHANGED varsLivree
           \/ \E r \in Requetes : EcrireCodeLivre(r) \/ JournaliserLivre(r)
                                  \/ EchouerLivre(r) \/ Autre(r)
  BY <1>4 DEF varsLivree, EcrireCodeLivre, JournaliserLivre, EchouerLivre, Autre
<1> QED
  BY <1>1, <1>2, <1>3, <1>4 DEF NextLivree

\* Every step keeps the invariant, given the types of Otp.
LEMMA PasIInvLivree ==
  IInvLivree /\ TypeOK /\ TypeOK' /\ [NextLivree]_varsLivree => IInvLivree'
<1> SUFFICES ASSUME IInvLivree, TypeOK, TypeOK', [NextLivree]_varsLivree
             PROVE  IInvLivree'
  OBVIOUS
<1>0. annonces' \in [Codes -> Nat]
  BY AnnoncesPas DEF IInvLivree, TypesLivree
<1>1. CASE UNCHANGED varsLivree \/ TempsLivre
  <2>1. UNCHANGED <<req, varsLivraison, envois, reponses>>
    BY <1>1 DEF varsLivree, vars, TempsLivre, Temps
  <2> QED
    BY <1>0, <2>1 DEF IInvLivree, TypesLivree, TypesLivraison, varsLivraison,
                EnvoiFait, CodeParvenu, ClientGarde
<1>2. ASSUME NEW r \in Requetes,
             \/ EcrireCodeLivre(r) \/ EnvoyerLivre(r) \/ JournaliserLivre(r)
             \/ EchouerLivre(r) \/ SupprimerCodeLivre(r) \/ Autre(r)
      PROVE  IInvLivree'
  BY <1>0, <1>2, EcrireEchouerConserve, EnvoyerConserve, JournaliserConserve,
     AutreConserve
<1> QED
  BY <1>1, <1>2 DEF NextLivree

\* The invariant holds of every behaviour.
LEMMA IInvLivreeToujours == SpecLivree => []IInvLivree
<1>1. SpecLivree => []TypeOK
  BY LivraisonRaffine, TypeCorrecte, PTL
<1> QED
  BY <1>1, InitIInvLivree, PasIInvLivree, PTL DEF SpecLivree

\* Whoever is told that a code was sent can have it, for any number of
\* concurrent requests and any environment.
THEOREM CodesParvenus == SpecLivree => []CodeParvenu
<1>1. IInvLivree => CodeParvenu
  BY DEF IInvLivree
<1> QED
  BY <1>1, IInvLivreeToujours, PTL

\* A process that delivered by Twilio goes on with Twilio.
THEOREM FournisseursStables == SpecLivree => []FournisseurStable
<1>1. IInvLivree => FournisseurStable
  BY DEF IInvLivree, ClientGarde, FournisseurStable
<1> QED
  BY <1>1, IInvLivreeToujours, PTL
=============================================================================
