------------------------ MODULE AdministrationProofs ------------------------
(***************************************************************************)
(* Proofs about Partenaires, Reglages, Chiffrement and Comptes, for any     *)
(* number of slots, requests, names, columns, environments and accounts.    *)
(*                                                                          *)
(* A deleted row stays away because rows appear only at the next id, and an *)
(* update writes rows that are there.  A name that was inserted is still in *)
(* the table or was given up: so whoever inserts it again does so after it  *)
(* was given up.                                                            *)
(*                                                                          *)
(* The rows of the settings and the requests about to create one are never  *)
(* more than the slots: a request turns to a creation only while the table  *)
(* is empty, and then only slots are counted.  Until the first row, no      *)
(* value was given.                                                         *)
(*                                                                          *)
(* What a request read of an account agrees with the last decision on that  *)
(* account, unless the request was received before the decision or the      *)
(* decision has been undone.  This is stated of the row, of every entity in *)
(* progress and of every token, and a decision re-establishes it for all of *)
(* them: every request in progress was received before.                     *)
(***************************************************************************)
EXTENDS Comptes, Partenaires, Reglages, Chiffrement,
        FiniteSetTheorems, SequenceTheorems, TLAPS

\* Rows of an import inserted so far.
Faites(q) == IF q.pc = "tracer_creation" THEN q.count + 1 ELSE q.count

\* What a request in progress knows of the tables.
SuiviOK(q) ==
    /\ q.pc # "repos" => q.n \in 1..MaxRequetes
    /\ q.pc \in {"enregistrer", "tracer_creation"} =>
         q.op \in {"create", "import"} /\ q.count < Len(q.lignes)
    /\ q.pc = "cloturer" => q.op = "import" /\ q.count = Len(q.lignes)
    /\ q.pc = "modifier" => q.lignes \in Corps
    /\ q.pc \in {"modifier", "relire"} => q.op = "update"
    /\ q.pc \in {"trouver", "supprimer"} => q.op = "delete"
    /\ q.pc = "tracer" => q.op \in {"update", "delete", "export"}
    /\ q.pc \in {"modifier", "relire", "trouver", "supprimer"} => q.id \in Ids
    /\ q.pc \in {"tracer_creation", "supprimer"} => q.id < prochains[q.table]
    /\ q.op = "delete" /\ q.pc = "tracer" =>
         /\ q.id \in Ids /\ q.id < prochains[q.table]
         /\ registres[q.table][q.id] = Neant
    /\ q.op = "import" /\ q.pc # "repos" =>
         /\ q.lignes \in Fichiers
         /\ \A k \in 1..Faites(q) : <<q.table, q.lignes[k], q.n>> \in insertions

Suivis == \A r \in Requetes : SuiviOK(reqPartenaires[r])

\* Rows have ids already given.
Numerotes ==
    \A t \in Tables, id \in Ids :
        registres[t][id] # Neant => id < prochains[t]

Porte(t, nom) == \E id \in Ids : registres[t][id] = nom

\* An inserted name is in the table or was given up.
Retrouves == \A x \in insertions : Porte(x[1], x[2]) \/ x[2] \in liberes[x[1]]

\* A name two requests inserted was given up.
Uniques ==
    \A x, y \in insertions :
        x[1] = y[1] /\ x[2] = y[2] /\ x[3] # y[3] => x[2] \in liberes[x[1]]

ImportsFaits ==
    \A i \in imports : \A k \in DOMAIN i[2] : <<i[1], i[2][k], i[3]>> \in insertions

\* Creations and deletions are logged with their table and id.
TracesTypees ==
    \A trace \in tracesPartenaires :
        /\ trace[1] \in {"create", "delete"} =>
             trace[2] \in Tables /\ trace[3] \in Nat
        /\ trace[1] = "delete" => trace[3] \in Ids

IInvPartenaires ==
    /\ TypesPartenaires /\ Suivis /\ Numerotes /\ Retrouves /\ Uniques /\ ImportsFaits
    /\ TracesTypees /\ TraceSuppression

\* What the assumptions say of the constants.
LEMMA NombresP ==
    /\ MaxRequetes \in Nat /\ MaxPartenaires \in Nat /\ Ids = 1..MaxPartenaires
    /\ Neant \notin Noms /\ Fichiers \subseteq Seq(Noms \cup {Neant})
  BY MaxRequetesNaturel, PartenairesAssumption DEF Ids

\* The invariant holds initially.
LEMMA InitIInvPartenaires == InitPartenaires => IInvPartenaires
  <1> SUFFICES ASSUME InitPartenaires PROVE IInvPartenaires
    OBVIOUS
  <1> USE DEF InitPartenaires
  <1>1. ReposPartenaires \in Contextes
    BY DEF ReposPartenaires, Contextes, Tables
  <1>2. TypesPartenaires
    BY <1>1, NombresP DEF TypesPartenaires
  <1>3. Suivis
    BY DEF Suivis, SuiviOK, ReposPartenaires
  <1>4. Numerotes /\ Retrouves /\ Uniques /\ ImportsFaits /\ TraceSuppression
        /\ TracesTypees
    BY DEF TracesTypees, Numerotes, Retrouves, Uniques, ImportsFaits, TraceSuppression
  <1> QED BY <1>2, <1>3, <1>4 DEF IInvPartenaires

\* A step of another request leaves what a request knows true.
Evolue ==
    /\ insertions \subseteq insertions'
    /\ \A t \in Tables : prochains'[t] \in Nat /\ prochains[t] <= prochains'[t]
    /\ \A t \in Tables, id \in Ids :
         registres[t][id] = Neant /\ id < prochains[t] =>
             registres'[t][id] = Neant

\* What a request knows stays true while others step.
LEMMA SuiviStable ==
    ASSUME TypesPartenaires, NEW q \in Contextes, SuiviOK(q), Evolue
    PROVE  SuiviOK(q)'
  <1>1. /\ q.table \in Tables /\ q.id \in Nat
        /\ prochains[q.table] \in Nat /\ prochains'[q.table] \in Nat
        /\ prochains[q.table] <= prochains'[q.table]
    BY DEF Contextes, TypesPartenaires, Evolue
  <1>2. q.id < prochains[q.table] => q.id < prochains'[q.table]
    BY <1>1
  <1>3. /\ q.id \in Ids /\ q.id < prochains[q.table]
        /\ registres[q.table][q.id] = Neant
        => registres'[q.table][q.id] = Neant
    BY <1>1 DEF Evolue
  <1>4. \A k \in 1..Faites(q) : <<q.table, q.lignes[k], q.n>> \in insertions =>
          <<q.table, q.lignes[k], q.n>> \in insertions'
    BY DEF Evolue
  <1> QED BY <1>2, <1>3, <1>4 DEF SuiviOK, Faites

\* Slot r takes a context that holds after the step.
LEMMA SlotConserve ==
    ASSUME TypesPartenaires, Suivis, Evolue, NEW r \in Requetes,
           NEW q \in Contextes, SuiviOK(q)',
           reqPartenaires' = [reqPartenaires EXCEPT ![r] = q]
    PROVE  reqPartenaires' \in [Requetes -> Contextes] /\ Suivis'
  <1>1. /\ reqPartenaires' \in [Requetes -> Contextes]
        /\ reqPartenaires'[r] = q
        /\ \A s \in Requetes \ {r} : reqPartenaires'[s] = reqPartenaires[s]
    BY DEF TypesPartenaires
  <1>2. ASSUME NEW s \in Requetes PROVE SuiviOK(reqPartenaires[s])'
    <2>1. CASE s = r
      BY <1>1, <2>1 DEF SuiviOK, Faites
    <2>2. CASE s # r
      <3>1. PICK p : p = reqPartenaires[s]
        OBVIOUS
      <3>2. SuiviOK(p)' /\ reqPartenaires'[s] = p
        BY <1>1, <2>2, <3>1, SuiviStable DEF Suivis, TypesPartenaires
      <3> QED BY <3>2 DEF SuiviOK, Faites
    <2> QED BY <2>1, <2>2
  <1> QED BY <1>1, <1>2 DEF Suivis

\* A step that changes the slot alone.
LEMMA SlotSeul ==
    ASSUME IInvPartenaires, NEW r \in Requetes, NEW q \in Contextes, SuiviOK(q),
           reqPartenaires' = [reqPartenaires EXCEPT ![r] = q],
           recuesPartenaires' \in 0..MaxRequetes,
           UNCHANGED <<registres, prochains, tracesPartenaires, insertions,
                       imports, liberes>>
    PROVE  IInvPartenaires'
  <1> USE DEF IInvPartenaires
  <1>1. Evolue
    BY NombresP DEF Evolue, TypesPartenaires
  <1>2. SuiviOK(q)'
    BY <1>1, SuiviStable
  <1>3. TypesPartenaires' /\ Suivis'
    BY <1>1, <1>2, SlotConserve DEF TypesPartenaires
  <1> QED BY <1>3 DEF Numerotes, Retrouves, Uniques, ImportsFaits, TracesTypees,
                      TraceSuppression, Porte

\* The context of an idle slot.
LEMMA ReposOK == ReposPartenaires \in Contextes /\ SuiviOK(ReposPartenaires)
  BY DEF ReposPartenaires, Contextes, Tables, SuiviOK

\* A request ends.
LEMMA FinIInv ==
    ASSUME IInvPartenaires, NEW r \in Requetes, Terminer(r),
           recuesPartenaires' \in 0..MaxRequetes,
           UNCHANGED <<registres, prochains, tracesPartenaires, insertions,
                       imports, liberes>>
    PROVE  IInvPartenaires'
  <1>1. PICK q : q = ReposPartenaires
    OBVIOUS
  <1> QED BY <1>1, ReposOK, SlotSeul DEF Terminer

\* The requests that may be received.
LEMMA DemandesType ==
    ASSUME IInvPartenaires, recuesPartenaires < MaxRequetes,
           NEW q \in DemandesClients \cup DemandesFournisseurs
    PROVE  q \in Contextes /\ SuiviOK(q)
  <1>1. PICK t \in Tables : q \in Demandes(t)
    BY DEF DemandesClients, DemandesFournisseurs, Tables
  <1>2. /\ recuesPartenaires \in Nat
        /\ recuesPartenaires + 1 \in 1..MaxRequetes /\ recuesPartenaires + 1 \in Nat
    BY NombresP DEF IInvPartenaires, TypesPartenaires
  <1>3. CASE \E nom \in Noms : q = Demande(t, "create", "enregistrer", 0, <<nom>>)
    <2>1. PICK nom \in Noms : q = Demande(t, "create", "enregistrer", 0, <<nom>>)
      BY <1>3
    <2>2. <<nom>> \in Seq(Noms \cup {Neant}) /\ Len(<<nom>>) = 1
      OBVIOUS
    <2> QED BY <1>2, <2>1, <2>2 DEF Demande, Contextes, SuiviOK
  <1>4. CASE \E f \in Fichiers : q = Demande(t, "import", Suite(f, 0), 0, f)
    <2>1. PICK f \in Fichiers : q = Demande(t, "import", Suite(f, 0), 0, f)
      BY <1>4
    <2>2. f \in Seq(Noms \cup {Neant}) /\ Len(f) \in Nat
      BY NombresP
    <2>3. \/ Suite(f, 0) = "enregistrer" /\ 0 < Len(f)
          \/ Suite(f, 0) = "cloturer" /\ Len(f) = 0
      BY <2>2 DEF Suite
    <2> QED BY <1>2, <2>1, <2>2, <2>3 DEF Demande, Contextes, SuiviOK, Faites
  <1>5. CASE \E id \in Ids, corps \in Corps :
               q = Demande(t, "update", "modifier", id, corps)
    <2>1. PICK id \in Ids, corps \in Corps :
            q = Demande(t, "update", "modifier", id, corps)
      BY <1>5
    <2>2. corps \in Seq(Noms \cup {Neant}) /\ id \in Nat
      <3>1. id \in Nat
        BY NombresP
      <3>2. CASE corps = <<>>
        BY <3>1, <3>2
      <3>3. CASE corps = <<Neant>>
        BY <3>1, <3>3
      <3>4. CASE \E nom \in Noms : corps = <<nom>>
        BY <3>1, <3>4
      <3> QED BY <3>2, <3>3, <3>4 DEF Corps
    <2> QED BY <1>2, <2>1, <2>2 DEF Demande, Contextes, SuiviOK
  <1>6. CASE \/ \E id \in Ids : q = Demande(t, "delete", "trouver", id, <<>>)
             \/ q = Demande(t, "export", "tracer", 0, <<>>)
    <2>1. <<>> \in Seq(Noms \cup {Neant})
      OBVIOUS
    <2>2. CASE \E id \in Ids : q = Demande(t, "delete", "trouver", id, <<>>)
      <3>1. PICK id \in Ids : q = Demande(t, "delete", "trouver", id, <<>>)
        BY <2>2
      <3>2. id \in Nat
        BY NombresP
      <3> QED BY <1>2, <2>1, <3>1, <3>2 DEF Demande, Contextes, SuiviOK
    <2>3. CASE q = Demande(t, "export", "tracer", 0, <<>>)
      BY <1>2, <2>1, <2>3 DEF Demande, Contextes, SuiviOK
    <2> QED BY <1>6, <2>2, <2>3
  <1> QED BY <1>1, <1>3, <1>4, <1>5, <1>6 DEF Demandes

\* A request is received.
LEMMA RecevoirConserve ==
    ASSUME IInvPartenaires, NEW r \in Requetes, RecevoirPartenaires(r)
    PROVE  IInvPartenaires'
  <1>1. PICK q \in DemandesClients \cup DemandesFournisseurs :
          reqPartenaires' = [reqPartenaires EXCEPT ![r] = q]
    BY DEF RecevoirPartenaires
  <1>2. q \in Contextes /\ SuiviOK(q)
    BY DemandesType DEF RecevoirPartenaires
  <1>3. recuesPartenaires' \in 0..MaxRequetes
    BY NombresP DEF RecevoirPartenaires, IInvPartenaires, TypesPartenaires
  <1> QED BY <1>1, <1>2, <1>3, SlotSeul DEF RecevoirPartenaires

\* The insertion of a row.
LEMMA EnregistrerConserve ==
    ASSUME IInvPartenaires, NEW r \in Requetes, Enregistrer(r)
    PROVE  IInvPartenaires'
  <1>1. PICK p, t, nom, id :
          /\ p = reqPartenaires[r] /\ t = p.table /\ nom = p.lignes[p.count + 1]
          /\ id = prochains[t]
    OBVIOUS
  <1>2. /\ p \in Contextes /\ SuiviOK(p) /\ p.pc = "enregistrer" /\ t \in Tables
        /\ recuesPartenaires' \in 0..MaxRequetes
        /\ UNCHANGED <<recuesPartenaires, tracesPartenaires, imports, liberes>>
    BY <1>1 DEF IInvPartenaires, TypesPartenaires, Suivis, Contextes, Enregistrer
  <1>3. /\ p.op \in {"create", "import"} /\ p.count < Len(p.lignes)
        /\ p.count \in Nat /\ p.lignes \in Seq(Noms \cup {Neant})
        /\ p.n \in 1..MaxRequetes
    BY <1>2 DEF SuiviOK, Contextes
  <1>4. p.count + 1 \in 1..Len(p.lignes) /\ nom \in Noms \cup {Neant}
    <2>1. Len(p.lignes) \in Nat /\ p.count + 1 \in 1..Len(p.lignes)
      BY <1>3
    <2> QED BY <1>1, <1>3, <2>1, ElementOfSeq
  <1>5. CASE /\ Terminer(r) /\ UNCHANGED <<registres, prochains, insertions>>
    BY <1>2, <1>5, FinIInv
  <1>6. CASE /\ Insertable(t, nom)
             /\ Inserer(p, nom)
             /\ reqPartenaires' = [reqPartenaires EXCEPT
                   ![r].pc = "tracer_creation", ![r].id = id]
    <2>1. /\ nom \in Noms /\ nom # Neant
          /\ \A i \in Ids : registres[t][i] # nom
      BY <1>4, <1>6, NombresP DEF Insertable
    <2>2. /\ id \in Ids /\ id \in Nat
          /\ registres' = [registres EXCEPT ![t][id] = nom]
          /\ prochains' = [prochains EXCEPT ![t] = id + 1]
          /\ insertions' = insertions \cup {<<t, nom, p.n>>}
      BY <1>1, <1>6, NombresP DEF Inserer, IInvPartenaires, TypesPartenaires
    <2>3. /\ registres' \in [Tables -> [Ids -> Noms \cup {Neant}]]
          /\ registres'[t][id] = nom
          /\ \A i \in Ids \ {id} : registres'[t][i] = registres[t][i]
          /\ \A u \in Tables \ {t} : registres'[u] = registres[u]
      BY <1>2, <2>1, <2>2 DEF IInvPartenaires, TypesPartenaires
    <2>4. /\ prochains' \in [Tables -> 1..(MaxPartenaires + 1)]
          /\ prochains'[t] = id + 1 /\ prochains[t] = id
          /\ \A u \in Tables \ {t} : prochains'[u] = prochains[u]
      BY <1>1, <1>2, <2>2, NombresP DEF IInvPartenaires, TypesPartenaires
    <2>5. insertions' \subseteq Tables \X Noms \X (1..MaxRequetes)
      BY <1>2, <1>3, <2>1, <2>2 DEF IInvPartenaires, TypesPartenaires
    <2>6. Evolue
      <3>1. insertions \subseteq insertions'
        BY <2>2
      <3>2. \A u \in Tables :
              prochains'[u] \in Nat /\ prochains[u] <= prochains'[u]
        BY <2>2, <2>4, NombresP DEF IInvPartenaires, TypesPartenaires
      <3>3. \A u \in Tables, i \in Ids :
              registres[u][i] = Neant /\ i < prochains[u] =>
                registres'[u][i] = Neant
        BY <2>2, <2>3, <2>4, NombresP
      <3> QED BY <3>1, <3>2, <3>3 DEF Evolue
    <2>7. PICK q : q = [p EXCEPT !.pc = "tracer_creation", !.id = id]
      OBVIOUS
    <2>8. /\ q \in Contextes
          /\ reqPartenaires' = [reqPartenaires EXCEPT ![r] = q]
      BY <1>1, <1>2, <1>6, <2>2, <2>7 DEF Contextes
    <2>9. SuiviOK(q)'
      <3>1. \A k \in 1..p.count :
              p.op = "import" => <<t, p.lignes[k], p.n>> \in insertions'
        BY <1>1, <1>2, <2>2 DEF SuiviOK, Faites
      <3>2. <<t, p.lignes[p.count + 1], p.n>> \in insertions'
        BY <1>1, <2>2
      <3>3. \A k \in 1..(p.count + 1) :
              p.op = "import" => <<t, p.lignes[k], p.n>> \in insertions'
        BY <1>3, <3>1, <3>2
      <3>4. /\ q.pc = "tracer_creation" /\ q.id = id /\ q.op = p.op
            /\ q.table = t /\ q.n = p.n /\ q.lignes = p.lignes
            /\ q.count = p.count
        BY <1>1, <1>2, <2>7 DEF Contextes
      <3>5. q.id < prochains'[q.table]
        BY <2>2, <2>4, <3>4
      <3>6. p.op = "import" => p.lignes \in Fichiers
        BY <1>2 DEF SuiviOK
      <3> QED BY <1>3, <3>3, <3>4, <3>5, <3>6 DEF SuiviOK, Faites
    <2>10. TypesPartenaires' /\ Suivis'
      BY <1>2, <2>3, <2>4, <2>5, <2>6, <2>8, <2>9, SlotConserve
         DEF IInvPartenaires, TypesPartenaires
    <2>11. Numerotes'
      BY <2>2, <2>3, <2>4 DEF IInvPartenaires, Numerotes, TypesPartenaires
    <2>12. \A u \in Tables, x \in Noms : Porte(u, x) => Porte(u, x)'
      <3> SUFFICES ASSUME NEW u \in Tables, NEW x \in Noms, Porte(u, x)
                   PROVE  Porte(u, x)'
        OBVIOUS
      <3>1. PICK i \in Ids : registres[u][i] = x
        BY DEF Porte
      <3>2. i < prochains[u]
        BY <3>1, NombresP DEF IInvPartenaires, Numerotes
      <3>3. registres'[u][i] = x
        BY <2>2, <2>3, <2>4, <3>1, <3>2
      <3> QED BY <3>3 DEF Porte
    <2>13. Retrouves'
      <3>1. Porte(t, nom)'
        BY <2>2, <2>3 DEF Porte
      <3>2. \A x \in insertions : (Porte(x[1], x[2]) \/ x[2] \in liberes[x[1]])'
        BY <1>2, <2>12 DEF IInvPartenaires, Retrouves, TypesPartenaires
      <3> QED BY <2>2, <3>1, <3>2 DEF Retrouves
    <2>14. Uniques'
      <3>1. \A x \in insertions :
              x[1] = t /\ x[2] = nom => nom \in liberes[t]
        BY <2>1 DEF IInvPartenaires, Retrouves, Porte
      <3> QED BY <1>2, <2>2, <3>1 DEF IInvPartenaires, Uniques
    <2>15. ImportsFaits'
      BY <1>2, <2>2 DEF IInvPartenaires, ImportsFaits
    <2>16. TraceSuppression'
      <3> SUFFICES ASSUME NEW trace \in tracesPartenaires
                   PROVE  /\ trace[1] = "delete" =>
                               registres'[trace[2]][trace[3]] = Neant
                          /\ trace[1] \in {"create", "delete"} =>
                               trace[3] < prochains'[trace[2]]
        BY <1>2 DEF TraceSuppression
      <3>1. /\ trace[1] = "delete" => registres[trace[2]][trace[3]] = Neant
            /\ trace[1] \in {"create", "delete"} =>
                 /\ trace[3] < prochains[trace[2]] /\ trace[3] \in Nat
                 /\ trace[2] \in Tables
            /\ trace[1] = "delete" => trace[3] \in Ids
        BY DEF IInvPartenaires, TraceSuppression, TracesTypees
      <3>2. /\ trace[2] \in Tables =>
                 /\ prochains[trace[2]] \in Nat /\ prochains'[trace[2]] \in Nat
                 /\ prochains[trace[2]] <= prochains'[trace[2]]
        BY <2>6 DEF Evolue, IInvPartenaires, TypesPartenaires
      <3>3. trace[1] = "delete" => registres'[trace[2]][trace[3]] = Neant
        BY <2>6, <3>1 DEF Evolue
      <3> QED BY <3>1, <3>2, <3>3
    <2>17. TracesTypees'
      BY <1>2 DEF IInvPartenaires, TracesTypees
    <2> QED BY <2>10, <2>11, <2>13, <2>14, <2>15, <2>16, <2>17 DEF IInvPartenaires
  <1> QED BY <1>1, <1>5, <1>6 DEF Enregistrer

\* A row changes its name or goes, and the name it had is given up.
LEMMA RangeeConserve ==
    ASSUME IInvPartenaires, NEW r \in Requetes, NEW t \in Tables, NEW id \in Ids,
           NEW x \in Noms \cup {Neant}, NEW L \in SUBSET Noms,
           x # Neant => registres[t][id] # Neant,
           registres[t][id] \in L \cup {x, Neant},
           registres' = [registres EXCEPT ![t][id] = x],
           liberes' = [liberes EXCEPT ![t] = @ \cup L],
           NEW q \in Contextes,
           Evolue => SuiviOK(q)',
           reqPartenaires' = [reqPartenaires EXCEPT ![r] = q],
           UNCHANGED <<prochains, recuesPartenaires, tracesPartenaires,
                       insertions, imports>>
    PROVE  IInvPartenaires'
  <1> USE DEF IInvPartenaires
  <1>1. /\ registres' \in [Tables -> [Ids -> Noms \cup {Neant}]]
        /\ registres'[t][id] = x
        /\ \A i \in Ids \ {id} : registres'[t][i] = registres[t][i]
        /\ \A u \in Tables \ {t} : registres'[u] = registres[u]
    BY DEF TypesPartenaires
  <1>2. /\ liberes' \in [Tables -> SUBSET Noms]
        /\ liberes'[t] = liberes[t] \cup L
        /\ \A u \in Tables : liberes[u] \subseteq liberes'[u]
    BY DEF TypesPartenaires
  <1>3. Evolue
    <2>1. \A u \in Tables :
            prochains'[u] \in Nat /\ prochains[u] <= prochains'[u]
      BY NombresP DEF TypesPartenaires
    <2>2. \A u \in Tables, i \in Ids :
            registres[u][i] = Neant => registres'[u][i] = Neant
      BY <1>1
    <2> QED BY <2>1, <2>2 DEF Evolue
  <1>4. TypesPartenaires' /\ Suivis'
    BY <1>1, <1>2, <1>3, SlotConserve DEF TypesPartenaires
  <1>5. Numerotes'
    BY <1>1 DEF Numerotes
  <1>6. \A u \in Tables, y \in Noms :
          Porte(u, y) => Porte(u, y)' \/ y \in liberes'[u]
    <2> SUFFICES ASSUME NEW u \in Tables, NEW y \in Noms, Porte(u, y)
                 PROVE  Porte(u, y)' \/ y \in liberes'[u]
      OBVIOUS
    <2>1. PICK i \in Ids : registres[u][i] = y
      BY DEF Porte
    <2>2. CASE u = t /\ i = id
      <3>1. y = x \/ y \in L
        BY <2>1, <2>2, NombresP
      <3> QED BY <1>1, <1>2, <2>2, <3>1 DEF Porte
    <2>3. CASE ~(u = t /\ i = id)
      BY <1>1, <2>1, <2>3 DEF Porte
    <2> QED BY <2>2, <2>3
  <1>7. Retrouves'
    <2> SUFFICES ASSUME NEW y \in insertions
                 PROVE  Porte(y[1], y[2])' \/ y[2] \in liberes'[y[1]]
      BY DEF Retrouves, Porte
    <2>1. y[1] \in Tables /\ y[2] \in Noms
      BY DEF TypesPartenaires
    <2> QED BY <1>2, <1>6, <2>1 DEF Retrouves
  <1>8. Uniques'
    <2>1. \A y \in insertions : y[1] \in Tables
      BY DEF TypesPartenaires
    <2> QED BY <1>2, <2>1 DEF Uniques
  <1>9. ImportsFaits' /\ TracesTypees'
    BY DEF ImportsFaits, TracesTypees
  <1>10. TraceSuppression'
    <2> SUFFICES ASSUME NEW trace \in tracesPartenaires, trace[1] = "delete"
                 PROVE  registres'[trace[2]][trace[3]] = Neant
      BY DEF TraceSuppression
    <2> QED BY <1>1 DEF TraceSuppression, TracesTypees
  <1> QED BY <1>4, <1>5, <1>7, <1>8, <1>9, <1>10

\* updateClient.
LEMMA ModifierConserve ==
    ASSUME IInvPartenaires, NEW r \in Requetes, Modifier(r)
    PROVE  IInvPartenaires'
  <1>1. PICK p, t, id, x, q :
          /\ p = reqPartenaires[r] /\ t = p.table /\ id = p.id
          /\ x = NomDemande(p) /\ q = [p EXCEPT !.pc = "relire"]
    OBVIOUS
  <1>2. /\ p \in Contextes /\ SuiviOK(p) /\ p.pc = "modifier"
        /\ t \in Tables /\ id \in Ids /\ p.lignes \in Corps /\ p.op = "update"
        /\ UNCHANGED <<prochains, recuesPartenaires, tracesPartenaires,
                       insertions, imports>>
        /\ recuesPartenaires' \in 0..MaxRequetes
    BY <1>1 DEF IInvPartenaires, TypesPartenaires, Suivis, SuiviOK, Contextes,
                Modifier
  <1>3. q \in Contextes /\ SuiviOK(q)
    BY <1>1, <1>2 DEF Contextes, SuiviOK, Faites
  <1>4. CASE Terminer(r) /\ UNCHANGED <<registres, liberes>>
    BY <1>2, <1>4, FinIInv
  <1>5. CASE Continuer(r, "relire") /\ UNCHANGED <<registres, liberes>>
    BY <1>1, <1>2, <1>3, <1>5, SlotSeul DEF Continuer, Aller
  <1>6. CASE /\ Continuer(r, "relire") /\ registres[t][id] # Neant
             /\ p.lignes # <<>>
             /\ registres' = [registres EXCEPT ![t][id] = x]
             /\ liberes' = [liberes EXCEPT ![t] =
                              @ \cup ({registres[t][id]} \ {x})]
    <2>1. PICK ancien : ancien = registres[t][id]
      OBVIOUS
    <2>2. ancien \in Noms
      BY <1>2, <1>6, <2>1 DEF IInvPartenaires, TypesPartenaires
    <2>3. x \in Noms
      <3>1. CASE p.lignes = <<Neant>>
        BY <1>1, <2>1, <2>2, <3>1 DEF NomDemande
      <3>2. CASE \E nom \in Noms : p.lignes = <<nom>>
        <4>1. PICK nom \in Noms : p.lignes = <<nom>>
          BY <3>2
        <4>2. p.lignes[1] = nom /\ nom # Neant /\ p.lignes # <<Neant>>
          BY <4>1, NombresP
        <4> QED BY <1>1, <4>2 DEF NomDemande
      <3> QED BY <1>2, <1>6, <3>1, <3>2 DEF Corps
    <2>4. {ancien} \ {x} \in SUBSET Noms /\ ancien \in ({ancien} \ {x}) \cup {x, Neant}
      BY <2>2
    <2>5. reqPartenaires' = [reqPartenaires EXCEPT ![r] = q]
      BY <1>1, <1>6 DEF Continuer, Aller
    <2>6. Evolue => SuiviOK(q)'
      BY <1>3, SuiviStable DEF IInvPartenaires
    <2>7. PICK L : L = {ancien} \ {x}
      OBVIOUS
    <2>8. liberes' = [liberes EXCEPT ![t] = @ \cup L]
      BY <1>6, <2>1, <2>7
    <2>9. L \in SUBSET Noms /\ registres[t][id] \in L \cup {x, Neant}
      BY <2>1, <2>4, <2>7
    <2>10. x \in Noms \cup {Neant}
      BY <2>3
    <2> QED BY <1>2, <1>3, <1>6, <2>5, <2>6, <2>8, <2>9, <2>10, RangeeConserve
  <1> QED BY <1>1, <1>2, <1>4, <1>5, <1>6 DEF Modifier, Modifiable

\* deleteClient.
LEMMA SupprimerConserve ==
    ASSUME IInvPartenaires, NEW r \in Requetes, Supprimer(r)
    PROVE  IInvPartenaires'
  <1>1. PICK p, t, id, ancien, q, L :
          /\ p = reqPartenaires[r] /\ t = p.table /\ id = p.id
          /\ ancien = registres[t][id] /\ q = [p EXCEPT !.pc = "tracer"]
          /\ L = {ancien} \ {Neant}
    OBVIOUS
  <1>2. /\ p \in Contextes /\ SuiviOK(p) /\ p.pc = "supprimer"
        /\ t \in Tables /\ id \in Ids /\ id < prochains[t] /\ p.op = "delete"
        /\ UNCHANGED <<prochains, recuesPartenaires, tracesPartenaires,
                       insertions, imports>>
    BY <1>1 DEF IInvPartenaires, TypesPartenaires, Suivis, SuiviOK, Contextes,
                Supprimer
  <1>3. q \in Contextes /\ reqPartenaires' = [reqPartenaires EXCEPT ![r] = q]
    BY <1>1, <1>2 DEF Contextes, Supprimer, Continuer, Aller
  <1>4. /\ registres' = [registres EXCEPT ![t][id] = Neant]
        /\ liberes' = [liberes EXCEPT ![t] = @ \cup L]
    BY <1>1 DEF Supprimer
  <1>5. L \in SUBSET Noms /\ ancien \in L \cup {Neant}
    BY <1>1, <1>2 DEF IInvPartenaires, TypesPartenaires
  <1>6. SuiviOK(q)'
    <2>1. registres'[t][id] = Neant /\ id < prochains'[t]
      BY <1>2, <1>4 DEF IInvPartenaires, TypesPartenaires
    <2> QED BY <1>1, <1>2, <2>1 DEF SuiviOK, Contextes
  <1>7. Neant \in Noms \cup {Neant} /\ registres[t][id] \in L \cup {Neant, Neant}
    BY <1>1, <1>5
  <1> QED BY <1>2, <1>3, <1>4, <1>5, <1>6, <1>7, RangeeConserve

\* A reading by id.
LEMMA ChercherConserve ==
    ASSUME IInvPartenaires, NEW r \in Requetes, Chercher(r)
    PROVE  IInvPartenaires'
  <1>1. PICK p : p = reqPartenaires[r]
    OBVIOUS
  <1>2. /\ p \in Contextes /\ SuiviOK(p) /\ p.pc \in {"relire", "trouver"}
        /\ p.table \in Tables /\ p.id \in Ids
        /\ UNCHANGED <<registres, prochains, recuesPartenaires,
                       tracesPartenaires, insertions, imports, liberes>>
        /\ recuesPartenaires' \in 0..MaxRequetes
    BY <1>1 DEF IInvPartenaires, TypesPartenaires, Suivis, SuiviOK, Contextes,
                Chercher
  <1>3. CASE Terminer(r)
    BY <1>2, <1>3, FinIInv
  <1>4. CASE /\ registres[p.table][p.id] # Neant
             /\ Continuer(r, IF p.pc = "relire" THEN "tracer" ELSE "supprimer")
    <2>1. PICK q : q = [p EXCEPT !.pc = IF p.pc = "relire" THEN "tracer"
                                                          ELSE "supprimer"]
      OBVIOUS
    <2>2. p.id < prochains[p.table]
      BY <1>2, <1>4 DEF IInvPartenaires, Numerotes
    <2>3. q \in Contextes /\ SuiviOK(q)
      BY <1>2, <2>1, <2>2 DEF Contextes, SuiviOK, Faites
    <2>4. reqPartenaires' = [reqPartenaires EXCEPT ![r] = q]
      BY <1>1, <1>4, <2>1 DEF Continuer, Aller
    <2> QED BY <1>2, <2>3, <2>4, SlotSeul
  <1> QED BY <1>1, <1>3, <1>4 DEF Chercher

\* An audit entry is written, and the request goes on or ends.
LEMMA TraceConserve ==
    ASSUME IInvPartenaires, NEW r \in Requetes, NEW q \in Contextes, SuiviOK(q),
           reqPartenaires' = [reqPartenaires EXCEPT ![r] = q],
           NEW op, NEW t, NEW x,
           tracesPartenaires' = tracesPartenaires \cup {<<op, t, x>>},
           op \in {"create", "delete"} =>
             t \in Tables /\ x \in Nat /\ x < prochains[t],
           op = "delete" => x \in Ids /\ registres[t][x] = Neant,
           UNCHANGED <<registres, prochains, recuesPartenaires, insertions,
                       liberes>>,
           NEW nouveau \in SUBSET (Tables \X Fichiers \X (1..MaxRequetes)),
           imports' = imports \cup nouveau,
           \A i \in nouveau : \A k \in DOMAIN i[2] :
             <<i[1], i[2][k], i[3]>> \in insertions
    PROVE  IInvPartenaires'
  <1> USE DEF IInvPartenaires
  <1>1. Evolue
    BY NombresP DEF Evolue, TypesPartenaires
  <1>2. SuiviOK(q)'
    BY <1>1, SuiviStable
  <1>3. TypesPartenaires' /\ Suivis'
    BY <1>1, <1>2, SlotConserve DEF TypesPartenaires
  <1>4. TracesTypees'
    BY DEF TracesTypees
  <1>5. TraceSuppression'
    BY DEF TraceSuppression
  <1>6. ImportsFaits'
    BY DEF ImportsFaits
  <1> QED BY <1>3, <1>4, <1>5, <1>6 DEF Numerotes, Retrouves, Uniques, Porte

\* createClient: its audit entry.
LEMMA TracerCreationConserve ==
    ASSUME IInvPartenaires, NEW r \in Requetes, TracerCreation(r)
    PROVE  IInvPartenaires'
  <1>1. PICK p, t, id : p = reqPartenaires[r] /\ t = p.table /\ id = p.id
    OBVIOUS
  <1>2. /\ p \in Contextes /\ SuiviOK(p) /\ p.pc = "tracer_creation"
        /\ t \in Tables /\ id \in Nat /\ id < prochains[t]
        /\ p.op \in {"create", "import"} /\ p.count < Len(p.lignes)
        /\ p.count \in Nat /\ Len(p.lignes) \in Nat
        /\ UNCHANGED <<registres, prochains, recuesPartenaires, insertions,
                       imports, liberes>>
        /\ tracesPartenaires' = tracesPartenaires \cup {<<"create", t, id>>}
    BY <1>1 DEF IInvPartenaires, TypesPartenaires, Suivis, SuiviOK, Contextes,
                TracerCreation
  <1>3. PICK q : q = IF p.op = "import"
                       THEN [p EXCEPT !.count = @ + 1,
                                      !.pc = Suite(p.lignes, p.count + 1)]
                       ELSE ReposPartenaires
    OBVIOUS
  <1>4. reqPartenaires' = [reqPartenaires EXCEPT ![r] = q]
    BY <1>1, <1>3 DEF TracerCreation, Terminer
  <1>5. q \in Contextes /\ SuiviOK(q)
    <2>1. CASE p.op # "import"
      BY <1>3, <2>1, ReposOK
    <2>2. CASE p.op = "import"
      <3>1. /\ q = [p EXCEPT !.count = @ + 1,
                             !.pc = Suite(p.lignes, p.count + 1)]
            /\ \/ Suite(p.lignes, p.count + 1) = "enregistrer"
                  /\ p.count + 1 < Len(p.lignes)
               \/ Suite(p.lignes, p.count + 1) = "cloturer"
                  /\ p.count + 1 = Len(p.lignes)
        BY <1>2, <1>3, <2>2 DEF Suite
      <3>2. q \in Contextes
        <4>1. PICK suite, count :
                suite = Suite(p.lignes, p.count + 1) /\ count = p.count + 1
          OBVIOUS
        <4>2. suite \in {"enregistrer", "cloturer"} /\ count \in Nat
          BY <1>2, <3>1, <4>1
        <4>3. q = [p EXCEPT !.count = count, !.pc = suite]
          BY <3>1, <4>1
        <4> QED BY <1>2, <4>2, <4>3 DEF Contextes
      <3>3. /\ p.lignes \in Fichiers
            /\ \A k \in 1..(p.count + 1) :
                 <<p.table, p.lignes[k], p.n>> \in insertions
        BY <1>2, <2>2 DEF SuiviOK, Faites
      <3>4. /\ q.count = p.count + 1 /\ q.op = "import" /\ q.n = p.n
            /\ q.table = p.table /\ q.lignes = p.lignes
            /\ \/ q.pc = "enregistrer" /\ q.count < Len(q.lignes)
               \/ q.pc = "cloturer" /\ q.count = Len(q.lignes)
        BY <1>2, <2>2, <3>1 DEF Contextes
      <3>5. p.n \in 1..MaxRequetes
        BY <1>2 DEF SuiviOK
      <3> QED BY <3>2, <3>3, <3>4, <3>5 DEF SuiviOK, Faites
    <2> QED BY <2>1, <2>2
  <1>6. PICK nouveau : nouveau = {}
    OBVIOUS
  <1>7. /\ imports' = imports \cup nouveau
        /\ nouveau \in SUBSET (Tables \X Fichiers \X (1..MaxRequetes))
        /\ \A i \in nouveau : \A k \in DOMAIN i[2] :
             <<i[1], i[2][k], i[3]>> \in insertions
    BY <1>2, <1>6
  <1> QED BY <1>2, <1>4, <1>5, <1>7, TraceConserve

\* The end of an import.
LEMMA CloturerConserve ==
    ASSUME IInvPartenaires, NEW r \in Requetes, Cloturer(r)
    PROVE  IInvPartenaires'
  <1>1. PICK p, t, q : /\ p = reqPartenaires[r] /\ t = p.table
                       /\ q = ReposPartenaires
    OBVIOUS
  <1>2. /\ p \in Contextes /\ SuiviOK(p) /\ p.pc = "cloturer"
        /\ t \in Tables /\ p.op = "import" /\ p.count = Len(p.lignes)
        /\ p.n \in 1..MaxRequetes /\ p.lignes \in Fichiers
        /\ \A k \in 1..p.count : <<t, p.lignes[k], p.n>> \in insertions
        /\ UNCHANGED <<registres, prochains, recuesPartenaires, insertions,
                       liberes>>
        /\ tracesPartenaires' =
             tracesPartenaires \cup {<<"import", t, p.count>>}
        /\ imports' = imports \cup {<<t, p.lignes, p.n>>}
        /\ reqPartenaires' = [reqPartenaires EXCEPT ![r] = q]
    BY <1>1 DEF IInvPartenaires, TypesPartenaires, Suivis, SuiviOK, Contextes,
                Cloturer, Tracer, Terminer, Faites
  <1>3. DOMAIN p.lignes = 1..p.count
    BY <1>2, NombresP DEF Contextes
  <1>4. PICK nouveau : nouveau = {<<t, p.lignes, p.n>>}
    OBVIOUS
  <1>5. /\ nouveau \in SUBSET (Tables \X Fichiers \X (1..MaxRequetes))
        /\ imports' = imports \cup nouveau
        /\ \A i \in nouveau : \A k \in DOMAIN i[2] :
             <<i[1], i[2][k], i[3]>> \in insertions
    BY <1>2, <1>3, <1>4
  <1>6. q \in Contextes /\ SuiviOK(q)
    BY <1>1, ReposOK
  <1> QED BY <1>2, <1>5, <1>6, TraceConserve

\* The audit entry of an update, a deletion or an export.
LEMMA TracerFinConserve ==
    ASSUME IInvPartenaires, NEW r \in Requetes, TracerFin(r)
    PROVE  IInvPartenaires'
  <1>1. PICK p, op, t, id, q :
          /\ p = reqPartenaires[r] /\ op = p.op /\ t = p.table /\ id = p.id
          /\ q = ReposPartenaires
    OBVIOUS
  <1>2. /\ p \in Contextes /\ SuiviOK(p) /\ p.pc = "tracer"
        /\ UNCHANGED <<registres, prochains, recuesPartenaires, insertions,
                       imports, liberes>>
        /\ tracesPartenaires' = tracesPartenaires \cup {<<op, t, id>>}
        /\ reqPartenaires' = [reqPartenaires EXCEPT ![r] = q]
    BY <1>1 DEF IInvPartenaires, TypesPartenaires, Suivis, TracerFin, Tracer,
                Terminer
  <1>3. /\ op # "create" /\ t \in Tables /\ id \in Nat
        /\ op = "delete" => /\ id \in Ids /\ id < prochains[t]
                            /\ registres[t][id] = Neant
    BY <1>1, <1>2 DEF SuiviOK, Contextes
  <1>4. PICK nouveau : nouveau = {}
    OBVIOUS
  <1>5. /\ imports' = imports \cup nouveau
        /\ nouveau \in SUBSET (Tables \X Fichiers \X (1..MaxRequetes))
        /\ \A i \in nouveau : \A k \in DOMAIN i[2] :
             <<i[1], i[2][k], i[3]>> \in insertions
    BY <1>2, <1>4
  <1>6. q \in Contextes /\ SuiviOK(q)
    BY <1>1, ReposOK
  <1> QED BY <1>2, <1>3, <1>5, <1>6, TraceConserve

\* Every step preserves the invariant.
LEMMA NextIInvPartenaires ==
    IInvPartenaires /\ [NextPartenaires]_varsPartenaires => IInvPartenaires'
  <1> SUFFICES ASSUME IInvPartenaires, [NextPartenaires]_varsPartenaires
               PROVE  IInvPartenaires'
    OBVIOUS
  <1>1. ASSUME NEW r \in Requetes, RecevoirPartenaires(r)
        PROVE  IInvPartenaires'
    BY <1>1, RecevoirConserve
  <1>2. ASSUME NEW r \in Requetes, EchouerPartenaires(r)
        PROVE  IInvPartenaires'
    <2>1. recuesPartenaires' \in 0..MaxRequetes
      BY <1>2 DEF EchouerPartenaires, IInvPartenaires, TypesPartenaires
    <2> QED BY <1>2, <2>1, FinIInv DEF EchouerPartenaires
  <1>3. ASSUME NEW r \in Requetes, AvancerPartenaires(r)
        PROVE  IInvPartenaires'
    BY <1>3, EnregistrerConserve, TracerCreationConserve, CloturerConserve,
       ModifierConserve, ChercherConserve, SupprimerConserve, TracerFinConserve
       DEF AvancerPartenaires
  <1>4. CASE UNCHANGED varsPartenaires
    BY <1>4 DEF varsPartenaires, IInvPartenaires, TypesPartenaires, Suivis,
                SuiviOK, Faites, Numerotes, Retrouves, Porte, Uniques,
                ImportsFaits, TracesTypees, TraceSuppression
  <1> QED BY <1>1, <1>2, <1>3, <1>4
          DEF NextPartenaires, AvancerClients, AvancerFournisseurs

\* The invariant holds in every reachable state.
LEMMA IInvPartenairesToujours == SpecPartenaires => []IInvPartenaires
  BY InitIInvPartenaires, NextIInvPartenaires, PTL DEF SpecPartenaires

\* A partner whose deletion is logged never comes back, for any number of updates
\* and imports in progress at that time.
THEOREM SuppressionsDefinitives == SpecPartenaires => []TraceSuppression
  <1>1. IInvPartenaires => TraceSuppression
    BY DEF IInvPartenaires
  <1> QED BY <1>1, IInvPartenairesToujours, PTL

\* An import that is answered inserted every row of its file itself, and nobody
\* else inserted one of its names unless that name was given up: for any files.
THEOREM ImportsSeuls == SpecPartenaires => []ImportSeul
  <1>1. IInvPartenaires => ImportSeul
    <2> SUFFICES ASSUME IInvPartenaires, NEW i \in imports,
                        NEW k \in DOMAIN i[2]
                 PROVE  /\ <<i[1], i[2][k], i[3]>> \in insertions
                        /\ \A x \in insertions :
                             x[1] = i[1] /\ x[2] = i[2][k] /\ x[3] # i[3] =>
                               x[2] \in liberes[i[1]]
      BY DEF ImportSeul
    <2>1. <<i[1], i[2][k], i[3]>> \in insertions
      BY DEF IInvPartenaires, ImportsFaits
    <2> QED BY <2>1 DEF IInvPartenaires, Uniques
  <1> QED BY <1>1, IInvPartenairesToujours, PTL
-----------------------------------------------------------------------------
\* What a request in progress knows of the table.
Fondee(q) ==
    /\ q.op = "put" => q.corps \in Payloads
    /\ q.pc \in {"ecrire", "tracer"} =>
         q.op = "put" /\ q.id \in DOMAIN reglages
    /\ q.op = "relire" => q.pc = "chercher" /\ reglages # <<>>

SuiteFondee == \A r \in Requetes : Fondee(reqReglages[r])

Place == Len(reglages) + Cardinality(EnCreation) <= Cardinality(Requetes)

Vierge == reglages = <<>> => dernier = ParDefaut

IInvReglages ==
    TypesReglages /\ SuiteFondee /\ Place /\ Vierge /\ ReglageConserve

\* The columns after an update are columns with values.
LEMMA LigneEcriteType ==
    ASSUME NEW ligne \in Lignes, NEW corps \in Payloads
    PROVE  LigneEcrite(ligne, corps) \in Lignes
  <1>1. PICK S \in SUBSET Colonnes : corps \in [S -> Valeurs]
    BY DEF Payloads
  <1>2. DOMAIN corps = S /\ \A c \in S : corps[c] \in Valeurs
    BY <1>1
  <1> QED BY <1>2 DEF LigneEcrite, Lignes

\* Requests about to create a row: finitely many, and no more than the slots.
LEMMA EnCreationFini ==
    /\ IsFiniteSet(EnCreation)
    /\ Cardinality(EnCreation) \in Nat
    /\ Cardinality(Requetes) \in Nat
    /\ Cardinality(EnCreation) <= Cardinality(Requetes)
  BY RequetesFinies, FS_Subset, FS_CardinalityType DEF EnCreation

\* A step that takes no request into a creation leaves no more of them.
LEMMA EnCreationDecroit ==
    ASSUME EnCreation' \subseteq EnCreation
    PROVE  /\ Cardinality(EnCreation') \in Nat
           /\ Cardinality(EnCreation') <= Cardinality(EnCreation)
  BY EnCreationFini, FS_Subset, FS_CardinalityType

\* The invariant holds initially.
LEMMA InitIInvReglages == InitReglages => IInvReglages
  <1> SUFFICES ASSUME InitReglages PROVE IInvReglages
    OBVIOUS
  <1> USE DEF InitReglages
  <1>1. ParDefaut \in Lignes
    BY DEF ParDefaut, Lignes
  <1>2. TypesReglages
    BY <1>1, MaxRequetesNaturel
       DEF TypesReglages, ContextesReglages, ReposReglages
  <1>3. Place
    BY EnCreationFini DEF Place
  <1> QED BY <1>2, <1>3
          DEF IInvReglages, SuiteFondee, Fondee, Vierge, ReglageConserve, ReposReglages

\* A slot takes a context that is founded on the table as it will be.
LEMMA SlotReglagesConserve ==
    ASSUME TypesReglages, SuiteFondee, NEW r \in Requetes,
           NEW q \in ContextesReglages, Fondee(q)',
           reqReglages' = [reqReglages EXCEPT ![r] = q],
           reglages' \in Seq(Lignes), DOMAIN reglages \subseteq DOMAIN reglages',
           reglages # <<>> => reglages' # <<>>,
           recuesReglages' \in 0..MaxRequetes, dernier' \in Lignes
    PROVE  /\ TypesReglages' /\ SuiteFondee'
           /\ q.pc # "creer" => EnCreation' = EnCreation \ {r}
  <1>1. /\ reqReglages' \in [Requetes -> ContextesReglages]
        /\ reqReglages'[r] = q
        /\ \A s \in Requetes \ {r} : reqReglages'[s] = reqReglages[s]
    BY DEF TypesReglages
  <1>2. TypesReglages'
    BY <1>1 DEF TypesReglages
  <1>3. SuiteFondee'
    <2> SUFFICES ASSUME NEW s \in Requetes PROVE Fondee(reqReglages[s])'
      BY DEF SuiteFondee
    <2>1. CASE s = r
      BY <1>1, <2>1 DEF Fondee
    <2>2. CASE s # r
      BY <1>1, <2>2 DEF Fondee, SuiteFondee
    <2> QED BY <2>1, <2>2
  <1>4. q.pc # "creer" => EnCreation' = EnCreation \ {r}
    BY <1>1 DEF EnCreation
  <1> QED BY <1>2, <1>3, <1>4

\* When the slot turns to something else than a creation and no row appears, the
\* bound stays.
LEMMA SlotIInv ==
    ASSUME IInvReglages, NEW r \in Requetes,
           NEW q \in ContextesReglages, Fondee(q)', q.pc # "creer",
           reqReglages' = [reqReglages EXCEPT ![r] = q],
           UNCHANGED <<reglages, dernier>>,
           recuesReglages' \in 0..MaxRequetes
    PROVE  IInvReglages'
  <1>1. TypesReglages' /\ SuiteFondee' /\ EnCreation' \subseteq EnCreation
    BY SlotReglagesConserve DEF IInvReglages, TypesReglages
  <1>2. Place'
    BY <1>1, EnCreationDecroit, EnCreationFini
       DEF Place, IInvReglages, TypesReglages
  <1> QED BY <1>1, <1>2 DEF IInvReglages, Vierge, ReglageConserve

\* What follows ensureSettings.
LEMMA AssureType ==
    ASSUME NEW q \in ContextesReglages, q.op = "put" => q.corps \in Payloads,
           NEW id \in Nat
    PROVE  /\ Assure(q, id) \in ContextesReglages
           /\ Assure(q, id).pc # "creer"
           /\ Assure(q, id).op # "relire"
           /\ Assure(q, id).op = "put" => Assure(q, id).corps \in Payloads
           /\ Assure(q, id).pc \in {"ecrire", "tracer"} =>
                /\ Assure(q, id).op = "put"
                /\ Assure(q, id).id = id
  BY DEF ContextesReglages, Assure, ReposReglages

\* A request is received.
LEMMA RecevoirReglagesConserve ==
    ASSUME IInvReglages, NEW r \in Requetes, RecevoirReglages(r)
    PROVE  IInvReglages'
  <1>1. PICK q \in DemandesReglages :
          reqReglages' = [reqReglages EXCEPT ![r] = q]
    BY DEF RecevoirReglages
  <1>2. q \in ContextesReglages /\ Fondee(q)' /\ q.pc # "creer"
    BY DEF DemandesReglages, ContextesReglages, Fondee
  <1>3. /\ UNCHANGED <<reglages, dernier>>
        /\ recuesReglages' \in 0..MaxRequetes
    BY MaxRequetesNaturel DEF RecevoirReglages, IInvReglages, TypesReglages
  <1> QED BY <1>1, <1>2, <1>3, SlotIInv

\* findOne.
LEMMA ChercherReglageConserve ==
    ASSUME IInvReglages, NEW r \in Requetes, ChercherReglage(r)
    PROVE  IInvReglages'
  <1>1. PICK q : q = reqReglages[r]
    OBVIOUS
  <1>2. q \in ContextesReglages /\ Fondee(q) /\ q.pc = "chercher"
    BY <1>1 DEF IInvReglages, TypesReglages, SuiteFondee, ChercherReglage
  <1>3. UNCHANGED <<reglages, recuesReglages, dernier>>
    BY DEF ChercherReglage
  <1>4. CASE reglages = <<>> /\ reqReglages' = Aller(reqReglages, r, "creer")
    <2>1. PICK suite : suite = [q EXCEPT !.pc = "creer"]
      OBVIOUS
    <2>2. reqReglages' = [reqReglages EXCEPT ![r] = suite]
      BY <1>1, <1>4, <2>1 DEF Aller
    <2>3. suite \in ContextesReglages
      BY <1>2, <2>1 DEF ContextesReglages
    <2>4. Fondee(suite)'
      BY <1>2, <1>3, <1>4, <2>1 DEF Fondee, ContextesReglages
    <2>5. TypesReglages' /\ SuiteFondee'
      BY <1>3, <2>2, <2>3, <2>4, SlotReglagesConserve DEF IInvReglages, TypesReglages
    <2>6. /\ Cardinality(EnCreation') \in Nat
          /\ Cardinality(EnCreation') <= Cardinality(Requetes)
      BY RequetesFinies, FS_Subset, FS_CardinalityType DEF EnCreation
    <2>7. Len(reglages') = 0
      BY <1>3, <1>4
    <2>8. Place'
      BY <2>6, <2>7, EnCreationFini DEF Place
    <2> QED BY <1>3, <2>5, <2>8 DEF IInvReglages, Vierge, ReglageConserve
  <1>5. CASE \E id \in DOMAIN reglages :
               reqReglages' = [reqReglages EXCEPT ![r] = Assure(q, id)]
    <2>1. PICK id \in DOMAIN reglages :
            reqReglages' = [reqReglages EXCEPT ![r] = Assure(q, id)]
      BY <1>5
    <2>2. id \in Nat
      BY <2>1 DEF IInvReglages, TypesReglages
    <2>3. PICK suite : suite = Assure(q, id)
      OBVIOUS
    <2>4. /\ suite \in ContextesReglages /\ suite.pc # "creer"
          /\ Fondee(suite)'
      BY <1>2, <1>3, <2>1, <2>2, <2>3, AssureType DEF Fondee
    <2> QED BY <1>3, <2>1, <2>3, <2>4, SlotIInv DEF IInvReglages, TypesReglages
  <1> QED BY <1>1, <1>4, <1>5 DEF ChercherReglage

\* The creation of a row.
LEMMA CreerConserve ==
    ASSUME IInvReglages, NEW r \in Requetes, CreerReglage(r)
    PROVE  IInvReglages'
  <1>1. PICK q, id : q = reqReglages[r] /\ id = Len(reglages) + 1
    OBVIOUS
  <1>2. /\ q \in ContextesReglages /\ Fondee(q) /\ q.pc = "creer"
        /\ r \in EnCreation
    BY <1>1
       DEF IInvReglages, TypesReglages, SuiteFondee, CreerReglage, EnCreation
  <1>3. /\ ParDefaut \in Lignes
        /\ UNCHANGED <<recuesReglages, dernier>>
        /\ reglages' = Append(reglages, ParDefaut)
        /\ reqReglages' = [reqReglages EXCEPT ![r] = Assure(q, id)]
    BY <1>1 DEF ParDefaut, Lignes, CreerReglage
  <1>4. /\ reglages' \in Seq(Lignes) /\ Len(reglages') = Len(reglages) + 1
        /\ DOMAIN reglages' = DOMAIN reglages \cup {id}
        /\ id \in Nat /\ Len(reglages) \in Nat /\ reglages' # <<>>
        /\ \A i \in DOMAIN reglages : reglages'[i] = reglages[i]
        /\ reglages'[id] = ParDefaut
    BY <1>1, <1>3, AppendProperties DEF IInvReglages, TypesReglages
  <1>5. PICK suite : suite = Assure(q, id)
    OBVIOUS
  <1>6. /\ suite \in ContextesReglages /\ suite.pc # "creer"
        /\ Fondee(suite)'
    BY <1>2, <1>4, <1>5, AssureType DEF Fondee
  <1>7. TypesReglages' /\ SuiteFondee' /\ EnCreation' = EnCreation \ {r}
    BY <1>3, <1>4, <1>5, <1>6, SlotReglagesConserve DEF IInvReglages, TypesReglages
  <1>8. Cardinality(EnCreation') = Cardinality(EnCreation) - 1
    BY <1>2, <1>7, EnCreationFini, FS_RemoveElement
  <1>9. Place'
    BY <1>4, <1>8, EnCreationFini DEF IInvReglages, Place
  <1>10. ReglageConserve'
    <2>1. CASE reglages = <<>>
      <3>1. dernier' = ParDefaut
        BY <1>3, <2>1 DEF IInvReglages, Vierge
      <3> QED BY <1>4, <3>1 DEF ReglageConserve
    <2>2. CASE reglages # <<>>
      BY <1>3, <1>4, <2>2 DEF IInvReglages, ReglageConserve
    <2> QED BY <2>1, <2>2
  <1> QED BY <1>4, <1>7, <1>9, <1>10 DEF IInvReglages, Vierge

\* The update of a row: the other columns keep the row that has their value.
LEMMA EcrireConserve ==
    ASSUME IInvReglages, NEW r \in Requetes, EcrireReglage(r)
    PROVE  IInvReglages'
  <1>1. PICK q : q = reqReglages[r]
    OBVIOUS
  <1>2. /\ q \in ContextesReglages /\ Fondee(q)
        /\ q.op = "put" /\ q.id \in DOMAIN reglages /\ q.corps \in Payloads
        /\ UNCHANGED recuesReglages
    BY <1>1
       DEF IInvReglages, TypesReglages, SuiteFondee, Fondee, EcrireReglage
  <1>3. CASE /\ reqReglages' = [reqReglages EXCEPT ![r] = ReposReglages]
             /\ UNCHANGED <<reglages, dernier>>
    <2>1. PICK suite : suite = ReposReglages
      OBVIOUS
    <2>2. suite \in ContextesReglages /\ Fondee(suite)' /\ suite.pc # "creer"
      BY <2>1 DEF ReposReglages, ContextesReglages, Fondee
    <2> QED BY <1>2, <1>3, <2>1, <2>2, SlotIInv DEF IInvReglages, TypesReglages
  <1>4. CASE /\ reglages' = [reglages EXCEPT ![q.id] = LigneEcrite(@, q.corps)]
             /\ dernier' = LigneEcrite(dernier, q.corps)
             /\ reqReglages' = Aller(reqReglages, r, "tracer")
    <2>1. PICK suite : suite = [q EXCEPT !.pc = "tracer"]
      OBVIOUS
    <2>2. /\ reglages[q.id] \in Lignes
          /\ LigneEcrite(reglages[q.id], q.corps) \in Lignes
          /\ dernier' \in Lignes
      BY <1>2, <1>4, LigneEcriteType, ElementOfSeq
         DEF IInvReglages, TypesReglages
    <2>3. /\ reglages' \in Seq(Lignes) /\ Len(reglages') = Len(reglages)
          /\ DOMAIN reglages' = DOMAIN reglages /\ reglages' # <<>>
          /\ reglages'[q.id] = LigneEcrite(reglages[q.id], q.corps)
          /\ \A i \in DOMAIN reglages \ {q.id} : reglages'[i] = reglages[i]
      BY <1>2, <1>4, <2>2, ExceptSeq DEF IInvReglages, TypesReglages
    <2>4. /\ suite \in ContextesReglages /\ Fondee(suite)'
          /\ suite.pc # "creer"
      BY <1>2, <2>1, <2>3 DEF ContextesReglages, Fondee
    <2>5. reqReglages' = [reqReglages EXCEPT ![r] = suite]
      BY <1>1, <1>4, <2>1 DEF Aller
    <2>6. TypesReglages' /\ SuiteFondee' /\ EnCreation' \subseteq EnCreation
      BY <1>2, <2>2, <2>3, <2>4, <2>5, SlotReglagesConserve
         DEF IInvReglages, TypesReglages
    <2>7. Place'
      BY <2>3, <2>6, EnCreationDecroit, EnCreationFini
         DEF Place, IInvReglages, TypesReglages
    <2>8. ReglageConserve'
      <3> SUFFICES ASSUME NEW c \in Colonnes
                   PROVE  \E i \in DOMAIN reglages' : reglages'[i][c] = dernier'[c]
        BY DEF ReglageConserve
      <3>1. CASE c \in DOMAIN q.corps
        <4>1. reglages'[q.id][c] = q.corps[c] /\ dernier'[c] = q.corps[c]
          BY <1>4, <2>3, <3>1 DEF LigneEcrite
        <4> QED BY <1>2, <2>3, <4>1
      <3>2. CASE c \notin DOMAIN q.corps
        <4>1. PICK i \in DOMAIN reglages : reglages[i][c] = dernier[c]
          BY <1>2 DEF IInvReglages, ReglageConserve
        <4>2. reglages'[i][c] = reglages[i][c] /\ dernier'[c] = dernier[c]
          BY <1>4, <2>3, <3>2 DEF LigneEcrite
        <4> QED BY <2>3, <4>1, <4>2
      <3> QED BY <3>1, <3>2
    <2> QED BY <2>3, <2>6, <2>7, <2>8 DEF IInvReglages, Vierge
  <1> QED BY <1>1, <1>3, <1>4 DEF EcrireReglage

\* The audit entry of an update, then the reading of the answer.
LEMMA TracerConserve ==
    ASSUME IInvReglages, NEW r \in Requetes, TracerReglage(r)
    PROVE  IInvReglages'
  <1>1. PICK q : q = reqReglages[r]
    OBVIOUS
  <1>2. PICK suite : suite = [q EXCEPT !.pc = "chercher", !.op = "relire"]
    OBVIOUS
  <1>3. q \in ContextesReglages /\ Fondee(q) /\ q.pc = "tracer"
    BY <1>1 DEF IInvReglages, TypesReglages, SuiteFondee, TracerReglage
  <1>4. reglages # <<>>
    BY <1>3 DEF Fondee
  <1>5. /\ UNCHANGED <<reglages, recuesReglages, dernier>>
        /\ reqReglages' = [reqReglages EXCEPT ![r] = suite]
    BY <1>1, <1>2 DEF TracerReglage
  <1>6. suite \in ContextesReglages /\ Fondee(suite)' /\ suite.pc # "creer"
    BY <1>2, <1>3, <1>4, <1>5 DEF ContextesReglages, Fondee
  <1> QED BY <1>5, <1>6, SlotIInv DEF IInvReglages, TypesReglages

\* A rejected call.
LEMMA EchouerConserve ==
    ASSUME IInvReglages, NEW r \in Requetes, EchouerReglages(r)
    PROVE  IInvReglages'
  <1>1. PICK suite : suite = ReposReglages
    OBVIOUS
  <1>2. suite \in ContextesReglages /\ Fondee(suite)' /\ suite.pc # "creer"
    BY <1>1 DEF ReposReglages, ContextesReglages, Fondee
  <1>3. /\ UNCHANGED <<reglages, recuesReglages, dernier>>
        /\ reqReglages' = [reqReglages EXCEPT ![r] = suite]
    BY <1>1 DEF EchouerReglages
  <1> QED BY <1>2, <1>3, SlotIInv DEF IInvReglages, TypesReglages

\* Every step preserves the invariant.
LEMMA NextIInvReglages ==
    IInvReglages /\ [NextReglages]_varsReglages => IInvReglages'
  <1> SUFFICES ASSUME IInvReglages, [NextReglages]_varsReglages
               PROVE  IInvReglages'
    OBVIOUS
  <1>1. ASSUME NEW r \in Requetes, RecevoirReglages(r)
        PROVE  IInvReglages'
    BY <1>1, RecevoirReglagesConserve
  <1>2. ASSUME NEW r \in Requetes, AvancerReglages(r) \/ EchouerReglages(r)
        PROVE  IInvReglages'
    BY <1>2, ChercherReglageConserve, CreerConserve, EcrireConserve, TracerConserve,
       EchouerConserve DEF AvancerReglages
  <1>3. CASE UNCHANGED varsReglages
    BY <1>3 DEF varsReglages, IInvReglages, TypesReglages, SuiteFondee, Fondee,
                Place, Vierge, ReglageConserve, EnCreation
  <1> QED BY <1>1, <1>2, <1>3 DEF NextReglages

\* The invariant holds in every reachable state.
LEMMA IInvReglagesToujours == SpecReglages => []IInvReglages
  BY InitIInvReglages, NextIInvReglages, PTL DEF SpecReglages

\* SettingsService never holds more rows of settings than requests that ran at
\* the same time, however many come later, and the reading that ends an update
\* never creates one.
THEOREM ReglagesBornes == SpecReglages => []BorneReglages
  <1>1. IInvReglages => BorneReglages
    <2> SUFFICES ASSUME IInvReglages PROVE BorneReglages
      OBVIOUS
    <2>1. Len(reglages) \in Nat
      BY DEF IInvReglages, TypesReglages
    <2>2. Len(reglages) <= Cardinality(Requetes)
      BY <2>1, EnCreationFini DEF IInvReglages, Place
    <2> QED BY <2>2 DEF BorneReglages, IInvReglages, SuiteFondee, Fondee, EnCreation
  <1> QED BY <1>1, IInvReglagesToujours, PTL

\* The last value given to each setting is in the table, for any interleaving of
\* any number of reads, first creations and updates.
THEOREM ReglagesConserves == SpecReglages => []ReglageConserve
  <1>1. IInvReglages => ReglageConserve
    BY DEF IInvReglages
  <1> QED BY <1>1, IInvReglagesToujours, PTL
-----------------------------------------------------------------------------
\* Payloads the store may hold.
Deposes ==
    {[charge |-> Encrypt(e, t), par |-> e, texte |-> t] :
        e \in {f \in Environnements : Chiffrable(f)}, t \in Textes}

IInvChiffrement ==
    /\ env # Absente => env \in Environnements
    /\ coffre # Absente => coffre \in Deposes
    /\ RelectureFidele

\* The settings a payload can be read with.
Lisible(e, f) == /\ MemesReglages(e, f)
                 /\ e.keyLength = f.keyLength
                 /\ f.tagLength = TailleTag /\ e.saltLength > 0

\* Two environments derive the same key if and only if they agree on what it is
\* derived from: a configured key is never one derived from the secret.
LEMMA MemeCle ==
    ASSUME NEW e, NEW f
    PROVE  Derivee(e) = Derivee(f) <=>
             /\ \/ e.cle # Absente /\ e.cle = f.cle
                \/ /\ e.cle = Absente /\ f.cle = Absente
                   /\ e.secret = f.secret /\ e.sel = f.sel
             /\ e.iterations = f.iterations /\ e.keyLength = f.keyLength
  <1>1. EncryptionKey(e) = EncryptionKey(f) <=>
          \/ e.cle # Absente /\ e.cle = f.cle
          \/ /\ e.cle = Absente /\ f.cle = Absente
             /\ e.secret = f.secret /\ e.sel = f.sel
    <2>1. \A a, b, c : <<"configuree", a>> # <<"derivee", b, c>>
      <3>1. \A a, b, c : <<"configuree", a>>[1] # <<"derivee", b, c>>[1]
        OBVIOUS
      <3> QED BY <3>1
    <2>2. CASE e.cle # Absente
      BY <2>1, <2>2 DEF EncryptionKey
    <2>3. CASE e.cle = Absente
      BY <2>1, <2>3 DEF EncryptionKey
    <2> QED BY <2>2, <2>3
  <1>2. Derivee(e) = Derivee(f) <=> /\ EncryptionKey(e) = EncryptionKey(f)
                                    /\ e.iterations = f.iterations
                                    /\ e.keyLength = f.keyLength
    BY DEF Derivee
  <1> QED BY <1>1, <1>2

\* What decrypt returns of what encrypt wrote.
LEMMA AllerRetour ==
    ASSUME NEW e \in Environnements, NEW f \in Environnements, Chiffrable(e),
           NEW t \in Textes
    PROVE  Decrypt(f, Encrypt(e, t)) = IF Lisible(e, f) THEN t ELSE Absente
  <1>0. PICK p : p = Encrypt(e, t)
    OBVIOUS
  <1>1. /\ p.sel = e.saltLength /\ p.iv = e.ivLength /\ p.tag = TailleTag
        /\ p.algorithme = e.algorithme /\ p.cle = Derivee(e) /\ p.texte = t
    BY <1>0 DEF Encrypt
  <1>2. /\ e.ivLength > 0 /\ e.keyLength = TailleCle[e.algorithme]
    BY DEF Chiffrable
  <1>3. Lisible(e, f) <=>
          /\ p.sel > 0 /\ p.iv > 0 /\ p.tag = f.tagLength
          /\ f.keyLength = TailleCle[f.algorithme]
          /\ p.algorithme = f.algorithme /\ p.cle = Derivee(f)
    BY <1>1, <1>2, MemeCle DEF Lisible, MemesReglages
  <1>4. Decrypt(f, p) = IF Lisible(e, f) THEN t ELSE Absente
    BY <1>1, <1>3 DEF Decrypt
  <1> QED BY <1>0, <1>4

\* Every step keeps the payload one that encrypt wrote, and its reading faithful.
LEMMA NextIInvChiffrement ==
    IInvChiffrement /\ [NextChiffrement]_varsChiffrement => IInvChiffrement'
  <1> SUFFICES ASSUME IInvChiffrement, [NextChiffrement]_varsChiffrement
               PROVE  IInvChiffrement'
    OBVIOUS
  <1>1. CASE Demarrer
    BY <1>1 DEF Demarrer, IInvChiffrement, RelectureFidele
  <1>2. CASE Deposer
    <2>1. PICK t \in Textes :
            coffre' = [charge |-> Encrypt(env, t), par |-> env, texte |-> t]
      BY <1>2 DEF Deposer
    <2>2. coffre' \in Deposes
      BY <1>2, <2>1 DEF Deposer, Deposes, IInvChiffrement
    <2> QED BY <1>2, <2>2 DEF Deposer, IInvChiffrement, RelectureFidele
  <1>3. CASE Relire
    <2>1. PICK e \in Environnements, t \in Textes :
            /\ Chiffrable(e)
            /\ coffre = [charge |-> Encrypt(e, t), par |-> e, texte |-> t]
      BY <1>3 DEF Relire, IInvChiffrement, Deposes
    <2>2. PICK f \in Environnements : f = env
      BY <1>3 DEF Relire, IInvChiffrement
    <2>3. lu' = <<e, f, t, Decrypt(f, Encrypt(e, t))>>
      BY <1>3, <2>1, <2>2 DEF Relire
    <2>4. lu'[1] = e /\ lu'[2] = f /\ lu'[3] = t
          /\ lu'[4] = IF Lisible(e, f) THEN t ELSE Absente
      BY <2>1, <2>3, AllerRetour
    <2>5. RelectureFidele'
      BY <2>4 DEF RelectureFidele, Lisible
    <2> QED BY <1>3, <2>5 DEF Relire, IInvChiffrement
  <1>4. CASE UNCHANGED varsChiffrement
    BY <1>4 DEF varsChiffrement, IInvChiffrement, RelectureFidele
  <1> QED BY <1>1, <1>2, <1>3, <1>4 DEF NextChiffrement

\* For any two environments, a code written under one is read back under the
\* other exactly when they agree on the key and its derivation, and is refused
\* otherwise: never read as another code.
THEOREM RelectureToujoursFidele == SpecChiffrement => []RelectureFidele
  <1>1. InitChiffrement => IInvChiffrement
    BY DEF InitChiffrement, IInvChiffrement, RelectureFidele
  <1>2. IInvChiffrement => RelectureFidele
    BY DEF IInvChiffrement
  <1> QED BY <1>1, <1>2, NextIInvChiffrement, PTL DEF SpecChiffrement
-----------------------------------------------------------------------------
\* A request n may know role for account id.
Fonde(id, role, n) ==
    \/ role = decisions[id].role
    \/ n <= decisions[id].recues
    \/ id \in rompues

\* The request holds an entity, that it will save or sign a token for.
EnMain(q) == \/ q.pc \in {"controler", "relire", "sauver"}
             \/ q.op = "login" /\ q.pc = "tracer"

\* What a request holds agrees with the tables and the history.
SuiviCompteOK(q) ==
    /\ q.pc # "repos" => /\ q.n \in 1..recuesComptes
                         /\ \A x \in Issues : <<q.n, x>> \notin inscriptions
    /\ q.pc = "inserer" => /\ q.corps \in Rangees
                           /\ q.op \in {"register", "create"}
                           /\ q.n \notin inseres
                           /\ q.op = "register" => q.corps.motDePasse.hache
    /\ q.op = "register" => q.pc \in {"repos", "inserer", "tracer"}
    /\ q.op = "register" /\ q.pc = "tracer" => q.n \in inseres
    /\ q.op = "login" => q.pc \in {"repos", "identifier", "controler", "tracer"}
    /\ q.pc = "modifier" => q.corps \in Modifications
    /\ q.pc \in {"modifier", "supprimer", "tracer"} => q.id \in IdsComptes
    /\ q.pc \in {"identifier", "controler"} =>
         q.op \in {"verifier", "reset", "login"}
    /\ EnMain(q) => /\ q.lu \in Rangees /\ q.id \in IdsComptes
                    /\ Fonde(q.id, q.lu.role, q.n)
                    /\ ~q.lu.motDePasse.hache => q.id \in enClair

SuivisComptes == \A r \in Requetes : SuiviCompteOK(reqComptes[r])

Distincts ==
    \A r, s \in Requetes :
        r # s /\ reqComptes[r].pc # "repos" /\ reqComptes[s].pc # "repos" =>
            reqComptes[r].n # reqComptes[s].n

Datees == /\ inseres \subseteq 1..recuesComptes
          /\ inscriptions \subseteq (1..recuesComptes) \X Issues
          /\ jetons \subseteq IdsComptes \X Roles \X (1..recuesComptes)

IInvComptes ==
    /\ TypesComptes /\ SuivisComptes /\ Distincts /\ Datees
    /\ MotDePasseHache /\ DecisionRespectee /\ JetonFonde /\ ReponseInscription

\* Numbers of requests and of accounts.
LEMMA Nombres ==
    /\ MaxRequetes \in Nat /\ MaxComptes \in Nat
    /\ IdsComptes = 1..MaxComptes
    /\ Neant \notin Rangees /\ Neant \notin Roles
  BY MaxRequetesNaturel, ComptesAssumption DEF IdsComptes

\* The invariant holds initially.
LEMMA InitIInvComptes == InitComptes => IInvComptes
  <1> SUFFICES ASSUME InitComptes PROVE IInvComptes
    OBVIOUS
  <1>1. PICK rangee \in Rangees :
          /\ rangee.motDePasse = Hache(0) /\ rangee.role = "admin"
          /\ comptes = [id \in IdsComptes |-> IF id = 1 THEN rangee ELSE Neant]
          /\ decisions = [id \in IdsComptes |->
                [role |-> IF id = 1 THEN "admin" ELSE Neant, recues |-> 0]]
    BY DEF InitComptes
  <1>2. /\ recuesComptes = 0 /\ prochain = 2 /\ inseres = {} /\ inscriptions = {}
        /\ enClair = {} /\ rompues = {} /\ jetons = {}
        /\ reqComptes = [r \in Requetes |-> ReposComptes]
    BY DEF InitComptes
  <1>3. ReposComptes \in ContextesComptes
    BY Nombres DEF ReposComptes, ContextesComptes
  <1>4. decisions \in
          [IdsComptes -> [role : Roles \cup {Neant}, recues : 0..MaxRequetes]]
    BY <1>1, Nombres DEF Roles
  <1>5. TypesComptes
    BY <1>1, <1>2, <1>3, <1>4, Nombres, ComptesAssumption DEF TypesComptes
  <1>6. SuivisComptes
    BY <1>2 DEF SuivisComptes, SuiviCompteOK, ReposComptes, EnMain
  <1>7. Distincts /\ Datees /\ JetonFonde /\ ReponseInscription
    BY <1>2 DEF Distincts, Datees, JetonFonde, ReponseInscription, ReposComptes
  <1>8. MotDePasseHache /\ DecisionRespectee
    BY <1>1, Nombres DEF MotDePasseHache, DecisionRespectee, Presents, RoleDe,
                        Hache
  <1> QED BY <1>5, <1>6, <1>7, <1>8 DEF IInvComptes

\* A step of slot r leaves what the others hold founded: decisions and their
\* undoing are only added to, and answers only for its own request.
CompteEvolue(r) ==
    /\ \A id \in IdsComptes, role \in Roles, n \in 1..recuesComptes :
          Fonde(id, role, n) => Fonde(id, role, n)'
    /\ enClair \subseteq enClair' /\ recuesComptes' \in 0..MaxRequetes
    /\ recuesComptes <= recuesComptes'
    /\ inseres \subseteq inseres'
    /\ \A n \in inseres' : n \in inseres \/ n = reqComptes[r].n
    /\ inscriptions \subseteq inscriptions'
    /\ \A i \in inscriptions' : i \in inscriptions \/ i[1] = reqComptes[r].n

\* Slot r takes a context that is founded after the step; it is idle before, or
\* keeps its number, or becomes idle.
LEMMA SlotComptesConserve ==
    ASSUME TypesComptes, SuivisComptes, Distincts, NEW r \in Requetes,
           NEW q \in ContextesComptes, SuiviCompteOK(q)', CompteEvolue(r),
           reqComptes[r].pc # "repos",
           q.pc = "repos" \/ q.n = reqComptes[r].n,
           reqComptes' = [reqComptes EXCEPT ![r] = q]
    PROVE  SuivisComptes' /\ Distincts' /\ reqComptes' \in [Requetes -> ContextesComptes]
  <1>1. /\ reqComptes' \in [Requetes -> ContextesComptes]
        /\ reqComptes'[r] = q
        /\ \A s \in Requetes \ {r} : reqComptes'[s] = reqComptes[s]
    BY DEF TypesComptes
  <1>2. SuivisComptes'
    <2> SUFFICES ASSUME NEW s \in Requetes PROVE SuiviCompteOK(reqComptes[s])'
      BY DEF SuivisComptes
    <2>1. CASE s = r
      BY <1>1, <2>1 DEF SuiviCompteOK, EnMain, Fonde
    <2>2. CASE s # r
      <3>1. PICK p : p = reqComptes[s]
        OBVIOUS
      <3>2. p \in ContextesComptes /\ SuiviCompteOK(p) /\ reqComptes'[s] = p
        BY <1>1, <2>2, <3>1 DEF TypesComptes, SuivisComptes
      <3>3. p.pc # "repos" => p.n # reqComptes[r].n
        BY <2>2, <3>1 DEF Distincts
      <3>4. p.n \in Nat /\ recuesComptes \in Nat /\ recuesComptes' \in Nat
        BY <3>2, Nombres DEF ContextesComptes, TypesComptes, CompteEvolue
      <3>5. p.pc # "repos" =>
              /\ p.n \in 1..recuesComptes'
              /\ \A x \in Issues : <<p.n, x>> \notin inscriptions'
              /\ p.n \in inseres <=> p.n \in inseres'
        BY <3>2, <3>3, <3>4 DEF SuiviCompteOK, CompteEvolue
      <3>6. EnMain(p) => /\ Fonde(p.id, p.lu.role, p.n)'
                         /\ ~p.lu.motDePasse.hache => p.id \in enClair'
        <4> SUFFICES ASSUME EnMain(p)
                     PROVE  /\ Fonde(p.id, p.lu.role, p.n)'
                            /\ ~p.lu.motDePasse.hache => p.id \in enClair'
          OBVIOUS
        <4>1. /\ p.lu \in Rangees /\ p.id \in IdsComptes /\ p.n \in 1..recuesComptes
              /\ Fonde(p.id, p.lu.role, p.n)
              /\ ~p.lu.motDePasse.hache => p.id \in enClair
          BY <3>2 DEF SuiviCompteOK, EnMain
        <4>2. p.lu.role \in Roles
          BY <4>1 DEF Rangees
        <4> QED BY <4>1, <4>2 DEF CompteEvolue
      <3>7. SuiviCompteOK(p)'
        BY <3>2, <3>5, <3>6 DEF SuiviCompteOK, EnMain
      <3> QED BY <3>2, <3>7 DEF SuiviCompteOK, EnMain, Fonde
    <2> QED BY <2>1, <2>2
  <1>3. Distincts'
    BY <1>1 DEF Distincts
  <1> QED BY <1>1, <1>2, <1>3

\* A step that changes the slot alone.
LEMMA SlotComptesSeul ==
    ASSUME IInvComptes, NEW r \in Requetes,
           NEW q \in ContextesComptes, SuiviCompteOK(q),
           reqComptes[r].pc # "repos",
           q.pc = "repos" \/ q.n = reqComptes[r].n,
           reqComptes' = [reqComptes EXCEPT ![r] = q],
           UNCHANGED <<comptes, prochain, recuesComptes, inseres, inscriptions,
                       enClair, decisions, rompues, jetons>>
    PROVE  IInvComptes'
  <1> USE DEF IInvComptes
  <1>1. SuiviCompteOK(q)'
    BY DEF SuiviCompteOK, EnMain, Fonde
  <1>2. CompteEvolue(r)
    BY Nombres DEF CompteEvolue, Fonde, TypesComptes
  <1>3. SuivisComptes' /\ Distincts' /\ TypesComptes'
    BY <1>1, <1>2, SlotComptesConserve DEF TypesComptes
  <1> QED BY <1>3 DEF Datees, MotDePasseHache, DecisionRespectee, JetonFonde,
                      ReponseInscription, Presents

\* A slot becomes idle and nothing else changes.
LEMMA FinComptes ==
    ASSUME IInvComptes, NEW r \in Requetes, FinirCompte(r),
           reqComptes[r].pc # "repos",
           UNCHANGED <<comptes, prochain, recuesComptes, inseres, inscriptions,
                       enClair, decisions, rompues, jetons>>
    PROVE  IInvComptes'
  <1>1. PICK q : q = ReposComptes
    OBVIOUS
  <1>2. q \in ContextesComptes /\ SuiviCompteOK(q) /\ q.pc = "repos"
    BY <1>1, Nombres DEF ReposComptes, ContextesComptes, SuiviCompteOK, EnMain
  <1> QED BY <1>1, <1>2, SlotComptesSeul DEF FinirCompte

\* The requests that may be received.
LEMMA DemandesComptesType ==
    ASSUME IInvComptes, recuesComptes < MaxRequetes,
           NEW q \in Inscriptions \cup Identifications \cup DemandesAdmin
    PROVE  /\ q \in ContextesComptes /\ q.n = recuesComptes + 1
           /\ q.pc \in {"inserer", "identifier", "modifier", "supprimer"}
           /\ q.pc = "inserer" => /\ q.corps \in Rangees
                                  /\ q.op \in {"register", "create"}
                                  /\ q.op = "register" => q.corps.motDePasse.hache
           /\ q.op = "register" => q.pc = "inserer"
           /\ q.op = "login" => q.pc = "identifier"
           /\ q.pc = "modifier" => q.corps \in Modifications
           /\ q.pc \in {"modifier", "supprimer"} => q.id \in IdsComptes
           /\ q.pc = "identifier" => q.op \in {"verifier", "reset", "login"}
  <1>1. /\ recuesComptes \in Nat /\ recuesComptes + 1 \in 1..MaxRequetes
        /\ 0 \in 0..MaxComptes
    BY Nombres DEF IInvComptes, TypesComptes
  <1>2. CASE q \in Inscriptions \cup Creations
    <2>1. /\ Hache(recuesComptes + 1) \in Secrets
          /\ Hache(recuesComptes + 1).hache
          /\ Clair(recuesComptes + 1) \in Secrets
      BY <1>1 DEF Hache, Clair, Secrets
    <2>2. PICK op \in {"register", "create"}, e \in Emails, t \in Telephones,
               role \in Roles, secret \in Secrets :
            /\ q = DemandeCompte(op, "inserer", 0, Neant,
                                 Nouveau(e, t, secret, role))
            /\ op = "register" => secret.hache
      BY <1>2, <2>1 DEF Inscriptions, Creations
    <2>3. /\ Nouveau(e, t, secret, role) \in Rangees
          /\ Nouveau(e, t, secret, role).motDePasse = secret
      BY DEF Rangees, Nouveau
    <2> QED BY <1>1, <2>2, <2>3 DEF ContextesComptes, DemandeCompte
  <1>3. CASE q \in Identifications
    <2>1. PICK op \in {"verifier", "reset", "login"}, cle \in Cles \cup {Neant} :
            q = DemandeCompte(op, "identifier", 0, cle, Neant)
      BY <1>3 DEF Identifications, Cles
    <2> QED BY <1>1, <2>1 DEF ContextesComptes, DemandeCompte
  <1>4. CASE q \in DemandesAdmin \ Creations
    <2>1. \/ \E id \in IdsComptes, corps \in Modifications :
                q = DemandeCompte("update", "modifier", id, Neant, corps)
          \/ \E id \in IdsComptes :
                q = DemandeCompte("remove", "supprimer", id, Neant, Neant)
      BY <1>4 DEF DemandesAdmin
    <2> QED BY <1>1, <2>1, Nombres DEF ContextesComptes, DemandeCompte
  <1> QED BY <1>2, <1>3, <1>4 DEF DemandesAdmin

\* A request is received, with a number of its own.
LEMMA RecevoirCompteConserve ==
    ASSUME IInvComptes, NEW r \in Requetes, RecevoirComptes(r)
    PROVE  IInvComptes'
  <1>1. PICK q \in Inscriptions \cup Identifications \cup DemandesAdmin :
          reqComptes' = [reqComptes EXCEPT ![r] = q]
    BY DEF RecevoirComptes
  <1>2. /\ recuesComptes < MaxRequetes /\ recuesComptes' = recuesComptes + 1
        /\ UNCHANGED <<comptes, prochain, inseres, inscriptions, enClair,
                       decisions, rompues, jetons>>
        /\ recuesComptes \in Nat /\ recuesComptes' \in 0..MaxRequetes
    BY Nombres DEF RecevoirComptes, IInvComptes, TypesComptes
  <1>3. /\ q \in ContextesComptes /\ q.n = recuesComptes + 1
        /\ q.pc \in {"inserer", "identifier", "modifier", "supprimer"}
    BY <1>2, DemandesComptesType
  <1>4. /\ reqComptes' \in [Requetes -> ContextesComptes] /\ reqComptes'[r] = q
        /\ \A s \in Requetes \ {r} : reqComptes'[s] = reqComptes[s]
    BY <1>1, <1>3 DEF IInvComptes, TypesComptes
  <1>5. TypesComptes'
    BY <1>2, <1>4 DEF IInvComptes, TypesComptes
  <1>6. SuivisComptes'
    <2> SUFFICES ASSUME NEW s \in Requetes PROVE SuiviCompteOK(reqComptes[s])'
      BY DEF SuivisComptes
    <2>1. CASE s = r
      <3>1. /\ q.n \in 1..recuesComptes' /\ q.n \notin inseres
            /\ \A x \in Issues : <<q.n, x>> \notin inscriptions
        BY <1>2, <1>3 DEF IInvComptes, Datees
      <3>2. ~EnMain(q)
        BY <1>2, <1>3, DemandesComptesType DEF EnMain
      <3>3. SuiviCompteOK(q)'
        BY <1>2, <1>3, <3>1, <3>2, DemandesComptesType DEF SuiviCompteOK, EnMain
      <3> QED BY <1>4, <2>1, <3>3 DEF SuiviCompteOK, EnMain, Fonde
    <2>2. CASE s # r
      BY <1>2, <1>4, <2>2 DEF IInvComptes, SuivisComptes, SuiviCompteOK, EnMain, Fonde
    <2> QED BY <2>1, <2>2
  <1>7. Distincts'
    <2>1. \A s \in Requetes \ {r} :
            reqComptes[s].pc # "repos" => reqComptes[s].n # q.n
      BY <1>2, <1>3 DEF IInvComptes, SuivisComptes, SuiviCompteOK
    <2> QED BY <1>4, <2>1 DEF IInvComptes, Distincts
  <1>8. Datees'
    BY <1>2 DEF IInvComptes, Datees
  <1> QED BY <1>2, <1>5, <1>6, <1>7, <1>8
          DEF IInvComptes, MotDePasseHache, DecisionRespectee, JetonFonde,
              ReponseInscription, Presents

\* Reading an account, checking a code or a password, re-reading, notifying.
LEMMA LectureConserve ==
    ASSUME IInvComptes, NEW r \in Requetes,
           Identifier(r) \/ Controler(r) \/ RelireCompte(r) \/ NotifierCompte(r)
    PROVE  IInvComptes'
  <1>1. PICK p : p = reqComptes[r]
    OBVIOUS
  <1>2. /\ p \in ContextesComptes /\ SuiviCompteOK(p) /\ p.pc # "repos"
        /\ UNCHANGED <<comptes, prochain, recuesComptes, inseres, inscriptions,
                       enClair, decisions, rompues, jetons>>
    BY <1>1 DEF IInvComptes, TypesComptes, SuivisComptes, Identifier, Controler,
                RelireCompte, NotifierCompte
  <1>3. CASE FinirCompte(r)
    BY <1>1, <1>2, <1>3, FinComptes
  <1>4. CASE Identifier(r) /\ ~FinirCompte(r)
    <2>1. PICK id \in Presents :
            reqComptes' = [reqComptes EXCEPT ![r].pc = "controler",
                             ![r].id = id, ![r].lu = comptes[id]]
      BY <1>4 DEF Identifier
    <2>2. PICK q : q = [p EXCEPT !.pc = "controler", !.id = id,
                                 !.lu = comptes[id]]
      OBVIOUS
    <2>3. p.pc = "identifier"
      BY <1>1, <1>4 DEF Identifier
    <2>4. /\ id \in IdsComptes /\ id \in 0..MaxComptes /\ comptes[id] \in Rangees
          /\ comptes[id] # Neant
      BY <2>1, Nombres DEF Presents, IInvComptes, TypesComptes
    <2>5. q \in ContextesComptes
      BY <1>2, <2>2, <2>4 DEF ContextesComptes
    <2>6. Fonde(id, comptes[id].role, p.n)
      BY <2>4 DEF IInvComptes, DecisionRespectee, RoleDe, Fonde
    <2>7. ~comptes[id].motDePasse.hache => id \in enClair
      BY <2>1 DEF IInvComptes, MotDePasseHache
    <2>8. SuiviCompteOK(q)
      BY <1>2, <2>2, <2>3, <2>4, <2>6, <2>7 DEF SuiviCompteOK, EnMain, ContextesComptes
    <2>9. reqComptes' = [reqComptes EXCEPT ![r] = q] /\ q.n = p.n
      BY <1>1, <1>2, <2>1, <2>2 DEF ContextesComptes
    <2> QED BY <1>1, <1>2, <2>5, <2>8, <2>9, SlotComptesSeul
  <1>5. CASE Controler(r) /\ ~FinirCompte(r)
    <2>1. p.pc = "controler" /\ EnMain(p) /\ p.op \in {"verifier", "reset", "login"}
      BY <1>1, <1>2, <1>5 DEF Controler, EnMain, SuiviCompteOK
    <2>2. CASE p.op = "login" /\ reqComptes' = Aller(reqComptes, r, "tracer")
      <3>1. PICK q : q = [p EXCEPT !.pc = "tracer"]
        OBVIOUS
      <3>2. q \in ContextesComptes /\ SuiviCompteOK(q) /\ q.n = p.n
        BY <1>2, <2>1, <2>2, <3>1 DEF ContextesComptes, SuiviCompteOK, EnMain
      <3> QED BY <1>1, <1>2, <2>2, <3>1, <3>2, SlotComptesSeul DEF Aller
    <2>3. CASE /\ p.op # "login"
               /\ reqComptes' = [reqComptes EXCEPT ![r].pc = "relire",
                                                   ![r].lu = EntiteModifiee(p)]
      <3>1. PICK entite : entite = EntiteModifiee(p)
        OBVIOUS
      <3>2. PICK q : q = [p EXCEPT !.pc = "relire", !.lu = entite]
        OBVIOUS
      <3>3. p.lu \in Rangees
        BY <1>2, <2>1 DEF SuiviCompteOK
      <3>4. /\ entite \in Rangees /\ entite.role = p.lu.role
            /\ entite.motDePasse.hache \/ entite.motDePasse = p.lu.motDePasse
        BY <1>2, <3>1, <3>3
           DEF EntiteModifiee, Rangees, Hache, Secrets, ContextesComptes
      <3>5. q \in ContextesComptes /\ q.n = p.n
        BY <1>2, <3>2, <3>4 DEF ContextesComptes
      <3>6. SuiviCompteOK(q)
        BY <1>2, <2>1, <2>3, <3>2, <3>4 DEF SuiviCompteOK, EnMain, ContextesComptes
      <3> QED BY <1>1, <1>2, <2>3, <3>1, <3>2, <3>5, <3>6, SlotComptesSeul
    <2> QED BY <1>1, <1>5, <2>2, <2>3 DEF Controler
  <1>6. CASE RelireCompte(r)
    <2>1. PICK q : q = [p EXCEPT !.pc = "sauver", !.bdd = comptes[p.id]]
      OBVIOUS
    <2>2. p.pc = "relire" /\ EnMain(p) /\ p.id \in IdsComptes
      BY <1>1, <1>2, <1>6 DEF RelireCompte, EnMain, SuiviCompteOK
    <2>3. comptes[p.id] \in Rangees \cup {Neant}
      BY <2>2 DEF IInvComptes, TypesComptes
    <2>4. q \in ContextesComptes /\ q.n = p.n
      BY <1>2, <2>1, <2>3 DEF ContextesComptes
    <2>5. SuiviCompteOK(q)
      BY <1>2, <2>1, <2>2 DEF SuiviCompteOK, EnMain, ContextesComptes
    <2>6. reqComptes' = [reqComptes EXCEPT ![r] = q]
      BY <1>1, <1>6, <2>1 DEF RelireCompte
    <2> QED BY <1>1, <1>2, <2>4, <2>5, <2>6, SlotComptesSeul
  <1> QED BY <1>3, <1>4, <1>5, <1>6 DEF NotifierCompte

\* What a decision on an account leaves.
DecisionPrise(id, role) ==
    /\ decisions' \in [IdsComptes -> [role : Roles \cup {Neant},
                                      recues : 0..MaxRequetes]]
    /\ rompues' \subseteq IdsComptes
    /\ decisions'[id].role = role
    /\ \A i \in IdsComptes \ {id} :
          decisions'[i] = decisions[i] /\ (i \in rompues' <=> i \in rompues)
    /\ \A i \in IdsComptes, x \in Roles, n \in 1..recuesComptes :
          Fonde(i, x, n) => Fonde(i, x, n)'

\* A decision: whatever a request in progress holds was read before it.
LEMMA DeciderFonde ==
    ASSUME IInvComptes, NEW id \in IdsComptes, NEW role \in Roles \cup {Neant},
           Decider(id, role), UNCHANGED recuesComptes
    PROVE  DecisionPrise(id, role)
  <1>1. recuesComptes \in 0..MaxRequetes /\ recuesComptes \in Nat
    BY Nombres DEF IInvComptes, TypesComptes
  <1>2. PICK d : d = [role |-> role, recues |-> recuesComptes]
    OBVIOUS
  <1>3. d \in [role : Roles \cup {Neant}, recues : 0..MaxRequetes]
    BY <1>1, <1>2
  <1>4. /\ decisions' = [decisions EXCEPT ![id] = d]
        /\ rompues' = rompues \ {id}
    BY <1>2 DEF Decider
  <1>5. /\ decisions' \in [IdsComptes -> [role : Roles \cup {Neant},
                                           recues : 0..MaxRequetes]]
        /\ decisions'[id] = d
        /\ \A i \in IdsComptes \ {id} : decisions'[i] = decisions[i]
    BY <1>3, <1>4 DEF IInvComptes, TypesComptes
  <1>6. ASSUME NEW i \in IdsComptes, NEW x \in Roles, NEW n \in 1..recuesComptes,
               Fonde(i, x, n)
        PROVE  Fonde(i, x, n)'
    <2>1. CASE i = id
      BY <1>1, <1>2, <1>5, <2>1 DEF Fonde
    <2>2. CASE i # id
      BY <1>4, <1>5, <1>6, <2>2 DEF Fonde
    <2> QED BY <2>1, <2>2
  <1> QED BY <1>2, <1>4, <1>5, <1>6 DEF DecisionPrise, IInvComptes, TypesComptes

\* Tokens stay founded when what they rest on does.
LEMMA JetonsConserves ==
    ASSUME IInvComptes, NEW r \in Requetes, CompteEvolue(r), UNCHANGED jetons
    PROVE  JetonFonde'
  <1> SUFFICES ASSUME NEW jeton \in jetons
               PROVE  Fonde(jeton[1], jeton[2], jeton[3])'
    BY DEF JetonFonde, Fonde
  <1>1. /\ jeton[1] \in IdsComptes /\ jeton[2] \in Roles
        /\ jeton[3] \in 1..recuesComptes
        /\ Fonde(jeton[1], jeton[2], jeton[3])
    BY DEF IInvComptes, Datees, JetonFonde, Fonde
  <1> QED BY <1>1 DEF CompteEvolue

\* The insertion of an account.
LEMMA InsererConserve ==
    ASSUME IInvComptes, NEW r \in Requetes, InsererCompte(r)
    PROVE  IInvComptes'
  <1>1. PICK p, id : p = reqComptes[r] /\ id = prochain
    OBVIOUS
  <1>2. /\ p \in ContextesComptes /\ SuiviCompteOK(p) /\ p.pc = "inserer"
        /\ UNCHANGED <<recuesComptes, jetons>>
        /\ p.n \in 1..recuesComptes /\ p.n \notin inseres
        /\ \A x \in Issues : <<p.n, x>> \notin inscriptions
        /\ recuesComptes \in 0..MaxRequetes /\ recuesComptes \in Nat
    BY <1>1, Nombres DEF IInvComptes, TypesComptes, SuivisComptes, InsererCompte, SuiviCompteOK
  <1>3. CASE /\ FinirCompte(r)
             /\ inscriptions' = IF p.op = "register"
                  THEN inscriptions \cup {<<p.n, "erreur">>} ELSE inscriptions
             /\ UNCHANGED <<comptes, prochain, inseres, enClair, decisions,
                            rompues>>
    <2>1. PICK q : q = ReposComptes
      OBVIOUS
    <2>2. /\ q \in ContextesComptes /\ SuiviCompteOK(q)' /\ q.pc = "repos"
      BY <2>1, Nombres DEF ReposComptes, ContextesComptes, SuiviCompteOK, EnMain
    <2>0. /\ \A i \in inscriptions' : i \in inscriptions \/ i = <<p.n, "erreur">>
          /\ inscriptions \subseteq inscriptions'
      BY <1>3
    <2>3. CompteEvolue(r)
      <3>1. \A i \in inscriptions' : i \in inscriptions \/ i[1] = reqComptes[r].n
        BY <1>1, <2>0
      <3> QED BY <1>2, <1>3, <2>0, <3>1 DEF CompteEvolue, Fonde
    <2>4. /\ SuivisComptes' /\ Distincts' /\ reqComptes' \in [Requetes -> ContextesComptes]
      BY <1>1, <1>2, <1>3, <2>1, <2>2, <2>3, SlotComptesConserve
         DEF FinirCompte, IInvComptes
    <2>5. inscriptions' \subseteq (1..recuesComptes) \X Issues
      BY <1>2, <2>0 DEF IInvComptes, Datees, Issues
    <2>6. TypesComptes' /\ Datees'
      <3>1. inscriptions' \subseteq (1..MaxRequetes) \X Issues
        BY <1>2, <2>5, Nombres
      <3> QED BY <1>2, <1>3, <2>4, <2>5, <3>1 DEF IInvComptes, TypesComptes, Datees
    <2>7. ReponseInscription'
      BY <1>2, <1>3, <2>0 DEF IInvComptes, ReponseInscription, Datees
    <2> QED BY <1>2, <1>3, <2>3, <2>4, <2>6, <2>7, JetonsConserves
            DEF IInvComptes, MotDePasseHache, DecisionRespectee, Presents
  <1>4. CASE /\ id \in IdsComptes
             /\ comptes' = [comptes EXCEPT ![id] = p.corps]
             /\ prochain' = id + 1
             /\ inseres' = inseres \cup {p.n}
             /\ enClair' = IF p.op = "create" THEN enClair \cup {id}
                                              ELSE enClair
             /\ Decider(id, p.corps.role)
             /\ reqComptes' = [reqComptes EXCEPT
                   ![r].pc = "tracer", ![r].id = id]
             /\ UNCHANGED inscriptions
    <2>1. PICK q : q = [p EXCEPT !.pc = "tracer", !.id = id]
      OBVIOUS
    <2>2. /\ p.corps \in Rangees /\ p.corps.role \in Roles
          /\ p.op \in {"register", "create"}
          /\ ~p.corps.motDePasse.hache => id \in enClair'
      BY <1>2, <1>4 DEF SuiviCompteOK, Rangees
    <2>3. reqComptes' = [reqComptes EXCEPT ![r] = q] /\ q.n = p.n
      BY <1>1, <1>2, <1>4, <2>1 DEF ContextesComptes
    <2>4. q \in ContextesComptes
      <3>1. id \in 0..MaxComptes
        BY <1>4, Nombres
      <3> QED BY <1>2, <2>1, <3>1 DEF ContextesComptes
    <2>5. SuiviCompteOK(q)'
      BY <1>2, <1>4, <2>1, <2>2 DEF SuiviCompteOK, EnMain, ContextesComptes
    <2>6. DecisionPrise(id, p.corps.role)
      <3>1. p.corps.role \in Roles \cup {Neant}
        BY <2>2
      <3>2. recuesComptes' = recuesComptes
        BY <1>2
      <3>3. id \in IdsComptes /\ Decider(id, p.corps.role)
        BY <1>4
      <3> QED BY <3>1, <3>2, <3>3, DeciderFonde
    <2>7. CompteEvolue(r)
      BY <1>1, <1>2, <1>4, <2>6 DEF CompteEvolue, DecisionPrise
    <2>8. SuivisComptes' /\ Distincts' /\ reqComptes' \in [Requetes -> ContextesComptes]
      BY <1>1, <1>2, <2>3, <2>4, <2>5, <2>7, SlotComptesConserve DEF IInvComptes
    <2>9. /\ comptes' \in [IdsComptes -> Rangees \cup {Neant}]
          /\ comptes'[id] = p.corps
          /\ \A i \in IdsComptes \ {id} : comptes'[i] = comptes[i]
      BY <1>4, <2>2 DEF IInvComptes, TypesComptes
    <2>10. /\ prochain' \in 1..(MaxComptes + 1)
           /\ enClair' \subseteq IdsComptes /\ enClair \subseteq enClair'
           /\ inseres' \subseteq 1..recuesComptes /\ inseres' \subseteq 1..MaxRequetes
      BY <1>2, <1>4, Nombres DEF IInvComptes, TypesComptes, Datees
    <2>11. TypesComptes' /\ Datees'
      BY <1>2, <1>4, <2>6, <2>8, <2>9, <2>10
         DEF IInvComptes, TypesComptes, Datees, DecisionPrise
    <2>12. MotDePasseHache'
      BY <1>4, <2>2, <2>9, <2>10 DEF IInvComptes, MotDePasseHache, Presents
    <2>13. DecisionRespectee'
      <3>1. p.corps # Neant
        BY <2>2, Nombres
      <3> QED BY <1>4, <2>6, <2>9, <3>1
              DEF IInvComptes, DecisionRespectee, RoleDe, DecisionPrise
    <2>14. ReponseInscription'
      BY <1>2, <1>4 DEF IInvComptes, ReponseInscription, Datees
    <2> QED BY <1>2, <2>7, <2>8, <2>11, <2>12, <2>13, <2>14, JetonsConserves
            DEF IInvComptes
  <1> QED BY <1>1, <1>3, <1>4 DEF InsererCompte

\* What an update, a removal or the second statement of save(user) does: the
\* row changes, decisions and passwords with it, and the request goes on to its
\* audit entry.
LEMMA EffetConserve ==
    ASSUME IInvComptes, NEW r \in Requetes, NEW id \in IdsComptes,
           reqComptes[r].pc \in {"modifier", "supprimer", "sauver"},
           reqComptes[r].id = id,
           reqComptes' = Aller(reqComptes, r, "tracer"),
           UNCHANGED <<prochain, recuesComptes, inseres, inscriptions, jetons>>,
           NEW rangee \in Rangees \cup {Neant},
           comptes' = [comptes EXCEPT ![id] = rangee],
           enClair \subseteq enClair', enClair' \subseteq IdsComptes,
           rangee # Neant /\ ~rangee.motDePasse.hache => id \in enClair',
           DecisionPrise(id, decisions'[id].role),
           RoleDe(rangee) # decisions'[id].role => id \in rompues'
    PROVE  IInvComptes'
  <1>1. PICK p : p = reqComptes[r]
    OBVIOUS
  <1>2. PICK q : q = [p EXCEPT !.pc = "tracer"]
    OBVIOUS
  <1>3. /\ p \in ContextesComptes /\ SuiviCompteOK(p) /\ p.id = id
        /\ p.pc \in {"modifier", "supprimer", "sauver"}
        /\ recuesComptes \in 0..MaxRequetes /\ recuesComptes \in Nat
    BY <1>1, Nombres DEF IInvComptes, TypesComptes, SuivisComptes
  <1>4. /\ q \in ContextesComptes /\ q.n = p.n
        /\ reqComptes' = [reqComptes EXCEPT ![r] = q]
    BY <1>1, <1>2, <1>3 DEF ContextesComptes, Aller
  <1>5. CompteEvolue(r)
    BY <1>1, <1>3 DEF CompteEvolue, DecisionPrise
  <1>6. p.op # "register"
    BY <1>3 DEF SuiviCompteOK
  <1>7. SuiviCompteOK(q)'
    <2>1. EnMain(q) => EnMain(p) \/ p.op = "login"
      BY <1>2, <1>3 DEF EnMain, ContextesComptes
    <2>2. p.op # "login"
      BY <1>3 DEF SuiviCompteOK
    <2>3. ~EnMain(q)
      BY <1>2, <1>3, <2>2 DEF EnMain, ContextesComptes
    <2> QED BY <1>2, <1>3, <1>6, <2>3 DEF SuiviCompteOK, EnMain, ContextesComptes
  <1>8. SuivisComptes' /\ Distincts' /\ reqComptes' \in [Requetes -> ContextesComptes]
    BY <1>1, <1>3, <1>4, <1>5, <1>7, SlotComptesConserve DEF IInvComptes
  <1>9. /\ comptes' \in [IdsComptes -> Rangees \cup {Neant}]
        /\ comptes'[id] = rangee
        /\ \A i \in IdsComptes \ {id} : comptes'[i] = comptes[i]
    BY DEF IInvComptes, TypesComptes
  <1>10. TypesComptes' /\ Datees'
    BY <1>8, <1>9 DEF IInvComptes, TypesComptes, Datees, DecisionPrise
  <1>11. MotDePasseHache'
    BY <1>9 DEF IInvComptes, MotDePasseHache, Presents
  <1>12. DecisionRespectee'
    BY <1>9 DEF IInvComptes, DecisionRespectee, RoleDe, DecisionPrise
  <1>13. ReponseInscription'
    BY DEF IInvComptes, ReponseInscription
  <1> QED BY <1>5, <1>8, <1>10, <1>11, <1>12, <1>13, JetonsConserves
          DEF IInvComptes

\* UserService.remove.
LEMMA SupprimerCompteConserve ==
    ASSUME IInvComptes, NEW r \in Requetes, SupprimerCompte(r)
    PROVE  IInvComptes'
  <1>1. PICK p, id : p = reqComptes[r] /\ id = p.id
    OBVIOUS
  <1>2. p.pc = "supprimer" /\ id \in IdsComptes
    BY <1>1 DEF IInvComptes, SuivisComptes, SuiviCompteOK, SupprimerCompte
  <1>3. /\ comptes' = [comptes EXCEPT ![id] = Neant]
        /\ Decider(id, Neant) /\ recuesComptes' = recuesComptes
        /\ reqComptes' = Aller(reqComptes, r, "tracer")
        /\ UNCHANGED <<prochain, recuesComptes, inseres, inscriptions, jetons>>
        /\ enClair' = enClair /\ enClair' \subseteq IdsComptes
    BY <1>1 DEF SupprimerCompte, IInvComptes, TypesComptes
  <1>4. DecisionPrise(id, Neant)
    BY <1>2, <1>3, DeciderFonde
  <1>5. DecisionPrise(id, decisions'[id].role) /\ decisions'[id].role = Neant
    BY <1>4 DEF DecisionPrise
  <1> QED BY <1>1, <1>2, <1>3, <1>5, EffetConserve DEF RoleDe

\* An update gives columns the values of the body, and the password as it was
\* given.
LEMMA RangeeModifieeType ==
    ASSUME NEW rangee \in Rangees, NEW q \in ContextesComptes,
           q.corps \in Modifications
    PROVE  /\ RangeeModifiee(rangee, q) \in Rangees
           /\ "motDePasse" \notin DOMAIN q.corps =>
                RangeeModifiee(rangee, q).motDePasse = rangee.motDePasse
           /\ "role" \notin DOMAIN q.corps =>
                RangeeModifiee(rangee, q).role = rangee.role
  <1>1. CorpsValide(q.corps)
    BY ComptesAssumption
  <1>2. /\ Clair(q.n) \in Secrets
        /\ DOMAIN rangee =
             {"email", "telephone", "motDePasse", "isVerified", "role"}
        /\ rangee["email"] \in Emails /\ rangee["telephone"] \in Telephones
        /\ rangee["motDePasse"] \in Secrets
        /\ rangee["isVerified"] \in BOOLEAN /\ rangee["role"] \in Roles
    BY DEF Clair, Secrets, ContextesComptes, Rangees
  <1>3. PICK m : m = RangeeModifiee(rangee, q)
    OBVIOUS
  <1>4. /\ DOMAIN m = DOMAIN rangee
        /\ m = [c \in DOMAIN m |-> m[c]]
        /\ m["email"] \in Emails /\ m["telephone"] \in Telephones
        /\ m["motDePasse"] \in Secrets
        /\ m["isVerified"] \in BOOLEAN /\ m["role"] \in Roles
    BY <1>1, <1>2, <1>3 DEF RangeeModifiee, CorpsValide
  <1>5. m \in Rangees
    BY <1>2, <1>4 DEF Rangees
  <1>6. /\ "motDePasse" \notin DOMAIN q.corps =>
             m.motDePasse = rangee.motDePasse
        /\ "role" \notin DOMAIN q.corps => m.role = rangee.role
    BY <1>2, <1>3 DEF RangeeModifiee
  <1> QED BY <1>3, <1>5, <1>6

\* UserService.update.
LEMMA ModifierCompteConserve ==
    ASSUME IInvComptes, NEW r \in Requetes, ModifierCompte(r)
    PROVE  IInvComptes'
  <1>1. PICK p, id : p = reqComptes[r] /\ id = p.id
    OBVIOUS
  <1>2. /\ p \in ContextesComptes /\ SuiviCompteOK(p)
        /\ p.pc = "modifier" /\ id \in IdsComptes /\ p.corps \in Modifications
        /\ UNCHANGED <<prochain, recuesComptes, inseres, inscriptions, jetons>>
        /\ enClair \subseteq IdsComptes
        /\ comptes[id] \in Rangees \cup {Neant}
    BY <1>1 DEF IInvComptes, TypesComptes, SuivisComptes, SuiviCompteOK, ModifierCompte
  <1>3. CASE FinirCompte(r) /\ UNCHANGED <<comptes, enClair, decisions, rompues>>
    BY <1>1, <1>2, <1>3, FinComptes
  <1>4. CASE /\ id \notin Presents
             /\ reqComptes' = Aller(reqComptes, r, "tracer")
             /\ UNCHANGED <<comptes, enClair, decisions, rompues>>
    <2>1. comptes' = [comptes EXCEPT ![id] = comptes[id]]
      BY <1>2, <1>4 DEF IInvComptes, TypesComptes
    <2>2. comptes[id] = Neant
      BY <1>2, <1>4 DEF Presents
    <2>3. comptes' = [comptes EXCEPT ![id] = Neant]
      BY <2>1, <2>2
    <2>4. DecisionPrise(id, decisions'[id].role)
      BY <1>2, <1>4 DEF DecisionPrise, Fonde, IInvComptes, TypesComptes
    <2>5. RoleDe(Neant) # decisions'[id].role => id \in rompues'
      BY <1>2, <1>4, <2>2 DEF IInvComptes, DecisionRespectee
    <2>6. enClair' = enClair /\ enClair' \subseteq IdsComptes
      BY <1>2, <1>4
    <2> QED BY <1>1, <1>2, <1>4, <2>3, <2>4, <2>5, <2>6, EffetConserve
  <1>5. CASE /\ id \in Presents
             /\ comptes' = [comptes EXCEPT ![id] = RangeeModifiee(comptes[id], p)]
             /\ enClair' = IF "motDePasse" \in DOMAIN p.corps
                             THEN enClair \cup {id} ELSE enClair
             /\ IF "role" \in DOMAIN p.corps
                  THEN Decider(id, RangeeModifiee(comptes[id], p).role)
                  ELSE UNCHANGED <<decisions, rompues>>
             /\ reqComptes' = Aller(reqComptes, r, "tracer")
    <2>1. PICK avant, apres :
            avant = comptes[id] /\ apres = RangeeModifiee(comptes[id], p)
      OBVIOUS
    <2>2. avant \in Rangees /\ avant # Neant
      BY <1>2, <1>5, <2>1 DEF Presents
    <2>3. /\ apres \in Rangees /\ apres.role \in Roles /\ apres # Neant
          /\ "motDePasse" \notin DOMAIN p.corps =>
               apres.motDePasse = avant.motDePasse
          /\ "role" \notin DOMAIN p.corps => apres.role = avant.role
      BY <1>2, <2>1, <2>2, RangeeModifieeType, Nombres DEF Rangees
    <2>4. comptes' = [comptes EXCEPT ![id] = apres]
      BY <1>5, <2>1
    <2>5. /\ enClair \subseteq enClair' /\ enClair' \subseteq IdsComptes
          /\ ~apres.motDePasse.hache => id \in enClair'
      <3>1. ~avant.motDePasse.hache => id \in enClair
        BY <1>5, <2>1 DEF IInvComptes, MotDePasseHache
      <3> QED BY <1>2, <1>5, <2>3, <3>1
    <2>6. /\ DecisionPrise(id, decisions'[id].role)
          /\ RoleDe(apres) # decisions'[id].role => id \in rompues'
      <3>1. CASE "role" \in DOMAIN p.corps
        <4>1. Decider(id, apres.role) /\ recuesComptes' = recuesComptes
          BY <1>2, <1>5, <2>1, <3>1
        <4>2. apres.role \in Roles \cup {Neant}
          BY <2>3
        <4>3. DecisionPrise(id, apres.role)
          BY <1>2, <4>1, <4>2, DeciderFonde
        <4> QED BY <2>3, <4>3 DEF DecisionPrise, RoleDe
      <3>2. CASE "role" \notin DOMAIN p.corps
        <4>1. UNCHANGED <<decisions, rompues, recuesComptes>>
          BY <1>2, <1>5, <3>2
        <4>2. DecisionPrise(id, decisions'[id].role)
          BY <4>1 DEF DecisionPrise, Fonde, IInvComptes, TypesComptes
        <4>3. RoleDe(avant) # decisions[id].role => id \in rompues
          BY <1>2, <2>1 DEF IInvComptes, DecisionRespectee
        <4> QED BY <2>2, <2>3, <3>2, <4>1, <4>2, <4>3 DEF RoleDe
      <3> QED BY <3>1, <3>2
    <2> QED BY <1>1, <1>2, <1>5, <2>3, <2>4, <2>5, <2>6, EffetConserve
  <1> QED BY <1>1, <1>3, <1>4, <1>5 DEF ModifierCompte

\* Each column of the row after save(user) comes from the entity or is left.
LEMMA RangeeSauveeType ==
    ASSUME NEW avant \in Rangees \cup {Neant}, NEW q \in ContextesComptes,
           q.lu \in Rangees
    PROVE  LET apres == RangeeSauvee(q, avant)
           IN  /\ apres \in Rangees \cup {Neant}
               /\ apres = Neant => avant = Neant
               /\ apres # Neant =>
                    /\ \/ apres.role = q.lu.role
                       \/ avant # Neant /\ apres.role = avant.role
                    /\ \/ apres.motDePasse = q.lu.motDePasse
                       \/ avant # Neant /\ apres.motDePasse = avant.motDePasse
  <1>1. PICK apres : apres = RangeeSauvee(q, avant)
    OBVIOUS
  <1>2. Neant \notin Rangees
    BY Nombres
  <1>3. CASE q.bdd = Neant
    BY <1>1, <1>2, <1>3 DEF RangeeSauvee
  <1>4. CASE q.bdd # Neant /\ avant = Neant
    BY <1>1, <1>4 DEF RangeeSauvee
  <1>5. CASE q.bdd # Neant /\ avant # Neant
    <2>1. /\ DOMAIN avant =
               {"email", "telephone", "motDePasse", "isVerified", "role"}
          /\ avant["email"] \in Emails /\ avant["telephone"] \in Telephones
          /\ avant["motDePasse"] \in Secrets
          /\ avant["isVerified"] \in BOOLEAN /\ avant["role"] \in Roles
          /\ q.lu["email"] \in Emails /\ q.lu["telephone"] \in Telephones
          /\ q.lu["motDePasse"] \in Secrets
          /\ q.lu["isVerified"] \in BOOLEAN /\ q.lu["role"] \in Roles
      BY <1>5 DEF Rangees
    <2>2. apres = [c \in DOMAIN avant |->
                     IF q.lu[c] # q.bdd[c] THEN q.lu[c] ELSE avant[c]]
      BY <1>1, <1>5 DEF RangeeSauvee
    <2>3. /\ apres = [c \in DOMAIN apres |-> apres[c]]
          /\ DOMAIN apres = DOMAIN avant
          /\ apres["email"] \in Emails /\ apres["telephone"] \in Telephones
          /\ apres["motDePasse"] \in Secrets
          /\ apres["isVerified"] \in BOOLEAN /\ apres["role"] \in Roles
      BY <2>1, <2>2
    <2>4. apres \in Rangees
      BY <2>1, <2>3 DEF Rangees
    <2>5. /\ apres.role = q.lu.role \/ apres.role = avant.role
          /\ \/ apres.motDePasse = q.lu.motDePasse
             \/ apres.motDePasse = avant.motDePasse
      BY <2>1, <2>2
    <2> QED BY <1>1, <1>2, <1>5, <2>4, <2>5
  <1> QED BY <1>1, <1>3, <1>4, <1>5

\* The second statement of save(user): the role it leaves is the one the row had
\* or the one the request holds, and if the latter was read before the decision,
\* the request was received before it too.
LEMMA SauverConserve ==
    ASSUME IInvComptes, NEW r \in Requetes, SauverCompte(r)
    PROVE  IInvComptes'
  <1>1. PICK p, id : p = reqComptes[r] /\ id = p.id
    OBVIOUS
  <1>2. /\ p \in ContextesComptes /\ SuiviCompteOK(p) /\ p.pc = "sauver"
        /\ UNCHANGED <<prochain, recuesComptes, inseres, inscriptions, jetons>>
        /\ enClair' = enClair /\ enClair' \subseteq IdsComptes
        /\ decisions' = decisions
    BY <1>1 DEF IInvComptes, TypesComptes, SuivisComptes, SauverCompte
  <1>3. /\ p.lu \in Rangees /\ id \in IdsComptes /\ p.lu.role \in Roles
        /\ Fonde(id, p.lu.role, p.n)
        /\ ~p.lu.motDePasse.hache => id \in enClair
    BY <1>1, <1>2 DEF SuiviCompteOK, EnMain, Rangees
  <1>4. PICK avant, apres :
          avant = comptes[id] /\ apres = RangeeSauvee(p, avant)
    OBVIOUS
  <1>5. /\ avant \in Rangees \cup {Neant}
        /\ RoleDe(avant) # decisions[id].role => id \in rompues
        /\ avant # Neant /\ ~avant.motDePasse.hache => id \in enClair
    BY <1>3, <1>4 DEF IInvComptes, TypesComptes, DecisionRespectee,
                      MotDePasseHache, Presents
  <1>6. CASE FinirCompte(r) /\ UNCHANGED <<comptes, rompues>>
    BY <1>1, <1>2, <1>6, FinComptes
  <1>7. CASE /\ comptes' = [comptes EXCEPT ![id] = apres]
             /\ rompues' = IF /\ RoleDe(apres) # RoleDe(avant)
                              /\ p.n <= decisions[id].recues
                             THEN rompues \cup {id} ELSE rompues
             /\ reqComptes' = Aller(reqComptes, r, "tracer")
    <2>1. /\ apres \in Rangees \cup {Neant}
          /\ apres = Neant => avant = Neant
          /\ apres # Neant =>
               /\ \/ apres.role = p.lu.role
                  \/ avant # Neant /\ apres.role = avant.role
               /\ \/ apres.motDePasse = p.lu.motDePasse
                  \/ avant # Neant /\ apres.motDePasse = avant.motDePasse
      BY <1>2, <1>3, <1>4, <1>5, RangeeSauveeType
    <2>2. apres # Neant /\ ~apres.motDePasse.hache => id \in enClair'
      BY <1>2, <1>3, <1>5, <2>1
    <2>3. rompues \subseteq rompues' /\ rompues' \subseteq IdsComptes
      BY <1>3, <1>7 DEF IInvComptes, TypesComptes
    <2>4. DecisionPrise(id, decisions'[id].role)
      <3>1. \A i \in IdsComptes \ {id} : i \in rompues' <=> i \in rompues
        BY <1>7
      <3>2. \A i \in IdsComptes, x \in Roles, n \in 1..recuesComptes :
              Fonde(i, x, n) => Fonde(i, x, n)'
        BY <1>2, <2>3 DEF Fonde
      <3> QED BY <1>2, <2>3, <3>1, <3>2
              DEF DecisionPrise, IInvComptes, TypesComptes
    <2>5. RoleDe(apres) # decisions'[id].role => id \in rompues'
      <3>1. CASE RoleDe(apres) = RoleDe(avant)
        BY <1>2, <1>5, <2>3, <3>1
      <3>2. CASE RoleDe(apres) # RoleDe(avant)
        <4>1. RoleDe(apres) = p.lu.role
          BY <2>1, <3>2 DEF RoleDe
        <4> QED BY <1>2, <1>3, <1>7, <2>3, <3>2, <4>1 DEF Fonde
      <3> QED BY <3>1, <3>2
    <2>6. enClair \subseteq enClair'
      BY <1>2
    <2> QED BY <1>1, <1>2, <1>3, <1>7, <2>1, <2>2, <2>4, <2>5, <2>6, EffetConserve
  <1> QED BY <1>1, <1>4, <1>6, <1>7 DEF SauverCompte

\* The answer after the audit entry, written or, for a registration, rejected.
LEMMA RepondreConserve ==
    ASSUME IInvComptes, NEW r \in Requetes, RepondreCompte(r),
           reqComptes[r].pc = "tracer"
    PROVE  IInvComptes'
  <1>1. PICK p : p = reqComptes[r]
    OBVIOUS
  <1>2. /\ p \in ContextesComptes /\ SuiviCompteOK(p) /\ p.pc = "tracer"
        /\ p.n \in 1..recuesComptes
        /\ UNCHANGED <<comptes, prochain, recuesComptes, inseres, enClair,
                       decisions, rompues>>
        /\ recuesComptes \in 0..MaxRequetes /\ recuesComptes \in Nat
    BY <1>1, Nombres DEF IInvComptes, TypesComptes, SuivisComptes, RepondreCompte, SuiviCompteOK
  <1>3. /\ \A i \in inscriptions' :
             i \in inscriptions \/ (i = <<p.n, "cree">> /\ p.op = "register")
        /\ inscriptions \subseteq inscriptions'
    BY <1>1 DEF RepondreCompte
  <1>4. \A j \in jetons' :
          j \in jetons \/ (j = <<p.id, p.lu.role, p.n>> /\ p.op = "login")
    BY <1>1 DEF RepondreCompte
  <1>5. \A i \in inscriptions' : i \in inscriptions \/ i[1] = reqComptes[r].n
    BY <1>1, <1>3
  <1>6. CompteEvolue(r)
    BY <1>2, <1>3, <1>5 DEF CompteEvolue, Fonde
  <1>0. 1..recuesComptes \subseteq 1..MaxRequetes
    BY <1>2, Nombres
  <1>7. /\ inscriptions' \subseteq (1..recuesComptes) \X Issues
        /\ inscriptions' \subseteq (1..MaxRequetes) \X Issues
    <2>1. inscriptions' \subseteq (1..recuesComptes) \X Issues
      BY <1>2, <1>3 DEF IInvComptes, Datees, Issues
    <2> QED BY <1>0, <2>1
  <1>8. p.op = "login" => /\ p.id \in IdsComptes /\ p.lu.role \in Roles
                          /\ Fonde(p.id, p.lu.role, p.n)
    BY <1>2 DEF SuiviCompteOK, EnMain, Rangees
  <1>9. /\ jetons' \subseteq IdsComptes \X Roles \X (1..recuesComptes)
        /\ jetons' \subseteq IdsComptes \X Roles \X (1..MaxRequetes)
    <2>1. jetons' \subseteq IdsComptes \X Roles \X (1..recuesComptes)
      <3> SUFFICES ASSUME NEW j \in jetons'
                   PROVE  j \in IdsComptes \X Roles \X (1..recuesComptes)
        OBVIOUS
      <3>1. CASE j \in jetons
        BY <3>1 DEF IInvComptes, Datees
      <3>2. CASE j = <<p.id, p.lu.role, p.n>> /\ p.op = "login"
        BY <1>2, <1>8, <3>2
      <3> QED BY <1>4, <3>1, <3>2
    <2>2. IdsComptes \X Roles \X (1..recuesComptes)
            \subseteq IdsComptes \X Roles \X (1..MaxRequetes)
      BY <1>0
    <2> QED BY <2>1, <2>2
  <1>10. JetonFonde'
    <2> SUFFICES ASSUME NEW jeton \in jetons'
                 PROVE  Fonde(jeton[1], jeton[2], jeton[3])'
      BY DEF JetonFonde, Fonde
    <2>1. CASE jeton \in jetons
      BY <1>2, <2>1 DEF IInvComptes, JetonFonde, Fonde
    <2>2. CASE jeton = <<p.id, p.lu.role, p.n>> /\ p.op = "login"
      BY <1>2, <1>8, <2>2 DEF Fonde
    <2> QED BY <1>4, <2>1, <2>2
  <1>11. ReponseInscription'
    <2>1. p.op = "register" => p.n \in inseres
      BY <1>2 DEF SuiviCompteOK
    <2> QED BY <1>2, <1>3, <2>1 DEF IInvComptes, ReponseInscription
  <1>12. /\ SuivisComptes' /\ Distincts'
         /\ reqComptes' \in [Requetes -> ContextesComptes]
    <2>1. CASE FinirCompte(r)
      <3>1. PICK q : q = ReposComptes
        OBVIOUS
      <3>2. q \in ContextesComptes /\ SuiviCompteOK(q)' /\ q.pc = "repos"
        BY <3>1, Nombres DEF ReposComptes, ContextesComptes, SuiviCompteOK, EnMain
      <3> QED BY <1>1, <1>2, <1>6, <2>1, <3>1, <3>2, SlotComptesConserve
              DEF FinirCompte, IInvComptes
    <2>2. CASE p.op = "create" /\ reqComptes' = Aller(reqComptes, r, "notifier")
      <3>1. PICK q : q = [p EXCEPT !.pc = "notifier"]
        OBVIOUS
      <3>2. /\ q \in ContextesComptes /\ q.n = p.n
            /\ reqComptes' = [reqComptes EXCEPT ![r] = q]
        BY <1>1, <1>2, <2>2, <3>1 DEF ContextesComptes, Aller
      <3>3. inscriptions' = inscriptions
        BY <1>1, <2>2 DEF RepondreCompte
      <3>4. SuiviCompteOK(q)'
        BY <1>2, <2>2, <3>1, <3>3 DEF SuiviCompteOK, EnMain, ContextesComptes
      <3> QED BY <1>1, <1>2, <1>6, <3>2, <3>4, SlotComptesConserve DEF IInvComptes
    <2> QED BY <1>1, <2>1, <2>2 DEF RepondreCompte
  <1>13. TypesComptes' /\ Datees'
    BY <1>2, <1>7, <1>9, <1>12 DEF IInvComptes, TypesComptes, Datees
  <1> QED BY <1>2, <1>10, <1>11, <1>12, <1>13
          DEF IInvComptes, MotDePasseHache, DecisionRespectee, Presents

\* A rejected call that ends its request.
LEMMA RejeterConserve ==
    ASSUME IInvComptes, NEW r \in Requetes, EchouerComptes(r)
    PROVE  IInvComptes'
  <1>1. PICK p : p = reqComptes[r]
    OBVIOUS
  <1>2. /\ p \in ContextesComptes /\ SuiviCompteOK(p) /\ p.pc # "repos"
        /\ p.n \in 1..recuesComptes
        /\ recuesComptes \in 0..MaxRequetes /\ recuesComptes \in Nat
    BY <1>1, Nombres DEF IInvComptes, TypesComptes, SuivisComptes, SuiviCompteOK,
                         EchouerComptes, RejeterCompte
  <1>3. CASE p.pc = "tracer" /\ RepondreCompte(r)
    BY <1>1, <1>3, RepondreConserve
  <1>4. CASE /\ ~(p.op = "register" /\ p.pc = "tracer")
             /\ FinirCompte(r)
             /\ inscriptions' = IF p.op = "register"
                  THEN inscriptions \cup {<<p.n, "erreur">>} ELSE inscriptions
             /\ UNCHANGED <<comptes, prochain, recuesComptes, inseres,
                            enClair, decisions, rompues, jetons>>
    <2>1. /\ \A i \in inscriptions' :
               i \in inscriptions \/ (i = <<p.n, "erreur">> /\ p.op = "register")
          /\ inscriptions \subseteq inscriptions'
      BY <1>4
    <2>2. \A i \in inscriptions' : i \in inscriptions \/ i[1] = reqComptes[r].n
      BY <1>1, <2>1
    <2>3. CompteEvolue(r)
      BY <1>2, <1>4, <2>1, <2>2 DEF CompteEvolue, Fonde
    <2>4. PICK q : q = ReposComptes
      OBVIOUS
    <2>5. q \in ContextesComptes /\ SuiviCompteOK(q)' /\ q.pc = "repos"
      BY <2>4, Nombres DEF ReposComptes, ContextesComptes, SuiviCompteOK, EnMain
    <2>6. SuivisComptes' /\ Distincts' /\ reqComptes' \in [Requetes -> ContextesComptes]
      BY <1>1, <1>2, <1>4, <2>3, <2>4, <2>5, SlotComptesConserve
         DEF FinirCompte, IInvComptes
    <2>7. /\ inscriptions' \subseteq (1..recuesComptes) \X Issues
          /\ inscriptions' \subseteq (1..MaxRequetes) \X Issues
      <3>1. inscriptions' \subseteq (1..recuesComptes) \X Issues
        BY <1>2, <2>1 DEF IInvComptes, Datees, Issues
      <3>2. 1..recuesComptes \subseteq 1..MaxRequetes
        BY <1>2, Nombres
      <3> QED BY <3>1, <3>2
    <2>8. TypesComptes' /\ Datees'
      BY <1>4, <2>6, <2>7 DEF IInvComptes, TypesComptes, Datees
    <2>9. ReponseInscription'
      <3>1. p.op = "register" => p.n \notin inseres
        BY <1>2, <1>4 DEF SuiviCompteOK
      <3> QED BY <1>4, <2>1, <3>1 DEF IInvComptes, ReponseInscription
    <2> QED BY <1>4, <2>3, <2>6, <2>8, <2>9, JetonsConserves
            DEF IInvComptes, MotDePasseHache, DecisionRespectee, Presents
  <1> QED BY <1>1, <1>3, <1>4 DEF EchouerComptes, RejeterCompte

\* Every step preserves the invariant.
LEMMA NextIInvComptes ==
    IInvComptes /\ [NextComptes]_varsComptes => IInvComptes'
  <1> SUFFICES ASSUME IInvComptes, [NextComptes]_varsComptes
               PROVE  IInvComptes'
    OBVIOUS
  <1>1. ASSUME NEW r \in Requetes, RecevoirComptes(r) \/ EchouerComptes(r)
        PROVE  IInvComptes'
    BY <1>1, RecevoirCompteConserve, RejeterConserve
  <1>2. ASSUME NEW r \in Requetes, AvancerComptes(r)
        PROVE  IInvComptes'
    <2>1. CASE TracerCompte(r)
      BY <2>1, RepondreConserve DEF TracerCompte
    <2> QED BY <1>2, <2>1, InsererConserve, ModifierCompteConserve, SupprimerCompteConserve,
               LectureConserve, SauverConserve DEF AvancerComptes
  <1>3. CASE UNCHANGED varsComptes
    BY <1>3 DEF varsComptes, IInvComptes, TypesComptes, SuivisComptes, SuiviCompteOK, EnMain,
                Fonde, Distincts, Datees, MotDePasseHache, DecisionRespectee,
                JetonFonde, ReponseInscription, Presents
  <1> QED BY <1>1, <1>2, <1>3 DEF NextComptes

\* The invariant holds in every reachable state.
LEMMA IInvComptesToujours == SpecComptes => []IInvComptes
  BY InitIInvComptes, NextIInvComptes, PTL DEF SpecComptes

\* A role given by an administrator, and a removal, last until the next decision
\* unless a verification or a reset received before them saves back what it had
\* read: for any number of accounts and of requests in progress.
THEOREM DecisionsRespectees == SpecComptes => []DecisionRespectee
  <1>1. IInvComptes => DecisionRespectee
    BY DEF IInvComptes
  <1> QED BY <1>1, IInvComptesToujours, PTL

\* The role in a token of login is the last one decided, but for logins received
\* before the decision and decisions undone.
THEOREM JetonsFondes == SpecComptes => []JetonFonde
  <1>1. IInvComptes => JetonFonde
    BY DEF IInvComptes
  <1> QED BY <1>1, IInvComptesToujours, PTL

\* A password that is stored as it was given was written by UserService.
THEOREM MotsDePasseHaches == SpecComptes => []MotDePasseHache
  <1>1. IInvComptes => MotDePasseHache
    BY DEF IInvComptes
  <1> QED BY <1>1, IInvComptesToujours, PTL

\* A registration is answered with success if and only if it inserted an account.
THEOREM InscriptionsSures == SpecComptes => []ReponseInscription
  <1>1. IInvComptes => ReponseInscription
    BY DEF IInvComptes
  <1> QED BY <1>1, IInvComptesToujours, PTL
=============================================================================
