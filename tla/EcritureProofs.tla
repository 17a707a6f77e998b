--------------------------- MODULE EcritureProofs ---------------------------
(***************************************************************************)
(* Proofs about Ecriture, for any number of slots, requests, entries and    *)
(* files.                                                                   *)
(*                                                                          *)
(* For the imports and the reports, what the loops over the entries compute *)
(* is left unexpanded: an entry, once written, keeps its place.  That the   *)
(* statements agree is about the loops, and needs induction over the        *)
(* journal: see the last part.                                              *)
(***************************************************************************)
EXTENDS Ecriture, FiniteSetTheorems, SequenceTheorems,
        WellFoundedInduction, TLAPS

\* What a request is does not depend on the entries and requests that come.
LEMMA RequeteStable ==
    ASSUME NEW q, NEW n \in Nat, NEW long \in Nat, RequeteOK(q, n, long),
           NEW n1 \in Nat, NEW long1 \in Nat, n <= n1, long <= long1
    PROVE  RequeteOK(q, n1, long1)
  BY DEF RequeteOK

\* A slot at rest.
LEMMA ReposType ==
    ASSUME NEW n, NEW long \in Nat
    PROVE  RequeteOK(Repos, n, long)
  <1>1. <<>> \in Seq(Lignes) /\ Len(<<>>) = 0
    OBVIOUS
  <1> QED BY <1>1 DEF RequeteOK, Repos, EtapesDe

\* The first state.
THEOREM TypeInit == Init => TypeOK
  <1> SUFFICES ASSUME Init PROVE TypeOK
    OBVIOUS
  <1>1. recues = 0 /\ Len(ecritures) = 0 /\ Len(origines) = 0
    BY DEF Init
  <1>2. \A r \in Requetes : req[r] = Repos
    BY DEF Init
  <1>3. \A r \in Requetes : RequeteOK(req[r], recues, Len(ecritures))
    BY <1>1, <1>2, ReposType
  <1> QED BY <1>1, <1>3, MaxRequetesAssumption DEF Init, TypeOK

\* A step that changes one slot only.
LEMMA SlotChange ==
    ASSUME TypeOK, NEW r \in Requetes, NEW q, req' = [req EXCEPT ![r] = q]
    PROVE  /\ DOMAIN req' = Requetes /\ req'[r] = q
           /\ \A s \in Requetes \ {r} : req'[s] = req[s]
  BY DEF TypeOK

\* When the table and the number of requests grow, it leaves the others typed.
LEMMA CadreType ==
    ASSUME TypeOK, NEW r \in Requetes,
           \A s \in Requetes \ {r} : req'[s] = req[s],
           NEW n \in Nat, recues <= n, NEW long \in Nat, Len(ecritures) <= long,
           RequeteOK(req'[r], n, long)
    PROVE  \A s \in Requetes : RequeteOK(req'[s], n, long)
  <1>1. recues \in Nat /\ Len(ecritures) \in Nat
    BY DEF TypeOK
  <1>2. \A s \in Requetes : RequeteOK(req[s], n, long)
    BY <1>1, RequeteStable DEF TypeOK
  <1> QED BY <1>2

\* The tables after a step that writes no entry and receives no request.
LEMMA TypeSansEcriture ==
    ASSUME TypeOK, NEW r \in Requetes, NEW q, req' = [req EXCEPT ![r] = q],
           RequeteOK(q, recues, Len(ecritures)),
           UNCHANGED <<ecritures, recues, origines>>,
           journal' \subseteq
             {"create_ecriture", "import_ecritures_csv", "ventes", "achats",
              "performance"} \X Nat \X (1..recues)
    PROVE  TypeOK'
  <1>1. /\ DOMAIN req' = Requetes
        /\ \A s \in Requetes : RequeteOK(req'[s], recues, Len(ecritures))
    <2>1. \A s \in Requetes : RequeteOK(req[s], recues, Len(ecritures))
      BY DEF TypeOK
    <2> QED BY <2>1, SlotChange
  <1> QED BY <1>1 DEF TypeOK

\* A request that comes has a number of its own and holds rows of a file.
LEMMA TypeRecevoir ==
    ASSUME TypeOK, NEW r \in Requetes, Recevoir(r)
    PROVE  TypeOK'
  <1>1. /\ recues \in Nat /\ Len(ecritures) \in Nat /\ recues' = recues + 1
        /\ recues' \in 0..MaxRequetes
        /\ UNCHANGED <<ecritures, journal, origines>>
    <2>1. recues \in 0..MaxRequetes /\ Len(ecritures) \in Nat
      BY DEF TypeOK
    <2>2. /\ recues < MaxRequetes /\ recues' = recues + 1
          /\ UNCHANGED <<ecritures, journal, origines>>
      BY DEF Recevoir
    <2> QED BY <2>1, <2>2, MaxRequetesAssumption
  <1> DEFINE Q(op, pc, lignes) ==
               [Repos EXCEPT !.pc = pc, !.op = op, !.n = recues + 1,
                             !.lignes = lignes, !.debut = Len(ecritures)]
  <1>2. ASSUME NEW op, NEW pc, NEW lignes \in Seq(Lignes),
               op \in {"creer", "importer", "ventes", "achats", "performance"},
               pc \in EtapesDe(op), op = "creer" => Len(lignes) = 1,
               pc = "enregistrer" => 0 < Len(lignes), pc # "tracer"
        PROVE  RequeteOK(Q(op, pc, lignes), recues', Len(ecritures'))
    <2>1. PICK q : q = Q(op, pc, lignes)
      OBVIOUS
    <2>2. q = [pc |-> pc, op |-> op, n |-> recues', lignes |-> lignes,
               count |-> 0, id |-> 0, debut |-> Len(ecritures),
               ventes |-> 0, achats |-> 0]
      BY <1>1, <2>1 DEF Repos, Q
    <2>3. Len(lignes) \in Nat /\ recues' \in 1..recues'
          /\ Len(ecritures) \in 0..Len(ecritures')
      BY <1>1
    <2>4. RequeteOK(q, recues', Len(ecritures'))
      BY <1>2, <2>2, <2>3 DEF RequeteOK
    <2> QED BY <2>1, <2>4
  <1> HIDE DEF Q
  <1>3. PICK q : req' = [req EXCEPT ![r] = q] /\ RequeteOK(q, recues', Len(ecritures'))
    <2>1. CASE \E s \in Saisies : Commencer(r, "creer", "enregistrer", <<s>>)
      <3>1. PICK s \in Saisies : req' = [req EXCEPT ![r] = Q("creer", "enregistrer", <<s>>)]
        BY <2>1 DEF Commencer, Q
      <3>2. <<s>> \in Seq(Lignes) /\ Len(<<s>>) = 1
        <4>1. s \in Lignes
          BY DEF Lignes
        <4> QED BY <4>1
      <3>3. "enregistrer" \in EtapesDe("creer")
        BY DEF EtapesDe
      <3>4. PICK f : f = <<s>>
        OBVIOUS
      <3>5. f \in Seq(Lignes) /\ Len(f) = 1 /\ 0 < Len(f)
        BY <3>2, <3>4
      <3>6. RequeteOK(Q("creer", "enregistrer", f), recues', Len(ecritures'))
        BY <3>3, <3>5, <1>2
      <3>7. RequeteOK(Q("creer", "enregistrer", <<s>>), recues', Len(ecritures'))
        BY <3>4, <3>6
      <3> QED BY <3>1, <3>7
    <2>2. CASE \E f \in Fichiers : Commencer(r, "importer", Suite(f, 0), f)
      <3>1. PICK f \in Fichiers : req' = [req EXCEPT ![r] = Q("importer", Suite(f, 0), f)]
        BY <2>2 DEF Commencer, Q
      <3>2. f \in Seq(Lignes) /\ Len(f) \in Nat
        BY FichiersAssumption
      <3>3. /\ Suite(f, 0) \in EtapesDe("importer") /\ Suite(f, 0) # "tracer"
            /\ Suite(f, 0) = "enregistrer" => 0 < Len(f)
        BY DEF EtapesDe, Suite
      <3>4. RequeteOK(Q("importer", Suite(f, 0), f), recues', Len(ecritures'))
        BY <3>2, <3>3, <1>2
      <3> QED BY <3>1, <3>4
    <2>3. CASE \E op \in Rapports :
                 Commencer(r, op, IF op = "achats" THEN "lire_achats"
                                                   ELSE "lire_ventes", <<>>)
      <3>1. PICK op, pc :
              /\ op \in Rapports
              /\ pc = IF op = "achats" THEN "lire_achats" ELSE "lire_ventes"
              /\ req' = [req EXCEPT ![r] = Q(op, pc, <<>>)]
        BY <2>3 DEF Commencer, Q
      <3>2. op \in {"ventes", "achats", "performance"}
        BY <3>1, RapportsAssumption
      <3>3. pc \in EtapesDe(op) /\ pc \notin {"enregistrer", "tracer"}
        BY <3>1, <3>2 DEF EtapesDe
      <3>4. <<>> \in Seq(Lignes)
        OBVIOUS
      <3>5. RequeteOK(Q(op, pc, <<>>), recues', Len(ecritures'))
        BY <3>2, <3>3, <3>4, <1>2
      <3> QED BY <3>1, <3>5
    <2> QED BY <2>1, <2>2, <2>3 DEF Recevoir
  <1>4. /\ DOMAIN req' = Requetes
        /\ \A s \in Requetes : RequeteOK(req'[s], recues', Len(ecritures'))
    <2>1. PICK n \in Nat, long \in Nat : n = recues' /\ long = Len(ecritures')
      BY <1>1
    <2>2. recues <= n /\ Len(ecritures) <= long
      BY <1>1, <2>1
    <2>3. /\ DOMAIN req' = Requetes /\ req'[r] = q
          /\ \A s \in Requetes \ {r} : req'[s] = req[s]
      BY <1>3, SlotChange
    <2>4. \A s \in Requetes : RequeteOK(req'[s], n, long)
      BY <1>3, <2>1, <2>2, <2>3, CadreType
    <2> QED BY <2>1, <2>3, <2>4
  <1>5. 1..recues \subseteq 1..recues'
    BY <1>1
  <1>6. journal' \subseteq
          {"create_ecriture", "import_ecritures_csv", "ventes", "achats",
           "performance"} \X Nat \X (1..recues')
    <2>1. PICK O : O = {"create_ecriture", "import_ecritures_csv", "ventes",
                        "achats", "performance"}
      OBVIOUS
    <2>2. journal \subseteq O \X Nat \X (1..recues)
      BY <2>1 DEF TypeOK
    <2>3. O \X Nat \X (1..recues) \subseteq O \X Nat \X (1..recues')
      BY <1>5
    <2> QED BY <1>1, <2>1, <2>2, <2>3
  <1>7. origines' \in Seq((1..recues') \X (Nat \ {0}))
    <2>1. (1..recues) \X (Nat \ {0}) \subseteq (1..recues') \X (Nat \ {0})
      BY <1>5
    <2>2. \A i \in 1..Len(origines) : origines[i] \in (1..recues) \X (Nat \ {0})
      BY DEF TypeOK
    <2>3. Len(origines) \in Nat /\ origines = [i \in 1..Len(origines) |-> origines[i]]
      BY DEF TypeOK
    <2> QED BY <1>1, <2>1, <2>2, <2>3
  <1> QED BY <1>1, <1>4, <1>6, <1>7 DEF TypeOK

\* The row that create inserts.
LEMMA LigneSuivante ==
    ASSUME NEW q, NEW n, NEW long, RequeteOK(q, n, long), q.pc = "enregistrer"
    PROVE  /\ q.lignes[q.count + 1] \in Lignes
           /\ q.count \in Nat /\ q.count + 1 <= Len(q.lignes)
           /\ q.n \in 1..n
  <1>1. /\ q.lignes \in Seq(Lignes) /\ q.count \in 0..Len(q.lignes)
        /\ q.count < Len(q.lignes) /\ Len(q.lignes) \in Nat /\ q.n \in 1..n
    BY DEF RequeteOK
  <1>2. q.count + 1 \in 1..Len(q.lignes)
    BY <1>1
  <1> QED BY <1>1, <1>2

\* The insertion of a row, or its refusal.
LEMMA TypeEnregistrer ==
    ASSUME TypeOK, NEW r \in Requetes, Enregistrer(r)
    PROVE  TypeOK'
  <1>1. PICK q, n, long, ligne :
          /\ q = req[r] /\ q.pc = "enregistrer" /\ ligne = q.lignes[q.count + 1]
          /\ n = recues /\ n \in Nat /\ long = Len(ecritures) /\ long \in Nat
          /\ RequeteOK(q, n, long)
    BY DEF TypeOK, Enregistrer, A
  <1>2. /\ ligne \in Lignes /\ q.count \in Nat /\ q.count + 1 <= Len(q.lignes)
        /\ q.n \in 1..n
    BY <1>1, LigneSuivante
  <1>3. CASE ligne.compte = Neant
    <2>1. /\ req' = [req EXCEPT ![r] = Repos]
          /\ UNCHANGED <<ecritures, recues, origines, journal>>
      BY <1>1, <1>3 DEF Enregistrer, Finir
    <2>2. RequeteOK(Repos, recues, Len(ecritures))
      BY <1>1, ReposType
    <2>3. journal' \subseteq
            {"create_ecriture", "import_ecritures_csv", "ventes", "achats",
             "performance"} \X Nat \X (1..recues)
      BY <2>1 DEF TypeOK
    <2> QED BY <2>1, <2>2, <2>3, TypeSansEcriture
  <1>4. CASE ligne.compte # Neant
    <2>1. /\ ecritures' = Append(ecritures, ligne)
          /\ origines' = Append(origines, <<q.n, q.count + 1>>)
          /\ req' = [req EXCEPT ![r] = [q EXCEPT !.pc = "tracer", !.id = long + 1]]
          /\ recues' = n /\ journal' = journal
      BY <1>1, <1>4 DEF Enregistrer, TypeOK
    <2>2. ecritures' \in Seq({l \in Lignes : l.compte # Neant})
          /\ Len(ecritures') = long + 1
      BY <1>1, <1>2, <1>4, <2>1 DEF TypeOK
    <2>3. origines' \in Seq((1..n) \X (Nat \ {0})) /\ Len(origines') = long + 1
      <3>1. /\ origines \in Seq((1..n) \X (Nat \ {0}))
            /\ Len(origines) = long
        BY <1>1 DEF TypeOK
      <3>2. PICK o : o = <<q.n, q.count + 1>>
        OBVIOUS
      <3>3. o \in (1..n) \X (Nat \ {0})
        BY <1>2, <3>2
      <3> QED BY <2>1, <3>1, <3>2, <3>3
    <2>4. PICK q1 : q1 = [q EXCEPT !.pc = "tracer", !.id = long + 1]
      OBVIOUS
    <2>5. RequeteOK(q1, n, long + 1)
      <3>1. RequeteOK(q, n, long + 1)
        BY <1>1, RequeteStable
      <3>2. q1 = [pc |-> "tracer", op |-> q.op, n |-> q.n, lignes |-> q.lignes,
                  count |-> q.count, id |-> long + 1, debut |-> q.debut,
                  ventes |-> q.ventes, achats |-> q.achats]
        BY <1>1, <2>4 DEF RequeteOK
      <3>3. "tracer" \in EtapesDe(q.op) /\ long + 1 \in 1..(long + 1)
        BY <1>1 DEF RequeteOK, EtapesDe
      <3> QED BY <1>1, <3>1, <3>2, <3>3 DEF RequeteOK
    <2>6. DOMAIN req' = Requetes /\ req'[r] = q1
          /\ \A s \in Requetes \ {r} : req'[s] = req[s]
      BY <2>1, <2>4, SlotChange
    <2>7. \A s \in Requetes : RequeteOK(req'[s], n, long + 1)
      BY <1>1, <2>5, <2>6, CadreType
    <2> QED BY <1>1, <2>1, <2>2, <2>3, <2>6, <2>7 DEF TypeOK
  <1> QED BY <1>3, <1>4

\* The audit entry of a row.
LEMMA TypeTracer ==
    ASSUME TypeOK, NEW r \in Requetes, Tracer(r)
    PROVE  TypeOK'
  <1>1. PICK q, n, long :
          /\ q = req[r] /\ q.pc = "tracer"
          /\ n = recues /\ n \in Nat /\ long = Len(ecritures) /\ long \in Nat
          /\ RequeteOK(q, n, long)
    BY DEF TypeOK, Tracer, A
  <1>2. /\ q.id \in Nat /\ q.n \in 1..n /\ q.count \in Nat
        /\ q.count + 1 <= Len(q.lignes) /\ q.op \in {"creer", "importer"}
        /\ Len(q.lignes) \in Nat
    BY <1>1 DEF RequeteOK, EtapesDe
  <1>3. /\ UNCHANGED <<ecritures, recues, origines>>
        /\ journal' = journal \cup {<<"create_ecriture", q.id, q.n>>}
    BY <1>1 DEF Tracer
  <1>4. journal' \subseteq
          {"create_ecriture", "import_ecritures_csv", "ventes", "achats",
           "performance"} \X Nat \X (1..recues)
    BY <1>1, <1>2, <1>3 DEF TypeOK
  <1>5. PICK q1 : req' = [req EXCEPT ![r] = q1] /\ RequeteOK(q1, n, long)
    <2>1. CASE q.op = "creer"
      BY <1>1, <2>1, ReposType DEF Tracer, Finir
    <2>2. CASE q.op # "creer"
      <3>1. PICK q1 : q1 = [q EXCEPT !.count = q.count + 1,
                                     !.pc = Suite(q.lignes, q.count + 1)]
        OBVIOUS
      <3>2. req' = [req EXCEPT ![r] = q1]
        BY <1>1, <2>2, <3>1 DEF Tracer, TypeOK
      <3>3. RequeteOK(q1, n, long)
        <4>1. PICK pc : pc = Suite(q.lignes, q.count + 1)
          OBVIOUS
        <4>2. q1 = [pc |-> pc, op |-> q.op, n |-> q.n, lignes |-> q.lignes,
                    count |-> q.count + 1, id |-> q.id, debut |-> q.debut,
                    ventes |-> q.ventes, achats |-> q.achats]
          BY <1>1, <3>1, <4>1 DEF RequeteOK
        <4>3. /\ q.op = "importer" /\ pc \in EtapesDe(q.op) /\ pc # "tracer"
              /\ pc = "enregistrer" => q.count + 1 < Len(q.lignes)
          BY <1>2, <2>2, <4>1 DEF EtapesDe, Suite
        <4>4. q.count + 1 \in 0..Len(q.lignes)
          BY <1>2
        <4> QED BY <1>1, <1>2, <4>2, <4>3, <4>4 DEF RequeteOK
      <3> QED BY <3>2, <3>3
    <2> QED BY <2>1, <2>2
  <1> QED BY <1>1, <1>3, <1>4, <1>5, TypeSansEcriture

\* The audit entry of an import.
LEMMA TypeCloturer ==
    ASSUME TypeOK, NEW r \in Requetes, Cloturer(r)
    PROVE  TypeOK'
  <1>1. PICK q, n, long :
          /\ q = req[r] /\ q.pc = "cloturer"
          /\ n = recues /\ n \in Nat /\ long = Len(ecritures) /\ long \in Nat
          /\ RequeteOK(q, n, long)
    BY DEF TypeOK, Cloturer, A
  <1>2. q.n \in 1..n /\ q.count \in Nat
    BY <1>1 DEF RequeteOK
  <1>3. /\ UNCHANGED <<ecritures, recues, origines>>
        /\ req' = [req EXCEPT ![r] = Repos]
        /\ journal' = journal \cup {<<"import_ecritures_csv", q.count, q.n>>}
    BY <1>1 DEF Cloturer, Finir
  <1>4. journal' \subseteq
          {"create_ecriture", "import_ecritures_csv", "ventes", "achats",
           "performance"} \X Nat \X (1..recues)
    BY <1>1, <1>2, <1>3 DEF TypeOK
  <1> QED BY <1>1, <1>3, <1>4, ReposType, TypeSansEcriture

\* The two reads of a report.
LEMMA TypeLire ==
    ASSUME TypeOK, NEW r \in Requetes, LireVentes(r) \/ LireAchats(r)
    PROVE  TypeOK'
  <1>1. PICK q, n, long :
          /\ q = req[r] /\ q.pc \in {"lire_ventes", "lire_achats"}
          /\ n = recues /\ n \in Nat /\ long = Len(ecritures) /\ long \in Nat
          /\ RequeteOK(q, n, long)
    BY DEF TypeOK, LireVentes, LireAchats, A
  <1>2. /\ UNCHANGED <<ecritures, recues, origines, journal>>
    BY DEF LireVentes, LireAchats
  <1>3. PICK v, pc, q1 :
          /\ req' = [req EXCEPT ![r] = q1]
          /\ \/ q1 = [q EXCEPT !.ventes = v, !.pc = pc]
             \/ q1 = [q EXCEPT !.achats = v, !.pc = pc]
          /\ pc \in {"lire_achats", "tracer_rapport"} /\ pc \in EtapesDe(q.op)
    <2>1. CASE LireVentes(r)
      <3>1. PICK v, pc : v = GetSalesStats(ecritures)
               /\ pc = IF q.op = "ventes" THEN "tracer_rapport" ELSE "lire_achats"
        OBVIOUS
      <3>2. req' = [req EXCEPT ![r] = [q EXCEPT !.ventes = v, !.pc = pc]]
        BY <1>1, <2>1, <3>1 DEF LireVentes, TypeOK
      <3>3. q.pc = "lire_ventes"
        BY <1>1, <2>1 DEF LireVentes, A
      <3>4. pc \in {"lire_achats", "tracer_rapport"} /\ pc \in EtapesDe(q.op)
        BY <1>1, <3>1, <3>3 DEF RequeteOK, EtapesDe
      <3> QED BY <3>2, <3>4
    <2>2. CASE LireAchats(r)
      <3>1. PICK v : v = GetPurchasesStats(ecritures)
        OBVIOUS
      <3>2. req' = [req EXCEPT ![r] = [q EXCEPT !.achats = v,
                                                !.pc = "tracer_rapport"]]
        BY <1>1, <2>2, <3>1 DEF LireAchats, TypeOK
      <3>3. q.pc = "lire_achats"
        BY <1>1, <2>2 DEF LireAchats, A
      <3>4. "tracer_rapport" \in EtapesDe(q.op)
        BY <1>1, <3>3 DEF RequeteOK, EtapesDe
      <3> QED BY <3>2, <3>4
    <2> QED BY <2>1, <2>2
  <1>4. RequeteOK(q1, n, long)
    BY <1>1, <1>3 DEF RequeteOK, EtapesDe
  <1>5. journal' \subseteq
          {"create_ecriture", "import_ecritures_csv", "ventes", "achats",
           "performance"} \X Nat \X (1..recues)
    BY <1>2 DEF TypeOK
  <1> QED BY <1>1, <1>2, <1>3, <1>4, <1>5, TypeSansEcriture

\* The audit entry of a report, with the answer.
LEMMA TypeTracerRapport ==
    ASSUME TypeOK, NEW r \in Requetes, TracerRapport(r)
    PROVE  TypeOK'
  <1>1. PICK q, n, long :
          /\ q = req[r] /\ q.pc = "tracer_rapport"
          /\ n = recues /\ n \in Nat /\ long = Len(ecritures) /\ long \in Nat
          /\ RequeteOK(q, n, long)
    BY DEF TypeOK, TracerRapport, A
  <1>2. q.n \in 1..n /\ q.op \in {"ventes", "achats", "performance"}
    BY <1>1 DEF RequeteOK, EtapesDe
  <1>3. /\ UNCHANGED <<ecritures, recues, origines>>
        /\ req' = [req EXCEPT ![r] = Repos]
        /\ journal' = journal \cup {<<q.op, 0, q.n>>}
    BY <1>1 DEF TracerRapport, Finir
  <1>4. journal' \subseteq
          {"create_ecriture", "import_ecritures_csv", "ventes", "achats",
           "performance"} \X Nat \X (1..recues)
    BY <1>1, <1>2, <1>3 DEF TypeOK
  <1> QED BY <1>1, <1>3, <1>4, ReposType, TypeSansEcriture

\* A failing call.
LEMMA TypeEchouer ==
    ASSUME TypeOK, NEW r \in Requetes, Echouer(r)
    PROVE  TypeOK'
  <1>1. /\ UNCHANGED <<ecritures, recues, origines, journal>>
        /\ req' = [req EXCEPT ![r] = Repos]
    BY DEF Echouer, Finir
  <1>2. RequeteOK(Repos, recues, Len(ecritures))
    BY ReposType DEF TypeOK
  <1>3. journal' \subseteq
          {"create_ecriture", "import_ecritures_csv", "ventes", "achats",
           "performance"} \X Nat \X (1..recues)
    BY <1>1 DEF TypeOK
  <1> QED BY <1>1, <1>2, <1>3, TypeSansEcriture

\* Every step keeps the tables and the requests typed.
THEOREM TypePas == TypeOK /\ [Next]_vars => TypeOK'
  <1> SUFFICES ASSUME TypeOK, [Next]_vars PROVE TypeOK'
    OBVIOUS
  <1>1. CASE UNCHANGED vars
    BY <1>1 DEF vars, TypeOK
  <1>2. CASE Next
    BY <1>2, TypeRecevoir, TypeEnregistrer, TypeTracer, TypeCloturer, TypeLire,
       TypeTracerRapport, TypeEchouer DEF Next, Avancer
  <1> QED BY <1>1, <1>2

\* The journal of entries, the audit trail and the requests in progress keep
\* their types for any files and any number of requests.
THEOREM TypeCorrecte == Spec => []TypeOK
  <1> QED BY TypeInit, TypePas, PTL DEF Spec
-----------------------------------------------------------------------------
\* The ids in the table o of the entries that request n created, and how many
\* rows the request q has inserted.
IdsDe(o, n) == {id \in DOMAIN o : o[id][1] = n}
Faites(q) == IF q.pc = "tracer" THEN q.count + 1 ELSE q.count

\* A request has inserted as many entries as it says, all audited but the last
\* one before its audit entry; and it is not reported yet as an import.
SuiviImport(q, o, j) ==
    q.pc # "repos" =>
      /\ Cardinality(IdsDe(o, q.n)) = Faites(q)
      /\ \A id \in IdsDe(o, q.n) :
            \/ q.pc = "tracer" /\ id = q.id
            \/ <<"create_ecriture", id, q.n>> \in j
      /\ \A e \in j : e[1] = "import_ecritures_csv" => e[3] # q.n

Distincts ==
    \A r, s \in Requetes :
        r # s /\ req[r].pc # "repos" /\ req[s].pc # "repos"
           => req[r].n # req[s].n

InvImport ==
    /\ Distincts
    /\ \A r \in Requetes : SuiviImport(req[r], origines, journal)
    /\ ImportEnPrefixe /\ ImportAnnonce

\* The entries of a request are finitely many, and ids of the table.
LEMMA IdsFinis ==
    ASSUME NEW S, NEW o \in Seq(S), NEW n
    PROVE  /\ IsFiniteSet(IdsDe(o, n)) /\ IdsDe(o, n) \subseteq 1..Len(o)
           /\ Cardinality(IdsDe(o, n)) \in Nat
  <1>1. IdsDe(o, n) \subseteq 1..Len(o) /\ Len(o) \in Nat
    BY DEF IdsDe
  <1>2. IsFiniteSet(1..Len(o))
    BY <1>1, FS_Interval
  <1>3. IsFiniteSet(IdsDe(o, n))
    BY <1>1, <1>2, FS_Subset
  <1> QED BY <1>1, <1>3, FS_CardinalityType

\* An entry that is appended is its request's, at the next rank; the others
\* keep theirs.
LEMMA EntreePlus ==
    ASSUME NEW S, NEW o \in Seq(S), NEW x \in S, NEW n
    PROVE  LET p == Append(o, x)
               id == Len(o) + 1
           IN  /\ p[id] = x /\ DOMAIN p = DOMAIN o \cup {id}
               /\ id \notin DOMAIN o /\ \A j \in DOMAIN o : p[j] = o[j] /\ j < id
               /\ IdsDe(p, n) = IdsDe(o, n) \cup (IF x[1] = n THEN {id} ELSE {})
               /\ x[1] = n =>
                    Cardinality(IdsDe(p, n)) = Cardinality(IdsDe(o, n)) + 1
  <1> DEFINE p == Append(o, x)
             id == Len(o) + 1
  <1>1. /\ p[id] = x /\ DOMAIN p = DOMAIN o \cup {id}
        /\ id \notin DOMAIN o /\ \A j \in DOMAIN o : p[j] = o[j] /\ j < id
    <2>1. p \in Seq(S) /\ Len(p) = id /\ p[id] = x /\ Len(o) \in Nat
          /\ \A j \in 1..Len(o) : p[j] = o[j]
      OBVIOUS
    <2>2. DOMAIN p = 1..id /\ DOMAIN o = 1..Len(o)
      BY <2>1
    <2> QED BY <2>1, <2>2
  <1> HIDE DEF p, id
  <1>2. IdsDe(p, n) = IdsDe(o, n) \cup (IF x[1] = n THEN {id} ELSE {})
    BY <1>1 DEF IdsDe
  <1>3. x[1] = n => Cardinality(IdsDe(p, n)) = Cardinality(IdsDe(o, n)) + 1
    <2>1. id \notin IdsDe(o, n) /\ IsFiniteSet(IdsDe(o, n))
      BY <1>1, IdsFinis DEF IdsDe
    <2> QED BY <1>2, <2>1, FS_AddElement
  <1> QED BY <1>1, <1>2, <1>3 DEF p, id

\* The rank of an entry, in the table o.
RangDans(o, n, id) == Cardinality({j \in IdsDe(o, n) : j <= id})

\* Ranks after an entry is appended.
LEMMA RangPlus ==
    ASSUME NEW S, NEW o \in Seq(S), NEW x \in S
    PROVE  LET p == Append(o, x)
           IN  /\ \A n, id : id \in IdsDe(o, n) =>
                     RangDans(p, n, id) = RangDans(o, n, id)
               /\ RangDans(p, x[1], Len(o) + 1)
                     = Cardinality(IdsDe(o, x[1])) + 1
  <1> DEFINE p == Append(o, x)
             k == Len(o) + 1
  <1>1. k \in Int /\ \A j \in DOMAIN o : j \in Int /\ j < k
    <2>1. Len(o) \in Nat /\ DOMAIN o = 1..Len(o)
      OBVIOUS
    <2> QED BY <2>1
  <1>2. \A n : /\ IdsDe(p, n) = IdsDe(o, n) \cup (IF x[1] = n THEN {k} ELSE {})
               /\ IdsDe(o, n) \subseteq DOMAIN o
    BY EntreePlus DEF IdsDe
  <1>3. Cardinality(IdsDe(p, x[1])) = Cardinality(IdsDe(o, x[1])) + 1
    BY EntreePlus
  <1> HIDE DEF p, k
  <1>4. ASSUME NEW n, NEW id \in IdsDe(o, n)
        PROVE  RangDans(p, n, id) = RangDans(o, n, id)
    <2>1. id \in Int /\ id < k /\ ~(k <= id)
      BY <1>1, <1>2
    <2>2. {j \in IdsDe(p, n) : j <= id} = {j \in IdsDe(o, n) : j <= id}
      BY <1>2, <2>1
    <2> QED BY <2>2 DEF RangDans
  <1>5. RangDans(p, x[1], k) = Cardinality(IdsDe(p, x[1]))
    <2>1. \A j \in IdsDe(p, x[1]) : j <= k
      BY <1>1, <1>2
    <2>2. {j \in IdsDe(p, x[1]) : j <= k} = IdsDe(p, x[1])
      BY <2>1
    <2> QED BY <2>2 DEF RangDans
  <1> QED BY <1>3, <1>4, <1>5 DEF p, k

\* What the history properties say in terms of the table of origins.
LEMMA ImportsDecoupe ==
    /\ ImportEnPrefixe <=>
         \A n \in 1..recues : \A id \in IdsDe(origines, n) :
            origines[id][2] = RangDans(origines, n, id)
    /\ ImportAnnonce <=>
         \A e \in journal : e[1] = "import_ecritures_csv" =>
            /\ e[2] = Cardinality(IdsDe(origines, e[3]))
            /\ \A id \in IdsDe(origines, e[3]) :
                  <<"create_ecriture", id, e[3]>> \in journal
  BY DEF ImportEnPrefixe, ImportAnnonce, LignesDe, Rang, IdsDe, RangDans

\* The same about the next state.
LEMMA ImportsDecoupeSuivant ==
    /\ ImportEnPrefixe' <=>
         \A n \in 1..recues' : \A id \in IdsDe(origines', n) :
            origines'[id][2] = RangDans(origines', n, id)
    /\ ImportAnnonce' <=>
         \A e \in journal' : e[1] = "import_ecritures_csv" =>
            /\ e[2] = Cardinality(IdsDe(origines', e[3]))
            /\ \A id \in IdsDe(origines', e[3]) :
                  <<"create_ecriture", id, e[3]>> \in journal'
  BY DEF ImportEnPrefixe, ImportAnnonce, LignesDe, Rang, IdsDe, RangDans

\* A step that inserts nothing: entries of the audit trail are added, the import
\* among them being that of the request itself, which ends.
LEMMA CadreImport ==
    ASSUME TypeOK, InvImport, NEW r \in Requetes, req[r].pc # "repos",
           \A s \in Requetes \ {r} : req'[s] = req[s],
           req'[r].pc = "repos" \/ req'[r].n = req[r].n,
           origines' = origines, recues' = recues, journal \subseteq journal',
           \A e \in journal' \ journal : e[1] = "import_ecritures_csv" =>
              /\ e[3] = req[r].n
              /\ e[2] = Cardinality(IdsDe(origines, e[3]))
              /\ \A id \in IdsDe(origines, e[3]) :
                    <<"create_ecriture", id, e[3]>> \in journal,
           SuiviImport(req'[r], origines, journal')
    PROVE  InvImport'
  <1>1. Distincts'
    BY DEF InvImport, Distincts
  <1>2. \A s \in Requetes : SuiviImport(req'[s], origines', journal')
    <2> SUFFICES ASSUME NEW s \in Requetes \ {r}
                 PROVE  SuiviImport(req[s], origines, journal')
      OBVIOUS
    <2>1. SuiviImport(req[s], origines, journal)
      BY DEF InvImport
    <2>2. req[s].pc # "repos" => req[s].n # req[r].n
      BY DEF InvImport, Distincts
    <2> QED BY <2>1, <2>2 DEF SuiviImport
  <1>3. ImportEnPrefixe'
    BY ImportsDecoupe, ImportsDecoupeSuivant DEF InvImport
  <1>4. ImportAnnonce'
    BY ImportsDecoupe, ImportsDecoupeSuivant DEF InvImport
  <1> QED BY <1>1, <1>2, <1>3, <1>4 DEF InvImport

\* A request that comes has inserted nothing.
LEMMA ImportRecevoir ==
    ASSUME TypeOK, TypeOK', InvImport, NEW r \in Requetes, Recevoir(r)
    PROVE  InvImport'
  <1>1. /\ recues \in Nat /\ recues' = recues + 1
        /\ UNCHANGED <<journal, origines>>
    BY MaxRequetesAssumption DEF TypeOK, Recevoir
  <1>2. /\ \A s \in Requetes \ {r} : req'[s] = req[s]
        /\ req'[r].n = recues + 1 /\ req'[r].count = 0
        /\ req'[r].pc # "tracer"
    <2>1. PICK op, pc, lignes : Commencer(r, op, pc, lignes) /\ pc # "tracer"
      <3>1. CASE \E s \in Saisies : Commencer(r, "creer", "enregistrer", <<s>>)
        BY <3>1
      <3>2. CASE \E f \in Fichiers : Commencer(r, "importer", Suite(f, 0), f)
        <4>1. \A f : Suite(f, 0) # "tracer"
          BY DEF Suite
        <4> QED BY <3>2, <4>1
      <3>3. CASE \E op \in Rapports :
                   Commencer(r, op, IF op = "achats" THEN "lire_achats"
                                                     ELSE "lire_ventes", <<>>)
        <4>1. PICK op, pc : /\ pc = IF op = "achats" THEN "lire_achats"
                                                     ELSE "lire_ventes"
                            /\ Commencer(r, op, pc, <<>>)
          BY <3>3
        <4> QED BY <4>1
      <3> QED BY <3>1, <3>2, <3>3 DEF Recevoir
    <2>2. PICK q : /\ req' = [req EXCEPT ![r] = q] /\ q.n = recues + 1
                   /\ q.count = 0 /\ q.pc = pc
      <3>1. PICK q : /\ req' = [req EXCEPT ![r] = q]
                     /\ q = [Repos EXCEPT !.pc = pc, !.op = op, !.n = recues + 1,
                                          !.lignes = lignes, !.debut = Len(ecritures)]
        BY <2>1 DEF Commencer
      <3>2. q = [pc |-> pc, op |-> op, n |-> recues + 1, lignes |-> lignes,
                 count |-> 0, id |-> 0, debut |-> Len(ecritures),
                 ventes |-> 0, achats |-> 0]
        BY <3>1 DEF Repos
      <3> QED BY <3>1, <3>2
    <2> QED BY <2>1, <2>2, SlotChange
  <1>3. /\ \A s \in Requetes : req[s].pc # "repos" => req[s].n \in 1..recues
        /\ \A e \in journal : e[3] \in 1..recues
        /\ \A id \in DOMAIN origines : origines[id][1] \in 1..recues
    <2>1. \A s \in Requetes : req[s].pc # "repos" => req[s].n \in 1..recues
      BY DEF TypeOK, RequeteOK
    <2>2. \A e \in journal : e[3] \in 1..recues
      BY DEF TypeOK
    <2>3. \A id \in DOMAIN origines : origines[id] \in (1..recues) \X (Nat \ {0})
      BY DEF TypeOK
    <2> QED BY <2>1, <2>2, <2>3
  <1>4. recues + 1 \notin 1..recues
    BY <1>1
  <1>5. IdsDe(origines, recues + 1) = {}
    BY <1>3, <1>4 DEF IdsDe
  <1>6. Distincts'
    BY <1>2, <1>3, <1>4 DEF InvImport, Distincts
  <1>7. SuiviImport(req'[r], origines, journal)
    <2>1. Cardinality(IdsDe(origines, recues + 1)) = 0
      BY <1>5, FS_EmptySet
    <2> QED BY <1>2, <1>3, <1>4, <1>5, <2>1 DEF SuiviImport, Faites
  <1>8. \A s \in Requetes : SuiviImport(req'[s], origines', journal')
    BY <1>1, <1>2, <1>7 DEF InvImport
  <1>9. ImportEnPrefixe'
    <2>1. \A n \in 1..recues' : n \in 1..recues \/ n = recues + 1
      BY <1>1
    <2> QED BY <1>1, <1>5, <2>1, ImportsDecoupe, ImportsDecoupeSuivant DEF InvImport
  <1>10. ImportAnnonce'
    BY <1>1, ImportsDecoupe, ImportsDecoupeSuivant DEF InvImport
  <1> QED BY <1>6, <1>8, <1>9, <1>10 DEF InvImport

\* The insertion of a row, or its refusal.
LEMMA ImportEnregistrer ==
    ASSUME TypeOK, InvImport, NEW r \in Requetes, Enregistrer(r)
    PROVE  InvImport'
  <1>1. PICK q, ligne :
          /\ q = req[r] /\ q.pc = "enregistrer" /\ ligne = q.lignes[q.count + 1]
          /\ q.count \in Nat /\ q.n \in 1..recues
    <2>1. RequeteOK(req[r], recues, Len(ecritures)) /\ req[r].pc = "enregistrer"
      BY DEF TypeOK, Enregistrer, A
    <2> QED BY <2>1, LigneSuivante
  <1>2. CASE ligne.compte = Neant
    <2>1. /\ req' = [req EXCEPT ![r] = Repos]
          /\ UNCHANGED <<ecritures, recues, origines, journal>>
      BY <1>1, <1>2 DEF Enregistrer, Finir
    <2>2. req'[r].pc = "repos" /\ \A s \in Requetes \ {r} : req'[s] = req[s]
      BY <2>1, SlotChange DEF Repos
    <2>3. SuiviImport(req'[r], origines, journal')
      BY <2>2 DEF SuiviImport
    <2> QED BY <1>1, <2>1, <2>2, <2>3, CadreImport
  <1>3. CASE ligne.compte # Neant
    <2>1. PICK S, o, x, k, q1 :
            /\ S = (1..recues) \X (Nat \ {0}) /\ o = origines /\ o \in Seq(S)
            /\ x = <<q.n, q.count + 1>> /\ k = Len(o) + 1
            /\ q1 = [q EXCEPT !.pc = "tracer", !.id = k]
      BY DEF TypeOK
    <2>2. /\ origines' = Append(o, x) /\ x \in S
          /\ x[1] = q.n /\ x[2] = q.count + 1
          /\ req' = [req EXCEPT ![r] = q1]
          /\ recues' = recues /\ journal' = journal
      <3>1. req' = [req EXCEPT ![r] = [q EXCEPT !.pc = "tracer",
                                               !.id = Len(ecritures) + 1]]
        BY <1>1, <1>3 DEF Enregistrer, TypeOK
      <3>2. Len(ecritures) = Len(o)
        BY <2>1 DEF TypeOK
      <3>3. /\ origines' = Append(o, x) /\ recues' = recues /\ journal' = journal
        BY <1>1, <1>3, <2>1 DEF Enregistrer
      <3>4. x \in S /\ x[1] = q.n /\ x[2] = q.count + 1
        BY <1>1, <2>1
      <3> QED BY <2>1, <3>1, <3>2, <3>3, <3>4
    <2>3. /\ q1.pc = "tracer" /\ q1.id = k /\ q1.n = q.n /\ q1.count = q.count
      BY <1>1, <2>1 DEF TypeOK, RequeteOK
    <2>4. req'[r] = q1 /\ \A s \in Requetes \ {r} : req'[s] = req[s]
      BY <2>2, SlotChange
    <2>5. PICK p : p = Append(o, x)
      OBVIOUS
    <2>6. /\ p[k] = x /\ k \notin DOMAIN o /\ \A j \in DOMAIN o : p[j] = o[j]
          /\ \A m : IdsDe(p, m) = IdsDe(o, m) \cup (IF x[1] = m THEN {k} ELSE {})
          /\ Cardinality(IdsDe(p, q.n)) = Cardinality(IdsDe(o, q.n)) + 1
          /\ \A m, id : id \in IdsDe(o, m) => RangDans(p, m, id) = RangDans(o, m, id)
          /\ RangDans(p, q.n, k) = Cardinality(IdsDe(o, q.n)) + 1
      BY <2>1, <2>2, <2>5, EntreePlus, RangPlus
    <2>7. /\ SuiviImport(q, o, journal)
          /\ Cardinality(IdsDe(o, q.n)) = q.count
      BY <1>1, <2>1 DEF InvImport, SuiviImport, Faites
    <2>8. Distincts'
      BY <1>1, <2>3, <2>4 DEF InvImport, Distincts
    <2>9. SuiviImport(q1, p, journal)
      <3>1. IdsDe(p, q.n) = IdsDe(o, q.n) \cup {k}
        BY <2>2, <2>6
      <3> QED BY <1>1, <2>3, <2>6, <2>7, <3>1 DEF SuiviImport, Faites
    <2>10. \A s \in Requetes : SuiviImport(req'[s], origines', journal')
      <3> SUFFICES ASSUME NEW s \in Requetes \ {r}
                   PROVE  SuiviImport(req[s], p, journal)
        BY <2>2, <2>4, <2>5, <2>9
      <3>1. SuiviImport(req[s], o, journal)
        BY <2>1 DEF InvImport
      <3>2. req[s].pc # "repos" => req[s].n # q.n
        BY <1>1 DEF InvImport, Distincts
      <3>3. req[s].pc # "repos" => IdsDe(p, req[s].n) = IdsDe(o, req[s].n)
        BY <2>2, <2>6, <3>2
      <3> QED BY <3>1, <3>3 DEF SuiviImport
    <2>11. ImportEnPrefixe'
      <3>1. ASSUME NEW n \in 1..recues, NEW id \in IdsDe(p, n)
            PROVE  p[id][2] = RangDans(p, n, id)
        <4>1. CASE id \in IdsDe(o, n)
          <5>1. o[id][2] = RangDans(o, n, id)
            BY <2>1, <4>1, ImportsDecoupe DEF InvImport
          <5>2. p[id] = o[id]
            BY <2>6, <4>1 DEF IdsDe
          <5> QED BY <2>6, <4>1, <5>1, <5>2
        <4>2. CASE id \notin IdsDe(o, n)
          <5>1. n = q.n /\ id = k
            BY <2>2, <2>6, <4>2
          <5> QED BY <2>2, <2>6, <2>7, <5>1
        <4> QED BY <4>1, <4>2
      <3> QED BY <2>2, <2>5, <3>1, ImportsDecoupeSuivant
    <2>12. ImportAnnonce'
      <3>1. ASSUME NEW e \in journal, e[1] = "import_ecritures_csv"
            PROVE  IdsDe(p, e[3]) = IdsDe(o, e[3])
        BY <1>1, <2>2, <2>6, <2>7, <3>1 DEF SuiviImport
      <3>2. ImportAnnonce
        BY DEF InvImport
      <3> QED BY <2>1, <2>2, <2>5, <3>1, <3>2, ImportsDecoupe, ImportsDecoupeSuivant
    <2> QED BY <2>8, <2>10, <2>11, <2>12 DEF InvImport
  <1> QED BY <1>2, <1>3

\* The audit entry of a row.
LEMMA ImportTracer ==
    ASSUME TypeOK, InvImport, NEW r \in Requetes, Tracer(r)
    PROVE  InvImport'
  <1>1. PICK q :
          /\ q = req[r] /\ q.pc = "tracer" /\ q.count \in Nat
          /\ q = [pc |-> q.pc, op |-> q.op, n |-> q.n, lignes |-> q.lignes,
                  count |-> q.count, id |-> q.id, debut |-> q.debut,
                  ventes |-> q.ventes, achats |-> q.achats]
    <2>1. RequeteOK(req[r], recues, Len(ecritures)) /\ req[r].pc = "tracer"
      BY DEF TypeOK, Tracer, A
    <2>2. Len(req[r].lignes) \in Nat /\ req[r].count \in 0..Len(req[r].lignes)
      BY <2>1 DEF RequeteOK
    <2> QED BY <2>1, <2>2 DEF RequeteOK
  <1>2. /\ UNCHANGED <<recues, origines>>
        /\ journal' = journal \cup {<<"create_ecriture", q.id, q.n>>}
    BY <1>1 DEF Tracer
  <1>3. PICK q1 : /\ req' = [req EXCEPT ![r] = q1]
                  /\ \/ q1.pc = "repos"
                     \/ /\ q1.pc \in {"enregistrer", "cloturer"}
                        /\ q1.n = q.n /\ q1.count = q.count + 1
    <2>1. CASE q.op = "creer"
      <3>1. req' = [req EXCEPT ![r] = Repos] /\ Repos.pc = "repos"
        BY <1>1, <2>1 DEF Tracer, Finir, Repos
      <3> QED BY <3>1
    <2>2. CASE q.op # "creer"
      <3>1. PICK pc, q1 : /\ pc = Suite(q.lignes, q.count + 1)
                          /\ q1 = [q EXCEPT !.count = q.count + 1, !.pc = pc]
        OBVIOUS
      <3>2. req' = [req EXCEPT ![r] = q1]
        BY <1>1, <2>2, <3>1 DEF Tracer, TypeOK
      <3>3. q1 = [pc |-> pc, op |-> q.op, n |-> q.n, lignes |-> q.lignes,
                  count |-> q.count + 1, id |-> q.id, debut |-> q.debut,
                  ventes |-> q.ventes, achats |-> q.achats]
        BY <1>1, <3>1
      <3>4. pc \in {"enregistrer", "cloturer"}
        BY <3>1 DEF Suite
      <3>5. q1.pc = pc /\ q1.n = q.n /\ q1.count = q.count + 1
        BY <3>3
      <3> QED BY <3>2, <3>4, <3>5
    <2> QED BY <2>1, <2>2
  <1>4. req'[r] = q1 /\ \A s \in Requetes \ {r} : req'[s] = req[s]
    BY <1>3, SlotChange
  <1>5. SuiviImport(q1, origines, journal')
    <2>1. SuiviImport(q, origines, journal)
      BY <1>1 DEF InvImport
    <2>2. PICK n, I, o, j : /\ n = q.n /\ o = origines /\ j = journal'
                            /\ I = IdsDe(o, n)
      OBVIOUS
    <2>3. /\ Cardinality(I) = q.count + 1
          /\ \A id \in I : <<"create_ecriture", id, n>> \in j
          /\ \A e \in j : e[1] = "import_ecritures_csv" => e[3] # n
      BY <1>1, <1>2, <2>1, <2>2 DEF SuiviImport, Faites
    <2>4. CASE q1.pc # "repos"
      <3>1. q1.pc # "tracer" /\ q1.n = n /\ Faites(q1) = q.count + 1
        BY <1>3, <2>2, <2>4 DEF Faites
      <3> QED BY <2>2, <2>3, <3>1 DEF SuiviImport
    <2>5. CASE q1.pc = "repos"
      BY <2>5 DEF SuiviImport
    <2> QED BY <2>4, <2>5
  <1>6. /\ journal \subseteq journal'
        /\ \A e \in journal' \ journal : e[1] # "import_ecritures_csv"
    BY <1>2
  <1> QED BY <1>1, <1>2, <1>3, <1>4, <1>5, <1>6, CadreImport

\* The audit entry of an import: what it reports is what the request inserted.
LEMMA ImportCloturer ==
    ASSUME TypeOK, InvImport, NEW r \in Requetes, Cloturer(r)
    PROVE  InvImport'
  <1>1. /\ UNCHANGED <<recues, origines>> /\ req[r].pc = "cloturer"
        /\ req' = [req EXCEPT ![r] = Repos]
        /\ journal' = journal \cup
             {<<"import_ecritures_csv", req[r].count, req[r].n>>}
    BY DEF Cloturer, Finir, A
  <1>2. req'[r].pc = "repos" /\ \A s \in Requetes \ {r} : req'[s] = req[s]
    BY <1>1, SlotChange DEF Repos
  <1>3. SuiviImport(req'[r], origines, journal')
    BY <1>2 DEF SuiviImport
  <1>4. SuiviImport(req[r], origines, journal)
    BY DEF InvImport
  <1>5. \A e \in journal' \ journal :
           /\ e[3] = req[r].n
           /\ e[2] = Cardinality(IdsDe(origines, e[3]))
           /\ \A id \in IdsDe(origines, e[3]) :
                 <<"create_ecriture", id, e[3]>> \in journal
    BY <1>1, <1>4 DEF SuiviImport, Faites
  <1> QED BY <1>1, <1>2, <1>3, <1>5, CadreImport

\* A step of a report, or a call that fails.
LEMMA ImportAutres ==
    ASSUME TypeOK, InvImport, NEW r \in Requetes,
           LireVentes(r) \/ LireAchats(r) \/ TracerRapport(r) \/ Echouer(r)
    PROVE  InvImport'
  <1>1. /\ UNCHANGED <<recues, origines>> /\ req[r].pc # "repos"
        /\ journal \subseteq journal'
        /\ \A e \in journal' \ journal : e[1] # "import_ecritures_csv"
    <2>1. CASE LireVentes(r) \/ LireAchats(r) \/ Echouer(r)
      BY <2>1 DEF LireVentes, LireAchats, Echouer, A
    <2>2. CASE TracerRapport(r)
      <3>1. RequeteOK(req[r], recues, Len(ecritures)) /\ req[r].pc = "tracer_rapport"
        BY <2>2 DEF TypeOK, TracerRapport, A
      <3>2. req[r].op # "import_ecritures_csv"
        BY <3>1 DEF RequeteOK
      <3> QED BY <2>2, <3>1, <3>2 DEF TracerRapport
    <2> QED BY <2>1, <2>2
  <1>2. PICK q1 :
          /\ req' = [req EXCEPT ![r] = q1]
          /\ \/ q1.pc = "repos"
             \/ /\ req[r].pc \notin {"tracer"} /\ q1.pc # "tracer"
                /\ q1.n = req[r].n /\ q1.count = req[r].count
    <2>1. CASE TracerRapport(r) \/ Echouer(r)
      <3>1. req' = [req EXCEPT ![r] = Repos] /\ Repos.pc = "repos"
        BY <2>1 DEF TracerRapport, Echouer, Finir, Repos
      <3> QED BY <3>1
    <2>2. CASE LireVentes(r) \/ LireAchats(r)
      <3>1. PICK v, pc, q1 :
              /\ req' = [req EXCEPT ![r] = q1]
              /\ \/ q1 = [req[r] EXCEPT !.ventes = v, !.pc = pc]
                 \/ q1 = [req[r] EXCEPT !.achats = v, !.pc = pc]
              /\ pc \in {"lire_achats", "tracer_rapport"}
        <4>1. CASE LireVentes(r)
          <5>1. PICK v, pc : v = GetSalesStats(ecritures)
                   /\ pc = IF req[r].op = "ventes" THEN "tracer_rapport"
                                                   ELSE "lire_achats"
            OBVIOUS
          <5>2. req' = [req EXCEPT ![r] = [req[r] EXCEPT !.ventes = v, !.pc = pc]]
            BY <4>1, <5>1 DEF LireVentes, TypeOK
          <5> QED BY <5>1, <5>2
        <4>2. CASE LireAchats(r)
          <5>1. PICK v : v = GetPurchasesStats(ecritures)
            OBVIOUS
          <5>2. req' = [req EXCEPT ![r] = [req[r] EXCEPT !.achats = v,
                                                        !.pc = "tracer_rapport"]]
            BY <4>2, <5>1 DEF LireAchats, TypeOK
          <5> QED BY <5>2
        <4> QED BY <2>2, <4>1, <4>2
      <3>2. /\ req[r] = [pc |-> req[r].pc, op |-> req[r].op, n |-> req[r].n,
                         lignes |-> req[r].lignes, count |-> req[r].count,
                         id |-> req[r].id, debut |-> req[r].debut,
                         ventes |-> req[r].ventes, achats |-> req[r].achats]
            /\ req[r].pc \in {"lire_ventes", "lire_achats"}
        BY <2>2 DEF TypeOK, RequeteOK, LireVentes, LireAchats, A
      <3>3. q1.n = req[r].n /\ q1.count = req[r].count /\ q1.pc = pc
        BY <3>1, <3>2
      <3> QED BY <3>1, <3>2, <3>3
    <2> QED BY <2>1, <2>2
  <1>3. req'[r] = q1 /\ \A s \in Requetes \ {r} : req'[s] = req[s]
    BY <1>2, SlotChange
  <1>4. SuiviImport(q1, origines, journal')
    <2>1. SuiviImport(req[r], origines, journal)
      BY DEF InvImport
    <2> QED BY <1>1, <1>2, <2>1 DEF SuiviImport, Faites
  <1> QED BY <1>1, <1>2, <1>3, <1>4, CadreImport

\* The first state.
THEOREM ImportInit == Init => InvImport
  <1> SUFFICES ASSUME Init PROVE InvImport
    OBVIOUS
  <1>1. \A r \in Requetes : req[r].pc = "repos"
    BY DEF Init, Repos
  <1>2. journal = {} /\ recues = 0
    BY DEF Init
  <1>3. Distincts /\ \A r \in Requetes : SuiviImport(req[r], origines, journal)
    BY <1>1 DEF Distincts, SuiviImport
  <1>4. ImportEnPrefixe /\ ImportAnnonce
    BY <1>2 DEF ImportEnPrefixe, ImportAnnonce
  <1> QED BY <1>3, <1>4 DEF InvImport

\* Every step keeps the imports in the order of their files.
THEOREM ImportPas == TypeOK /\ InvImport /\ [Next]_vars => InvImport'
  <1> SUFFICES ASSUME TypeOK, InvImport, [Next]_vars PROVE InvImport'
    OBVIOUS
  <1>1. CASE UNCHANGED vars
    BY <1>1 DEF vars, InvImport, Distincts, SuiviImport, ImportEnPrefixe,
       ImportAnnonce, LignesDe, Rang
  <1>2. CASE Next
    <2>1. TypeOK'
      BY TypePas
    <2> QED BY <1>2, <2>1, ImportRecevoir, ImportEnregistrer, ImportTracer,
            ImportCloturer, ImportAutres DEF Next, Avancer
  <1> QED BY <1>1, <1>2

\* Whatever is created or imported at the same time and wherever an import
\* stops, what it leaves in the journal of entries is the first rows of its
\* file, each once and in the order of the file.
THEOREM ImportsEnPrefixe == Spec => []ImportEnPrefixe
  <1>1. InvImport => ImportEnPrefixe
    BY DEF InvImport
  <1> QED BY <1>1, TypeInit, TypePas, ImportInit, ImportPas, PTL DEF Spec

\* An import that is reported with a count has saved and audited that many
\* entries.
THEOREM ImportsAnnonces == Spec => []ImportAnnonce
  <1>1. InvImport => ImportAnnonce
    BY DEF InvImport
  <1> QED BY <1>1, TypeInit, TypePas, ImportInit, ImportPas, PTL DEF Spec
-----------------------------------------------------------------------------
\* The sales and the purchases of the first entries of the table e.
VentesDe(e, v) == GetSalesStats(SubSeq(e, 1, v))
AchatsDe(e, a) == GetPurchasesStats(SubSeq(e, 1, a))

\* What a report in progress has read is the journal e at two moments since the
\* request, the second not before the first.
SuiviRapport(q, e) ==
    /\ q.pc = "lire_achats" /\ q.op = "performance" =>
         \E v \in q.debut..Len(e) : q.ventes = VentesDe(e, v)
    /\ q.pc = "tracer_rapport" =>
         \E v \in q.debut..Len(e) : \E a \in v..Len(e) :
            /\ q.op # "achats" => q.ventes = VentesDe(e, v)
            /\ q.op # "ventes" => q.achats = AchatsDe(e, a)

\* A report answered stays true of the journal of its time: the entries it was
\* computed from keep their places.
RenduFidele(q, e) ==
    /\ q.debut \in Nat /\ q.fin \in 0..Len(e)
    /\ \E v \in q.debut..q.fin : \E a \in v..q.fin :
          /\ q.op # "achats" => q.ventes = VentesDe(e, v)
          /\ q.op # "ventes" => q.achats = AchatsDe(e, a)
          /\ q.marge = q.ventes - q.achats

InvRapport ==
    /\ \A r \in Requetes : SuiviRapport(req[r], ecritures)
    /\ \A q \in rendus : RenduFidele(q, ecritures)

\* The first entries of a table do not change when one is appended.
LEMMA EtatStable ==
    ASSUME NEW S, NEW e \in Seq(S), NEW x \in S
    PROVE  /\ Len(Append(e, x)) = Len(e) + 1 /\ Len(e) \in Nat
           /\ \A k \in 0..Len(e) : /\ VentesDe(Append(e, x), k) = VentesDe(e, k)
                                   /\ AchatsDe(Append(e, x), k) = AchatsDe(e, k)
  <1>1. \A k \in 0..Len(e) : SubSeq(Append(e, x), 1, k) = SubSeq(e, 1, k)
    <2> SUFFICES ASSUME NEW k \in 0..Len(e)
                 PROVE  SubSeq(Append(e, x), 1, k) = SubSeq(e, 1, k)
      OBVIOUS
    <2>1. \A i \in 1..k : Append(e, x)[i] = e[i]
      OBVIOUS
    <2> QED BY <2>1
  <1>2. \A k \in 0..Len(e) : /\ VentesDe(Append(e, x), k) = VentesDe(e, k)
                            /\ AchatsDe(Append(e, x), k) = AchatsDe(e, k)
    BY <1>1, Zenon DEF VentesDe, AchatsDe
  <1> QED BY <1>2

\* The journal of now is the whole of its entries.
LEMMA EtatPresent ==
    ASSUME NEW S, NEW e \in Seq(S)
    PROVE  /\ Len(e) \in Nat
           /\ VentesDe(e, Len(e)) = GetSalesStats(e)
           /\ AchatsDe(e, Len(e)) = GetPurchasesStats(e)
  <1>1. SubSeq(e, 1, Len(e)) = e
    OBVIOUS
  <1>2. /\ VentesDe(e, Len(e)) = GetSalesStats(e)
        /\ AchatsDe(e, Len(e)) = GetPurchasesStats(e)
    BY <1>1, Zenon DEF VentesDe, AchatsDe
  <1> QED BY <1>2

\* An entry that is appended leaves a report in progress as true as it was.
LEMMA SuiviPlus ==
    ASSUME NEW S, NEW e \in Seq(S), NEW x \in S, NEW q, q.debut \in 0..Len(e),
           SuiviRapport(q, e)
    PROVE  SuiviRapport(q, Append(e, x))
  <1>1. PICK p : p = Append(e, x)
    OBVIOUS
  <1>2. /\ Len(p) = Len(e) + 1 /\ Len(e) \in Nat
        /\ \A k \in 0..Len(e) : VentesDe(p, k) = VentesDe(e, k)
                                /\ AchatsDe(p, k) = AchatsDe(e, k)
    BY <1>1, EtatStable
  <1>3. ASSUME q.pc = "lire_achats", q.op = "performance"
        PROVE  \E v \in q.debut..Len(p) : q.ventes = VentesDe(p, v)
    <2>1. PICK v \in q.debut..Len(e) : q.ventes = VentesDe(e, v)
      BY <1>3 DEF SuiviRapport
    <2>2. v \in 0..Len(e) /\ v \in q.debut..Len(p)
      BY <1>2
    <2> QED BY <1>2, <2>1, <2>2
  <1>4. ASSUME q.pc = "tracer_rapport"
        PROVE  \E v \in q.debut..Len(p) : \E a \in v..Len(p) :
                  /\ q.op # "achats" => q.ventes = VentesDe(p, v)
                  /\ q.op # "ventes" => q.achats = AchatsDe(p, a)
    <2>1. PICK v \in q.debut..Len(e) : \E a \in v..Len(e) :
                  /\ q.op # "achats" => q.ventes = VentesDe(e, v)
                  /\ q.op # "ventes" => q.achats = AchatsDe(e, a)
      BY <1>4 DEF SuiviRapport
    <2>2. PICK a \in v..Len(e) :
                  /\ q.op # "achats" => q.ventes = VentesDe(e, v)
                  /\ q.op # "ventes" => q.achats = AchatsDe(e, a)
      BY <2>1
    <2>3. /\ v \in 0..Len(e) /\ v \in q.debut..Len(p)
          /\ a \in 0..Len(e) /\ a \in v..Len(p)
      BY <1>2
    <2> QED BY <1>2, <2>2, <2>3
  <1> QED BY <1>1, <1>3, <1>4 DEF SuiviRapport

\* And a report answered.
LEMMA RenduPlus ==
    ASSUME NEW S, NEW e \in Seq(S), NEW x \in S, NEW q, RenduFidele(q, e)
    PROVE  RenduFidele(q, Append(e, x))
  <1>1. PICK p : p = Append(e, x)
    OBVIOUS
  <1>2. /\ Len(p) = Len(e) + 1 /\ Len(e) \in Nat
        /\ \A k \in 0..Len(e) : VentesDe(p, k) = VentesDe(e, k)
                                /\ AchatsDe(p, k) = AchatsDe(e, k)
    BY <1>1, EtatStable
  <1>3. q.debut \in Nat /\ q.fin \in 0..Len(e) /\ q.fin \in 0..Len(p)
    BY <1>2 DEF RenduFidele
  <1>4. PICK v \in q.debut..q.fin : \E a \in v..q.fin :
                /\ q.op # "achats" => q.ventes = VentesDe(e, v)
                /\ q.op # "ventes" => q.achats = AchatsDe(e, a)
                /\ q.marge = q.ventes - q.achats
    BY DEF RenduFidele
  <1>5. PICK a \in v..q.fin :
                /\ q.op # "achats" => q.ventes = VentesDe(e, v)
                /\ q.op # "ventes" => q.achats = AchatsDe(e, a)
                /\ q.marge = q.ventes - q.achats
    BY <1>4
  <1>6. v \in 0..Len(e) /\ a \in 0..Len(e)
    BY <1>2, <1>3
  <1>7. /\ q.op # "achats" => q.ventes = VentesDe(p, v)
        /\ q.op # "ventes" => q.achats = AchatsDe(p, a)
        /\ q.marge = q.ventes - q.achats
    BY <1>2, <1>5, <1>6
  <1> QED BY <1>1, <1>3, <1>7 DEF RenduFidele

\* A step that changes a request and leaves the tables and the answers.
LEMMA CadreRapport ==
    ASSUME TypeOK, InvRapport, NEW r \in Requetes, NEW q,
           req' = [req EXCEPT ![r] = q],
           ecritures' = ecritures, rendus' = rendus, SuiviRapport(q, ecritures)
    PROVE  InvRapport'
  <1>1. req'[r] = q /\ \A s \in Requetes \ {r} : req'[s] = req[s]
    BY SlotChange
  <1> QED BY <1>1 DEF InvRapport

\* A slot at rest has read nothing.
LEMMA RapportRepos == \A e : SuiviRapport(Repos, e)
  BY DEF SuiviRapport, Repos

\* A report that comes has read nothing.
LEMMA RapportRecevoir ==
    ASSUME TypeOK, InvRapport, NEW r \in Requetes, Recevoir(r)
    PROVE  InvRapport'
  <1>1. PICK op, pc, lignes :
          /\ Commencer(r, op, pc, lignes)
          /\ pc # "tracer_rapport" /\ (pc = "lire_achats" => op # "performance")
    <2>1. CASE \E s \in Saisies : Commencer(r, "creer", "enregistrer", <<s>>)
      BY <2>1
    <2>2. CASE \E f \in Fichiers : Commencer(r, "importer", Suite(f, 0), f)
      <3>1. \A f : Suite(f, 0) \in {"enregistrer", "cloturer"}
        BY DEF Suite
      <3> QED BY <2>2, <3>1
    <2>3. CASE \E op \in Rapports :
                 Commencer(r, op, IF op = "achats" THEN "lire_achats"
                                                   ELSE "lire_ventes", <<>>)
      <3>1. PICK op, pc : /\ pc = IF op = "achats" THEN "lire_achats"
                                                   ELSE "lire_ventes"
                          /\ Commencer(r, op, pc, <<>>)
        BY <2>3
      <3> QED BY <3>1
    <2> QED BY <2>1, <2>2, <2>3 DEF Recevoir
  <1>2. PICK q : /\ req' = [req EXCEPT ![r] = q] /\ q.op = op /\ q.pc = pc
    <2>1. PICK q : /\ req' = [req EXCEPT ![r] = q]
                   /\ q = [Repos EXCEPT !.pc = pc, !.op = op, !.n = recues + 1,
                                        !.lignes = lignes, !.debut = Len(ecritures)]
      BY <1>1 DEF Commencer
    <2>2. q = [pc |-> pc, op |-> op, n |-> recues + 1, lignes |-> lignes,
               count |-> 0, id |-> 0, debut |-> Len(ecritures),
               ventes |-> 0, achats |-> 0]
      BY <2>1 DEF Repos
    <2> QED BY <2>1, <2>2
  <1>3. SuiviRapport(q, ecritures)
    BY <1>1, <1>2 DEF SuiviRapport
  <1>4. ecritures' = ecritures /\ rendus' = rendus
    BY DEF Recevoir
  <1> QED BY <1>2, <1>3, <1>4, CadreRapport

\* The insertion of a row: the reports in progress and answered keep true.
LEMMA RapportEnregistrer ==
    ASSUME TypeOK, InvRapport, NEW r \in Requetes, Enregistrer(r)
    PROVE  InvRapport'
  <1>1. PICK q, ligne :
          /\ q = req[r] /\ q.pc = "enregistrer" /\ ligne = q.lignes[q.count + 1]
          /\ ligne \in Lignes
    <2>1. RequeteOK(req[r], recues, Len(ecritures)) /\ req[r].pc = "enregistrer"
      BY DEF TypeOK, Enregistrer, A
    <2> QED BY <2>1, LigneSuivante
  <1>2. CASE ligne.compte = Neant
    <2>1. /\ req' = [req EXCEPT ![r] = Repos]
          /\ UNCHANGED <<ecritures, rendus>>
      BY <1>1, <1>2 DEF Enregistrer, Finir
    <2> QED BY <2>1, RapportRepos, CadreRapport
  <1>3. CASE ligne.compte # Neant
    <2>1. PICK S, e, q1 :
            /\ S = {l \in Lignes : l.compte # Neant}
            /\ e = ecritures /\ e \in Seq(S) /\ ligne \in S
            /\ q1 = [q EXCEPT !.pc = "tracer", !.id = Len(ecritures) + 1]
      BY <1>1, <1>3 DEF TypeOK
    <2>2. /\ ecritures' = Append(e, ligne) /\ rendus' = rendus
          /\ req' = [req EXCEPT ![r] = q1]
      BY <1>1, <1>3, <2>1 DEF Enregistrer, TypeOK
    <2>3. q1.pc = "tracer"
      BY <1>1, <2>1 DEF TypeOK, RequeteOK
    <2>4. req'[r] = q1 /\ \A s \in Requetes \ {r} : req'[s] = req[s]
      BY <2>2, SlotChange
    <2>5. ASSUME NEW s \in Requetes
          PROVE  SuiviRapport(req'[s], Append(e, ligne))
      <3>1. CASE s = r
        BY <2>3, <2>4, <3>1 DEF SuiviRapport
      <3>2. CASE s # r
        <4>1. req[s].debut \in 0..Len(e) /\ SuiviRapport(req[s], e)
          BY <2>1 DEF TypeOK, RequeteOK, InvRapport
        <4> QED BY <2>1, <2>4, <3>2, <4>1, SuiviPlus
      <3> QED BY <3>1, <3>2
    <2>6. ASSUME NEW x \in rendus PROVE RenduFidele(x, Append(e, ligne))
      BY <2>1, RenduPlus DEF InvRapport
    <2> QED BY <2>2, <2>5, <2>6 DEF InvRapport
  <1> QED BY <1>2, <1>3

\* The audit entries of creations and imports, and the failing calls.
LEMMA RapportAutres ==
    ASSUME TypeOK, InvRapport, NEW r \in Requetes,
           Tracer(r) \/ Cloturer(r) \/ Echouer(r)
    PROVE  InvRapport'
  <1>1. CASE Cloturer(r) \/ Echouer(r) \/ (Tracer(r) /\ req[r].op = "creer")
    <2>1. /\ req' = [req EXCEPT ![r] = Repos]
          /\ UNCHANGED <<ecritures, rendus>>
      BY <1>1 DEF Tracer, Cloturer, Echouer, Finir
    <2> QED BY <2>1, RapportRepos, CadreRapport
  <1>2. CASE Tracer(r) /\ req[r].op # "creer"
    <2>1. PICK pc, q1 :
            /\ pc = Suite(req[r].lignes, req[r].count + 1)
            /\ q1 = [req[r] EXCEPT !.count = req[r].count + 1, !.pc = pc]
      OBVIOUS
    <2>2. req' = [req EXCEPT ![r] = q1] /\ UNCHANGED <<ecritures, rendus>>
      BY <1>2, <2>1 DEF Tracer, TypeOK
    <2>3. q1.pc = pc /\ pc \in {"enregistrer", "cloturer"}
      BY <2>1 DEF TypeOK, RequeteOK, Suite
    <2>4. SuiviRapport(q1, ecritures)
      BY <2>3 DEF SuiviRapport
    <2> QED BY <2>2, <2>4, CadreRapport
  <1> QED BY <1>1, <1>2

\* The sales of a report are those of the journal of now.
LEMMA RapportLireVentes ==
    ASSUME TypeOK, InvRapport, NEW r \in Requetes, LireVentes(r)
    PROVE  InvRapport'
  <1>1. PICK q, e, S, v, pc, q1 :
          /\ q = req[r] /\ e = ecritures /\ e \in Seq(S)
          /\ v = GetSalesStats(e)
          /\ pc = IF q.op = "ventes" THEN "tracer_rapport" ELSE "lire_achats"
          /\ q1 = [q EXCEPT !.ventes = v, !.pc = pc]
    BY DEF TypeOK
  <1>2. req' = [req EXCEPT ![r] = q1] /\ UNCHANGED <<ecritures, rendus>>
    BY <1>1 DEF LireVentes, TypeOK
  <1>3. /\ q1 = [pc |-> pc, op |-> q.op, n |-> q.n, lignes |-> q.lignes,
                 count |-> q.count, id |-> q.id, debut |-> q.debut,
                 ventes |-> v, achats |-> q.achats]
        /\ q.debut \in 0..Len(e)
    <2>1. RequeteOK(q, recues, Len(e))
      BY <1>1 DEF TypeOK
    <2> QED BY <1>1, <2>1 DEF RequeteOK
  <1>4. q1.pc = pc /\ q1.op = q.op /\ q1.debut = q.debut /\ q1.ventes = v
    BY <1>3
  <1>5. /\ Len(e) \in q.debut..Len(e) /\ Len(e) \in Len(e)..Len(e)
        /\ v = VentesDe(e, Len(e))
    BY <1>1, <1>3, EtatPresent
  <1>6. SuiviRapport(q1, e)
    BY <1>1, <1>4, <1>5 DEF SuiviRapport
  <1> QED BY <1>1, <1>2, <1>6, CadreRapport

\* The purchases of a report are those of the journal of now, at or after the
\* moment of its sales.
LEMMA RapportLireAchats ==
    ASSUME TypeOK, InvRapport, NEW r \in Requetes, LireAchats(r)
    PROVE  InvRapport'
  <1>1. PICK q, e, S, a, q1 :
          /\ q = req[r] /\ e = ecritures /\ e \in Seq(S)
          /\ a = GetPurchasesStats(e) /\ q.pc = "lire_achats"
          /\ q1 = [q EXCEPT !.achats = a, !.pc = "tracer_rapport"]
    BY DEF TypeOK, LireAchats, A
  <1>2. req' = [req EXCEPT ![r] = q1] /\ UNCHANGED <<ecritures, rendus>>
    BY <1>1 DEF LireAchats, TypeOK
  <1>3. RequeteOK(q, recues, Len(e))
    BY <1>1 DEF TypeOK
  <1>4. /\ q1 = [pc |-> "tracer_rapport", op |-> q.op, n |-> q.n,
                 lignes |-> q.lignes, count |-> q.count, id |-> q.id,
                 debut |-> q.debut, ventes |-> q.ventes, achats |-> a]
        /\ q.debut \in 0..Len(e) /\ q.op \in {"achats", "performance"}
    BY <1>1, <1>3 DEF RequeteOK, EtapesDe
  <1>5. /\ q1.pc = "tracer_rapport" /\ q1.op = q.op /\ q1.debut = q.debut
        /\ q1.ventes = q.ventes /\ q1.achats = a
    BY <1>4
  <1>6. /\ Len(e) \in Nat /\ a = AchatsDe(e, Len(e))
    BY <1>1, EtatPresent
  <1>7. PICK v \in q.debut..Len(e) : q.op # "achats" => q.ventes = VentesDe(e, v)
    <2>1. CASE q.op = "achats"
      <3>1. q.debut \in q.debut..Len(e)
        BY <1>4
      <3> QED BY <2>1, <3>1
    <2>2. CASE q.op # "achats"
      <3>1. SuiviRapport(q, e) /\ q.op = "performance"
        BY <1>1, <1>4, <2>2 DEF InvRapport
      <3> QED BY <1>1, <3>1 DEF SuiviRapport
    <2> QED BY <2>1, <2>2
  <1>8. Len(e) \in v..Len(e)
    BY <1>4, <1>6
  <1>9. SuiviRapport(q1, e)
    BY <1>5, <1>6, <1>7, <1>8 DEF SuiviRapport
  <1> QED BY <1>1, <1>2, <1>9, CadreRapport

\* The answer of a report is what it read.
LEMMA RapportTracer ==
    ASSUME TypeOK, InvRapport, NEW r \in Requetes, TracerRapport(r)
    PROVE  InvRapport'
  <1>1. PICK q, e, x :
          /\ q = req[r] /\ e = ecritures /\ q.pc = "tracer_rapport"
          /\ x = [op |-> q.op, debut |-> q.debut, fin |-> Len(e),
                  ventes |-> q.ventes, achats |-> q.achats,
                  marge |-> q.ventes - q.achats]
    BY DEF TracerRapport, A
  <1>2. /\ req' = [req EXCEPT ![r] = Repos] /\ ecritures' = e
        /\ rendus' = rendus \cup {x}
    BY <1>1 DEF TracerRapport, Finir
  <1>3. q.debut \in 0..Len(e) /\ Len(e) \in Nat /\ q.debut \in Nat
    <2>1. RequeteOK(q, recues, Len(e)) /\ Len(e) \in Nat
      BY <1>1 DEF TypeOK
    <2> QED BY <2>1 DEF RequeteOK
  <1>4. /\ x.op = q.op /\ x.debut = q.debut /\ x.fin = Len(e)
        /\ x.ventes = q.ventes /\ x.achats = q.achats
        /\ x.marge = q.ventes - q.achats
    BY <1>1
  <1>5. SuiviRapport(q, e)
    BY <1>1 DEF InvRapport
  <1>6. PICK v \in q.debut..Len(e) : \E a \in v..Len(e) :
           /\ q.op # "achats" => q.ventes = VentesDe(e, v)
           /\ q.op # "ventes" => q.achats = AchatsDe(e, a)
    BY <1>1, <1>5 DEF SuiviRapport
  <1>7. RenduFidele(x, e)
    BY <1>3, <1>4, <1>6 DEF RenduFidele
  <1>8. req'[r] = Repos /\ \A s \in Requetes \ {r} : req'[s] = req[s]
    BY <1>2, SlotChange
  <1> QED BY <1>1, <1>2, <1>7, <1>8, RapportRepos DEF InvRapport

\* The first state.
THEOREM RapportInit == Init => InvRapport
  BY RapportRepos DEF Init, InvRapport

\* Every step keeps the reports true of the moments they were read at.
THEOREM RapportPas == TypeOK /\ InvRapport /\ [Next]_vars => InvRapport'
  <1> SUFFICES ASSUME TypeOK, InvRapport, [Next]_vars PROVE InvRapport'
    OBVIOUS
  <1>1. CASE UNCHANGED vars
    BY <1>1 DEF vars, InvRapport
  <1>2. CASE Next
    BY <1>2, RapportRecevoir, RapportEnregistrer, RapportAutres,
       RapportLireVentes, RapportLireAchats, RapportTracer DEF Next, Avancer
  <1> QED BY <1>1, <1>2

\* The two reads of a report see the journal as it was at two moments between
\* the request and the answer, the purchases never earlier than the sales.
THEOREM RapportsEntreDeuxEtats == Spec => []RapportEntreDeuxEtats
  <1>1. InvRapport => RapportEntreDeuxEtats
    BY DEF InvRapport, RenduFidele, RapportEntreDeuxEtats, Etat, VentesDe, AchatsDe
  <1> QED BY <1>1, TypeInit, TypePas, RapportInit, RapportPas, PTL DEF Spec
-----------------------------------------------------------------------------
(***************************************************************************)
(* Induction over data.  The folds the statements are made of are functions *)
(* that the library chooses by their recursive equation; that there is such *)
(* a function, and what it computes, is shown by induction on the size of   *)
(* its argument.  Induction itself comes from the fact that a set of        *)
(* natural numbers has a least element.                                     *)
(***************************************************************************)

\* A set of natural numbers has a least element.
LEMMA MinNat ==
    ASSUME NEW T, T \subseteq Nat, T # {}
    PROVE  \E x \in T : \A y \in T : x <= y
  <1>1. PICK R : R = OpToRel(<, Nat)
    OBVIOUS
  <1>2. IsWellFoundedOn(R, Nat)
    BY <1>1, NatLessThanWellFounded
  <1>3. PICK x \in T : \A y \in T : ~(<<y, x>> \in R)
    BY <1>2, WFMin, Zenon
  <1>4. R = {ss \in Nat \X Nat : ss[1] < ss[2]}
    BY <1>1 DEF OpToRel
  <1>5. ASSUME NEW y \in T PROVE x <= y
    <2>1. x \in Nat /\ y \in Nat
      OBVIOUS
    <2>2. <<y, x>> \notin R
      BY <1>3
    <2>3. <<y, x>> \in Nat \X Nat
      BY <2>1
    <2>4. ~(<<y, x>>[1] < <<y, x>>[2])
      BY <2>2, <2>3, <1>4
    <2> QED BY <2>1, <2>4
  <1> QED BY <1>5

\* Induction, for the numbers of a set.
LEMMA Recurrence ==
    ASSUME NEW S, 0 \in S, \A n \in Nat : n \in S => n + 1 \in S
    PROVE  Nat \subseteq S
  <1> SUFFICES ASSUME ~(Nat \subseteq S) PROVE FALSE
    OBVIOUS
  <1>1. PICK T : T = Nat \ S
    OBVIOUS
  <1>2. PICK x \in T : \A y \in T : x <= y
    BY <1>1, MinNat
  <1>3. x \in Nat /\ x # 0
    BY <1>1
  <1>4. x - 1 \in Nat /\ x - 1 \notin T
    BY <1>1, <1>2, <1>3
  <1> QED BY <1>1, <1>3, <1>4

\* Induction on the size of the subsets of a finite set.
LEMMA Tailles ==
    ASSUME NEW S, IsFiniteSet(S), NEW P,
           {} \in P,
           \A s \in SUBSET S : s # {} /\ (\A x \in s : s \ {x} \in P) => s \in P
    PROVE  SUBSET S \subseteq P
  <1>1. PICK N : N = {n \in Nat : \A s \in SUBSET S : Cardinality(s) <= n => s \in P}
    OBVIOUS
  <1>2. \A s \in SUBSET S : IsFiniteSet(s) /\ Cardinality(s) \in Nat
    BY FS_Subset, FS_CardinalityType
  <1>3. 0 \in N
    <2>1. ASSUME NEW s \in SUBSET S, Cardinality(s) <= 0 PROVE s = {}
      BY <1>2, <2>1, FS_EmptySet
    <2> QED BY <1>1, <2>1
  <1>4. ASSUME NEW n \in Nat, n \in N PROVE n + 1 \in N
    <2>1. ASSUME NEW s \in SUBSET S, Cardinality(s) <= n + 1 PROVE s \in P
      <3>1. ASSUME NEW x \in s PROVE s \ {x} \in P
        <4>1. IsFiniteSet(s) /\ Cardinality(s) \in Nat
          BY <1>2
        <4>2. Cardinality(s \ {x}) =
                IF x \in s THEN Cardinality(s) - 1 ELSE Cardinality(s)
          BY <4>1, FS_RemoveElement, Zenon
        <4>3. Cardinality(s \ {x}) <= n
          BY <2>1, <4>1, <4>2
        <4>4. s \ {x} \in SUBSET S
          OBVIOUS
        <4> QED BY <1>1, <1>4, <4>3, <4>4
      <3> QED BY <3>1
    <2> QED BY <1>1, <2>1
  <1>5. Nat \subseteq N
    BY <1>3, <1>4, Recurrence
  <1> QED BY <1>1, <1>2, <1>5

\* g is computed on the subsets of S by removing the elements ch gives, one
\* by one, and applying h on the way back.
Deroule(g, S, base, ch, h) ==
    \A s \in SUBSET S :
        g[s] = IF s = {} THEN base ELSE h[<<ch[s], g[s \ {ch[s]}]>>]

\* The same for the subsets of at most n elements.
DerouleJusqua(n, g, S, base, ch, h) ==
    \A s \in SUBSET S : Cardinality(s) <= n =>
        g[s] = IF s = {} THEN base ELSE h[<<ch[s], g[s \ {ch[s]}]>>]

\* From subsets of n elements to those of one more.
LEMMA DerouleSuite ==
    ASSUME NEW S, IsFiniteSet(S), NEW V, NEW base \in V,
           NEW ch, \A s \in (SUBSET S) \ {{}} : ch[s] \in s,
           NEW h \in [S \X V -> V],
           NEW n \in Nat, NEW g \in [SUBSET S -> V],
           DerouleJusqua(n, g, S, base, ch, h)
    PROVE  \E g1 \in [SUBSET S -> V] : DerouleJusqua(n + 1, g1, S, base, ch, h)
  <1>1. PICK g1 : g1 = [s \in SUBSET S |->
                          IF s = {} THEN base ELSE h[<<ch[s], g[s \ {ch[s]}]>>]]
    OBVIOUS
  <1>2. \A s \in SUBSET S :
           g1[s] = IF s = {} THEN base ELSE h[<<ch[s], g[s \ {ch[s]}]>>]
    BY <1>1
  <1>3. \A s \in (SUBSET S) \ {{}} : h[<<ch[s], g[s \ {ch[s]}]>>] \in V
    <2> TAKE s \in (SUBSET S) \ {{}}
    <2>1. ch[s] \in S /\ g[s \ {ch[s]}] \in V
      OBVIOUS
    <2> QED BY <2>1
  <1>4. g1 \in [SUBSET S -> V]
    BY <1>1, <1>3
  <1>5. ASSUME NEW s \in SUBSET S, Cardinality(s) <= n + 1
        PROVE  g1[s] = IF s = {} THEN base ELSE h[<<ch[s], g1[s \ {ch[s]}]>>]
    <2>1. CASE s = {}
      BY <1>2, <2>1
    <2>2. CASE s # {}
      <3>1. PICK x, t : x = ch[s] /\ t = s \ {x}
        OBVIOUS
      <3>2. x \in s /\ t \in SUBSET S
        BY <2>2, <3>1
      <3>3. IsFiniteSet(s) /\ Cardinality(s) \in Nat
        BY FS_Subset, FS_CardinalityType
      <3>4. Cardinality(t) = Cardinality(s) - 1
        <4>1. Cardinality(s \ {x}) =
                IF x \in s THEN Cardinality(s) - 1 ELSE Cardinality(s)
          BY <3>3, FS_RemoveElement, Zenon
        <4> QED BY <3>1, <3>2, <4>1
      <3>5. Cardinality(t) <= n
        BY <1>5, <3>3, <3>4
      <3>6. g[t] = IF t = {} THEN base ELSE h[<<ch[t], g[t \ {ch[t]}]>>]
        BY <3>2, <3>5 DEF DerouleJusqua
      <3>7. g1[t] = g[t]
        BY <1>2, <3>2, <3>6
      <3>8. g1[s] = h[<<x, g[t]>>]
        BY <1>2, <2>2, <3>1
      <3> QED BY <2>2, <3>1, <3>7, <3>8
    <2> QED BY <2>1, <2>2
  <1>6. DerouleJusqua(n + 1, g1, S, base, ch, h)
    BY <1>5 DEF DerouleJusqua
  <1> QED BY <1>4, <1>6

\* Such a computation exists on a finite set, whatever the order of removal.
LEMMA DerouleExiste ==
    ASSUME NEW S, IsFiniteSet(S), NEW V, NEW base \in V,
           NEW ch, \A s \in (SUBSET S) \ {{}} : ch[s] \in s,
           NEW h \in [S \X V -> V]
    PROVE  \E g \in [SUBSET S -> V] : Deroule(g, S, base, ch, h)
  <1>1. PICK N : N = {n \in Nat : \E g \in [SUBSET S -> V] :
                                     DerouleJusqua(n, g, S, base, ch, h)}
    OBVIOUS
  <1>2. 0 \in N
    <2>1. PICK g : g = [s \in SUBSET S |-> base]
      OBVIOUS
    <2>2. g \in [SUBSET S -> V] /\ \A s \in SUBSET S : g[s] = base
      BY <2>1
    <2>3. ASSUME NEW s \in SUBSET S, Cardinality(s) <= 0
          PROVE  s = {}
      BY <2>3, FS_Subset, FS_CardinalityType, FS_EmptySet
    <2>4. DerouleJusqua(0, g, S, base, ch, h)
      BY <2>2, <2>3 DEF DerouleJusqua
    <2> QED BY <1>1, <2>2, <2>4
  <1>3. ASSUME NEW n \in Nat, n \in N PROVE n + 1 \in N
    <2>1. PICK g \in [SUBSET S -> V] : DerouleJusqua(n, g, S, base, ch, h)
      BY <1>1, <1>3
    <2>2. \E g1 \in [SUBSET S -> V] : DerouleJusqua(n + 1, g1, S, base, ch, h)
      BY <2>1, DerouleSuite
    <2> QED BY <1>1, <2>2
  <1>4. Nat \subseteq N
    BY <1>2, <1>3, Recurrence
  <1>5. PICK g \in [SUBSET S -> V] :
           DerouleJusqua(Cardinality(S), g, S, base, ch, h)
    BY <1>1, <1>4, FS_CardinalityType
  <1>6. \A s \in SUBSET S : Cardinality(s) <= Cardinality(S)
    BY FS_Subset
  <1> QED BY <1>5, <1>6 DEF Deroule, DerouleJusqua

\* The library's Max is the largest element.
LEMMA MaxType ==
    ASSUME NEW n \in Nat, NEW s, s \subseteq 1..n, s # {}
    PROVE  Max(s) \in s /\ \A y \in s : Max(s) >= y
  <1>1. PICK T : T = {m \in Nat : \A y \in s : m >= y}
    OBVIOUS
  <1>2. n \in T
    BY <1>1
  <1>3. PICK m \in T : \A k \in T : m <= k
    BY <1>1, <1>2, MinNat
  <1>4. m \in Nat /\ \A y \in s : m >= y
    BY <1>1
  <1>5. m \in s
    <2> SUFFICES ASSUME m \notin s PROVE FALSE
      OBVIOUS
    <2>1. PICK y \in s : y \in 1..n
      OBVIOUS
    <2>2. m - 1 \in Nat
      BY <1>4, <2>1
    <2>3. ASSUME NEW z \in s PROVE m - 1 >= z
      <3>1. z \in Nat /\ m >= z /\ m # z
        BY <1>4
      <3> QED BY <1>4, <3>1
    <2>4. m - 1 \in T
      BY <1>1, <2>2, <2>3
    <2> QED BY <1>3, <1>4, <2>4
  <1>6. \E x \in s : \A y \in s : x >= y
    BY <1>4, <1>5
  <1> QED BY <1>6 DEF Max

\* The largest index of a prefix.
LEMMA MaxIntervalle ==
    ASSUME NEW k \in Nat, k # 0
    PROVE  Max(1..k) = k
  <1>1. k \in 1..k /\ 1..k # {}
    OBVIOUS
  <1>2. Max(1..k) \in 1..k /\ \A y \in 1..k : Max(1..k) >= y
    BY <1>1, MaxType
  <1> QED BY <1>1, <1>2

\* A prefix of n places without its last one.
LEMMA Prefixe ==
    ASSUME NEW n \in Nat, NEW k \in 1..n
    PROVE  /\ Max(1..k) = k /\ 1..k # {} /\ 1..k \ {k} = 1..(k - 1)
           /\ 1..k \in SUBSET (1..n)
  <1>1. k \in Nat /\ k # 0 /\ k <= n
    OBVIOUS
  <1>2. Max(1..k) = k
    BY <1>1, MaxIntervalle
  <1>3. k \in 1..k
    BY <1>1
  <1>4. 1..k \ {k} = 1..(k - 1)
    BY <1>1
  <1>5. \A i \in 1..k : i \in 1..n
    BY <1>1
  <1> QED BY <1>2, <1>3, <1>4, <1>5

-----------------------------------------------------------------------------

\* The entries the table accepts.
Ecrites == {l \in Lignes : l.compte # Neant}

\* What an entry adds to the sum over some classes.
Apport(l, C) == IF Classe(l.compte) \in C THEN l.debit - l.credit ELSE 0

\* Its amounts are whole.
LEMMA EcritesType ==
    ASSUME NEW l \in Ecrites, NEW C
    PROVE  /\ l.compte \in Nat /\ l.debit \in Int /\ l.credit \in Int
           /\ Apport(l, C) \in Int
  <1>1. l.compte \in Nat /\ l.debit \in Int /\ l.credit \in Int
    BY MontantsAssumption DEF Ecrites
  <1>2. l.debit - l.credit \in Int
    BY <1>1
  <1> QED BY <1>1, <1>2 DEF Apport

\* The recursive equation behind Solde.
EqSolde(g, e, C) ==
    g = [s \in SUBSET DOMAIN e |->
           IF s = {} THEN 0
           ELSE LET i == Max(s)
                IN  IF Classe(e[i].compte) \in C
                      THEN g[s \ {i}] + e[i].debit - e[i].credit
                      ELSE g[s \ {i}]]

\* Solde is the fold of the library.
LEMMA SoldeDef ==
   ASSUME NEW e, NEW C
   PROVE Solde(e, C) = (CHOOSE g : EqSolde(g, e, C))[DOMAIN e]
  BY DEF Solde, FoldLeft, MapThenFoldSet, EqSolde

\* The equation has a solution.
LEMMA SoldeExiste ==
    ASSUME NEW e \in Seq(Ecrites), NEW C
    PROVE  \E g : EqSolde(g, e, C)
  <1>1. PICK n, S : n = Len(e) /\ n \in Nat /\ S = 1..n /\ DOMAIN e = S
    OBVIOUS
  <1>2. IsFiniteSet(S)
    BY <1>1, FS_Interval
  <1>3. PICK ch : ch = [s \in SUBSET S |-> Max(s)]
    OBVIOUS
  <1>4. \A s \in (SUBSET S) \ {{}} : ch[s] = Max(s) /\ ch[s] \in s
    BY <1>1, <1>3, MaxType
  <1>5. PICK h : h = [p \in S \X Int |-> p[2] + Apport(e[p[1]], C)]
    OBVIOUS
  <1>6. ASSUME NEW i \in S PROVE e[i] \in Ecrites
    BY <1>1
  <1>7. \A p \in S \X Int : p[2] + Apport(e[p[1]], C) \in Int
    <2> TAKE p \in S \X Int
    <2>1. p[1] \in S /\ p[2] \in Int
      OBVIOUS
    <2>2. Apport(e[p[1]], C) \in Int
      BY <1>6, <2>1, EcritesType
    <2> QED BY <2>1, <2>2
  <1>8. h \in [S \X Int -> Int]
    BY <1>5, <1>7
  <1>9. PICK g \in [SUBSET S -> Int] : Deroule(g, S, 0, ch, h)
    <2>1. \A s \in (SUBSET S) \ {{}} : ch[s] \in s
      BY <1>4
    <2>2. 0 \in Int
      OBVIOUS
    <2> QED BY <1>2, <1>8, <2>1, <2>2, DerouleExiste, Zenon
  <1>10. ASSUME NEW s \in SUBSET S, s # {}
         PROVE  g[s] = IF Classe(e[Max(s)].compte) \in C
                         THEN g[s \ {Max(s)}] + e[Max(s)].debit - e[Max(s)].credit
                         ELSE g[s \ {Max(s)}]
    <2>1. PICK i, t : i = Max(s) /\ t = s \ {i}
      OBVIOUS
    <2>2. i \in S /\ ch[s] = i /\ t \in SUBSET S /\ g[t] \in Int
      BY <1>4, <1>10, <2>1
    <2>3. g[s] = h[<<i, g[t]>>]
      BY <1>9, <1>10, <2>1, <2>2 DEF Deroule
    <2>4. <<i, g[t]>> \in S \X Int
      BY <2>2
    <2>5. g[s] = g[t] + Apport(e[i], C)
      BY <1>5, <2>3, <2>4
    <2>6. /\ e[i].compte \in Nat /\ e[i].debit \in Int /\ e[i].credit \in Int
      BY <1>6, <2>2, EcritesType
    <2> QED BY <2>1, <2>2, <2>5, <2>6 DEF Apport
  <1>11. g[{}] = 0
    BY <1>9 DEF Deroule
  <1>12. DOMAIN g = SUBSET DOMAIN e
    BY <1>1
  <1>13. EqSolde(g, e, C)
    BY <1>1, <1>10, <1>11 DEF EqSolde
  <1> QED BY <1>13

\* The equations of a running total over the entries.
EstCumul(c, e, C) ==
    /\ c \in [0..Len(e) -> Int]
    /\ c[0] = 0
    /\ \A k \in 1..Len(e) : c[k] = c[k - 1] + Apport(e[k], C)

\* Solde is the last running total.
LEMMA SoldeCumul ==
    ASSUME NEW e \in Seq(Ecrites), NEW C
    PROVE  \E c : EstCumul(c, e, C) /\ Solde(e, C) = c[Len(e)]
  <1>1. PICK g : EqSolde(g, e, C) /\ Solde(e, C) = g[DOMAIN e]
    BY SoldeExiste, SoldeDef, Zenon
  <1>2. PICK n : n = Len(e) /\ n \in Nat /\ DOMAIN e = 1..n
    OBVIOUS
  <1>3. PICK c : c = [k \in 0..n |-> g[1..k]]
    OBVIOUS
  <1>4. c[0] = 0
    <2>1. 1..0 = {} /\ {} \in SUBSET DOMAIN e
      OBVIOUS
    <2>2. g[{}] = 0
      BY <1>1, <2>1 DEF EqSolde
    <2>3. c[0] = g[1..0]
      BY <1>2, <1>3
    <2> QED BY <2>1, <2>2, <2>3
  <1>5. ASSUME NEW k \in 1..n, c[k - 1] \in Int
        PROVE  c[k] = c[k - 1] + Apport(e[k], C) /\ c[k] \in Int
    <2>1. PICK s, t : s = 1..k /\ t = 1..(k - 1)
      OBVIOUS
    <2>2. Max(s) = k /\ s # {} /\ s \ {k} = t /\ s \in SUBSET DOMAIN e
      BY <1>2, <2>1, Prefixe
    <2>3. c[k] = g[s] /\ c[k - 1] = g[t]
      BY <1>2, <1>3, <2>1
    <2>4. g[s] = IF Classe(e[k].compte) \in C
                   THEN g[t] + e[k].debit - e[k].credit ELSE g[t]
      BY <1>1, <2>2 DEF EqSolde
    <2>5. e[k] \in Ecrites
      BY <1>2
    <2>6. e[k].debit \in Int /\ e[k].credit \in Int
      BY <2>5, EcritesType
    <2> QED BY <1>5, <2>3, <2>4, <2>6 DEF Apport
  <1>6. \A k \in 0..n : c[k] \in Int
    <2>1. PICK N : N = {k \in Nat : k <= n => c[k] \in Int}
      OBVIOUS
    <2>2. 0 \in N
      BY <1>4, <2>1
    <2>3. ASSUME NEW k \in Nat, k \in N PROVE k + 1 \in N
      <3>1. CASE k + 1 <= n
        <4>1. k + 1 \in 1..n /\ (k + 1) - 1 = k /\ k <= n
          BY <1>2, <3>1
        <4>2. c[k] \in Int
          BY <2>1, <2>3, <4>1
        <4>3. c[k + 1] \in Int
          BY <1>5, <4>1, <4>2
        <4> QED BY <2>1, <4>3
      <3>2. CASE ~(k + 1 <= n)
        BY <2>1, <3>2
      <3> QED BY <3>1, <3>2
    <2>4. Nat \subseteq N
      BY <2>2, <2>3, Recurrence
    <2> QED BY <1>2, <2>1, <2>4
  <1>7. \A k \in 1..n : c[k] = c[k - 1] + Apport(e[k], C)
    <2> TAKE k \in 1..n
    <2>1. k - 1 \in 0..n
      BY <1>2
    <2> QED BY <1>5, <1>6, <2>1
  <1>8. c \in [0..n -> Int]
    BY <1>3, <1>6
  <1>9. c[n] = g[DOMAIN e]
    BY <1>2, <1>3
  <1>10. EstCumul(c, e, C)
    BY <1>2, <1>4, <1>7, <1>8 DEF EstCumul
  <1> QED BY <1>1, <1>2, <1>9, <1>10

\* There is one running total.
LEMMA CumulUnique ==
    ASSUME NEW e \in Seq(Ecrites), NEW C, NEW c, NEW d,
           EstCumul(c, e, C), EstCumul(d, e, C)
    PROVE  \A k \in 0..Len(e) : c[k] = d[k]
  <1>1. PICK N : N = {k \in Nat : k <= Len(e) => c[k] = d[k]}
    OBVIOUS
  <1>2. 0 \in N
    BY <1>1 DEF EstCumul
  <1>3. ASSUME NEW k \in Nat, k \in N PROVE k + 1 \in N
    <2>1. CASE k + 1 <= Len(e)
      <3>1. k + 1 \in 1..Len(e) /\ (k + 1) - 1 = k /\ k <= Len(e)
        BY <2>1
      <3>2. c[k] = d[k]
        BY <1>1, <1>3, <3>1
      <3>3. /\ c[k + 1] = c[k] + Apport(e[k + 1], C)
            /\ d[k + 1] = d[k] + Apport(e[k + 1], C)
        BY <3>1 DEF EstCumul
      <3> QED BY <1>1, <3>2, <3>3
    <2>2. CASE ~(k + 1 <= Len(e))
      BY <1>1, <2>2
    <2> QED BY <2>1, <2>2
  <1>4. Nat \subseteq N
    BY <1>2, <1>3, Recurrence
  <1> QED BY <1>1, <1>4

\* Sums over classes apart from each other add up.
LEMMA SoldeSomme ==
    ASSUME NEW e \in Seq(Ecrites), NEW C, NEW D, C \cap D = {}
    PROVE  /\ Solde(e, C \cup D) = Solde(e, C) + Solde(e, D)
           /\ Solde(e, C) \in Int /\ Solde(e, D) \in Int
  <1>1. PICK c : EstCumul(c, e, C) /\ Solde(e, C) = c[Len(e)]
    BY SoldeCumul
  <1>2. PICK d : EstCumul(d, e, D) /\ Solde(e, D) = d[Len(e)]
    BY SoldeCumul
  <1>3. PICK u : EstCumul(u, e, C \cup D) /\ Solde(e, C \cup D) = u[Len(e)]
    BY SoldeCumul
  <1>4. PICK n, s : n = Len(e) /\ n \in Nat /\ s = [k \in 0..n |-> c[k] + d[k]]
    <2>1. PICK n : n = Len(e) /\ n \in Nat
      OBVIOUS
    <2>2. PICK s : s = [k \in 0..n |-> c[k] + d[k]]
      OBVIOUS
    <2> QED BY <2>1, <2>2
  <1>5. s \in [0..n -> Int]
    BY <1>1, <1>2, <1>4 DEF EstCumul
  <1>6. s[0] = 0
    BY <1>1, <1>2, <1>4 DEF EstCumul
  <1>7. ASSUME NEW k \in 1..n
        PROVE  s[k] = s[k - 1] + Apport(e[k], C \cup D)
    <2>1. /\ k \in 0..n /\ k - 1 \in 0..n
      BY <1>4
    <2>2. /\ c[k - 1] \in Int /\ d[k - 1] \in Int
          /\ c[k] = c[k - 1] + Apport(e[k], C)
          /\ d[k] = d[k - 1] + Apport(e[k], D)
      BY <1>1, <1>2, <1>4, <2>1 DEF EstCumul
    <2>3. s[k] = c[k] + d[k] /\ s[k - 1] = c[k - 1] + d[k - 1]
      BY <1>4, <2>1
    <2>4. e[k].debit - e[k].credit \in Int
      <3>1. e[k] \in Ecrites
        BY <1>4
      <3>2. e[k].debit \in Int /\ e[k].credit \in Int
        BY <3>1, EcritesType
      <3> QED BY <3>2
    <2>5. Apport(e[k], C \cup D) = Apport(e[k], C) + Apport(e[k], D)
      BY <2>4 DEF Apport
    <2>6. Apport(e[k], C) \in Int /\ Apport(e[k], D) \in Int
      BY <2>4 DEF Apport
    <2> QED BY <2>2, <2>3, <2>5, <2>6
  <1>8. EstCumul(s, e, C \cup D)
    BY <1>4, <1>5, <1>6, <1>7 DEF EstCumul
  <1>9. u[n] = s[n]
    BY <1>3, <1>4, <1>8, CumulUnique
  <1>10. c[n] \in Int /\ d[n] \in Int
    BY <1>1, <1>2, <1>4 DEF EstCumul
  <1> QED BY <1>1, <1>2, <1>3, <1>4, <1>9, <1>10

-----------------------------------------------------------------------------

\* The recursive equation behind Total, over a set of accounts.
EqTotal(g, b, S) ==
    g = [s \in SUBSET S |->
           IF s = {} THEN 0
           ELSE LET x == CHOOSE x \in s : TRUE
                IN  b[x].solde + g[s \ {x}]]

\* Total is the fold of the library.
LEMMA TotalDef ==
   ASSUME NEW b, NEW C, NEW S, S = {c \in DOMAIN b : Classe(c) \in C}
   PROVE Total(b, C) = (CHOOSE g : EqTotal(g, b, S))[S]
  BY DEF Total, MapThenSumSet, MapThenFoldSet, EqTotal

\* Whole amounts for the accounts of S.
Soldes(b, S) == \A c \in S : b[c].solde \in Int

\* The equation has a solution.
LEMMA TotalExiste ==
    ASSUME NEW b, NEW S, IsFiniteSet(S), Soldes(b, S)
    PROVE  \E g : EqTotal(g, b, S)
  <1>1. PICK ch : ch = [s \in SUBSET S |-> CHOOSE x \in s : TRUE]
    OBVIOUS
  <1>2. ASSUME NEW s \in SUBSET S, s # {}
        PROVE  ch[s] = (CHOOSE x \in s : TRUE) /\ ch[s] \in s
    <2>1. ch[s] = CHOOSE x \in s : TRUE
      BY <1>1
    <2>2. (CHOOSE x \in s : TRUE) \in s
      BY <1>2
    <2> QED BY <2>1, <2>2
  <1>3. PICK h : h = [p \in S \X Int |-> b[p[1]].solde + p[2]]
    OBVIOUS
  <1>4. h \in [S \X Int -> Int]
    BY <1>3 DEF Soldes
  <1>5. PICK g \in [SUBSET S -> Int] : Deroule(g, S, 0, ch, h)
    <2>1. \A s \in (SUBSET S) \ {{}} : ch[s] \in s
      BY <1>2
    <2>2. 0 \in Int
      OBVIOUS
    <2> QED BY <1>4, <2>1, <2>2, DerouleExiste, Zenon
  <1>6. ASSUME NEW s \in SUBSET S, s # {}
        PROVE  g[s] = b[CHOOSE x \in s : TRUE].solde
                        + g[s \ {CHOOSE x \in s : TRUE}]
    <2>1. PICK x, t : x = ch[s] /\ t = s \ {x}
      OBVIOUS
    <2>2. x \in S /\ x = (CHOOSE y \in s : TRUE) /\ t \in SUBSET S /\ g[t] \in Int
      BY <1>2, <1>6, <2>1
    <2>3. g[s] = h[<<x, g[t]>>]
      BY <1>5, <1>6, <2>1 DEF Deroule
    <2>4. g[s] = b[x].solde + g[t]
      <3>1. PICK p, v : v = g[t] /\ p = <<x, v>>
        OBVIOUS
      <3>2. p \in S \X Int /\ p[1] = x /\ p[2] = v
        <4>1. x \in S /\ v \in Int
          BY <2>2, <3>1
        <4> QED BY <3>1, <4>1
      <3>3. h[p] = b[p[1]].solde + p[2]
        BY <1>3, <3>2
      <3> QED BY <2>3, <3>1, <3>2, <3>3
    <2> QED BY <2>1, <2>2, <2>4
  <1>7. g[{}] = 0
    BY <1>5 DEF Deroule
  <1>8. EqTotal(g, b, S)
    BY <1>6, <1>7 DEF EqTotal
  <1> QED BY <1>8

\* One unfolding, by the account that CHOOSE takes.
LEMMA TotalPas ==
    ASSUME NEW b, NEW S, NEW g, EqTotal(g, b, S)
    PROVE  /\ g[{}] = 0
           /\ \A s \in SUBSET S : s # {} =>
                 \E x \in s : /\ x = CHOOSE y \in s : TRUE
                              /\ g[s] = b[x].solde + g[s \ {x}]
  <1>1. g[{}] = 0
    BY DEF EqTotal
  <1>2. ASSUME NEW s \in SUBSET S, s # {}
        PROVE  \E x \in s : /\ x = CHOOSE y \in s : TRUE
                            /\ g[s] = b[x].solde + g[s \ {x}]
    <2>1. (CHOOSE y \in s : TRUE) \in s
      BY <1>2
    <2>2. g[s] = b[CHOOSE y \in s : TRUE].solde + g[s \ {CHOOSE y \in s : TRUE}]
      BY <1>2 DEF EqTotal
    <2> QED BY <2>1, <2>2
  <1> QED BY <1>1, <1>2

\* Totals of whole amounts are whole.
LEMMA TotalEntier ==
    ASSUME NEW b, NEW S, IsFiniteSet(S), Soldes(b, S), NEW g, EqTotal(g, b, S)
    PROVE  \A s \in SUBSET S : g[s] \in Int
  <1>1. PICK P : P = {s \in SUBSET S : g[s] \in Int}
    OBVIOUS
  <1>2. {} \in P
    BY <1>1, TotalPas
  <1>3. ASSUME NEW s \in SUBSET S, s # {}, \A x \in s : s \ {x} \in P
        PROVE  s \in P
    <2>1. PICK y \in s : g[s] = b[y].solde + g[s \ {y}]
      BY <1>3, TotalPas
    <2>2. g[s \ {y}] \in Int /\ b[y].solde \in Int
      BY <1>1, <1>3 DEF Soldes
    <2> QED BY <1>1, <2>1, <2>2
  <1>4. SUBSET S \subseteq P
    <2>1. \A s \in SUBSET S : s # {} /\ (\A x \in s : s \ {x} \in P) => s \in P
      BY <1>3
    <2> QED BY <1>2, <2>1, Tailles, Zenon
  <1> QED BY <1>1, <1>4

\* Any account can be taken first.
LEMMA TotalOrdre ==
    ASSUME NEW b, NEW S, IsFiniteSet(S), Soldes(b, S), NEW g, EqTotal(g, b, S)
    PROVE  \A s \in SUBSET S : \A x \in s : g[s] = b[x].solde + g[s \ {x}]
  <1>1. PICK P : P = {s \in SUBSET S :
                        \A x \in s : g[s] = b[x].solde + g[s \ {x}]}
    OBVIOUS
  <1>2. {} \in P
    BY <1>1
  <1>3. ASSUME NEW s \in SUBSET S, s # {}, \A x \in s : s \ {x} \in P
        PROVE  s \in P
    <2>1. PICK y \in s : g[s] = b[y].solde + g[s \ {y}]
      BY <1>3, TotalPas
    <2>2. ASSUME NEW x \in s, x # y
          PROVE  g[s] = b[x].solde + g[s \ {x}]
      <3>1. PICK t, u, v : t = s \ {y} /\ u = s \ {x} /\ v = s \ {x, y}
        OBVIOUS
      <3>2. /\ t \in P /\ u \in P /\ x \in t /\ y \in u
            /\ t \ {x} = v /\ u \ {y} = v
        BY <1>3, <2>2, <3>1
      <3>3. g[t] = b[x].solde + g[v] /\ g[u] = b[y].solde + g[v]
        BY <1>1, <3>2
      <3>4. b[x].solde \in Int /\ b[y].solde \in Int
        BY DEF Soldes
      <3>5. g[v] \in Int
        <4>1. v \in SUBSET S
          BY <3>1
        <4> QED BY <4>1, TotalEntier
      <3> QED BY <2>1, <3>1, <3>3, <3>4, <3>5
    <2> QED BY <1>1, <2>1, <2>2
  <1>4. SUBSET S \subseteq P
    <2>1. \A s \in SUBSET S : s # {} /\ (\A x \in s : s \ {x} \in P) => s \in P
      BY <1>3
    <2> QED BY <1>2, <2>1, Tailles, Zenon
  <1> QED BY <1>1, <1>4

\* The total over accounts depends on their lines only.
LEMMA TotalLocal ==
    ASSUME NEW b1, NEW S1, NEW g1, EqTotal(g1, b1, S1),
           NEW b2, NEW S2, NEW g2, EqTotal(g2, b2, S2),
           NEW T, IsFiniteSet(T), T \subseteq S1, T \subseteq S2,
           \A c \in T : b1[c].solde = b2[c].solde
    PROVE  g1[T] = g2[T]
  <1>1. PICK P : P = {s \in SUBSET T : g1[s] = g2[s]}
    OBVIOUS
  <1>2. {} \in P
    BY <1>1, TotalPas
  <1>3. ASSUME NEW s \in SUBSET T, s # {}, \A x \in s : s \ {x} \in P
        PROVE  s \in P
    <2>1. s \in SUBSET S1 /\ s \in SUBSET S2
      OBVIOUS
    <2>2. PICK x \in s : /\ x = CHOOSE y \in s : TRUE
                         /\ g1[s] = b1[x].solde + g1[s \ {x}]
      BY <1>3, <2>1, TotalPas
    <2>3. PICK z \in s : /\ z = CHOOSE y \in s : TRUE
                         /\ g2[s] = b2[z].solde + g2[s \ {z}]
      BY <1>3, <2>1, TotalPas
    <2>4. z = x
      BY <2>2, <2>3
    <2>5. g1[s \ {x}] = g2[s \ {x}]
      BY <1>1, <1>3
    <2>6. b1[x].solde = b2[x].solde
      OBVIOUS
    <2>7. g1[s] = g2[s]
      BY <2>2, <2>3, <2>4, <2>5, <2>6
    <2> QED BY <1>1, <2>7
  <1>4. SUBSET T \subseteq P
    <2>1. \A s \in SUBSET T : s # {} /\ (\A x \in s : s \ {x} \in P) => s \in P
      BY <1>3
    <2> QED BY <1>2, <2>1, Tailles, Zenon
  <1> QED BY <1>1, <1>4

\* The lines of a balance.
LignesBalance == {l \in [debit : Int, credit : Int, solde : Int] :
                    l.solde = l.debit - l.credit}

\* The balances of finitely many accounts.
Balances == UNION {[D -> LignesBalance] : D \in {D \in SUBSET Nat : IsFiniteSet(D)}}

\* The same, by the parts of a balance.
LEMMA BalancesType ==
    ASSUME NEW b
    PROVE  b \in Balances <=>
             /\ DOMAIN b \subseteq Nat /\ IsFiniteSet(DOMAIN b)
             /\ b = [c \in DOMAIN b |-> b[c]]
             /\ \A c \in DOMAIN b : b[c] \in LignesBalance
  <1>1. ASSUME b \in Balances
        PROVE  /\ DOMAIN b \subseteq Nat /\ IsFiniteSet(DOMAIN b)
             /\ b = [c \in DOMAIN b |-> b[c]]
               /\ \A c \in DOMAIN b : b[c] \in LignesBalance
    <2>1. PICK D : D \in SUBSET Nat /\ IsFiniteSet(D) /\ b \in [D -> LignesBalance]
      BY <1>1 DEF Balances
    <2> QED BY <2>1
  <1>2. ASSUME DOMAIN b \subseteq Nat, IsFiniteSet(DOMAIN b),
               b = [c \in DOMAIN b |-> b[c]],
               \A c \in DOMAIN b : b[c] \in LignesBalance
        PROVE  b \in Balances
    <2>1. b \in [DOMAIN b -> LignesBalance]
      BY <1>2
    <2> QED BY <1>2, <2>1 DEF Balances
  <1> QED BY <1>1, <1>2

\* The balance of an empty journal.
LEMMA BalanceVide == <<>> \in Balances /\ DOMAIN <<>> = {}
  <1>1. PICK b : b = <<>>
    OBVIOUS
  <1>2. DOMAIN b = {}
    BY <1>1
  <1>3. b \in [{} -> LignesBalance]
    BY <1>1, <1>2
  <1>4. {} \in SUBSET Nat /\ IsFiniteSet({})
    BY FS_EmptySet
  <1>5. b \in Balances
    BY <1>3, <1>4 DEF Balances
  <1> QED BY <1>1, <1>2, <1>5

\* What an entry does to a balance.
LEMMA ReporterLigne ==
    ASSUME NEW b \in Balances, NEW x \in Ecrites
    PROVE  /\ Reporter(b, x) \in Balances
           /\ DOMAIN Reporter(b, x) = DOMAIN b \cup {x.compte}
           /\ \A c \in DOMAIN b \ {x.compte} : Reporter(b, x)[c] = b[c]
           /\ Reporter(b, x)[x.compte].solde =
                IF x.compte \in DOMAIN b
                  THEN b[x.compte].solde + (x.debit - x.credit)
                  ELSE x.debit - x.credit
  <1>1. PICK a, d, k : a = x.compte /\ d = x.debit /\ k = x.credit
    OBVIOUS
  <1>2. a \in Nat /\ d \in Int /\ k \in Int
    BY <1>1, EcritesType
  <1>3. /\ DOMAIN b \subseteq Nat /\ IsFiniteSet(DOMAIN b)
        /\ \A c \in DOMAIN b : b[c] \in LignesBalance
    BY BalancesType
  <1>4. PICK l : l = IF a \in DOMAIN b THEN b[a]
                     ELSE [debit |-> 0, credit |-> 0, solde |-> 0]
    OBVIOUS
  <1>5. l \in LignesBalance
    <2>1. CASE a \in DOMAIN b
      BY <1>3, <1>4, <2>1
    <2>2. CASE a \notin DOMAIN b
      BY <1>4, <2>2 DEF LignesBalance
    <2> QED BY <2>1, <2>2
  <1>6. /\ l.debit \in Int /\ l.credit \in Int /\ l.solde = l.debit - l.credit
    BY <1>5 DEF LignesBalance
  <1>7. PICK l1 : l1 = [debit |-> l.debit + d, credit |-> l.credit + k,
                        solde |-> (l.debit + d) - (l.credit + k)]
    OBVIOUS
  <1>8. /\ l1 \in LignesBalance /\ l1.solde = l.solde + (d - k)
    BY <1>2, <1>6, <1>7 DEF LignesBalance
  <1>9. PICK b1 : b1 = [c \in DOMAIN b \cup {a} |-> IF c = a THEN l1 ELSE b[c]]
    OBVIOUS
  <1>10. b1 = Reporter(b, x)
    BY <1>1, <1>4, <1>7, <1>9 DEF Reporter
  <1>11. DOMAIN b1 = DOMAIN b \cup {a} /\ b1[a] = l1
         /\ \A c \in DOMAIN b \ {a} : b1[c] = b[c]
    BY <1>9
  <1>12. b1 \in Balances
    <2>1. DOMAIN b1 \subseteq Nat /\ IsFiniteSet(DOMAIN b1)
      BY <1>2, <1>3, <1>11, FS_AddElement
    <2>2. \A c \in DOMAIN b1 : b1[c] \in LignesBalance
      BY <1>3, <1>8, <1>11
    <2>3. b1 = [c \in DOMAIN b1 |-> b1[c]]
      BY <1>9
    <2> QED BY <2>1, <2>2, <2>3, BalancesType
  <1>13. b1[a].solde = IF a \in DOMAIN b THEN b[a].solde + (d - k) ELSE d - k
    <2>1. CASE a \in DOMAIN b
      BY <1>4, <1>8, <1>11, <2>1
    <2>2. CASE a \notin DOMAIN b
      <3>1. l.solde = 0
        BY <1>4, <2>2
      <3> QED BY <1>2, <1>8, <1>11, <2>2, <3>1
    <2> QED BY <2>1, <2>2
  <1> QED BY <1>1, <1>10, <1>11, <1>12, <1>13

\* What it does to a total.
LEMMA TotalReporte ==
    ASSUME NEW b \in Balances, NEW x \in Ecrites, NEW C
    PROVE  Total(Reporter(b, x), C) = Total(b, C) + Apport(x, C)
           /\ Total(b, C) \in Int
  <1>1. PICK b1, a, m : b1 = Reporter(b, x) /\ a = x.compte /\ m = x.debit - x.credit
    OBVIOUS
  <1>2. /\ b1 \in Balances /\ DOMAIN b1 = DOMAIN b \cup {a}
        /\ \A c \in DOMAIN b \ {a} : b1[c] = b[c]
        /\ b1[a].solde = IF a \in DOMAIN b THEN b[a].solde + m ELSE m
    BY <1>1, ReporterLigne
  <1>3. PICK S, S1 : S = {c \in DOMAIN b : Classe(c) \in C}
                     /\ S1 = {c \in DOMAIN b1 : Classe(c) \in C}
    OBVIOUS
  <1>4. IsFiniteSet(S) /\ Soldes(b, S) /\ IsFiniteSet(S1) /\ Soldes(b1, S1)
    <2>1. ASSUME NEW d \in Balances, NEW D, D \subseteq DOMAIN d
          PROVE  IsFiniteSet(D) /\ Soldes(d, D)
      <3>1. IsFiniteSet(DOMAIN d) /\ \A c \in DOMAIN d : d[c] \in LignesBalance
        BY BalancesType
      <3>2. IsFiniteSet(D)
        BY <2>1, <3>1, FS_Subset
      <3>3. \A c \in D : d[c].solde \in Int
        BY <2>1, <3>1 DEF LignesBalance
      <3> QED BY <3>2, <3>3 DEF Soldes
    <2>2. S \subseteq DOMAIN b /\ S1 \subseteq DOMAIN b1
      BY <1>3
    <2> QED BY <1>2, <2>1, <2>2
  <1>5. PICK g : EqTotal(g, b, S) /\ Total(b, C) = g[S]
    BY <1>3, <1>4, TotalExiste, TotalDef, Zenon
  <1>6. PICK g1 : EqTotal(g1, b1, S1) /\ Total(b1, C) = g1[S1]
    BY <1>3, <1>4, TotalExiste, TotalDef, Zenon
  <1>7. g[S] \in Int
    BY <1>4, <1>5, TotalEntier
  <1>8. m \in Int /\ Apport(x, C) = IF Classe(a) \in C THEN m ELSE 0
    BY <1>1, EcritesType DEF Apport
  <1>9. CASE Classe(a) \notin C
    <2>1. S1 = S
      BY <1>2, <1>3, <1>9
    <2>2. \A c \in S : b[c].solde = b1[c].solde
      BY <1>2, <1>3, <1>9
    <2>3. g[S] = g1[S]
      BY <1>4, <1>5, <1>6, <2>1, <2>2, TotalLocal
    <2> QED BY <1>1, <1>5, <1>6, <1>7, <1>8, <1>9, <2>1, <2>3
  <1>10. CASE Classe(a) \in C
    <2>1. PICK T : T = S \ {a}
      OBVIOUS
    <2>2. a \in S1 /\ S1 \ {a} = T /\ T \subseteq S /\ T \subseteq S1
      BY <1>2, <1>3, <1>10, <2>1
    <2>3. \A c \in T : b[c].solde = b1[c].solde
      BY <1>2, <1>3, <2>1
    <2>4. IsFiniteSet(T)
      BY <1>4, <2>2, FS_Subset
    <2>5. g[T] = g1[T]
      BY <1>5, <1>6, <2>2, <2>3, <2>4, TotalLocal
    <2>6. g1[S1] = b1[a].solde + g1[T]
      BY <1>4, <1>6, <2>2, TotalOrdre
    <2>7. g[T] \in Int
      BY <1>4, <1>5, <2>2, TotalEntier
    <2>8. CASE a \in DOMAIN b
      <3>1. a \in S
        BY <1>3, <1>10, <2>8
      <3>2. g[S] = b[a].solde + g[T] /\ b[a].solde \in Int
        BY <1>4, <1>5, <2>1, <3>1, TotalOrdre DEF Soldes
      <3> QED BY <1>1, <1>2, <1>5, <1>6, <1>8, <1>10, <2>5, <2>6, <2>7, <2>8, <3>2
    <2>9. CASE a \notin DOMAIN b
      <3>1. T = S
        BY <1>3, <2>1, <2>9
      <3> QED BY <1>1, <1>2, <1>5, <1>6, <1>8, <1>10, <2>5, <2>6, <2>7, <2>9, <3>1
    <2> QED BY <2>8, <2>9
  <1> QED BY <1>5, <1>7, <1>9, <1>10

\* The total of an empty balance.
LEMMA TotalVide ==
    ASSUME NEW C
    PROVE  Total(<<>>, C) = 0
  <1>1. PICK b, S : b = <<>> /\ S = {c \in DOMAIN b : Classe(c) \in C}
    OBVIOUS
  <1>2. S = {} /\ IsFiniteSet(S) /\ Soldes(b, S)
    BY <1>1, FS_EmptySet DEF Soldes
  <1>3. PICK g : EqTotal(g, b, S) /\ Total(b, C) = g[S]
    BY <1>1, <1>2, TotalExiste, TotalDef, Zenon
  <1>4. g[{}] = 0
    BY <1>3 DEF EqTotal
  <1> QED BY <1>1, <1>2, <1>3, <1>4

\* The recursive equation behind GetBalance.
EqBalance(g, e) ==
    g = [s \in SUBSET DOMAIN e |->
           IF s = {} THEN <<>>
           ELSE Reporter(g[s \ {Max(s)}], e[Max(s)])]

\* GetBalance is the fold of the library.
LEMMA BalanceDef ==
    ASSUME NEW e
    PROVE  GetBalance(e) = (CHOOSE g : EqBalance(g, e))[DOMAIN e]
  BY DEF GetBalance, FoldLeft, MapThenFoldSet, EqBalance

\* The equation has a solution.
LEMMA BalanceExiste ==
    ASSUME NEW e \in Seq(Ecrites)
    PROVE  \E g : EqBalance(g, e)
  <1>1. PICK n, S : n = Len(e) /\ n \in Nat /\ S = 1..n /\ DOMAIN e = S
    OBVIOUS
  <1>2. IsFiniteSet(S)
    BY <1>1, FS_Interval
  <1>3. PICK ch : ch = [s \in SUBSET S |-> Max(s)]
    OBVIOUS
  <1>4. \A s \in (SUBSET S) \ {{}} : ch[s] = Max(s) /\ ch[s] \in s
    BY <1>1, <1>3, MaxType
  <1>5. PICK h : h = [p \in S \X Balances |-> Reporter(p[2], e[p[1]])]
    OBVIOUS
  <1>6. ASSUME NEW i \in S PROVE e[i] \in Ecrites
    BY <1>1
  <1>7. \A p \in S \X Balances : Reporter(p[2], e[p[1]]) \in Balances
    <2> TAKE p \in S \X Balances
    <2>1. p[1] \in S /\ p[2] \in Balances
      OBVIOUS
    <2> QED BY <1>6, <2>1, ReporterLigne
  <1>8. h \in [S \X Balances -> Balances]
    BY <1>5, <1>7
  <1>9. PICK vide : vide = <<>> /\ vide \in Balances
    BY BalanceVide
  <1>10. PICK g \in [SUBSET S -> Balances] : Deroule(g, S, vide, ch, h)
    <2>1. \A s \in (SUBSET S) \ {{}} : ch[s] \in s
      BY <1>4
    <2> QED BY <1>2, <1>8, <1>9, <2>1, DerouleExiste, Zenon
  <1>11. ASSUME NEW s \in SUBSET S, s # {}
         PROVE  g[s] = Reporter(g[s \ {Max(s)}], e[Max(s)])
    <2>1. PICK i, t : i = Max(s) /\ t = s \ {i}
      OBVIOUS
    <2>2. i \in S /\ ch[s] = i /\ t \in SUBSET S /\ g[t] \in Balances
      BY <1>4, <1>11, <2>1
    <2>3. g[s] = h[<<i, g[t]>>]
      BY <1>10, <1>11, <2>1, <2>2 DEF Deroule
    <2>4. PICK p, v : v = g[t] /\ p = <<i, v>>
      OBVIOUS
    <2>5. p \in S \X Balances /\ p[1] = i /\ p[2] = v
      <3>1. i \in S /\ v \in Balances
        BY <2>2, <2>4
      <3> QED BY <2>4, <3>1
    <2>6. h[p] = Reporter(p[2], e[p[1]])
      BY <1>5, <2>5
    <2> QED BY <2>1, <2>3, <2>4, <2>5, <2>6
  <1>12. g[{}] = <<>>
    BY <1>9, <1>10 DEF Deroule
  <1>13. EqBalance(g, e)
    BY <1>1, <1>11, <1>12 DEF EqBalance
  <1> QED BY <1>13

\* The equations of a balance that grows with the entries.
EstReport(b, e) ==
    /\ b[0] = <<>>
    /\ \A k \in 1..Len(e) : b[k] = Reporter(b[k - 1], e[k])

\* GetBalance is the last of them.
LEMMA BalanceReport ==
    ASSUME NEW e \in Seq(Ecrites)
    PROVE  \E b : EstReport(b, e) /\ GetBalance(e) = b[Len(e)]
  <1>1. PICK g : EqBalance(g, e) /\ GetBalance(e) = g[DOMAIN e]
    BY BalanceExiste, BalanceDef, Zenon
  <1>2. PICK n : n = Len(e) /\ n \in Nat /\ DOMAIN e = 1..n
    OBVIOUS
  <1>3. PICK b : b = [k \in 0..n |-> g[1..k]]
    OBVIOUS
  <1>4. b[0] = <<>>
    <2>1. 1..0 = {} /\ {} \in SUBSET DOMAIN e
      OBVIOUS
    <2>2. g[{}] = <<>>
      BY <1>1, <2>1 DEF EqBalance
    <2>3. b[0] = g[1..0]
      BY <1>2, <1>3
    <2> QED BY <2>1, <2>2, <2>3
  <1>5. ASSUME NEW k \in 1..n
        PROVE  b[k] = Reporter(b[k - 1], e[k])
    <2>1. PICK s, t : s = 1..k /\ t = 1..(k - 1)
      OBVIOUS
    <2>2. Max(s) = k /\ s # {} /\ s \ {k} = t /\ s \in SUBSET DOMAIN e
      BY <1>2, <2>1, Prefixe
    <2>3. b[k] = g[s] /\ b[k - 1] = g[t]
      BY <1>2, <1>3, <2>1
    <2>4. g[s] = Reporter(g[s \ {Max(s)}], e[Max(s)])
      BY <1>1, <2>2 DEF EqBalance
    <2> QED BY <2>2, <2>3, <2>4
  <1>6. EstReport(b, e)
    BY <1>2, <1>4, <1>5 DEF EstReport
  <1>7. b[n] = g[DOMAIN e]
    BY <1>2, <1>3
  <1> QED BY <1>1, <1>2, <1>6, <1>7

\* The balance shows for some classes what a loop over the entries adds up,
\* and has a line for every account with an entry, whatever the journal.
THEOREM BalanceFidele ==
    ASSUME NEW e \in Seq(Ecrites), NEW C
    PROVE  /\ DOMAIN GetBalance(e) = Comptes(e)
           /\ Total(GetBalance(e), C) = Solde(e, C)
  <1>1. PICK n : n = Len(e) /\ n \in Nat
    OBVIOUS
  <1>2. PICK b : EstReport(b, e) /\ GetBalance(e) = b[n]
    BY <1>1, BalanceReport
  <1>3. PICK c : EstCumul(c, e, C) /\ Solde(e, C) = c[n]
    BY <1>1, SoldeCumul
  <1>4. PICK N : N = {k \in Nat : k <= n =>
                        /\ b[k] \in Balances
                        /\ DOMAIN b[k] = {e[i].compte : i \in 1..k}
                        /\ Total(b[k], C) = c[k]}
    OBVIOUS
  <1>5. 0 \in N
    <2>1. b[0] = <<>> /\ c[0] = 0
      BY <1>1, <1>2, <1>3 DEF EstReport, EstCumul
    <2>2. b[0] \in Balances /\ DOMAIN b[0] = {} /\ Total(b[0], C) = 0
      BY <2>1, BalanceVide, TotalVide
    <2>3. {e[i].compte : i \in 1..0} = {}
      OBVIOUS
    <2> QED BY <1>4, <2>1, <2>2, <2>3
  <1>6. ASSUME NEW k \in Nat, k \in N PROVE k + 1 \in N
    <2>1. CASE k + 1 <= n
      <3>1. PICK j, x : j = k + 1 /\ x = e[j]
        OBVIOUS
      <3>2. j \in 1..n /\ j - 1 = k /\ k <= n
        BY <1>1, <1>2, <1>3, <2>1, <3>1
      <3>3. x \in Ecrites
        BY <1>1, <1>2, <1>3, <3>1, <3>2
      <3>4. /\ b[k] \in Balances /\ DOMAIN b[k] = {e[i].compte : i \in 1..k}
            /\ Total(b[k], C) = c[k]
        BY <1>4, <1>6, <3>2
      <3>5. b[j] = Reporter(b[k], x) /\ c[j] = c[k] + Apport(x, C)
        BY <1>1, <1>2, <1>3, <3>1, <3>2 DEF EstReport, EstCumul
      <3>6. b[j] \in Balances /\ DOMAIN b[j] = DOMAIN b[k] \cup {x.compte}
        BY <3>3, <3>4, <3>5, ReporterLigne
      <3>7. Total(b[j], C) = c[j]
        BY <3>3, <3>4, <3>5, TotalReporte
      <3>8. {e[i].compte : i \in 1..j} = {e[i].compte : i \in 1..k} \cup {x.compte}
        <4>1. 1..j = 1..k \cup {j}
          BY <3>1
        <4> QED BY <3>1, <4>1
      <3>9. j \in Nat
        BY <3>1
      <3>10. j \in N
        BY <1>4, <3>4, <3>6, <3>7, <3>8, <3>9
      <3> QED BY <3>1, <3>10
    <2>2. CASE ~(k + 1 <= n)
      BY <1>4, <2>2
    <2> QED BY <2>1, <2>2
  <1>7. Nat \subseteq N
    BY <1>5, <1>6, Recurrence
  <1>8. DOMAIN b[n] = {e[i].compte : i \in 1..n} /\ Total(b[n], C) = c[n]
    BY <1>1, <1>2, <1>3, <1>4, <1>7
  <1>9. DOMAIN e = 1..n
    BY <1>1, <1>2, <1>3
  <1> QED BY <1>1, <1>2, <1>3, <1>8, <1>9 DEF Comptes

\* The statements and reports of every journal the program can write agree.
THEOREM EtatsToujoursAccordes == Spec => []EtatsAccordes
  <1>1. TypeOK => EtatsAccordes
    <2> SUFFICES ASSUME TypeOK PROVE EtatsAccordes
      OBVIOUS
    <2>1. PICK e : e = ecritures /\ e \in Seq(Ecrites)
      BY DEF TypeOK, Ecrites
    <2>2. PICK s6, s7, s13, s45 :
            /\ s6 = Solde(e, {6}) /\ s7 = Solde(e, {7})
            /\ s13 = Solde(e, {1, 2, 3}) /\ s45 = Solde(e, {4, 5})
      OBVIOUS
    <2>3. Solde(e, {6} \cup {7}) = s6 + s7 /\ s6 \in Int /\ s7 \in Int
      <3>1. {6} \cap {7} = {} /\ e \in Seq(Ecrites)
        BY <2>1
      <3>2. /\ Solde(e, {6} \cup {7}) = Solde(e, {6}) + Solde(e, {7})
            /\ Solde(e, {6}) \in Int /\ Solde(e, {7}) \in Int
        BY <3>1, SoldeSomme, Zenon
      <3> QED BY <2>2, <3>2
    <2>4. Solde(e, {1, 2, 3} \cup {4, 5}) = s13 + s45 /\ s13 \in Int /\ s45 \in Int
      <3>1. {1, 2, 3} \cap {4, 5} = {} /\ e \in Seq(Ecrites)
        BY <2>1
      <3>2. /\ Solde(e, {1, 2, 3} \cup {4, 5})
                = Solde(e, {1, 2, 3}) + Solde(e, {4, 5})
            /\ Solde(e, {1, 2, 3}) \in Int /\ Solde(e, {4, 5}) \in Int
        BY <3>1, SoldeSomme, Zenon
      <3> QED BY <2>2, <3>2
    <2>5. {6} \cup {7} = {6, 7} /\ {1, 2, 3} \cup {4, 5} = 1..5
          /\ (1..5) \cup {6, 7} = 1..7 /\ (1..5) \cap {6, 7} = {}
      OBVIOUS
    <2>6. Solde(e, {6, 7}) = s6 + s7 /\ Solde(e, 1..5) = s13 + s45
      BY <2>3, <2>4, <2>5
    <2>7. Solde(e, 1..7) = Solde(e, 1..5) + Solde(e, {6, 7})
      <3>1. /\ e \in Seq(Ecrites) /\ (1..5) \cap {6, 7} = {}
            /\ (1..5) \cup {6, 7} = 1..7
        BY <2>1, <2>5
      <3>2. Solde(e, (1..5) \cup {6, 7}) = Solde(e, 1..5) + Solde(e, {6, 7})
        BY <3>1, SoldeSomme, Zenon
      <3> QED BY <3>1, <3>2
    <2>8. PICK b : b = GetBalance(e)
      OBVIOUS
    <2>9. /\ DOMAIN b = Comptes(e)
          /\ Total(b, {6, 7}) = Solde(e, {6, 7})
          /\ Total(b, 1..7) = Solde(e, 1..7)
      BY <2>1, <2>8, BalanceFidele
    <2>10. GetSalesStats(e) = -s7 /\ GetPurchasesStats(e) = s6
      BY <2>2 DEF GetSalesStats, GetPurchasesStats
    <2>11. GetIncomeStatement(e).resultat = -s7 - s6
      BY <2>2 DEF GetIncomeStatement
    <2>12. /\ GetBalanceSheet(e).actif = s13
           /\ GetBalanceSheet(e).passif = -s45
      BY <2>2 DEF GetBalanceSheet
    <2> QED BY <2>1, <2>3, <2>4, <2>6, <2>7, <2>8, <2>9, <2>10, <2>11, <2>12
            DEF EtatsAccordes
  <1> QED BY <1>1, TypeInit, TypePas, PTL DEF Spec

=============================================================================
