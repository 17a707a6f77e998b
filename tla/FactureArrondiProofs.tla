------------------------ MODULE FactureArrondiProofs ------------------------
(***************************************************************************)
(* Proofs about FactureArrondi, for any amounts, rates of discount, number  *)
(* of writes and unit in which the rates are exact.                         *)
(***************************************************************************)
EXTENDS FactureArrondi, TLAPS

\* Whole numbers of cents, and the columns that keep them.
Cents == {k * Centime : k \in Int}
Champs == {"sous_total_ht", "montant_remise", "sous_total_apres_remise", "tps",
           "total_ht_apres_tps", "tva", "total_ttc", "acompte", "montant_paye",
           "solde_a_payer"}

\* What the division of an amount leaves is less than the divisor.
LEMMA Division ==
    ASSUME NEW a \in Int, NEW b \in Nat \ {0}
    PROVE  /\ a \div b \in Int
           /\ b * (a \div b) <= a /\ a < b * (a \div b) + b
           /\ a % b = a - b * (a \div b)
  OBVIOUS

\* Products that differ by less than a factor are equal.
LEMMA FacteurUnique ==
    ASSUME NEW c \in Nat \ {0}, NEW k \in Int, NEW j \in Int,
           c * k < c * j + c, c * j < c * k + c
    PROVE  k = j
  OBVIOUS

\* What is less than two factors is one at most.
LEMMA FacteurBorne ==
    ASSUME NEW c \in Nat \ {0}, NEW k \in Int, 2 * (c * k) <= 3 * c
    PROVE  c * k <= c
  OBVIOUS

\* A whole number of cents leaves no remainder.
LEMMA CentsReste ==
    ASSUME NEW x \in Cents
    PROVE  x \in Int /\ x % Centime = 0
  <1>1. PICK k \in Int : x = k * Centime
    BY DEF Cents
  <1>2. Centime * k = k * Centime /\ x \in Int /\ Centime \in Nat \ {0}
    BY <1>1, CentimeAssumption
  <1>3. PICK j \in Int : j = x \div Centime
    BY <1>2, Division
  <1>4. Centime * j <= x /\ x < Centime * j + Centime /\ x % Centime = x - Centime * j
    BY <1>2, <1>3, Division
  <1>5. k = j
    <2>1. Centime * k < Centime * j + Centime /\ Centime * j < Centime * k + Centime
      BY <1>1, <1>2, <1>4
    <2> QED BY <1>2, <2>1, FacteurUnique
  <1> QED BY <1>1, <1>2, <1>4, <1>5

\* The number of cents of an amount.
LEMMA CentsNombre ==
    ASSUME NEW x \in Cents
    PROVE  \E k \in Int : x = Centime * k
  <1>1. PICK k \in Int : x = k * Centime
    BY DEF Cents
  <1>2. k * Centime = Centime * k
    BY CentimeAssumption
  <1> QED BY <1>1, <1>2

\* Whole numbers of cents add up to whole numbers of cents.
LEMMA CentsSomme ==
    ASSUME NEW x \in Cents, NEW y \in Cents
    PROVE  x + y \in Cents /\ x - y \in Cents
  <1>1. PICK j \in Int, k \in Int : x = j * Centime /\ y = k * Centime
    BY DEF Cents
  <1>2. x + y = (j + k) * Centime /\ x - y = (j - k) * Centime
    BY <1>1, CentimeAssumption
  <1>3. j + k \in Int /\ j - k \in Int
    BY <1>1
  <1> QED BY <1>2, <1>3 DEF Cents

\* The nearest cent of an amount that is not negative.
LEMMA ArrondiPositif ==
    ASSUME NEW x \in Nat
    PROVE  /\ Colonne(x) \in Cents /\ Colonne(x) >= 0
           /\ 2 * (Colonne(x) - x) <= Centime /\ -Centime <= 2 * (Colonne(x) - x)
  <1>1. PICK c, a, k : /\ c = Centime /\ c \in Nat \ {0} /\ a = 2 * x + c
                       /\ k = a \div (2 * c)
    BY CentimeAssumption
  <1>2. /\ k \in Int /\ (2 * c) * k <= a /\ a < (2 * c) * k + 2 * c
    <2>1. PICK d : d = 2 * c /\ d \in Nat \ {0} /\ a \in Int /\ k = a \div d
      BY <1>1
    <2>2. k \in Int /\ d * k <= a /\ a < d * k + d
      BY <2>1, Division
    <2> QED BY <2>1, <2>2
  <1>3. Colonne(x) = k * c
    BY <1>1 DEF Colonne
  <1>4. (2 * c) * k = 2 * (k * c) /\ k * c \in Int
    BY <1>1, <1>2
  <1>5. k >= 0
    BY <1>1, <1>2
  <1>6. k * c >= 0
    BY <1>1, <1>2, <1>5
  <1>7. 2 * (k * c) <= 2 * x + c /\ 2 * x + c < 2 * (k * c) + 2 * c
    BY <1>1, <1>2, <1>4
  <1>8. 2 * (k * c - x) <= c /\ -c <= 2 * (k * c - x)
    BY <1>1, <1>4, <1>7
  <1>9. k * c \in Cents
    BY <1>1, <1>2 DEF Cents
  <1> QED BY <1>1, <1>3, <1>6, <1>8, <1>9

\* A column keeps the nearest cent, of the same sign.
LEMMA Arrondi ==
    ASSUME NEW x \in Int
    PROVE  /\ Colonne(x) \in Cents
           /\ 2 * (Colonne(x) - x) <= Centime /\ -Centime <= 2 * (Colonne(x) - x)
           /\ x <= 0 => Colonne(x) <= 0
           /\ x >= 0 => Colonne(x) >= 0
  <1>1. CASE x >= 0
    <2>1. x \in Nat
      BY <1>1
    <2>2. x <= 0 => Colonne(x) <= 0
      <3> SUFFICES ASSUME x <= 0 PROVE Colonne(x) <= 0
        OBVIOUS
      <3>1. x = 0
        BY <1>1
      <3>2. PICK y : y = Colonne(0) /\ y \in Cents /\ 2 * (y - 0) <= Centime /\ y >= 0
        BY ArrondiPositif
      <3>3. PICK k \in Int : y = k * Centime
        BY <3>2 DEF Cents
      <3>4. k <= 0
        BY <3>2, <3>3, CentimeAssumption
      <3>5. k * Centime <= 0
        BY <3>3, <3>4, CentimeAssumption
      <3> QED BY <3>1, <3>2, <3>3, <3>5
    <2> QED BY <2>1, <2>2, ArrondiPositif
  <1>2. CASE x < 0
    <2>1. PICK y : y = -x /\ y \in Nat /\ y > 0
      BY <1>2
    <2>2. Colonne(x) = -Colonne(y)
      <3>1. -x = y /\ ~(x >= 0) /\ y >= 0
        BY <1>2, <2>1
      <3> QED BY <3>1 DEF Colonne
    <2>3. PICK z : /\ z = Colonne(y) /\ z \in Cents /\ z >= 0
                   /\ 2 * (z - y) <= Centime /\ -Centime <= 2 * (z - y)
      BY <2>1, ArrondiPositif
    <2>4. -z \in Cents /\ z \in Int
      <3>1. PICK k \in Int : z = k * Centime
        BY <2>3 DEF Cents
      <3>2. -z = (-k) * Centime /\ -k \in Int /\ z \in Int
        BY <3>1, CentimeAssumption
      <3> QED BY <3>2 DEF Cents
    <2> QED BY <1>2, <2>1, <2>2, <2>3, <2>4, CentimeAssumption
  <1> QED BY <1>1, <1>2

\* What is on the cent already stays as it is.
LEMMA ArrondiExact ==
    ASSUME NEW x \in Cents
    PROVE  Colonne(x) = x
  <1>1. PICK y : y = Colonne(x)
    OBVIOUS
  <1>2. x \in Int /\ y \in Cents /\ 2 * (y - x) <= Centime /\ -Centime <= 2 * (y - x)
    BY <1>1, Arrondi, CentsReste
  <1>3. PICK j \in Int, k \in Int : x = Centime * j /\ y = Centime * k
    BY <1>2, CentsNombre
  <1>4. Centime * k < Centime * j + Centime /\ Centime * j < Centime * k + Centime
    BY <1>2, <1>3, CentimeAssumption
  <1>5. k = j
    BY <1>3, <1>4, FacteurUnique, CentimeAssumption
  <1> QED BY <1>1, <1>3, <1>5

\* Whole numbers of cents that are a cent and a half apart at most are one cent
\* apart at most.
LEMMA UnCentime ==
    ASSUME NEW x \in Cents, NEW y \in Cents,
           2 * (x - y) <= 3 * Centime, 2 * (y - x) <= 3 * Centime
    PROVE  EcartMax(x, y)
  <1>1. PICK j \in Int, k \in Int : x - y = Centime * j /\ y - x = Centime * k
    <2>1. x - y \in Cents /\ y - x \in Cents
      BY CentsSomme
    <2> QED BY <2>1, CentsNombre
  <1>2. Centime * j <= Centime /\ Centime * k <= Centime
    BY <1>1, FacteurBorne, CentimeAssumption
  <1> QED BY <1>1, <1>2 DEF EcartMax
-----------------------------------------------------------------------------
\* An amount that a divisor divides is as many times the divisor.
LEMMA DivisionExacte ==
    ASSUME NEW a \in Int, NEW b \in Nat \ {0}, a % b = 0
    PROVE  a \div b \in Int /\ a = b * (a \div b)
  BY Division

\* The quotient of a multiple.
LEMMA QuotientExact ==
    ASSUME NEW a \in Int, NEW b \in Nat \ {0}, NEW k \in Int, a = b * k
    PROVE  a \div b = k
  <1>1. PICK j \in Int : j = a \div b /\ b * j <= a /\ a < b * j + b
    BY Division
  <1>2. b * k < b * j + b /\ b * j < b * k + b
    BY <1>1
  <1>3. k = j
    BY <1>2, FacteurUnique
  <1> QED BY <1>1, <1>3

\* The discount, and what is left for each of its kinds.
LEMMA RemiseType ==
    ASSUME NEW s \in Saisies
    PROVE  LET r   == MontantRemise(s.ht, s.remise)
               net == s.ht - r
           IN  /\ s.ht \in Int /\ r \in Int /\ s.vente \in TypesVente
               /\ net = IF s.remise.type = "pourcentage"
                          THEN (s.ht \div 100) * (100 - s.remise.valeur)
                          ELSE s.ht - s.remise.valeur
  <1>1. /\ s.ht \in Int /\ s.vente \in TypesVente /\ s.remise.valeur \in Int
        /\ s.ht % 100 = 0
    <2>1. s.ht \in HTs /\ s.remise \in Remises /\ s.vente \in TypesVente
      BY DEF Saisies
    <2>2. s.ht \in Int /\ s.remise \in [type : {"fixe", "pourcentage"}, valeur : Int]
      BY <2>1, MontantsAssumption
    <2>3. s.ht % 100 = 0
      BY ExactitudeAssumption
    <2> QED BY <2>1, <2>2, <2>3
  <1>2. PICK h, v : h = s.ht \div 100 /\ h \in Int /\ s.ht = 100 * h
                    /\ v = s.remise.valeur /\ v \in Int
    BY <1>1, DivisionExacte
  <1>3. h * v \in Int /\ h * (100 - v) = 100 * h - h * v
    BY <1>2
  <1>4. MontantRemise(s.ht, s.remise)
          = IF s.remise.type = "pourcentage" THEN h * v ELSE v
    BY <1>2 DEF MontantRemise, Taux
  <1> QED BY <1>1, <1>2, <1>3, <1>4

\* The rates of TTCReference on a net amount.
TTCNet(net, vente) ==
    CASE vente = "service" -> (net \div 80000) * 86337
      [] vente = "marchandise" /\ net > SeuilTVA -> (net \div 400) * 477
      [] OTHER -> net

\* The total of an invoice on a net amount: base and tax by the rates of the
\* code, or by one rate in closed form.
LEMMA TauxReunis ==
    ASSUME NEW net \in Int, NEW vente \in TypesVente, net % 200 = 0,
           (net - Tps(net, vente)) % 400 = 0
    PROVE  LET base == net - Tps(net, vente)
           IN  /\ Tps(net, vente) \in Int /\ Tva(base, vente) \in Int
               /\ base + Tva(base, vente) = TTCNet(net, vente)
  <1>1. CASE vente = "service"
    <2>1. PICK a \in Int : a = net \div 200 /\ net = 200 * a
      BY DivisionExacte
    <2>2. PICK tps, base : /\ tps = Tps(net, vente) /\ tps = a * 19
                           /\ base = net - tps /\ base \in Int
      BY <1>1, <2>1 DEF Tps, Taux
    <2>3. PICK c \in Int : c = base \div 400 /\ base = 400 * c
      BY <2>2, DivisionExacte
    <2>4. PICK b \in Int : b = 221 * c - 100 * a
      <3>1. 221 * c - 100 * a \in Int
        BY <2>1, <2>3
      <3> QED BY <3>1
    <2>5. a = 400 * b /\ net = 80000 * b /\ c = 181 * b
      BY <2>1, <2>2, <2>3, <2>4
    <2>6. net \div 80000 = b
      BY <2>5, QuotientExact
    <2>7. Tva(base, vente) = c * 77
      BY <1>1, <2>3 DEF Tva, Taux
    <2>8. base + c * 77 = b * 86337
      BY <2>3, <2>5
    <2>9. TTCNet(net, vente) = b * 86337
      BY <1>1, <2>6 DEF TTCNet
    <2> QED BY <2>2, <2>3, <2>7, <2>8, <2>9
  <1>2. CASE vente = "marchandise"
    <2>1. Tps(net, vente) = 0 /\ net - 0 = net
      BY <1>2 DEF Tps
    <2>2. PICK c \in Int : c = net \div 400 /\ net = 400 * c
      BY <2>1, DivisionExacte
    <2>3. Tva(net, vente) = IF net > SeuilTVA THEN c * 77 ELSE 0
      BY <1>2, <2>2 DEF Tva, Taux
    <2>4. net + c * 77 = c * 477 /\ c * 77 \in Int
      BY <2>2
    <2>5. vente # "service"
      BY <1>2
    <2>6. net - Tps(net, vente) = net /\ Tps(net, vente) \in Int
      BY <2>1
    <2>7. CASE net > SeuilTVA
      <3>1. TTCNet(net, vente) = c * 477
        BY <1>2, <2>2, <2>5, <2>7 DEF TTCNet
      <3> QED BY <2>3, <2>4, <2>6, <2>7, <3>1
    <2>8. CASE ~(net > SeuilTVA)
      <3>1. Tva(net, vente) = 0 /\ net + 0 = net
        BY <2>3, <2>8
      <3>2. TTCNet(net, vente) = net
        BY <2>5, <2>8 DEF TTCNet
      <3> QED BY <2>6, <3>1, <3>2
    <2> QED BY <2>7, <2>8
  <1> QED BY <1>1, <1>2 DEF TypesVente

\* What the service computes from a request and what is paid.
LEMMA TotauxType ==
    ASSUME NEW s \in Saisies, NEW a \in Int
    PROVE  LET t == Totaux(s, a)
           IN  /\ DOMAIN t = Champs /\ \A c \in Champs : t[c] \in Int
               /\ t.sous_total_apres_remise = t.sous_total_ht - t.montant_remise
               /\ t.total_ht_apres_tps = t.sous_total_apres_remise - t.tps
               /\ t.total_ttc = t.total_ht_apres_tps + t.tva
               /\ t.total_ttc = TTCReference(s)
               /\ t.montant_paye = a /\ t.solde_a_payer = t.total_ttc - a
  <1>1. PICK ht, mr, net, tps, base, tva :
          /\ ht = s.ht /\ mr = MontantRemise(ht, s.remise) /\ net = ht - mr
          /\ tps = Tps(net, s.vente) /\ base = net - tps
          /\ tva = Tva(base, s.vente)
    OBVIOUS
  <1>2. /\ ht \in Int /\ mr \in Int /\ net \in Int /\ s.vente \in TypesVente
        /\ net = IF s.remise.type = "pourcentage"
                   THEN (ht \div 100) * (100 - s.remise.valeur)
                   ELSE ht - s.remise.valeur
    BY <1>1, RemiseType
  <1>3. net % 200 = 0 /\ base % 400 = 0
    BY <1>1, ExactitudeAssumption
  <1>4. /\ tps \in Int /\ tva \in Int /\ base \in Int
        /\ base + tva = TTCNet(net, s.vente)
    BY <1>1, <1>2, <1>3, TauxReunis
  <1>5. base + tva = TTCReference(s)
    BY <1>1, <1>2, <1>4 DEF TTCReference, TTCNet
  <1>6. PICK t : t = Totaux(s, a)
    OBVIOUS
  <1>7. t = [sous_total_ht |-> ht, montant_remise |-> mr,
             sous_total_apres_remise |-> net, tps |-> tps,
             total_ht_apres_tps |-> base, tva |-> tva,
             total_ttc |-> base + tva, acompte |-> a, montant_paye |-> a,
             solde_a_payer |-> base + tva - a]
    BY <1>1, <1>6 DEF Totaux, CalculateTotals
  <1>8. DOMAIN t = Champs
    BY <1>7 DEF Champs
  <1>9. \A c \in Champs : t[c] \in Int
    BY <1>2, <1>4, <1>7 DEF Champs
  <1> QED BY <1>1, <1>5, <1>6, <1>7, <1>8, <1>9

\* The columns of these amounts.
LEMMA ColonnesType ==
    ASSUME NEW t, DOMAIN t = Champs, \A c \in Champs : t[c] \in Int
    PROVE  /\ Colonnes(t) \in [Champs -> Cents]
           /\ \A c \in Champs : /\ Colonnes(t)[c] = Colonne(t[c])
                                /\ 2 * (Colonnes(t)[c] - t[c]) <= Centime
                                /\ -Centime <= 2 * (Colonnes(t)[c] - t[c])
  <1>1. \A c \in Champs : /\ Colonne(t[c]) \in Cents
                          /\ 2 * (Colonne(t[c]) - t[c]) <= Centime
                          /\ -Centime <= 2 * (Colonne(t[c]) - t[c])
    BY Arrondi
  <1>2. Colonnes(t) = [c \in Champs |-> Colonne(t[c])]
    BY DEF Colonnes
  <1> QED BY <1>1, <1>2
-----------------------------------------------------------------------------
\* The stored amounts after any writes: on the cent, the reference total in its
\* column, and sums that are off by one cent at most.  What the code rounds
\* next is read back from these columns, which is why they are in here.
Enregistree(f, s) ==
    /\ s \in Saisies
    /\ f.montants \in [Champs -> Cents] /\ f.statut \in Statuts
    /\ f = [montants |-> f.montants, statut |-> f.statut]
    /\ f.montants.total_ttc = Colonne(TTCReference(s))

Additionne(m) ==
    /\ EcartMax(m.sous_total_apres_remise, m.sous_total_ht - m.montant_remise)
    /\ EcartMax(m.total_ht_apres_tps, m.sous_total_apres_remise - m.tps)
    /\ EcartMax(m.total_ttc, m.total_ht_apres_tps + m.tva)
    /\ EcartMax(m.solde_a_payer, m.total_ttc - m.montant_paye)

InvArrondi ==
    /\ saisie \in Saisies \cup {Neant} /\ versions \in 0..MaxVersions
    /\ fiche # Neant => Enregistree(fiche, saisie) /\ Additionne(fiche.montants)

\* Three columns whose exact values add up are off by one cent at most.
LEMMA TroisColonnes ==
    ASSUME NEW x \in Cents, NEW y \in Cents, NEW z \in Cents,
           NEW u \in Int, NEW v \in Int, NEW w \in Int,
           2 * (x - u) <= Centime, -Centime <= 2 * (x - u),
           2 * (y - v) <= Centime, -Centime <= 2 * (y - v),
           2 * (z - w) <= Centime, -Centime <= 2 * (z - w)
    PROVE  /\ u = v - w => EcartMax(x, y - z)
           /\ u = v + w => EcartMax(x, y + z)
  <1>1. x \in Int /\ y \in Int /\ z \in Int /\ Centime \in Nat
    BY CentsReste, CentimeAssumption
  <1>2. y - z \in Cents /\ y + z \in Cents
    BY CentsSomme
  <1>3. ASSUME u = v - w PROVE EcartMax(x, y - z)
    <2>1. 2 * (x - (y - z)) <= 3 * Centime /\ 2 * ((y - z) - x) <= 3 * Centime
      BY <1>1, <1>3
    <2> QED BY <1>2, <2>1, UnCentime
  <1>4. ASSUME u = v + w PROVE EcartMax(x, y + z)
    <2>1. 2 * (x - (y + z)) <= 3 * Centime /\ 2 * ((y + z) - x) <= 3 * Centime
      BY <1>1, <1>4
    <2> QED BY <1>2, <2>1, UnCentime
  <1> QED BY <1>3, <1>4

\* The columns of a fresh calculation add up to one cent.
LEMMA TotauxAdditionnes ==
    ASSUME NEW s \in Saisies, NEW a \in Int
    PROVE  /\ Colonnes(Totaux(s, a)) \in [Champs -> Cents]
           /\ Colonnes(Totaux(s, a)).total_ttc = Colonne(TTCReference(s))
           /\ Colonnes(Totaux(s, a)).montant_paye = Colonne(a)
           /\ Colonnes(Totaux(s, a)).solde_a_payer
                = Colonne(Totaux(s, a).solde_a_payer)
           /\ Totaux(s, a).solde_a_payer \in Int
           /\ Additionne(Colonnes(Totaux(s, a)))
  <1>1. PICK t : t = Totaux(s, a)
    OBVIOUS
  <1>2. /\ DOMAIN t = Champs /\ \A c \in Champs : t[c] \in Int
        /\ t.sous_total_apres_remise = t.sous_total_ht - t.montant_remise
        /\ t.total_ht_apres_tps = t.sous_total_apres_remise - t.tps
        /\ t.total_ttc = t.total_ht_apres_tps + t.tva
        /\ t.total_ttc = TTCReference(s)
        /\ t.montant_paye = a /\ t.solde_a_payer = t.total_ttc - a
    BY <1>1, TotauxType
  <1>3. PICK m : m = Colonnes(t)
    OBVIOUS
  <1>4. /\ m \in [Champs -> Cents]
        /\ \A c \in Champs : /\ m[c] = Colonne(t[c])
                             /\ 2 * (m[c] - t[c]) <= Centime
                             /\ -Centime <= 2 * (m[c] - t[c])
    BY <1>2, <1>3, ColonnesType
  <1>5. \A c \in Champs : m[c] \in Cents /\ m[c] \in Int /\ t[c] \in Int
    BY <1>2, <1>4, CentsReste
  <1>6. EcartMax(m.sous_total_apres_remise, m.sous_total_ht - m.montant_remise)
    <2>1. PICK x, y, z, u, v, w :
            /\ x = m.sous_total_apres_remise /\ y = m.sous_total_ht
            /\ z = m.montant_remise /\ u = t.sous_total_apres_remise
            /\ v = t.sous_total_ht /\ w = t.montant_remise
      OBVIOUS
    <2>2. /\ x \in Cents /\ y \in Cents /\ z \in Cents
          /\ u \in Int /\ v \in Int /\ w \in Int /\ u = v - w
      BY <1>2, <1>5, <2>1 DEF Champs
    <2>3. /\ 2 * (x - u) <= Centime /\ -Centime <= 2 * (x - u)
          /\ 2 * (y - v) <= Centime /\ -Centime <= 2 * (y - v)
          /\ 2 * (z - w) <= Centime /\ -Centime <= 2 * (z - w)
      BY <1>4, <2>1 DEF Champs
    <2>4. EcartMax(x, y - z)
      BY <2>2, <2>3, TroisColonnes
    <2> QED BY <2>1, <2>4
  <1>7. EcartMax(m.total_ht_apres_tps, m.sous_total_apres_remise - m.tps)
    <2>1. PICK x, y, z, u, v, w :
            /\ x = m.total_ht_apres_tps /\ y = m.sous_total_apres_remise
            /\ z = m.tps /\ u = t.total_ht_apres_tps
            /\ v = t.sous_total_apres_remise /\ w = t.tps
      OBVIOUS
    <2>2. /\ x \in Cents /\ y \in Cents /\ z \in Cents
          /\ u \in Int /\ v \in Int /\ w \in Int /\ u = v - w
      BY <1>2, <1>5, <2>1 DEF Champs
    <2>3. /\ 2 * (x - u) <= Centime /\ -Centime <= 2 * (x - u)
          /\ 2 * (y - v) <= Centime /\ -Centime <= 2 * (y - v)
          /\ 2 * (z - w) <= Centime /\ -Centime <= 2 * (z - w)
      BY <1>4, <2>1 DEF Champs
    <2>4. EcartMax(x, y - z)
      BY <2>2, <2>3, TroisColonnes
    <2> QED BY <2>1, <2>4
  <1>8. EcartMax(m.total_ttc, m.total_ht_apres_tps + m.tva)
    <2>1. PICK x, y, z, u, v, w :
            /\ x = m.total_ttc /\ y = m.total_ht_apres_tps
            /\ z = m.tva /\ u = t.total_ttc
            /\ v = t.total_ht_apres_tps /\ w = t.tva
      OBVIOUS
    <2>2. /\ x \in Cents /\ y \in Cents /\ z \in Cents
          /\ u \in Int /\ v \in Int /\ w \in Int /\ u = v + w
      BY <1>2, <1>5, <2>1 DEF Champs
    <2>3. /\ 2 * (x - u) <= Centime /\ -Centime <= 2 * (x - u)
          /\ 2 * (y - v) <= Centime /\ -Centime <= 2 * (y - v)
          /\ 2 * (z - w) <= Centime /\ -Centime <= 2 * (z - w)
      BY <1>4, <2>1 DEF Champs
    <2>4. EcartMax(x, y + z)
      BY <2>2, <2>3, TroisColonnes
    <2> QED BY <2>1, <2>4
  <1>9. EcartMax(m.solde_a_payer, m.total_ttc - m.montant_paye)
    <2>1. t.solde_a_payer = t.total_ttc - t.montant_paye
      BY <1>2
    <2>2. PICK x, y, z, u, v, w :
            /\ x = m.solde_a_payer /\ y = m.total_ttc
            /\ z = m.montant_paye /\ u = t.solde_a_payer
            /\ v = t.total_ttc /\ w = t.montant_paye
      OBVIOUS
    <2>3. /\ x \in Cents /\ y \in Cents /\ z \in Cents
          /\ u \in Int /\ v \in Int /\ w \in Int /\ u = v - w
      BY <1>2, <1>5, <2>1, <2>2 DEF Champs
    <2>4. /\ 2 * (x - u) <= Centime /\ -Centime <= 2 * (x - u)
          /\ 2 * (y - v) <= Centime /\ -Centime <= 2 * (y - v)
          /\ 2 * (z - w) <= Centime /\ -Centime <= 2 * (z - w)
      BY <1>4, <2>2 DEF Champs
    <2>5. EcartMax(x, y - z)
      BY <2>3, <2>4, TroisColonnes
    <2> QED BY <2>2, <2>5
  <1>10. /\ m.total_ttc = Colonne(t.total_ttc) /\ m.montant_paye = Colonne(t.montant_paye)
         /\ m.solde_a_payer = Colonne(t.solde_a_payer) /\ t.solde_a_payer \in Int
    BY <1>2, <1>4 DEF Champs
  <1>11. Additionne(m)
    BY <1>6, <1>7, <1>8, <1>9 DEF Additionne
  <1> QED BY <1>1, <1>2, <1>3, <1>4, <1>10, <1>11

\* A new invoice is stored as it was calculated.
LEMMA CreerArrondi ==
    ASSUME InvArrondi, Creer
    PROVE  InvArrondi'
  <1>1. PICK s \in Saisies, a \in Acomptes :
          /\ fiche' = [montants |-> Colonnes(Totaux(s, a)),
                       statut   |-> StatutInitial(Totaux(s, a).solde_a_payer)]
          /\ saisie' = s
    BY DEF Creer
  <1>2. PICK m, st : /\ m = Colonnes(Totaux(s, a))
                     /\ st = StatutInitial(Totaux(s, a).solde_a_payer)
    OBVIOUS
  <1>3. /\ m \in [Champs -> Cents] /\ m.total_ttc = Colonne(TTCReference(s))
        /\ Additionne(m)
    <2>1. a \in Int
      BY MontantsAssumption
    <2> QED BY <1>2, <2>1, TotauxAdditionnes
  <1>4. st \in Statuts
    BY <1>2 DEF StatutInitial, Statuts
  <1>5. PICK f : f = fiche'
    OBVIOUS
  <1>6. f = [montants |-> m, statut |-> st] /\ f.montants = m /\ f.statut = st
    BY <1>1, <1>2, <1>5
  <1>7. Enregistree(f, s) /\ Additionne(f.montants)
    BY <1>3, <1>4, <1>6 DEF Enregistree
  <1>8. saisie' = s /\ versions' = versions
    BY <1>1 DEF Creer
  <1> QED BY <1>5, <1>7, <1>8 DEF InvArrondi

\* A payment is added to the stored columns, which stay one cent apart at most.
LEMMA PayerArrondi ==
    ASSUME InvArrondi, Payer
    PROVE  InvArrondi'
  <1>1. PICK x \in Montants :
          fiche' =
            [montants |-> [fiche.montants EXCEPT
                             !.montant_paye  = Colonne(fiche.montants.montant_paye + x),
                             !.solde_a_payer =
                                Colonne(fiche.montants.total_ttc
                                          - (fiche.montants.montant_paye + x))],
             statut   |-> StatutApresPaiement(
                            fiche.montants.total_ttc
                              - (fiche.montants.montant_paye + x),
                            fiche.montants.montant_paye + x, fiche.statut)]
    BY DEF Payer
  <1>2. PICK f, s, m, p, d :
          /\ f = fiche /\ s = saisie /\ m = f.montants /\ p = m.montant_paye + x
          /\ d = m.total_ttc - p
    OBVIOUS
  <1>3. Enregistree(f, s) /\ Additionne(m)
    BY <1>2 DEF Payer, InvArrondi
  <1>4. /\ m \in [Champs -> Cents] /\ x \in Int /\ p \in Int /\ d \in Int
        /\ m.total_ttc \in Cents /\ m.total_ttc \in Int
    <2>1. m \in [Champs -> Cents] /\ x \in Int
      BY <1>2, <1>3, MontantsAssumption DEF Enregistree
    <2>2. m.montant_paye \in Cents /\ m.total_ttc \in Cents
      BY <2>1 DEF Champs
    <2>3. m.montant_paye \in Int /\ m.total_ttc \in Int
      BY <2>2, CentsReste
    <2> QED BY <1>2, <2>1, <2>2, <2>3
  <1>5. PICK p1, d1, m1, st :
          /\ p1 = Colonne(p) /\ d1 = Colonne(d)
          /\ m1 = [m EXCEPT !.montant_paye = p1, !.solde_a_payer = d1]
          /\ st = StatutApresPaiement(d, p, f.statut)
    OBVIOUS
  <1>6. PICK f1 : f1 = fiche' /\ f1 = [montants |-> m1, statut |-> st]
    BY <1>1, <1>2, <1>5
  <1>7. /\ p1 \in Cents /\ 2 * (p1 - p) <= Centime /\ -Centime <= 2 * (p1 - p)
        /\ d1 \in Cents /\ 2 * (d1 - d) <= Centime /\ -Centime <= 2 * (d1 - d)
    BY <1>4, <1>5, Arrondi
  <1>8. m1 \in [Champs -> Cents]
    BY <1>4, <1>5, <1>7
  <1>9. /\ m1.montant_paye = p1 /\ m1.solde_a_payer = d1
        /\ \A c \in Champs \ {"montant_paye", "solde_a_payer"} : m1[c] = m[c]
    BY <1>4, <1>5 DEF Champs
  <1>10. EcartMax(d1, m.total_ttc - p1)
    <2>1. PICK t : t = m.total_ttc /\ t \in Cents /\ t \in Int /\ d = t - p
      BY <1>2, <1>4
    <2>2. 2 * (t - t) <= Centime /\ -Centime <= 2 * (t - t)
      BY <2>1, CentimeAssumption
    <2> QED BY <1>4, <1>7, <2>1, <2>2, TroisColonnes
  <1>11. Additionne(m1)
    BY <1>3, <1>9, <1>10 DEF Additionne, Champs
  <1>12. st \in Statuts
    BY <1>3, <1>5 DEF StatutApresPaiement, Statuts, Enregistree
  <1>13. Enregistree(f1, s) /\ Additionne(f1.montants)
    <2>1. f1.montants = m1 /\ f1.statut = st
      BY <1>6
    <2>2. m1.total_ttc = m.total_ttc
      BY <1>9 DEF Champs
    <2> QED BY <1>2, <1>3, <1>6, <1>8, <1>11, <1>12, <2>1, <2>2 DEF Enregistree
  <1>14. saisie' = s /\ versions' \in 0..MaxVersions
    BY <1>2, MontantsAssumption DEF Payer, InvArrondi
  <1> QED BY <1>3, <1>6, <1>13, <1>14 DEF InvArrondi, Enregistree

\* A modification recalculates everything from the new lines and what is paid.
LEMMA ModifierArrondi ==
    ASSUME InvArrondi, Modifier
    PROVE  InvArrondi'
  <1>1. PICK s \in Saisies :
          /\ fiche' = [fiche EXCEPT
                         !.montants = Colonnes(Totaux(s, @.montant_paye))]
          /\ saisie' = s
    BY DEF Modifier
  <1>2. PICK f, p : f = fiche /\ p = f.montants.montant_paye
    OBVIOUS
  <1>3. Enregistree(f, saisie)
    BY <1>2 DEF Modifier, InvArrondi
  <1>4. p \in Int
    <2>1. p \in Cents
      BY <1>2, <1>3 DEF Enregistree, Champs
    <2> QED BY <2>1, CentsReste
  <1>5. PICK m : m = Colonnes(Totaux(s, p))
    OBVIOUS
  <1>6. /\ m \in [Champs -> Cents] /\ m.total_ttc = Colonne(TTCReference(s))
        /\ Additionne(m)
    BY <1>4, <1>5, TotauxAdditionnes
  <1>7. PICK f1 : f1 = fiche' /\ f1 = [montants |-> m, statut |-> f.statut]
    <2>1. fiche' = [f EXCEPT !.montants = m]
      BY <1>1, <1>2, <1>5
    <2>2. f = [montants |-> f.montants, statut |-> f.statut]
      BY <1>3 DEF Enregistree
    <2> QED BY <2>1, <2>2
  <1>8. f1.montants = m /\ f1.statut = f.statut /\ f.statut \in Statuts
    BY <1>3, <1>7 DEF Enregistree
  <1>9. Enregistree(f1, s) /\ Additionne(f1.montants)
    BY <1>6, <1>7, <1>8 DEF Enregistree
  <1>10. saisie' = s /\ versions' \in 0..MaxVersions
    BY <1>1, MontantsAssumption DEF Modifier, InvArrondi
  <1> QED BY <1>7, <1>9, <1>10 DEF InvArrondi

\* No invoice yet, no column.
LEMMA ArrondiInit ==
    ASSUME Init
    PROVE  InvArrondi
  BY MontantsAssumption DEF Init, InvArrondi

\* Every step keeps the columns as the code computes them.
LEMMA ArrondiPas ==
    ASSUME InvArrondi, [Next]_vars
    PROVE  InvArrondi'
  <1>1. CASE UNCHANGED vars
    BY <1>1 DEF vars, InvArrondi
  <1> QED BY <1>1, CreerArrondi, PayerArrondi, ModifierArrondi DEF Next

\* The invariant holds all along.
LEMMA ToujoursArrondi == Spec => []InvArrondi
  BY ArrondiInit, ArrondiPas, PTL DEF Spec

\* The columns hold whole cents and a known status, whatever the amounts of the
\* requests.
THEOREM TypeCorrecte == Spec => []TypeOK
  <1>1. InvArrondi => TypeOK
    <2> SUFFICES ASSUME InvArrondi PROVE TypeOK
      OBVIOUS
    <2>1. CASE fiche = Neant
      BY <2>1 DEF InvArrondi, TypeOK
    <2>2. CASE fiche # Neant
      <3>1. Enregistree(fiche, saisie)
        BY <2>2 DEF InvArrondi
      <3>2. DOMAIN fiche.montants = Champs
            /\ \A c \in Champs : fiche.montants[c] \in Cents
        BY <3>1 DEF Enregistree
      <3>3. \A c \in DOMAIN fiche.montants : fiche.montants[c] % Centime = 0
        BY <3>2, CentsReste
      <3> QED BY <3>1, <3>3 DEF InvArrondi, TypeOK, Enregistree
    <2> QED BY <2>1, <2>2
  <1> QED BY <1>1, ToujoursArrondi, PTL

\* The total an invoice shows is the amount due by the rates in closed form, to
\* the nearest cent, after any payments and modifications, for any prices and
\* discounts.
THEOREM TotauxDeReference == Spec => []TotalDeReference
  <1>1. InvArrondi => TotalDeReference
    <2> SUFFICES ASSUME InvArrondi, fiche # Neant
                 PROVE  LET ecart == 2 * (fiche.montants.total_ttc
                                            - TTCReference(saisie))
                        IN  -Centime <= ecart /\ ecart <= Centime
      BY DEF TotalDeReference
    <2>1. /\ saisie \in Saisies
          /\ fiche.montants.total_ttc = Colonne(TTCReference(saisie))
      BY DEF InvArrondi, Enregistree
    <2>2. TTCReference(saisie) \in Int
      <3>1. /\ DOMAIN Totaux(saisie, 0) = Champs
            /\ \A c \in Champs : Totaux(saisie, 0)[c] \in Int
            /\ Totaux(saisie, 0).total_ttc = TTCReference(saisie)
        BY <2>1, TotauxType
      <3> QED BY <3>1 DEF Champs
    <2> QED BY <2>1, <2>2, Arrondi
  <1> QED BY <1>1, ToujoursArrondi, PTL

\* Rounding the columns one by one leaves every sum an invoice prints within
\* one cent, after any payments and modifications, for any amounts.
THEOREM ColonnesToujoursCoherentes == Spec => []ColonnesCoherentes
  <1>1. InvArrondi => ColonnesCoherentes
    BY DEF InvArrondi, Additionne, ColonnesCoherentes
  <1> QED BY <1>1, ToujoursArrondi, PTL
-----------------------------------------------------------------------------
\* What is paid is not negative.
PayePositif == fiche # Neant => fiche.montants.montant_paye >= 0

\* With advances and payments that are not negative what is paid is not either:
\* a payment adds to it, a modification keeps it.
LEMMA PayePositifPas ==
    ASSUME Acomptes \subseteq Nat, Montants \subseteq Nat,
           InvArrondi, PayePositif, [Next]_vars
    PROVE  PayePositif'
  <1>1. CASE UNCHANGED vars
    BY <1>1 DEF vars, PayePositif
  <1>2. CASE Creer
    <2>1. PICK s \in Saisies, a \in Acomptes :
            fiche' = [montants |-> Colonnes(Totaux(s, a)),
                      statut   |-> StatutInitial(Totaux(s, a).solde_a_payer)]
      BY <1>2 DEF Creer
    <2>2. a \in Int /\ a >= 0
      BY <2>1
    <2>3. Colonnes(Totaux(s, a)).montant_paye = Colonne(a) /\ Colonne(a) >= 0
      BY <2>2, TotauxAdditionnes, Arrondi
    <2> QED BY <2>1, <2>3 DEF PayePositif
  <1>3. CASE Payer
    <2>1. PICK x, y, st :
            /\ x \in Montants
            /\ fiche' =
                 [montants |-> [fiche.montants EXCEPT
                                  !.montant_paye  = Colonne(fiche.montants.montant_paye + x),
                                  !.solde_a_payer = y],
                  statut   |-> st]
      BY <1>3 DEF Payer
    <2>2. PICK m, p : m = fiche.montants /\ p = m.montant_paye + x
      OBVIOUS
    <2>3. m \in [Champs -> Cents] /\ m.montant_paye >= 0
      BY <1>3, <2>2 DEF Payer, InvArrondi, Enregistree, PayePositif
    <2>4. m.montant_paye \in Int
      BY <2>3, CentsReste DEF Champs
    <2>5. p \in Int /\ p >= 0
      BY <2>1, <2>2, <2>3, <2>4
    <2>6. Colonne(p) >= 0
      BY <2>5, Arrondi
    <2>7. fiche'.montants.montant_paye = Colonne(p)
      BY <2>1, <2>2, <2>3 DEF Champs
    <2> QED BY <2>6, <2>7 DEF PayePositif
  <1>4. CASE Modifier
    <2>1. PICK f, m, p : f = fiche /\ m = f.montants /\ p = m.montant_paye
      OBVIOUS
    <2>2. /\ m \in [Champs -> Cents] /\ p >= 0
          /\ f = [montants |-> m, statut |-> f.statut]
      BY <1>4, <2>1 DEF Modifier, InvArrondi, Enregistree, PayePositif
    <2>3. PICK s \in Saisies :
            fiche' = [f EXCEPT !.montants = Colonnes(Totaux(s, p))]
      BY <1>4, <2>1 DEF Modifier
    <2>4. p \in Int
      BY <2>1, <2>2, CentsReste DEF Champs
    <2>5. Colonnes(Totaux(s, p)).montant_paye = Colonne(p) /\ Colonne(p) >= 0
      BY <2>2, <2>4, TotauxAdditionnes, Arrondi
    <2>6. fiche'.montants = Colonnes(Totaux(s, p))
      BY <2>2, <2>3
    <2> QED BY <2>5, <2>6 DEF PayePositif
  <1> QED BY <1>1, <1>2, <1>3, <1>4 DEF Next

\* What a payment on the cent leaves to decide: the balance is on the cent as
\* well, so the column shows the very number the status was chosen by.
LEMMA PayerRegle ==
    ASSUME Montants \subseteq Nat, \A x \in Montants : x % Centime = 0,
           InvArrondi, PayePositif, Payer
    PROVE  /\ fiche'.statut \in Statuts
           /\ fiche'.montants \in [Champs -> Cents]
           /\ fiche' = [montants |-> fiche'.montants, statut |-> fiche'.statut]
           /\ fiche.statut # "reglee" /\ fiche'.statut = "reglee"
                => fiche'.montants.solde_a_payer <= 0
           /\ fiche'.montants.montant_paye # fiche.montants.montant_paye
                => (fiche'.statut = "reglee"
                      <=> fiche'.montants.solde_a_payer <= 0)
  <1>1. PICK f, m : f = fiche /\ m = f.montants
    OBVIOUS
  <1>2. PICK x \in Montants :
          fiche' =
            [montants |-> [m EXCEPT
                             !.montant_paye  = Colonne(m.montant_paye + x),
                             !.solde_a_payer =
                                Colonne(m.total_ttc - (m.montant_paye + x))],
             statut   |-> StatutApresPaiement(m.total_ttc - (m.montant_paye + x),
                                              m.montant_paye + x, f.statut)]
    BY <1>1 DEF Payer
  <1>3. /\ f # Neant /\ m \in [Champs -> Cents] /\ f.statut \in Statuts
        /\ m.montant_paye >= 0
    BY <1>1 DEF Payer, InvArrondi, Enregistree, PayePositif
  <1>4. PICK p, d : p = m.montant_paye + x /\ d = m.total_ttc - p
    OBVIOUS
  <1>5. x \in Cents /\ x >= 0
    <2>1. x \in Int /\ x >= 0 /\ x % Centime = 0
      BY <1>2
    <2>2. x \div Centime \in Int /\ x = Centime * (x \div Centime)
      BY <2>1, DivisionExacte, CentimeAssumption
    <2>3. x = (x \div Centime) * Centime
      BY <2>2, CentimeAssumption
    <2> QED BY <2>1, <2>2, <2>3 DEF Cents
  <1>6. p \in Cents /\ d \in Cents /\ p \in Int /\ d \in Int /\ p >= 0
    <2>1. m.montant_paye \in Cents /\ m.total_ttc \in Cents
      BY <1>3 DEF Champs
    <2>2. p \in Cents
      BY <1>4, <1>5, <2>1, CentsSomme
    <2>3. d \in Cents
      BY <1>4, <2>1, <2>2, CentsSomme
    <2>4. m.montant_paye \in Int /\ x \in Int
      BY <1>5, <2>1, CentsReste
    <2>5. p >= 0
      BY <1>3, <1>4, <1>5, <2>4
    <2> QED BY <2>2, <2>3, <2>5, CentsReste
  <1>7. Colonne(p) = p /\ Colonne(d) = d
    BY <1>6, ArrondiExact
  <1>8. PICK f1, st : /\ f1 = fiche' /\ st = StatutApresPaiement(d, p, f.statut)
                      /\ f1 = [montants |-> [m EXCEPT !.montant_paye = p,
                                                      !.solde_a_payer = d],
                               statut |-> st]
    BY <1>2, <1>4, <1>7
  <1>9. PICK m1 : /\ m1 = [m EXCEPT !.montant_paye = p, !.solde_a_payer = d]
                  /\ m1 \in [Champs -> Cents]
    <2>1. [m EXCEPT !.montant_paye = p, !.solde_a_payer = d] \in [Champs -> Cents]
      BY <1>3, <1>6
    <2> QED BY <2>1
  <1>10. m1.montant_paye = p /\ m1.solde_a_payer = d
    BY <1>3, <1>9 DEF Champs
  <1>11. f1 = [montants |-> m1, statut |-> st] /\ f1.montants = m1 /\ f1.statut = st
    BY <1>8, <1>9
  <1>12. st = IF d <= 0 THEN "reglee" ELSE IF p > 0 THEN "impayee" ELSE f.statut
    BY <1>8 DEF StatutApresPaiement
  <1>13. p # m.montant_paye => p > 0
    <2>1. m.montant_paye \in Cents
      BY <1>3 DEF Champs
    <2>2. m.montant_paye \in Int /\ x \in Int
      BY <1>5, <2>1, CentsReste
    <2> QED BY <1>3, <1>4, <1>5, <2>2
  <1>14. p # m.montant_paye => (st = "reglee" <=> d <= 0)
    BY <1>6, <1>12, <1>13
  <1>15. f.statut # "reglee" /\ st = "reglee" => d <= 0
    BY <1>6, <1>12
  <1>16. st \in Statuts
    BY <1>3, <1>12 DEF Statuts
  <1> QED BY <1>1, <1>8, <1>9, <1>10, <1>11, <1>14, <1>15, <1>16

\* A modification keeps the status and what is paid.
LEMMA ModifierRegle ==
    ASSUME InvArrondi, Modifier
    PROVE  /\ fiche'.statut = fiche.statut
           /\ fiche'.montants.montant_paye = fiche.montants.montant_paye
  <1>1. PICK f, m, p : f = fiche /\ m = f.montants /\ p = m.montant_paye
    OBVIOUS
  <1>2. m \in [Champs -> Cents] /\ f = [montants |-> m, statut |-> f.statut]
    BY <1>1 DEF Modifier, InvArrondi, Enregistree
  <1>3. PICK s \in Saisies :
          fiche' = [f EXCEPT !.montants = Colonnes(Totaux(s, p))]
    BY <1>1 DEF Modifier
  <1>4. p \in Cents /\ p \in Int
    BY <1>1, <1>2, CentsReste DEF Champs
  <1>5. Colonnes(Totaux(s, p)).montant_paye = Colonne(p) /\ Colonne(p) = p
    BY <1>4, TotauxAdditionnes, ArrondiExact
  <1>6. /\ fiche'.statut = f.statut
        /\ fiche'.montants = Colonnes(Totaux(s, p))
    BY <1>2, <1>3
  <1> QED BY <1>1, <1>5, <1>6

\* An invoice that is created settled is stored with nothing due.
LEMMA CreerRegle ==
    ASSUME Creer
    PROVE  fiche'.statut = "reglee" => fiche'.montants.solde_a_payer <= 0
  <1>1. PICK s \in Saisies, a \in Acomptes :
          fiche' = [montants |-> Colonnes(Totaux(s, a)),
                    statut   |-> StatutInitial(Totaux(s, a).solde_a_payer)]
    BY DEF Creer
  <1>2. PICK d : d = Totaux(s, a).solde_a_payer
    OBVIOUS
  <1>3. /\ d \in Int
        /\ Colonnes(Totaux(s, a)).solde_a_payer = Colonne(d)
    <2>1. a \in Int
      BY MontantsAssumption
    <2> QED BY <1>2, <2>1, TotauxAdditionnes
  <1>4. /\ fiche'.montants = Colonnes(Totaux(s, a))
        /\ fiche'.statut = StatutInitial(d)
    BY <1>1, <1>2
  <1>5. StatutInitial(d) = "reglee" => d <= 0
    BY DEF StatutInitial
  <1>6. d <= 0 => Colonne(d) <= 0
    BY <1>3, Arrondi
  <1> QED BY <1>3, <1>4, <1>5, <1>6

\* A status is never chosen on a balance the columns do not show, when advances
\* and payments are not negative and payments are whole cents (a payment of
\* less than a cent is where the code's unrounded decision and the column part),
\* and when an invoice is something else than none.
THEOREM ReglementsArrondis ==
    ASSUME Acomptes \subseteq Nat, Montants \subseteq Nat,
           \A x \in Montants : x % Centime = 0,
           Neant \notin [montants : [Champs -> Cents], statut : Statuts]
    PROVE  Spec => ReglementArrondi
  <1> DEFINE Regle ==
        /\ ~Reglee /\ Reglee' => fiche'.montants.solde_a_payer <= 0
        /\ fiche # Neant
             => (fiche'.montants.montant_paye # fiche.montants.montant_paye
                   => (Reglee' <=> fiche'.montants.solde_a_payer <= 0))
  <1>1. Init => PayePositif
    BY DEF Init, PayePositif
  <1>2. InvArrondi /\ PayePositif /\ [Next]_vars => PayePositif'
    BY PayePositifPas
  <1>3. InvArrondi /\ PayePositif /\ [Next]_vars => [Regle]_vars
    <2> SUFFICES ASSUME InvArrondi, PayePositif, Next PROVE Regle
      OBVIOUS
    <2>1. CASE Creer
      BY <2>1, CreerRegle DEF Creer, Reglee
    <2>2. CASE Payer
      <3>1. /\ fiche'.statut \in Statuts
            /\ fiche'.montants \in [Champs -> Cents]
            /\ fiche' = [montants |-> fiche'.montants, statut |-> fiche'.statut]
            /\ fiche.statut # "reglee" /\ fiche'.statut = "reglee"
                 => fiche'.montants.solde_a_payer <= 0
            /\ fiche'.montants.montant_paye # fiche.montants.montant_paye
                 => (fiche'.statut = "reglee"
                       <=> fiche'.montants.solde_a_payer <= 0)
        BY <2>2, PayerRegle
      <3>2. fiche # Neant
        BY <2>2 DEF Payer
      <3>3. fiche' # Neant
        <4>1. fiche' \in [montants : [Champs -> Cents], statut : Statuts]
          BY <3>1
        <4> QED BY <4>1
      <3>4. (Reglee <=> fiche.statut = "reglee") /\ (Reglee' <=> fiche'.statut = "reglee")
        BY <3>2, <3>3 DEF Reglee
      <3> QED BY <3>1, <3>4
    <2>3. CASE Modifier
      <3>1. /\ fiche'.statut = fiche.statut
            /\ fiche'.montants.montant_paye = fiche.montants.montant_paye
            /\ fiche # Neant
        BY <2>3, ModifierRegle DEF Modifier
      <3>2. Reglee' => Reglee
        BY <3>1 DEF Reglee
      <3> QED BY <3>1, <3>2
    <2> QED BY <2>1, <2>2, <2>3 DEF Next
  <1> QED BY <1>1, <1>2, <1>3, ToujoursArrondi, PTL DEF Spec, ReglementArrondi
=============================================================================
