----------------------------- MODULE SurfaceProofs -----------------------------
(***************************************************************************)
(* What the guards and the order of the routes let through, proved of the   *)
(* whole table of routes: which operations are served to whom, and which    *)
(* are served to nobody.                                                    *)
(*                                                                          *)
(* The table is a concatenation of ten controllers, each of them a list of  *)
(* handlers under a prefix.  Which handler takes the requests of which is   *)
(* settled within each table from its columns, carried over to the          *)
(* controller, and from the controllers to the whole since no two prefixes  *)
(* are the same; Desservie is what is carried.  The invariant of a request  *)
(* on its way then gives the two properties.                                *)
(***************************************************************************)
EXTENDS Surface, WellFoundedInduction, TLAPS

\* The operations no token gives access to.  A path with a parameter takes
\* the requests of those declared after it; RolesGuard without JwtAuthGuard
\* refuses everybody.
Condamnee(x) ==
    LET c == x.chemin
    IN  \/ x.methode = "GET"
           /\ c \in {<<"partner", "client", "export">>,
                     <<"partner", "fournisseur", "export">>,
                     <<"users", "profile">>}
        \/ c \in {<<"ecriture", "export">>, <<"ecriture", "import">>}
        \/ c # <<>> /\ c[1] \in {"users", "notifications"}
           /\ x.roles # SansRole

Condamnees == {i \in DOMAIN Routes : Condamnee(Routes[i])}

\* What becomes of an administrator's correct requests: they are refused by
\* RolesGuard only for the operations above, served by another handler only for
\* them, and by their own for all others.
ServicesRendus ==
    demande.jeton = "admin" /\ demande.correct =>
        /\ etape \notin {"400", "401"}
        /\ etape = "403" => demande.voulue \in Condamnees
        /\ etape = "servi" => ( route = demande.voulue
                                  <=> demande.voulue \notin Condamnees )

\* A sequence, of whatever it holds.
Liste(c) == c \in Seq({c[k] : k \in DOMAIN c})

\* The n-th part of the path of a route, if it has one.
Segment(x, n) == IF n \in DOMAIN x.chemin THEN x.chemin[n] ELSE "-"

Methodes(s) == [k \in DOMAIN s |-> s[k].methode]
Longueurs(s) == [k \in DOMAIN s |-> Len(s[k].chemin)]
Segments(s, n) == [k \in DOMAIN s |-> Segment(s[k], n)]

\* Short tuples are lists, whatever they hold.
LEMMA Listes ==
    /\ Liste(<<>>)
    /\ \A a : Liste(<<a>>)
    /\ \A a, b : Liste(<<a, b>>)
    /\ \A a, b, c : Liste(<<a, b, c>>)
    /\ \A a, b, c, d, e : Liste(<<a, b, c, d, e>>)
  BY DEF Liste

\* The elements of a list are numbered from 1.
LEMMA ListeDomaine ==
    ASSUME NEW c, Liste(c)
    PROVE  Len(c) \in Nat /\ DOMAIN c = 1..Len(c)
  BY DEF Liste

\* What is numbered from 1 is a list.
LEMMA ListeDe ==
    ASSUME NEW c, NEW n \in Nat, c = [k \in 1..n |-> c[k]]
    PROVE  Liste(c) /\ Len(c) = n
  BY DEF Liste

\* A sequence over some set is a list.
LEMMA ListeSeq ==
    ASSUME NEW V, NEW c \in Seq(V)
    PROVE  Liste(c)
  <1>1. Len(c) \in Nat /\ DOMAIN c = 1..Len(c) /\ c = [k \in 1..Len(c) |-> c[k]]
    OBVIOUS
  <1> QED BY <1>1, ListeDe

\* List d is a followed by b.
Suivis(d, a, b) == d = a \o b

\* What the concatenation of two lists holds, and where.
LEMMA Joint ==
    ASSUME NEW a, NEW b, Liste(a), Liste(b), NEW d, Suivis(d, a, b)
    PROVE  /\ Liste(d)
           /\ Len(d) = Len(a) + Len(b)
           /\ \A k \in DOMAIN a : k \in DOMAIN d /\ d[k] = a[k]
           /\ \A k \in DOMAIN b : Len(a) + k \in DOMAIN d /\ d[Len(a) + k] = b[k]
           /\ \A k \in DOMAIN d :
                 k \in DOMAIN a \/ (k > Len(a) /\ k - Len(a) \in DOMAIN b)
  <1>1. PICK V : V = {a[k] : k \in DOMAIN a} \cup {b[k] : k \in DOMAIN b}
    OBVIOUS
  <1>2. a \in Seq(V) /\ b \in Seq(V)
    <2>1. \A k \in DOMAIN a : a[k] \in V
      BY <1>1
    <2>2. \A k \in DOMAIN b : b[k] \in V
      BY <1>1
    <2> QED BY <2>1, <2>2 DEF Liste
  <1>3. /\ d \in Seq(V) /\ Len(d) = Len(a) + Len(b)
        /\ \A i \in 1 .. Len(a) + Len(b) :
              d[i] = IF i <= Len(a) THEN a[i] ELSE b[i - Len(a)]
    BY <1>2 DEF Suivis
  <1>4. Liste(d)
    BY <1>3, ListeSeq
  <1>5. /\ Len(a) \in Nat /\ DOMAIN a = 1..Len(a)
        /\ Len(b) \in Nat /\ DOMAIN b = 1..Len(b)
        /\ DOMAIN d = 1..Len(a) + Len(b)
    BY <1>2, <1>3
  <1> QED BY <1>3, <1>4, <1>5

\* A route that takes the requests of another has its method, a path as long,
\* and each part of it is a parameter or the same.
LEMMA CapteSegment ==
    ASSUME NEW x, NEW y, Liste(x.chemin), Liste(y.chemin), Capte(x, y), NEW n
    PROVE  /\ x.methode = y.methode
           /\ Len(x.chemin) = Len(y.chemin)
           /\ Parametre(Segment(x, n)) \/ Segment(x, n) = Segment(y, n)
  BY ListeDomaine DEF Capte, Segment

\* A controller puts its prefix before the paths of its handlers and its guards
\* on them; which handler takes whose requests stays as it was.
LEMMA DansControleur ==
    ASSUME NEW p, Liste(p), NEW g, NEW s, Liste(s),
           \A k \in DOMAIN s : Liste(s[k].chemin),
           NEW C, C = Controleur(p, g, s)
    PROVE  /\ Liste(C) /\ DOMAIN C = DOMAIN s /\ Len(C) = Len(s)
           /\ \A k \in DOMAIN C :
                 /\ C[k].methode = s[k].methode
                 /\ Suivis(C[k].chemin, p, s[k].chemin)
                 /\ C[k].roles = s[k].roles
                 /\ C[k].lit = s[k].lit
                 /\ C[k].gardes = g
           /\ \A i, j \in DOMAIN C : Capte(C[i], C[j]) <=> Capte(s[i], s[j])
  <1>1. Len(s) \in Nat /\ DOMAIN s = 1..Len(s)
    BY ListeDomaine
  <1>2. DOMAIN C = DOMAIN s
    BY DEF Controleur
  <1>3. C = [k \in 1..Len(s) |-> C[k]]
    BY <1>1 DEF Controleur
  <1>4. Liste(C) /\ Len(C) = Len(s)
    BY <1>1, <1>3, ListeDe
  <1>5. ASSUME NEW k \in DOMAIN s
        PROVE  /\ C[k].methode = s[k].methode
               /\ Suivis(C[k].chemin, p, s[k].chemin)
               /\ C[k].roles = s[k].roles
               /\ C[k].lit = s[k].lit
               /\ C[k].gardes = g
    BY DEF Controleur, Suivis
  <1>6. ASSUME NEW i \in DOMAIN s, NEW j \in DOMAIN s
        PROVE  Capte(C[i], C[j]) <=> Capte(s[i], s[j])
    <2> DEFINE a == s[i].chemin
               b == s[j].chemin
               m == C[i].chemin
               c == C[j].chemin
    <2>1. /\ Liste(a) /\ Liste(b) /\ Liste(p)
          /\ Suivis(m, p, a) /\ Suivis(c, p, b)
          /\ C[i].methode = s[i].methode /\ C[j].methode = s[j].methode
      BY <1>5
    <2> HIDE DEF a, b, m, c
    <2>2. Len(p) \in Nat /\ Len(a) \in Nat /\ Len(b) \in Nat
      BY <2>1, ListeDomaine
    <2>3. /\ Len(m) = Len(p) + Len(a)
          /\ \A k \in DOMAIN p : k \in DOMAIN m /\ m[k] = p[k]
          /\ \A k \in DOMAIN a : Len(p) + k \in DOMAIN m /\ m[Len(p) + k] = a[k]
          /\ \A k \in DOMAIN m :
                k \in DOMAIN p \/ (k > Len(p) /\ k - Len(p) \in DOMAIN a)
      BY <2>1, Joint
    <2>4. /\ Len(c) = Len(p) + Len(b)
          /\ \A k \in DOMAIN p : k \in DOMAIN c /\ c[k] = p[k]
          /\ \A k \in DOMAIN b : Len(p) + k \in DOMAIN c /\ c[Len(p) + k] = b[k]
      BY <2>1, Joint
    <2>5. DOMAIN a = 1..Len(a) /\ DOMAIN b = 1..Len(b)
      BY <2>1, ListeDomaine
    <2>6. (Len(m) = Len(c)) <=> (Len(a) = Len(b))
      BY <2>2, <2>3, <2>4
    <2>7. ASSUME Len(a) = Len(b)
          PROVE  (\A k \in DOMAIN m : Parametre(m[k]) \/ m[k] = c[k])
                   <=> (\A k \in DOMAIN a : Parametre(a[k]) \/ a[k] = b[k])
      <3>1. DOMAIN a = DOMAIN b
        BY <2>5, <2>7
      <3>2. ASSUME \A k \in DOMAIN m : Parametre(m[k]) \/ m[k] = c[k],
                   NEW k \in DOMAIN a
            PROVE  Parametre(a[k]) \/ a[k] = b[k]
        <4>1. Len(p) + k \in DOMAIN m /\ m[Len(p) + k] = a[k] /\ c[Len(p) + k] = b[k]
          BY <2>3, <2>4, <3>1
        <4> QED BY <3>2, <4>1
      <3>3. ASSUME \A k \in DOMAIN a : Parametre(a[k]) \/ a[k] = b[k],
                   NEW k \in DOMAIN m
            PROVE  Parametre(m[k]) \/ m[k] = c[k]
        <4>1. CASE k \in DOMAIN p
          BY <4>1, <2>3, <2>4
        <4>2. CASE k > Len(p) /\ k - Len(p) \in DOMAIN a
          <5>1. Len(p) + (k - Len(p)) = k
            <6>1. DOMAIN m = 1..Len(m)
              <7>1. Liste(m)
                BY <2>1, Joint
              <7> QED BY <7>1, ListeDomaine
            <6> QED BY <6>1, <2>2
          <5>2. m[k] = a[k - Len(p)] /\ c[k] = b[k - Len(p)]
            BY <4>2, <5>1, <2>3, <2>4, <3>1
          <5> QED BY <5>2, <4>2, <3>3
        <4> QED BY <4>1, <4>2, <2>3
      <3> QED BY <3>2, <3>3
    <2> QED BY <2>1, <2>6, <2>7 DEF Capte, a, b, m, c
  <1> QED BY <1>2, <1>4, <1>5, <1>6

\* A handler whose roles are known, and that asks for some if it needs a user.
Operation(x) ==
    /\ Liste(x.chemin)
    /\ x.roles \in {SansRole, Admin, Tous}
    /\ x.lit = FALSE \/ x.roles # SansRole

\* The handlers of a table are written with R: what an entry says of its roles.
LEMMA UneOperation ==
    ASSUME NEW m, NEW c, Liste(c), NEW ro \in {Admin, Tous}, NEW co, NEW l
    PROVE  Operation(R(m, c, ro, co, l)) /\ Operation(R(m, c, SansRole, co, FALSE))
  <1>1. Tous # SansRole /\ Admin # SansRole
    BY DEF SansRole, Admin, Tous
  <1>2. R(m, c, ro, co, l).roles = ro /\ R(m, c, ro, co, l).chemin = c
    BY DEF R
  <1>3. /\ R(m, c, SansRole, co, FALSE).roles = SansRole
        /\ R(m, c, SansRole, co, FALSE).chemin = c
        /\ R(m, c, SansRole, co, FALSE).lit = FALSE
    BY DEF R
  <1> QED BY <1>1, <1>2, <1>3 DEF Operation

\* CapteSegment, in terms of the columns of a table.
LEMMA Filtre ==
    ASSUME NEW s, NEW i \in DOMAIN s, NEW j \in DOMAIN s,
           Liste(s[i].chemin), Liste(s[j].chemin), Capte(s[i], s[j])
    PROVE  /\ Methodes(s)[i] = Methodes(s)[j]
           /\ Longueurs(s)[i] = Longueurs(s)[j]
           /\ \A n : \/ Parametre(Segments(s, n)[i])
                    \/ Segments(s, n)[i] = Segments(s, n)[j]
  BY CapteSegment DEF Methodes, Longueurs, Segments

Forme(x, m, n) == x.methode = m /\ Len(x.chemin) = n

-----------------------------------------------------------------------------
(***************************************************************************)
(* The tables: what their entries say, column by column.                    *)
(* They are long: the provers are given few columns at a time.              *)
(***************************************************************************)

\* Handlers of AppController: their number and their roles.
LEMMA AppLignes ==
    /\ DOMAIN AppRoutes = 1..2 /\ Liste(AppRoutes)
    /\ \A k \in DOMAIN AppRoutes : Operation(AppRoutes[k])
  <1> DEFINE s == AppRoutes
  <1>1. DOMAIN s = 1..2 /\ s = [k \in 1..2 |-> s[k]]
    BY DEF AppRoutes
  <1>2. /\ Operation(s[1]) /\ Operation(s[2])
    BY UneOperation, Listes DEF AppRoutes
  <1>3. Liste(s)
    BY <1>1, ListeDe
  <1> QED BY <1>1, <1>2, <1>3

\* Handlers of AppController: what tells them apart.
LEMMA AppFormes ==
    ASSUME NEW s, s = AppRoutes
    PROVE  /\ Methodes(s) = <<"GET", "GET">>
           /\ Longueurs(s) = <<0, 1>>
  <1>1. DOMAIN s = 1..2
    BY DEF AppRoutes
  <1>2. /\ Forme(s[1], "GET", 0) /\ Forme(s[2], "GET", 1)
    BY DEF Forme, AppRoutes, R
  <1>3. Methodes(s) = <<"GET", "GET">>
    BY <1>1, <1>2 DEF Forme, Methodes
  <1>4. Longueurs(s) = <<0, 1>>
    <2>1. \A k \in 1..2 : Len(s[k].chemin) \in Nat
      BY AppLignes, ListeDomaine DEF Operation
    <2>2. Longueurs(s) \in [1..2 -> Nat]
      BY <1>1, <2>1 DEF Longueurs
    <2>3. /\ Longueurs(s)[1] = 0 /\ Longueurs(s)[2] = 1
      BY <1>1, <1>2 DEF Forme, Longueurs
    <2> QED BY <2>2, <2>3
  <1> QED BY <1>3, <1>4

\* Handlers of AuthController, before its guarded one: their number and
\* their roles.
LEMMA ConnexionLignes ==
    /\ DOMAIN ConnexionRoutes = 1..2 /\ Liste(ConnexionRoutes)
    /\ \A k \in DOMAIN ConnexionRoutes : Operation(ConnexionRoutes[k])
  <1> DEFINE s == ConnexionRoutes
  <1>1. DOMAIN s = 1..2 /\ s = [k \in 1..2 |-> s[k]]
    BY DEF ConnexionRoutes
  <1>2. /\ Operation(s[1]) /\ Operation(s[2])
    BY UneOperation, Listes DEF ConnexionRoutes, Poster
  <1>3. Liste(s)
    BY <1>1, ListeDe
  <1> QED BY <1>1, <1>2, <1>3

\* Handlers of AuthController, before its guarded one: what tells them apart.
LEMMA ConnexionFormes ==
    ASSUME NEW s, s = ConnexionRoutes
    PROVE  /\ Methodes(s) = <<"POST", "POST">>
           /\ Longueurs(s) = <<1, 1>>
           /\ Segments(s, 1) = <<"login", "register">>
  <1>1. DOMAIN s = 1..2
    BY DEF ConnexionRoutes
  <1>2. /\ Forme(s[1], "POST", 1) /\ Forme(s[2], "POST", 1)
    BY DEF Forme, ConnexionRoutes, R, Poster
  <1>3. Methodes(s) = <<"POST", "POST">>
    BY <1>1, <1>2 DEF Forme, Methodes
  <1>4. Longueurs(s) = <<1, 1>>
    <2>1. \A k \in 1..2 : Len(s[k].chemin) \in Nat
      BY ConnexionLignes, ListeDomaine DEF Operation
    <2>2. Longueurs(s) \in [1..2 -> Nat]
      BY <1>1, <2>1 DEF Longueurs
    <2>3. /\ Longueurs(s)[1] = 1 /\ Longueurs(s)[2] = 1
      BY <1>1, <1>2 DEF Forme, Longueurs
    <2> QED BY <2>2, <2>3
  <1>5. /\ Segment(s[1], 1) = "login" /\ Segment(s[2], 1) = "register"
    BY DEF Segment, ConnexionRoutes, R, Poster
  <1>6. Segments(s, 1) = <<"login", "register">>
    BY <1>1, <1>5 DEF Segments
  <1> QED BY <1>3, <1>4, <1>6

\* Handlers of AuthController, the guarded one: their number and their roles.
LEMMA ProfilLignes ==
    /\ DOMAIN ProfilRoutes = 1..1 /\ Liste(ProfilRoutes)
    /\ \A k \in DOMAIN ProfilRoutes : Operation(ProfilRoutes[k])
  <1> DEFINE s == ProfilRoutes
  <1>1. DOMAIN s = 1..1 /\ s = [k \in 1..1 |-> s[k]]
    BY DEF ProfilRoutes
  <1>2. /\ Operation(s[1])
    BY UneOperation, Listes DEF ProfilRoutes, Poster
  <1>3. Liste(s)
    BY <1>1, ListeDe
  <1> QED BY <1>1, <1>2, <1>3

\* Handlers of AuthController, the guarded one: what tells them apart.
LEMMA ProfilFormes ==
    ASSUME NEW s, s = ProfilRoutes
    PROVE  /\ Methodes(s) = <<"POST">>
           /\ Longueurs(s) = <<1>>
           /\ Segments(s, 1) = <<"profile">>
  <1>1. DOMAIN s = 1..1
    BY DEF ProfilRoutes
  <1>2. /\ Forme(s[1], "POST", 1)
    BY DEF Forme, ProfilRoutes, R, Poster
  <1>3. Methodes(s) = <<"POST">>
    BY <1>1, <1>2 DEF Forme, Methodes
  <1>4. Longueurs(s) = <<1>>
    <2>1. \A k \in 1..1 : Len(s[k].chemin) \in Nat
      BY ProfilLignes, ListeDomaine DEF Operation
    <2>2. Longueurs(s) \in [1..1 -> Nat]
      BY <1>1, <2>1 DEF Longueurs
    <2>3. /\ Longueurs(s)[1] = 1
      BY <1>1, <1>2 DEF Forme, Longueurs
    <2> QED BY <2>2, <2>3
  <1>5. /\ Segment(s[1], 1) = "profile"
    BY DEF Segment, ProfilRoutes, R, Poster
  <1>6. Segments(s, 1) = <<"profile">>
    BY <1>1, <1>5 DEF Segments
  <1> QED BY <1>3, <1>4, <1>6

\* Handlers of AuthController, after its guarded one: their number and
\* their roles.
LEMMA CodeLignes ==
    /\ DOMAIN CodeRoutes = 1..5 /\ Liste(CodeRoutes)
    /\ \A k \in DOMAIN CodeRoutes : Operation(CodeRoutes[k])
  <1> DEFINE s == CodeRoutes
  <1>1. DOMAIN s = 1..5 /\ s = [k \in 1..5 |-> s[k]]
    BY DEF CodeRoutes
  <1>2. /\ Operation(s[1]) /\ Operation(s[2]) /\ Operation(s[3])
        /\ Operation(s[4]) /\ Operation(s[5])
    BY UneOperation, Listes DEF CodeRoutes, Poster
  <1>3. Liste(s)
    BY <1>1, ListeDe
  <1> QED BY <1>1, <1>2, <1>3

\* Handlers of AuthController, after its guarded one: what tells them apart.
LEMMA CodeFormes ==
    ASSUME NEW s, s = CodeRoutes
    PROVE  /\ Methodes(s) = <<"POST", "POST", "POST", "POST", "POST">>
           /\ Longueurs(s) = <<1, 1, 1, 1, 1>>
           /\ Segments(s, 1) = <<"envoyer-code-verification", "verifier-code",
                                 "demander-reset-mdp", "reset-mdp",
                                 "login-google">>
  <1>1. DOMAIN s = 1..5
    BY DEF CodeRoutes
  <1>2. /\ Forme(s[1], "POST", 1) /\ Forme(s[2], "POST", 1)
        /\ Forme(s[3], "POST", 1) /\ Forme(s[4], "POST", 1)
        /\ Forme(s[5], "POST", 1)
    BY DEF Forme, CodeRoutes, R, Poster
  <1>3. Methodes(s) = <<"POST", "POST", "POST", "POST", "POST">>
    BY <1>1, <1>2 DEF Forme, Methodes
  <1>4. Longueurs(s) = <<1, 1, 1, 1, 1>>
    <2>1. \A k \in 1..5 : Len(s[k].chemin) \in Nat
      BY CodeLignes, ListeDomaine DEF Operation
    <2>2. Longueurs(s) \in [1..5 -> Nat]
      BY <1>1, <2>1 DEF Longueurs
    <2>3. /\ Longueurs(s)[1] = 1 /\ Longueurs(s)[2] = 1 /\ Longueurs(s)[3] = 1
          /\ Longueurs(s)[4] = 1 /\ Longueurs(s)[5] = 1
      BY <1>1, <1>2 DEF Forme, Longueurs
    <2> QED BY <2>2, <2>3
  <1>5. /\ Segment(s[1], 1) = "envoyer-code-verification"
        /\ Segment(s[2], 1) = "verifier-code"
        /\ Segment(s[3], 1) = "demander-reset-mdp"
        /\ Segment(s[4], 1) = "reset-mdp" /\ Segment(s[5], 1) = "login-google"
    BY DEF Segment, CodeRoutes, R, Poster
  <1>6. Segments(s, 1) = <<"envoyer-code-verification", "verifier-code",
                           "demander-reset-mdp", "reset-mdp", "login-google">>
    BY <1>1, <1>5 DEF Segments
  <1> QED BY <1>3, <1>4, <1>6

\* Handlers of FactureController: their number and their roles.
LEMMA FactureLignes ==
    /\ DOMAIN FactureRoutes = 1..9 /\ Liste(FactureRoutes)
    /\ \A k \in DOMAIN FactureRoutes : Operation(FactureRoutes[k])
  <1> DEFINE s == FactureRoutes
  <1>1. DOMAIN s = 1..9 /\ s = [k \in 1..9 |-> s[k]]
    BY DEF FactureRoutes
  <1>2. /\ Operation(s[1]) /\ Operation(s[2]) /\ Operation(s[3])
        /\ Operation(s[4]) /\ Operation(s[5]) /\ Operation(s[6])
        /\ Operation(s[7]) /\ Operation(s[8]) /\ Operation(s[9])
    BY UneOperation, Listes DEF FactureRoutes
  <1>3. Liste(s)
    BY <1>1, ListeDe
  <1> QED BY <1>1, <1>2, <1>3

\* Handlers of FactureController: what tells them apart.
LEMMA FactureFormes ==
    ASSUME NEW s, s = FactureRoutes
    PROVE  /\ Methodes(s) = <<"POST", "POST", "GET", "GET", "PATCH", "PATCH",
                              "POST", "DELETE", "GET">>
           /\ Longueurs(s) = <<1, 0, 0, 1, 1, 2, 2, 1, 2>>
  <1>1. DOMAIN s = 1..9
    BY DEF FactureRoutes
  <1>2. /\ Forme(s[1], "POST", 1) /\ Forme(s[2], "POST", 0)
        /\ Forme(s[3], "GET", 0) /\ Forme(s[4], "GET", 1)
        /\ Forme(s[5], "PATCH", 1) /\ Forme(s[6], "PATCH", 2)
        /\ Forme(s[7], "POST", 2) /\ Forme(s[8], "DELETE", 1)
        /\ Forme(s[9], "GET", 2)
    BY DEF Forme, FactureRoutes, R
  <1>3. Methodes(s) = <<"POST", "POST", "GET", "GET", "PATCH", "PATCH",
                        "POST", "DELETE", "GET">>
    BY <1>1, <1>2 DEF Forme, Methodes
  <1>4. Longueurs(s) = <<1, 0, 0, 1, 1, 2, 2, 1, 2>>
    <2>1. \A k \in 1..9 : Len(s[k].chemin) \in Nat
      BY FactureLignes, ListeDomaine DEF Operation
    <2>2. Longueurs(s) \in [1..9 -> Nat]
      BY <1>1, <2>1 DEF Longueurs
    <2>3. /\ Longueurs(s)[1] = 1 /\ Longueurs(s)[2] = 0 /\ Longueurs(s)[3] = 0
          /\ Longueurs(s)[4] = 1 /\ Longueurs(s)[5] = 1 /\ Longueurs(s)[6] = 2
          /\ Longueurs(s)[7] = 2 /\ Longueurs(s)[8] = 1 /\ Longueurs(s)[9] = 2
      BY <1>1, <1>2 DEF Forme, Longueurs
    <2> QED BY <2>2, <2>3
  <1> QED BY <1>3, <1>4

\* Handlers of PartnerController: their number and their roles.
LEMMA PartnerLignes ==
    /\ DOMAIN PartnerRoutes = 1..16 /\ Liste(PartnerRoutes)
    /\ \A k \in DOMAIN PartnerRoutes : Operation(PartnerRoutes[k])
  <1> DEFINE s == PartnerRoutes
  <1>1. DOMAIN s = 1..16 /\ s = [k \in 1..16 |-> s[k]]
    BY DEF PartnerRoutes
  <1>2. /\ Operation(s[1]) /\ Operation(s[2]) /\ Operation(s[3])
        /\ Operation(s[4]) /\ Operation(s[5]) /\ Operation(s[6])
        /\ Operation(s[7]) /\ Operation(s[8]) /\ Operation(s[9])
        /\ Operation(s[10]) /\ Operation(s[11]) /\ Operation(s[12])
        /\ Operation(s[13]) /\ Operation(s[14]) /\ Operation(s[15])
        /\ Operation(s[16])
    BY UneOperation, Listes DEF PartnerRoutes
  <1>3. Liste(s)
    BY <1>1, ListeDe
  <1> QED BY <1>1, <1>2, <1>3

\* Handlers of PartnerController: what tells them apart.
LEMMA PartnerFormes ==
    ASSUME NEW s, s = PartnerRoutes
    PROVE  /\ Methodes(s) = <<"POST", "GET", "GET", "PATCH", "DELETE", "POST",
                              "POST", "GET", "POST", "POST", "GET", "GET",
                              "PATCH", "DELETE", "GET", "POST">>
           /\ Longueurs(s) = <<1, 1, 2, 2, 2, 3, 5, 2, 2, 1, 1, 2, 2, 2, 2,
                               2>>
           /\ Segments(s, 1) = <<"client", "client", "client", "client",
                                 "client", "client", "client", "client",
                                 "client", "fournisseur", "fournisseur",
                                 "fournisseur", "fournisseur", "fournisseur",
                                 "fournisseur", "fournisseur">>
           /\ Segments(s, 2) = <<"-", "-", ":id", ":id", ":id", ":id",
                                 ":clientId", "export", "import", "-", "-",
                                 ":id", ":id", ":id", "export", "import">>
  <1>1. DOMAIN s = 1..16
    BY DEF PartnerRoutes
  <1>2. /\ Forme(s[1], "POST", 1) /\ Forme(s[2], "GET", 1)
        /\ Forme(s[3], "GET", 2) /\ Forme(s[4], "PATCH", 2)
        /\ Forme(s[5], "DELETE", 2) /\ Forme(s[6], "POST", 3)
        /\ Forme(s[7], "POST", 5) /\ Forme(s[8], "GET", 2)
        /\ Forme(s[9], "POST", 2) /\ Forme(s[10], "POST", 1)
        /\ Forme(s[11], "GET", 1) /\ Forme(s[12], "GET", 2)
        /\ Forme(s[13], "PATCH", 2) /\ Forme(s[14], "DELETE", 2)
        /\ Forme(s[15], "GET", 2) /\ Forme(s[16], "POST", 2)
    BY DEF Forme, PartnerRoutes, R
  <1>3. Methodes(s) = <<"POST", "GET", "GET", "PATCH", "DELETE", "POST",
                        "POST", "GET", "POST", "POST", "GET", "GET", "PATCH",
                        "DELETE", "GET", "POST">>
    BY <1>1, <1>2 DEF Forme, Methodes
  <1>4. Longueurs(s) = <<1, 1, 2, 2, 2, 3, 5, 2, 2, 1, 1, 2, 2, 2, 2, 2>>
    <2>1. \A k \in 1..16 : Len(s[k].chemin) \in Nat
      BY PartnerLignes, ListeDomaine DEF Operation
    <2>2. Longueurs(s) \in [1..16 -> Nat]
      BY <1>1, <2>1 DEF Longueurs
    <2>3. /\ Longueurs(s)[1] = 1 /\ Longueurs(s)[2] = 1 /\ Longueurs(s)[3] = 2
          /\ Longueurs(s)[4] = 2 /\ Longueurs(s)[5] = 2 /\ Longueurs(s)[6] = 3
          /\ Longueurs(s)[7] = 5 /\ Longueurs(s)[8] = 2 /\ Longueurs(s)[9] = 2
          /\ Longueurs(s)[10] = 1 /\ Longueurs(s)[11] = 1
          /\ Longueurs(s)[12] = 2 /\ Longueurs(s)[13] = 2
          /\ Longueurs(s)[14] = 2 /\ Longueurs(s)[15] = 2
          /\ Longueurs(s)[16] = 2
      BY <1>1, <1>2 DEF Forme, Longueurs
    <2> QED BY <2>2, <2>3
  <1>5. /\ Segment(s[1], 1) = "client" /\ Segment(s[2], 1) = "client"
        /\ Segment(s[3], 1) = "client" /\ Segment(s[4], 1) = "client"
        /\ Segment(s[5], 1) = "client" /\ Segment(s[6], 1) = "client"
        /\ Segment(s[7], 1) = "client" /\ Segment(s[8], 1) = "client"
        /\ Segment(s[9], 1) = "client" /\ Segment(s[10], 1) = "fournisseur"
        /\ Segment(s[11], 1) = "fournisseur"
        /\ Segment(s[12], 1) = "fournisseur"
        /\ Segment(s[13], 1) = "fournisseur"
        /\ Segment(s[14], 1) = "fournisseur"
        /\ Segment(s[15], 1) = "fournisseur"
        /\ Segment(s[16], 1) = "fournisseur"
    BY DEF Segment, PartnerRoutes, R
  <1>6. Segments(s, 1) = <<"client", "client", "client", "client", "client",
                           "client", "client", "client", "client",
                           "fournisseur", "fournisseur", "fournisseur",
                           "fournisseur", "fournisseur", "fournisseur",
                           "fournisseur">>
    BY <1>1, <1>5 DEF Segments
  <1>7. /\ Segment(s[1], 2) = "-" /\ Segment(s[2], 2) = "-"
        /\ Segment(s[3], 2) = ":id" /\ Segment(s[4], 2) = ":id"
        /\ Segment(s[5], 2) = ":id" /\ Segment(s[6], 2) = ":id"
        /\ Segment(s[7], 2) = ":clientId" /\ Segment(s[8], 2) = "export"
        /\ Segment(s[9], 2) = "import" /\ Segment(s[10], 2) = "-"
        /\ Segment(s[11], 2) = "-" /\ Segment(s[12], 2) = ":id"
        /\ Segment(s[13], 2) = ":id" /\ Segment(s[14], 2) = ":id"
        /\ Segment(s[15], 2) = "export" /\ Segment(s[16], 2) = "import"
    BY DEF Segment, PartnerRoutes, R
  <1>8. Segments(s, 2) = <<"-", "-", ":id", ":id", ":id", ":id", ":clientId",
                           "export", "import", "-", "-", ":id", ":id", ":id",
                           "export", "import">>
    BY <1>1, <1>7 DEF Segments
  <1> QED BY <1>3, <1>4, <1>6, <1>8

\* Handlers of EcritureController: their number and their roles.
LEMMA EcritureLignes ==
    /\ DOMAIN EcritureRoutes = 1..10 /\ Liste(EcritureRoutes)
    /\ \A k \in DOMAIN EcritureRoutes : Operation(EcritureRoutes[k])
  <1> DEFINE s == EcritureRoutes
  <1>1. DOMAIN s = 1..10 /\ s = [k \in 1..10 |-> s[k]]
    BY DEF EcritureRoutes
  <1>2. /\ Operation(s[1]) /\ Operation(s[2]) /\ Operation(s[3])
        /\ Operation(s[4]) /\ Operation(s[5]) /\ Operation(s[6])
        /\ Operation(s[7]) /\ Operation(s[8]) /\ Operation(s[9])
        /\ Operation(s[10])
    BY UneOperation, Listes DEF EcritureRoutes
  <1>3. Liste(s)
    BY <1>1, ListeDe
  <1> QED BY <1>1, <1>2, <1>3

\* Handlers of EcritureController: what tells them apart.
LEMMA EcritureFormes ==
    ASSUME NEW s, s = EcritureRoutes
    PROVE  /\ Methodes(s) = <<"GET", "GET", "GET", "GET", "POST", "POST",
                              "GET", "GET", "GET", "GET">>
           /\ Longueurs(s) = <<1, 1, 1, 1, 1, 0, 0, 1, 1, 1>>
           /\ Segments(s, 1) = <<"income-statement", "balance-sheet",
                                 "balance", "export", "import", "-", "-",
                                 "date-range", "account", "type">>
  <1>1. DOMAIN s = 1..10
    BY DEF EcritureRoutes
  <1>2. /\ Forme(s[1], "GET", 1) /\ Forme(s[2], "GET", 1)
        /\ Forme(s[3], "GET", 1) /\ Forme(s[4], "GET", 1)
        /\ Forme(s[5], "POST", 1) /\ Forme(s[6], "POST", 0)
        /\ Forme(s[7], "GET", 0) /\ Forme(s[8], "GET", 1)
        /\ Forme(s[9], "GET", 1) /\ Forme(s[10], "GET", 1)
    BY DEF Forme, EcritureRoutes, R
  <1>3. Methodes(s) = <<"GET", "GET", "GET", "GET", "POST", "POST", "GET",
                        "GET", "GET", "GET">>
    BY <1>1, <1>2 DEF Forme, Methodes
  <1>4. Longueurs(s) = <<1, 1, 1, 1, 1, 0, 0, 1, 1, 1>>
    <2>1. \A k \in 1..10 : Len(s[k].chemin) \in Nat
      BY EcritureLignes, ListeDomaine DEF Operation
    <2>2. Longueurs(s) \in [1..10 -> Nat]
      BY <1>1, <2>1 DEF Longueurs
    <2>3. /\ Longueurs(s)[1] = 1 /\ Longueurs(s)[2] = 1 /\ Longueurs(s)[3] = 1
          /\ Longueurs(s)[4] = 1 /\ Longueurs(s)[5] = 1 /\ Longueurs(s)[6] = 0
          /\ Longueurs(s)[7] = 0 /\ Longueurs(s)[8] = 1 /\ Longueurs(s)[9] = 1
          /\ Longueurs(s)[10] = 1
      BY <1>1, <1>2 DEF Forme, Longueurs
    <2> QED BY <2>2, <2>3
  <1>5. /\ Segment(s[1], 1) = "income-statement"
        /\ Segment(s[2], 1) = "balance-sheet" /\ Segment(s[3], 1) = "balance"
        /\ Segment(s[4], 1) = "export" /\ Segment(s[5], 1) = "import"
        /\ Segment(s[6], 1) = "-" /\ Segment(s[7], 1) = "-"
        /\ Segment(s[8], 1) = "date-range" /\ Segment(s[9], 1) = "account"
        /\ Segment(s[10], 1) = "type"
    BY DEF Segment, EcritureRoutes, R
  <1>6. Segments(s, 1) = <<"income-statement", "balance-sheet", "balance",
                           "export", "import", "-", "-", "date-range",
                           "account", "type">>
    BY <1>1, <1>5 DEF Segments
  <1> QED BY <1>3, <1>4, <1>6

\* Handlers of ReportingController: their number and their roles.
LEMMA ReportingLignes ==
    /\ DOMAIN ReportingRoutes = 1..3 /\ Liste(ReportingRoutes)
    /\ \A k \in DOMAIN ReportingRoutes : Operation(ReportingRoutes[k])
  <1> DEFINE s == ReportingRoutes
  <1>1. DOMAIN s = 1..3 /\ s = [k \in 1..3 |-> s[k]]
    BY DEF ReportingRoutes
  <1>2. /\ Operation(s[1]) /\ Operation(s[2]) /\ Operation(s[3])
    BY UneOperation, Listes DEF ReportingRoutes
  <1>3. Liste(s)
    BY <1>1, ListeDe
  <1> QED BY <1>1, <1>2, <1>3

\* Handlers of ReportingController: what tells them apart.
LEMMA ReportingFormes ==
    ASSUME NEW s, s = ReportingRoutes
    PROVE  /\ Methodes(s) = <<"GET", "GET", "GET">>
           /\ Longueurs(s) = <<1, 1, 1>>
           /\ Segments(s, 1) = <<"sales", "purchases", "performance">>
  <1>1. DOMAIN s = 1..3
    BY DEF ReportingRoutes
  <1>2. /\ Forme(s[1], "GET", 1) /\ Forme(s[2], "GET", 1)
        /\ Forme(s[3], "GET", 1)
    BY DEF Forme, ReportingRoutes, R
  <1>3. Methodes(s) = <<"GET", "GET", "GET">>
    BY <1>1, <1>2 DEF Forme, Methodes
  <1>4. Longueurs(s) = <<1, 1, 1>>
    <2>1. \A k \in 1..3 : Len(s[k].chemin) \in Nat
      BY ReportingLignes, ListeDomaine DEF Operation
    <2>2. Longueurs(s) \in [1..3 -> Nat]
      BY <1>1, <2>1 DEF Longueurs
    <2>3. /\ Longueurs(s)[1] = 1 /\ Longueurs(s)[2] = 1 /\ Longueurs(s)[3] = 1
      BY <1>1, <1>2 DEF Forme, Longueurs
    <2> QED BY <2>2, <2>3
  <1>5. /\ Segment(s[1], 1) = "sales" /\ Segment(s[2], 1) = "purchases"
        /\ Segment(s[3], 1) = "performance"
    BY DEF Segment, ReportingRoutes, R
  <1>6. Segments(s, 1) = <<"sales", "purchases", "performance">>
    BY <1>1, <1>5 DEF Segments
  <1> QED BY <1>3, <1>4, <1>6

\* Handlers of UserController: their number and their roles.
LEMMA UserLignes ==
    /\ DOMAIN UserRoutes = 1..9 /\ Liste(UserRoutes)
    /\ \A k \in DOMAIN UserRoutes : Operation(UserRoutes[k])
  <1> DEFINE s == UserRoutes
  <1>1. DOMAIN s = 1..9 /\ s = [k \in 1..9 |-> s[k]]
    BY DEF UserRoutes
  <1>2. /\ Operation(s[1]) /\ Operation(s[2]) /\ Operation(s[3])
        /\ Operation(s[4]) /\ Operation(s[5]) /\ Operation(s[6])
        /\ Operation(s[7]) /\ Operation(s[8]) /\ Operation(s[9])
    BY UneOperation, Listes DEF UserRoutes
  <1>3. Liste(s)
    BY <1>1, ListeDe
  <1> QED BY <1>1, <1>2, <1>3

\* Handlers of UserController: what tells them apart.
LEMMA UserFormes ==
    ASSUME NEW s, s = UserRoutes
    PROVE  /\ Methodes(s) = <<"POST", "GET", "GET", "PATCH", "DELETE", "GET",
                              "PUT", "POST", "POST">>
           /\ Longueurs(s) = <<0, 0, 1, 1, 1, 1, 1, 1, 1>>
           /\ Segments(s, 1) = <<"-", "-", ":id", ":id", ":id", "profile",
                                 "profile", "request-password-reset",
                                 "reset-password">>
  <1>1. DOMAIN s = 1..9
    BY DEF UserRoutes
  <1>2. /\ Forme(s[1], "POST", 0) /\ Forme(s[2], "GET", 0)
        /\ Forme(s[3], "GET", 1) /\ Forme(s[4], "PATCH", 1)
        /\ Forme(s[5], "DELETE", 1) /\ Forme(s[6], "GET", 1)
        /\ Forme(s[7], "PUT", 1) /\ Forme(s[8], "POST", 1)
        /\ Forme(s[9], "POST", 1)
    BY DEF Forme, UserRoutes, R
  <1>3. Methodes(s) = <<"POST", "GET", "GET", "PATCH", "DELETE", "GET", "PUT",
                        "POST", "POST">>
    BY <1>1, <1>2 DEF Forme, Methodes
  <1>4. Longueurs(s) = <<0, 0, 1, 1, 1, 1, 1, 1, 1>>
    <2>1. \A k \in 1..9 : Len(s[k].chemin) \in Nat
      BY UserLignes, ListeDomaine DEF Operation
    <2>2. Longueurs(s) \in [1..9 -> Nat]
      BY <1>1, <2>1 DEF Longueurs
    <2>3. /\ Longueurs(s)[1] = 0 /\ Longueurs(s)[2] = 0 /\ Longueurs(s)[3] = 1
          /\ Longueurs(s)[4] = 1 /\ Longueurs(s)[5] = 1 /\ Longueurs(s)[6] = 1
          /\ Longueurs(s)[7] = 1 /\ Longueurs(s)[8] = 1 /\ Longueurs(s)[9] = 1
      BY <1>1, <1>2 DEF Forme, Longueurs
    <2> QED BY <2>2, <2>3
  <1>5. /\ Segment(s[1], 1) = "-" /\ Segment(s[2], 1) = "-"
        /\ Segment(s[3], 1) = ":id" /\ Segment(s[4], 1) = ":id"
        /\ Segment(s[5], 1) = ":id" /\ Segment(s[6], 1) = "profile"
        /\ Segment(s[7], 1) = "profile"
        /\ Segment(s[8], 1) = "request-password-reset"
        /\ Segment(s[9], 1) = "reset-password"
    BY DEF Segment, UserRoutes, R
  <1>6. Segments(s, 1) = <<"-", "-", ":id", ":id", ":id", "profile",
                           "profile", "request-password-reset",
                           "reset-password">>
    BY <1>1, <1>5 DEF Segments
  <1> QED BY <1>3, <1>4, <1>6

\* Handlers of AuditLogController: their number and their roles.
LEMMA AuditLogLignes ==
    /\ DOMAIN AuditLogRoutes = 1..3 /\ Liste(AuditLogRoutes)
    /\ \A k \in DOMAIN AuditLogRoutes : Operation(AuditLogRoutes[k])
  <1> DEFINE s == AuditLogRoutes
  <1>1. DOMAIN s = 1..3 /\ s = [k \in 1..3 |-> s[k]]
    BY DEF AuditLogRoutes
  <1>2. /\ Operation(s[1]) /\ Operation(s[2]) /\ Operation(s[3])
    BY UneOperation, Listes DEF AuditLogRoutes
  <1>3. Liste(s)
    BY <1>1, ListeDe
  <1> QED BY <1>1, <1>2, <1>3

\* Handlers of AuditLogController: what tells them apart.
LEMMA AuditLogFormes ==
    ASSUME NEW s, s = AuditLogRoutes
    PROVE  /\ Methodes(s) = <<"GET", "GET", "GET">>
           /\ Longueurs(s) = <<0, 1, 1>>
           /\ Segments(s, 1) = <<"-", "me", ":id">>
  <1>1. DOMAIN s = 1..3
    BY DEF AuditLogRoutes
  <1>2. /\ Forme(s[1], "GET", 0) /\ Forme(s[2], "GET", 1)
        /\ Forme(s[3], "GET", 1)
    BY DEF Forme, AuditLogRoutes, R
  <1>3. Methodes(s) = <<"GET", "GET", "GET">>
    BY <1>1, <1>2 DEF Forme, Methodes
  <1>4. Longueurs(s) = <<0, 1, 1>>
    <2>1. \A k \in 1..3 : Len(s[k].chemin) \in Nat
      BY AuditLogLignes, ListeDomaine DEF Operation
    <2>2. Longueurs(s) \in [1..3 -> Nat]
      BY <1>1, <2>1 DEF Longueurs
    <2>3. /\ Longueurs(s)[1] = 0 /\ Longueurs(s)[2] = 1 /\ Longueurs(s)[3] = 1
      BY <1>1, <1>2 DEF Forme, Longueurs
    <2> QED BY <2>2, <2>3
  <1>5. /\ Segment(s[1], 1) = "-" /\ Segment(s[2], 1) = "me"
        /\ Segment(s[3], 1) = ":id"
    BY DEF Segment, AuditLogRoutes, R
  <1>6. Segments(s, 1) = <<"-", "me", ":id">>
    BY <1>1, <1>5 DEF Segments
  <1> QED BY <1>3, <1>4, <1>6

\* Handlers of NotificationController: their number and their roles.
LEMMA NotificationLignes ==
    /\ DOMAIN NotificationRoutes = 1..3 /\ Liste(NotificationRoutes)
    /\ \A k \in DOMAIN NotificationRoutes : Operation(NotificationRoutes[k])
  <1> DEFINE s == NotificationRoutes
  <1>1. DOMAIN s = 1..3 /\ s = [k \in 1..3 |-> s[k]]
    BY DEF NotificationRoutes
  <1>2. /\ Operation(s[1]) /\ Operation(s[2]) /\ Operation(s[3])
    BY UneOperation, Listes DEF NotificationRoutes
  <1>3. Liste(s)
    BY <1>1, ListeDe
  <1> QED BY <1>1, <1>2, <1>3

\* Handlers of NotificationController:
\* Handlers of SettingsController: their number and their roles.
LEMMA SettingsLignes ==
    /\ DOMAIN SettingsRoutes = 1..2 /\ Liste(SettingsRoutes)
    /\ \A k \in DOMAIN SettingsRoutes : Operation(SettingsRoutes[k])
  <1> DEFINE s == SettingsRoutes
  <1>1. DOMAIN s = 1..2 /\ s = [k \in 1..2 |-> s[k]]
    BY DEF SettingsRoutes
  <1>2. /\ Operation(s[1]) /\ Operation(s[2])
    BY UneOperation, Listes DEF SettingsRoutes
  <1>3. Liste(s)
    BY <1>1, ListeDe
  <1> QED BY <1>1, <1>2, <1>3

\* Handlers of SettingsController: what tells them apart.
LEMMA SettingsFormes ==
    ASSUME NEW s, s = SettingsRoutes
    PROVE  /\ Methodes(s) = <<"GET", "PUT">>
           /\ Longueurs(s) = <<0, 0>>
  <1>1. DOMAIN s = 1..2
    BY DEF SettingsRoutes
  <1>2. /\ Forme(s[1], "GET", 0) /\ Forme(s[2], "PUT", 0)
    BY DEF Forme, SettingsRoutes, R
  <1>3. Methodes(s) = <<"GET", "PUT">>
    BY <1>1, <1>2 DEF Forme, Methodes
  <1>4. Longueurs(s) = <<0, 0>>
    <2>1. \A k \in 1..2 : Len(s[k].chemin) \in Nat
      BY SettingsLignes, ListeDomaine DEF Operation
    <2>2. Longueurs(s) \in [1..2 -> Nat]
      BY <1>1, <2>1 DEF Longueurs
    <2>3. /\ Longueurs(s)[1] = 0 /\ Longueurs(s)[2] = 0
      BY <1>1, <1>2 DEF Forme, Longueurs
    <2> QED BY <2>2, <2>3
  <1> QED BY <1>3, <1>4

-----------------------------------------------------------------------------
(***************************************************************************)
(* Which handler takes the requests of which, within a table.               *)
(***************************************************************************)

\* Handlers of AppController: none takes the requests of a later one.
LEMMA AppDistinctes ==
    ASSUME NEW i \in DOMAIN AppRoutes, NEW j \in DOMAIN AppRoutes, i < j
    PROVE  ~Capte(AppRoutes[i], AppRoutes[j])
  <1> DEFINE s == AppRoutes
  <1>1. i \in 1..2 /\ j \in 1..2
    BY AppLignes
  <1>2. Liste(s[i].chemin) /\ Liste(s[j].chemin)
    BY AppLignes DEF Operation
  <1>3. SUFFICES ASSUME
           /\ Methodes(s)[i] = Methodes(s)[j] /\ Longueurs(s)[i] = Longueurs(s)[j]
        PROVE FALSE
    BY <1>2, Filtre
  <1> QED BY <1>1, <1>3, AppFormes

\* Handlers of AuthController, before its guarded one: none takes the
\* requests of a later one.
LEMMA ConnexionDistinctes ==
    ASSUME NEW i \in DOMAIN ConnexionRoutes, NEW j \in DOMAIN ConnexionRoutes, i < j
    PROVE  ~Capte(ConnexionRoutes[i], ConnexionRoutes[j])
  <1> DEFINE s == ConnexionRoutes
  <1>1. i \in 1..2 /\ j \in 1..2
    BY ConnexionLignes
  <1>2. Liste(s[i].chemin) /\ Liste(s[j].chemin)
    BY ConnexionLignes DEF Operation
  <1>3. SUFFICES ASSUME
           /\ Methodes(s)[i] = Methodes(s)[j] /\ Longueurs(s)[i] = Longueurs(s)[j]
           /\ Parametre(Segments(s, 1)[i]) \/ Segments(s, 1)[i] = Segments(s, 1)[j]
        PROVE FALSE
    BY <1>2, Filtre
  <1> QED BY <1>1, <1>3, ConnexionFormes DEF Parametre

\* Handlers of AuthController, after its guarded one: none takes the
\* requests of a later one.
LEMMA CodeDistinctes ==
    ASSUME NEW i \in DOMAIN CodeRoutes, NEW j \in DOMAIN CodeRoutes, i < j
    PROVE  ~Capte(CodeRoutes[i], CodeRoutes[j])
  <1> DEFINE s == CodeRoutes
  <1>1. i \in 1..5 /\ j \in 1..5
    BY CodeLignes
  <1>2. Liste(s[i].chemin) /\ Liste(s[j].chemin)
    BY CodeLignes DEF Operation
  <1>3. SUFFICES ASSUME
           /\ Methodes(s)[i] = Methodes(s)[j] /\ Longueurs(s)[i] = Longueurs(s)[j]
           /\ Parametre(Segments(s, 1)[i]) \/ Segments(s, 1)[i] = Segments(s, 1)[j]
        PROVE FALSE
    BY <1>2, Filtre
  <1> QED BY <1>1, <1>3, CodeFormes DEF Parametre

\* Handlers of FactureController: none takes the requests of a later one.
LEMMA FactureDistinctes ==
    ASSUME NEW i \in DOMAIN FactureRoutes, NEW j \in DOMAIN FactureRoutes, i < j
    PROVE  ~Capte(FactureRoutes[i], FactureRoutes[j])
  <1> DEFINE s == FactureRoutes
  <1>1. i \in 1..9 /\ j \in 1..9
    BY FactureLignes
  <1>2. Liste(s[i].chemin) /\ Liste(s[j].chemin)
    BY FactureLignes DEF Operation
  <1>3. SUFFICES ASSUME
           /\ Methodes(s)[i] = Methodes(s)[j] /\ Longueurs(s)[i] = Longueurs(s)[j]
        PROVE FALSE
    BY <1>2, Filtre
  <1> QED BY <1>1, <1>3, FactureFormes

\* Handlers of EcritureController: none takes the requests of another.
LEMMA EcritureDistinctes ==
    ASSUME NEW i \in DOMAIN EcritureRoutes, NEW j \in DOMAIN EcritureRoutes, i # j
    PROVE  ~Capte(EcritureRoutes[i], EcritureRoutes[j])
  <1> DEFINE s == EcritureRoutes
  <1>1. i \in 1..10 /\ j \in 1..10
    BY EcritureLignes
  <1>2. Liste(s[i].chemin) /\ Liste(s[j].chemin)
    BY EcritureLignes DEF Operation
  <1>3. SUFFICES ASSUME
           /\ Methodes(s)[i] = Methodes(s)[j] /\ Longueurs(s)[i] = Longueurs(s)[j]
           /\ Parametre(Segments(s, 1)[i]) \/ Segments(s, 1)[i] = Segments(s, 1)[j]
        PROVE FALSE
    BY <1>2, Filtre
  <1> QED BY <1>1, <1>3, EcritureFormes DEF Parametre

\* Handlers of ReportingController: none takes the requests of a later one.
LEMMA ReportingDistinctes ==
    ASSUME NEW i \in DOMAIN ReportingRoutes, NEW j \in DOMAIN ReportingRoutes, i < j
    PROVE  ~Capte(ReportingRoutes[i], ReportingRoutes[j])
  <1> DEFINE s == ReportingRoutes
  <1>1. i \in 1..3 /\ j \in 1..3
    BY ReportingLignes
  <1>2. Liste(s[i].chemin) /\ Liste(s[j].chemin)
    BY ReportingLignes DEF Operation
  <1>3. SUFFICES ASSUME
           /\ Methodes(s)[i] = Methodes(s)[j] /\ Longueurs(s)[i] = Longueurs(s)[j]
           /\ Parametre(Segments(s, 1)[i]) \/ Segments(s, 1)[i] = Segments(s, 1)[j]
        PROVE FALSE
    BY <1>2, Filtre
  <1> QED BY <1>1, <1>3, ReportingFormes DEF Parametre

\* Handlers of AuditLogController: none takes the requests of a later one.
LEMMA AuditLogDistinctes ==
    ASSUME NEW i \in DOMAIN AuditLogRoutes, NEW j \in DOMAIN AuditLogRoutes, i < j
    PROVE  ~Capte(AuditLogRoutes[i], AuditLogRoutes[j])
  <1> DEFINE s == AuditLogRoutes
  <1>1. i \in 1..3 /\ j \in 1..3
    BY AuditLogLignes
  <1>2. Liste(s[i].chemin) /\ Liste(s[j].chemin)
    BY AuditLogLignes DEF Operation
  <1>3. SUFFICES ASSUME
           /\ Methodes(s)[i] = Methodes(s)[j] /\ Longueurs(s)[i] = Longueurs(s)[j]
           /\ Parametre(Segments(s, 1)[i]) \/ Segments(s, 1)[i] = Segments(s, 1)[j]
        PROVE FALSE
    BY <1>2, Filtre
  <1> QED BY <1>1, <1>3, AuditLogFormes DEF Parametre

\* Handlers of SettingsController: none takes the requests of a later one.
LEMMA SettingsDistinctes ==
    ASSUME NEW i \in DOMAIN SettingsRoutes, NEW j \in DOMAIN SettingsRoutes, i < j
    PROVE  ~Capte(SettingsRoutes[i], SettingsRoutes[j])
  <1> DEFINE s == SettingsRoutes
  <1>1. i \in 1..2 /\ j \in 1..2
    BY SettingsLignes
  <1>2. Liste(s[i].chemin) /\ Liste(s[j].chemin)
    BY SettingsLignes DEF Operation
  <1>3. SUFFICES ASSUME
           /\ Methodes(s)[i] = Methodes(s)[j] /\ Longueurs(s)[i] = Longueurs(s)[j]
        PROVE FALSE
    BY <1>2, Filtre
  <1> QED BY <1>1, <1>3, SettingsFormes

\* Handlers of PartnerController: only the exports come after one that takes
\* their requests, the one that reads a client or a supplier by its number.
LEMMA PartnerCapte ==
    ASSUME NEW i \in DOMAIN PartnerRoutes, NEW j \in DOMAIN PartnerRoutes, i < j,
           Capte(PartnerRoutes[i], PartnerRoutes[j])
    PROVE  (i = 3 /\ j = 8) \/ (i = 12 /\ j = 15)
  <1> DEFINE s == PartnerRoutes
  <1>1. i \in 1..16 /\ j \in 1..16
    BY PartnerLignes
  <1>2. Liste(s[i].chemin) /\ Liste(s[j].chemin)
    BY PartnerLignes DEF Operation
  <1>3. /\ Methodes(s)[i] = Methodes(s)[j] /\ Longueurs(s)[i] = Longueurs(s)[j]
        /\ Parametre(Segments(s, 1)[i]) \/ Segments(s, 1)[i] = Segments(s, 1)[j]
        /\ Parametre(Segments(s, 2)[i]) \/ Segments(s, 2)[i] = Segments(s, 2)[j]
    BY <1>2, Filtre
  <1>4. \/ i = 1 /\ j = 10
        \/ i = 2 /\ j = 11
        \/ i = 3 /\ j \in {8, 12, 15}
        \/ i = 4 /\ j = 13
        \/ i = 5 /\ j = 14
        \/ i = 8 /\ j \in {12, 15}
        \/ i = 9 /\ j = 16
        \/ i = 12 /\ j = 15
    BY <1>1, <1>3, PartnerFormes
  <1> QED BY <1>3, <1>4, PartnerFormes DEF Parametre

\* Handlers of UserController: only the reading of one's profile is taken by
\* another, the one that reads a user by its number.
LEMMA UserCapte ==
    ASSUME NEW i \in DOMAIN UserRoutes, NEW j \in DOMAIN UserRoutes, i # j,
           Capte(UserRoutes[i], UserRoutes[j])
    PROVE  i = 3 /\ j = 6
  <1> DEFINE s == UserRoutes
  <1>1. i \in 1..9 /\ j \in 1..9
    BY UserLignes
  <1>2. Liste(s[i].chemin) /\ Liste(s[j].chemin)
    BY UserLignes DEF Operation
  <1>3. /\ Methodes(s)[i] = Methodes(s)[j] /\ Longueurs(s)[i] = Longueurs(s)[j]
        /\ Parametre(Segments(s, 1)[i]) \/ Segments(s, 1)[i] = Segments(s, 1)[j]
    BY <1>2, Filtre
  <1> QED BY <1>1, <1>3, UserFormes DEF Parametre

\* Handlers of EcritureController: only the export and the import ask for roles.
LEMMA EcritureRoles ==
    \A k \in DOMAIN EcritureRoutes :
        EcritureRoutes[k].roles # SansRole <=> k \in {4, 5}
  <1> DEFINE s == EcritureRoutes
  <1>1. /\ s[1].roles = SansRole /\ s[2].roles = SansRole /\ s[3].roles = SansRole
        /\ s[4].roles = Tous /\ s[5].roles = Admin /\ s[6].roles = SansRole
        /\ s[7].roles = SansRole /\ s[8].roles = SansRole /\ s[9].roles = SansRole
        /\ s[10].roles = SansRole
    BY DEF EcritureRoutes, R
  <1>2. Tous # SansRole /\ Admin # SansRole
    BY DEF Tous, Admin, SansRole
  <1>3. DOMAIN s = 1..10
    BY EcritureLignes
  <1> QED BY <1>1, <1>2, <1>3

\* Handlers of UserController: all but the two of the forgotten password ask for
\* roles.
LEMMA UserRoles ==
    \A k \in DOMAIN UserRoutes : UserRoutes[k].roles = SansRole <=> k \in {8, 9}
  <1> DEFINE s == UserRoutes
  <1>1. /\ s[1].roles = Admin /\ s[2].roles = Admin /\ s[3].roles = Tous
        /\ s[4].roles = Admin /\ s[5].roles = Admin /\ s[6].roles = Tous
        /\ s[7].roles = Tous /\ s[8].roles = SansRole /\ s[9].roles = SansRole
    BY DEF UserRoutes, R
  <1>2. Tous # SansRole /\ Admin # SansRole
    BY DEF Tous, Admin, SansRole
  <1>3. DOMAIN s = 1..9
    BY UserLignes
  <1> QED BY <1>1, <1>2, <1>3

\* Every handler of NotificationController asks for roles.
LEMMA NotificationRoles ==
    \A k \in DOMAIN NotificationRoutes : NotificationRoutes[k].roles # SansRole
  <1> DEFINE s == NotificationRoutes
  <1>1. s[1].roles = Tous /\ s[2].roles = Admin /\ s[3].roles = Tous
    BY DEF NotificationRoutes, R
  <1>2. Tous # SansRole /\ Admin # SansRole
    BY DEF Tous, Admin, SansRole
  <1>3. DOMAIN s = 1..3
    BY NotificationLignes
  <1> QED BY <1>1, <1>2, <1>3

\* Handlers of the controllers without RolesGuard ask for no role.
LEMMA OuvertesSansRole ==
    /\ \A k \in DOMAIN AppRoutes : AppRoutes[k].roles = SansRole
    /\ \A k \in DOMAIN ConnexionRoutes : ConnexionRoutes[k].roles = SansRole
    /\ \A k \in DOMAIN ProfilRoutes : ProfilRoutes[k].roles = SansRole
    /\ \A k \in DOMAIN CodeRoutes : CodeRoutes[k].roles = SansRole
    /\ \A k \in DOMAIN ReportingRoutes : ReportingRoutes[k].roles = SansRole
  <1>1. \A k \in DOMAIN AppRoutes : AppRoutes[k].roles = SansRole
    <2>1. AppRoutes[1].roles = SansRole /\ AppRoutes[2].roles = SansRole
      BY DEF AppRoutes, R
    <2> QED BY <2>1, AppLignes
  <1>2. \A k \in DOMAIN ConnexionRoutes : ConnexionRoutes[k].roles = SansRole
    <2>1. ConnexionRoutes[1].roles = SansRole /\ ConnexionRoutes[2].roles = SansRole
      BY DEF ConnexionRoutes, Poster, R
    <2> QED BY <2>1, ConnexionLignes
  <1>3. \A k \in DOMAIN ProfilRoutes : ProfilRoutes[k].roles = SansRole
    <2>1. ProfilRoutes[1].roles = SansRole
      BY DEF ProfilRoutes, Poster, R
    <2> QED BY <2>1, ProfilLignes
  <1>4. \A k \in DOMAIN CodeRoutes : CodeRoutes[k].roles = SansRole
    <2> DEFINE s == CodeRoutes
    <2>1. /\ s[1].roles = SansRole /\ s[2].roles = SansRole /\ s[3].roles = SansRole
          /\ s[4].roles = SansRole /\ s[5].roles = SansRole
      BY DEF CodeRoutes, Poster, R
    <2> QED BY <2>1, CodeLignes
  <1>5. \A k \in DOMAIN ReportingRoutes : ReportingRoutes[k].roles = SansRole
    <2> DEFINE s == ReportingRoutes
    <2>1. s[1].roles = SansRole /\ s[2].roles = SansRole /\ s[3].roles = SansRole
      BY DEF ReportingRoutes, R
    <2> QED BY <2>1, ReportingLignes
  <1> QED BY <1>1, <1>2, <1>3, <1>4, <1>5
-----------------------------------------------------------------------------
(***************************************************************************)
(* What is carried from the tables to the whole list of routes.             *)
(***************************************************************************)

\* RolesGuard stands without JwtAuthGuard: it refuses everybody.
Refusee(x) == x.roles # SansRole /\ "roles" \in x.gardes /\ "jwt" \notin x.gardes

\* Roles asked for are roles checked, and a user that is read is one.
Sure(x) ==
    /\ Operation(x)
    /\ x.roles # SansRole => "roles" \in x.gardes

\* In a list of routes, the operations that miss their handler are the ones
\* listed above: refused by their guard, or after a route that takes them.
Desservie(s) ==
    /\ Liste(s)
    /\ \A k \in DOMAIN s : Sure(s[k])
    /\ \A i, j \in DOMAIN s :
          Capte(s[i], s[j]) /\ (i < j \/ Refusee(s[i])) => Condamnee(s[j])
    /\ \A j \in DOMAIN s : Condamnee(s[j]) =>
          Refusee(s[j]) \/ \E k \in DOMAIN s : k < j /\ Capte(s[k], s[j])

\* A path under a prefix.
LEMMA SousPrefixe ==
    ASSUME NEW q, Liste(q), 1 \in DOMAIN q, NEW c, Liste(c), NEW d, Suivis(d, q, c)
    PROVE  /\ Liste(d) /\ d # <<>> /\ d[1] = q[1]
           /\ Len(d) = Len(q) + Len(c)
           /\ \A k \in DOMAIN c : d[Len(q) + k] = c[k]
  <1>1. /\ Liste(d)
        /\ Len(d) = Len(q) + Len(c)
        /\ \A k \in DOMAIN q : k \in DOMAIN d /\ d[k] = q[k]
        /\ \A k \in DOMAIN c : d[Len(q) + k] = c[k]
    BY Joint
  <1>2. d # <<>>
    BY <1>1
  <1> QED BY <1>1, <1>2

\* The operations that miss their handler belong to four controllers.
LEMMA CondamneesDe ==
    ASSUME NEW x, Condamnee(x)
    PROVE  /\ x.chemin[1] \in {"partner", "users", "ecriture", "notifications"}
           /\ x.chemin # <<>>
  BY DEF Condamnee

\* What a controller makes of its handlers.
LEMMA UnControleur ==
    ASSUME NEW q, Liste(q), 1 \in DOMAIN q, NEW g,
           NEW s, Liste(s), \A k \in DOMAIN s : Operation(s[k]),
           "roles" \in g \/ \A k \in DOMAIN s : s[k].roles = SansRole,
           NEW C, C = Controleur(q, g, s)
    PROVE  /\ Liste(C) /\ DOMAIN C = DOMAIN s
           /\ \A k \in DOMAIN C :
                 /\ C[k].methode = s[k].methode
                 /\ Suivis(C[k].chemin, q, s[k].chemin)
                 /\ C[k].roles = s[k].roles
                 /\ C[k].gardes = g
                 /\ C[k].chemin # <<>>
                 /\ C[k].chemin[1] = q[1]
                 /\ Sure(C[k])
           /\ \A i, j \in DOMAIN C : Capte(C[i], C[j]) <=> Capte(s[i], s[j])
  <1>1. \A k \in DOMAIN s : Liste(s[k].chemin)
    BY DEF Operation
  <1>2. /\ Liste(C) /\ DOMAIN C = DOMAIN s
        /\ \A k \in DOMAIN C :
              /\ C[k].methode = s[k].methode
              /\ Suivis(C[k].chemin, q, s[k].chemin)
              /\ C[k].roles = s[k].roles
              /\ C[k].lit = s[k].lit
              /\ C[k].gardes = g
        /\ \A i, j \in DOMAIN C : Capte(C[i], C[j]) <=> Capte(s[i], s[j])
    BY <1>1, DansControleur
  <1>3. ASSUME NEW k \in DOMAIN C
        PROVE  C[k].chemin # <<>> /\ C[k].chemin[1] = q[1] /\ Sure(C[k])
    <2>1. Liste(s[k].chemin) /\ Suivis(C[k].chemin, q, s[k].chemin)
      BY <1>1, <1>2
    <2>2. Liste(C[k].chemin) /\ C[k].chemin # <<>> /\ C[k].chemin[1] = q[1]
      <3>1. PICK c : c = s[k].chemin
        OBVIOUS
      <3>2. PICK d : d = C[k].chemin
        OBVIOUS
      <3>3. Liste(c) /\ Suivis(d, q, c)
        BY <2>1, <3>1, <3>2
      <3>4. Liste(d) /\ d # <<>> /\ d[1] = q[1]
        BY <3>3, SousPrefixe
      <3> QED BY <3>2, <3>4
    <2>3. /\ s[k].roles \in {SansRole, Admin, Tous}
          /\ s[k].lit = FALSE \/ s[k].roles # SansRole
          /\ C[k].roles = s[k].roles /\ C[k].lit = s[k].lit /\ C[k].gardes = g
      BY <1>2 DEF Operation
    <2>4. C[k].roles # SansRole => "roles" \in C[k].gardes
      BY <1>2, <2>3
    <2> QED BY <2>2, <2>3, <2>4 DEF Sure, Operation
  <1> QED BY <1>2, <1>3

\* Handlers of AuthController, the guarded one: none takes the
\* requests of a later one.
LEMMA ProfilDistinctes ==
    ASSUME NEW i \in DOMAIN ProfilRoutes, NEW j \in DOMAIN ProfilRoutes, i < j
    PROVE  ~Capte(ProfilRoutes[i], ProfilRoutes[j])
  <1> DEFINE s == ProfilRoutes
  <1>1. i \in 1..1 /\ j \in 1..1
    BY ProfilLignes
  <1>2. Liste(s[i].chemin) /\ Liste(s[j].chemin)
    BY ProfilLignes DEF Operation
  <1>3. SUFFICES ASSUME
           /\ Methodes(s)[i] = Methodes(s)[j] /\ Longueurs(s)[i] = Longueurs(s)[j]
           /\ Parametre(Segments(s, 1)[i]) \/ Segments(s, 1)[i] = Segments(s, 1)[j]
        PROVE FALSE
    BY <1>2, Filtre
  <1> QED BY <1>1, <1>3, ProfilFormes DEF Parametre

\* The n-th parts of the paths of a list are in a set without parameters.
Parties(s, n, P) ==
    /\ \A k \in DOMAIN s : Segment(s[k], n) \in P
    /\ \A v \in P : ~Parametre(v)

\* Routes that differ in a part which is no parameter do not take each other's
\* requests.
LEMMA Etrangeres ==
    ASSUME NEW x, NEW y, Liste(x.chemin), Liste(y.chemin), NEW n, NEW P, NEW Q,
           Segment(x, n) \in P, Segment(y, n) \in Q, P \cap Q = {},
           \A v \in P : ~Parametre(v), \A v \in Q : ~Parametre(v)
    PROVE  ~Capte(x, y) /\ ~Capte(y, x)
  <1>1. ~Capte(x, y)
    BY CapteSegment
  <1>2. ~Capte(y, x)
    BY CapteSegment
  <1> QED BY <1>1, <1>2

\* The parts of the paths of two lists are those of the one made of both.
LEMMA JointParties ==
    ASSUME NEW s, NEW t, NEW d, Suivis(d, s, t), Liste(s), Liste(t), NEW n,
           NEW P, NEW Q, Parties(s, n, P), Parties(t, n, Q)
    PROVE  Parties(d, n, P \cup Q)
  <1>1. /\ \A k \in DOMAIN s : k \in DOMAIN d /\ d[k] = s[k]
        /\ \A k \in DOMAIN t : Len(s) + k \in DOMAIN d /\ d[Len(s) + k] = t[k]
        /\ \A k \in DOMAIN d :
              k \in DOMAIN s \/ (k > Len(s) /\ k - Len(s) \in DOMAIN t)
        /\ Liste(d)
    BY Joint
  <1>2. ASSUME NEW k \in DOMAIN d PROVE Segment(d[k], n) \in P \cup Q
    <2>1. CASE k \in DOMAIN s
      BY <2>1, <1>1 DEF Parties
    <2>2. CASE k > Len(s) /\ k - Len(s) \in DOMAIN t
      <3>1. Len(s) + (k - Len(s)) = k
        BY <1>1, ListeDomaine
      <3>2. d[k] = t[k - Len(s)]
        BY <3>1, <2>2, <1>1
      <3> QED BY <3>2, <2>2 DEF Parties
    <2> QED BY <2>1, <2>2, <1>1
  <1> QED BY <1>2 DEF Parties

\* Two lists whose paths differ somewhere take none of each other's requests:
\* each operation fares in the joint list as it does in its own.
LEMMA JointDesservies ==
    ASSUME NEW s, NEW t, NEW d, Suivis(d, s, t), Desservie(s), Desservie(t), NEW n,
           NEW P, NEW Q, Parties(s, n, P), Parties(t, n, Q), P \cap Q = {}
    PROVE  Desservie(d) /\ Liste(d)
  <1>1. Liste(s) /\ Liste(t)
    BY DEF Desservie
  <1>2. /\ Liste(d)
        /\ \A k \in DOMAIN s : k \in DOMAIN d /\ d[k] = s[k]
        /\ \A k \in DOMAIN t : Len(s) + k \in DOMAIN d /\ d[Len(s) + k] = t[k]
        /\ \A k \in DOMAIN d :
              k \in DOMAIN s \/ (k > Len(s) /\ k - Len(s) \in DOMAIN t)
    BY <1>1, Joint
  <1>3. /\ Len(s) \in Nat /\ DOMAIN s = 1..Len(s)
        /\ Len(t) \in Nat /\ DOMAIN t = 1..Len(t)
        /\ Len(d) \in Nat /\ DOMAIN d = 1..Len(d)
    BY <1>1, <1>2, ListeDomaine
  <1>4. \A k \in DOMAIN d : k > Len(s) =>
           k - Len(s) \in DOMAIN t /\ d[k] = t[k - Len(s)]
    <2> SUFFICES ASSUME NEW k \in DOMAIN d, k > Len(s)
                 PROVE  k - Len(s) \in DOMAIN t /\ d[k] = t[k - Len(s)]
      OBVIOUS
    <2>1. k - Len(s) \in DOMAIN t
      BY <1>2, <1>3
    <2>2. Len(s) + (k - Len(s)) = k
      BY <1>3
    <2> QED BY <2>1, <2>2, <1>2
  <1>5. \A i \in DOMAIN s, j \in DOMAIN t : ~Capte(s[i], t[j]) /\ ~Capte(t[j], s[i])
    <2> SUFFICES ASSUME NEW i \in DOMAIN s, NEW j \in DOMAIN t
                 PROVE  ~Capte(s[i], t[j]) /\ ~Capte(t[j], s[i])
      OBVIOUS
    <2>1. Liste(s[i].chemin) /\ Liste(t[j].chemin)
      BY DEF Desservie, Sure, Operation
    <2>2. /\ Segment(s[i], n) \in P /\ Segment(t[j], n) \in Q
          /\ \A v \in P : ~Parametre(v)
          /\ \A v \in Q : ~Parametre(v)
      BY DEF Parties
    <2> QED BY <2>1, <2>2, Etrangeres
  <1>6. \A k \in DOMAIN d : Sure(d[k])
    <2>1. \A k \in DOMAIN s : Sure(s[k])
      BY DEF Desservie
    <2>2. \A k \in DOMAIN t : Sure(t[k])
      BY DEF Desservie
    <2> QED BY <2>1, <2>2, <1>2, <1>3, <1>4
  <1>7. ASSUME NEW i \in DOMAIN d, NEW j \in DOMAIN d, Capte(d[i], d[j]),
               i < j \/ Refusee(d[i])
        PROVE  Condamnee(d[j])
    <2>1. CASE i \in DOMAIN s /\ j \in DOMAIN s
      BY <2>1, <1>2, <1>7 DEF Desservie
    <2>2. CASE i > Len(s) /\ j > Len(s)
      <3>1. /\ i - Len(s) \in DOMAIN t /\ d[i] = t[i - Len(s)]
            /\ j - Len(s) \in DOMAIN t /\ d[j] = t[j - Len(s)]
        BY <2>2, <1>4
      <3>2. i < j => i - Len(s) < j - Len(s)
        BY <1>3
      <3> QED BY <3>1, <3>2, <1>7 DEF Desservie
    <2>3. CASE i \in DOMAIN s /\ j > Len(s)
      BY <2>3, <1>2, <1>4, <1>5, <1>7
    <2>4. CASE i > Len(s) /\ j \in DOMAIN s
      BY <2>4, <1>2, <1>4, <1>5, <1>7
    <2> QED BY <2>1, <2>2, <2>3, <2>4, <1>2
  <1>8. ASSUME NEW j \in DOMAIN d, Condamnee(d[j]), ~Refusee(d[j])
        PROVE  \E k \in DOMAIN d : k < j /\ Capte(d[k], d[j])
    <2>1. CASE j \in DOMAIN s
      <3>1. PICK k \in DOMAIN s : k < j /\ Capte(s[k], s[j])
        BY <2>1, <1>2, <1>8 DEF Desservie
      <3> QED BY <3>1, <2>1, <1>2
    <2>2. CASE j > Len(s)
      <3>1. j - Len(s) \in DOMAIN t /\ d[j] = t[j - Len(s)]
        BY <2>2, <1>4
      <3>2. PICK k \in DOMAIN t : k < j - Len(s) /\ Capte(t[k], t[j - Len(s)])
        BY <3>1, <1>8 DEF Desservie
      <3>3. Len(s) + k \in DOMAIN d /\ d[Len(s) + k] = t[k] /\ Len(s) + k < j
        BY <3>2, <1>2, <1>3
      <3> QED BY <3>1, <3>2, <3>3
    <2> QED BY <2>1, <2>2, <1>2
  <1> QED BY <1>2, <1>6, <1>7, <1>8 DEF Desservie

\* A list that is not empty has a first element.
LEMMA ListeNonVide ==
    ASSUME NEW c, Liste(c), c # <<>>
    PROVE  1 \in DOMAIN c
  <1>1. Len(c) \in Nat /\ DOMAIN c = 1..Len(c) /\ (Len(c) = 0 => c = <<>>)
    BY DEF Liste
  <1> QED BY <1>1

\* The paths under one prefix start with it.
LEMMA PremierePartie ==
    ASSUME NEW s, NEW p, ~Parametre(p),
           \A k \in DOMAIN s : /\ Liste(s[k].chemin) /\ s[k].chemin # <<>>
                               /\ s[k].chemin[1] = p
    PROVE  Parties(s, 1, {p})
  <1>1. ASSUME NEW k \in DOMAIN s PROVE Segment(s[k], 1) = p
    <2>1. 1 \in DOMAIN s[k].chemin
      BY ListeNonVide
    <2> QED BY <2>1 DEF Segment
  <1> QED BY <1>1 DEF Parties

\* A controller outside these four, whose handlers take no request of a later
\* one, and which has both guards or asks for no role.
LEMMA ControleurLibre ==
    ASSUME NEW q, Liste(q), 1 \in DOMAIN q, NEW g,
           NEW s, Liste(s), \A k \in DOMAIN s : Operation(s[k]),
           \/ "roles" \in g /\ "jwt" \in g
           \/ \A k \in DOMAIN s : s[k].roles = SansRole,
           \A i, j \in DOMAIN s : i < j => ~Capte(s[i], s[j]),
           q[1] \notin {"partner", "users", "ecriture", "notifications"},
           ~Parametre(q[1]),
           NEW C, C = Controleur(q, g, s)
    PROVE  Desservie(C) /\ Parties(C, 1, {q[1]})
  <1>1. /\ Liste(C) /\ DOMAIN C = DOMAIN s
        /\ \A k \in DOMAIN C :
              /\ C[k].roles = s[k].roles
              /\ C[k].gardes = g
              /\ C[k].chemin # <<>>
              /\ C[k].chemin[1] = q[1]
              /\ Sure(C[k])
        /\ \A i, j \in DOMAIN C : Capte(C[i], C[j]) <=> Capte(s[i], s[j])
    BY UnControleur
  <1>2. \A k \in DOMAIN C : ~Refusee(C[k])
    BY <1>1 DEF Refusee
  <1>3. \A k \in DOMAIN C : ~Condamnee(C[k])
    BY <1>1, CondamneesDe
  <1>4. Desservie(C)
    BY <1>1, <1>2, <1>3 DEF Desservie
  <1>5. \A k \in DOMAIN C : Liste(C[k].chemin)
    BY <1>1 DEF Sure, Operation
  <1>6. Parties(C, 1, {q[1]})
    BY <1>1, <1>5, PremierePartie
  <1> QED BY <1>4, <1>6

\* The same, for a prefix given as a tuple.
LEMMA PrefixeLibre ==
    ASSUME NEW p, p \notin {"partner", "users", "ecriture", "notifications"},
           ~Parametre(p), NEW g,
           NEW s, Liste(s), \A k \in DOMAIN s : Operation(s[k]),
           \/ "roles" \in g /\ "jwt" \in g
           \/ \A k \in DOMAIN s : s[k].roles = SansRole,
           \A i, j \in DOMAIN s : i < j => ~Capte(s[i], s[j]),
           NEW C, C = Controleur(<<p>>, g, s)
    PROVE  Desservie(C) /\ Parties(C, 1, {p})
  <1>1. PICK q : q = <<p>>
    OBVIOUS
  <1>2. /\ Liste(q) /\ 1 \in DOMAIN q /\ q[1] = p
        /\ C = Controleur(q, g, s)
    BY <1>1, Listes
  <1>3. /\ q[1] \notin {"partner", "users", "ecriture", "notifications"}
        /\ ~Parametre(q[1])
    BY <1>2
  <1>4. Desservie(C) /\ Parties(C, 1, {q[1]})
    BY <1>2, <1>3, ControleurLibre
  <1> QED BY <1>2, <1>4

-----------------------------------------------------------------------------
(***************************************************************************)
(* The controllers, one by one, and all of them.                            *)
(***************************************************************************)

\* FactureController: each handler receives its requests.
LEMMA FactureDesservie ==
    ASSUME NEW C, C = Controleur(<<"facture">>, {"jwt", "roles"}, FactureRoutes)
    PROVE  Desservie(C) /\ Parties(C, 1, {"facture"})
  <1>1. /\ Liste(FactureRoutes)
        /\ \A k \in DOMAIN FactureRoutes : Operation(FactureRoutes[k])
        /\ \A i, j \in DOMAIN FactureRoutes :
              i < j => ~Capte(FactureRoutes[i], FactureRoutes[j])
    BY FactureLignes, FactureDistinctes
  <1>2. "roles" \in {"jwt", "roles"} /\ "jwt" \in {"jwt", "roles"}
    OBVIOUS
  <1>3. /\ "facture" \notin {"partner", "users", "ecriture", "notifications"}
        /\ ~Parametre("facture")
    BY DEF Parametre
  <1> QED BY <1>1, <1>2, <1>3, PrefixeLibre

\* AuditLogController: each handler receives its requests.
LEMMA AuditLogDesservie ==
    ASSUME NEW C, C = Controleur(<<"audit-logs">>, {"jwt", "roles"}, AuditLogRoutes)
    PROVE  Desservie(C) /\ Parties(C, 1, {"audit-logs"})
  <1>1. /\ Liste(AuditLogRoutes)
        /\ \A k \in DOMAIN AuditLogRoutes : Operation(AuditLogRoutes[k])
        /\ \A i, j \in DOMAIN AuditLogRoutes :
              i < j => ~Capte(AuditLogRoutes[i], AuditLogRoutes[j])
    BY AuditLogLignes, AuditLogDistinctes
  <1>2. "roles" \in {"jwt", "roles"} /\ "jwt" \in {"jwt", "roles"}
    OBVIOUS
  <1>3. /\ "audit-logs" \notin {"partner", "users", "ecriture", "notifications"}
        /\ ~Parametre("audit-logs")
    BY DEF Parametre
  <1> QED BY <1>1, <1>2, <1>3, PrefixeLibre

\* SettingsController: each handler receives its requests.
LEMMA SettingsDesservie ==
    ASSUME NEW C, C = Controleur(<<"settings">>, {"jwt", "roles"}, SettingsRoutes)
    PROVE  Desservie(C) /\ Parties(C, 1, {"settings"})
  <1>1. /\ Liste(SettingsRoutes)
        /\ \A k \in DOMAIN SettingsRoutes : Operation(SettingsRoutes[k])
        /\ \A i, j \in DOMAIN SettingsRoutes :
              i < j => ~Capte(SettingsRoutes[i], SettingsRoutes[j])
    BY SettingsLignes, SettingsDistinctes
  <1>2. "roles" \in {"jwt", "roles"} /\ "jwt" \in {"jwt", "roles"}
    OBVIOUS
  <1>3. /\ "settings" \notin {"partner", "users", "ecriture", "notifications"}
        /\ ~Parametre("settings")
    BY DEF Parametre
  <1> QED BY <1>1, <1>2, <1>3, PrefixeLibre

\* ReportingController: each handler receives its requests.
LEMMA ReportingDesservie ==
    ASSUME NEW C, C = Controleur(<<"reporting">>, {}, ReportingRoutes)
    PROVE  Desservie(C) /\ Parties(C, 1, {"reporting"})
  <1>1. /\ Liste(ReportingRoutes)
        /\ \A k \in DOMAIN ReportingRoutes : Operation(ReportingRoutes[k])
        /\ \A i, j \in DOMAIN ReportingRoutes :
              i < j => ~Capte(ReportingRoutes[i], ReportingRoutes[j])
    BY ReportingLignes, ReportingDistinctes
  <1>2. \A k \in DOMAIN ReportingRoutes : ReportingRoutes[k].roles = SansRole
    BY OuvertesSansRole
  <1>3. /\ "reporting" \notin {"partner", "users", "ecriture", "notifications"}
        /\ ~Parametre("reporting")
    BY DEF Parametre
  <1> QED BY <1>1, <1>2, <1>3, PrefixeLibre

\* AuthController, before its guarded one: each handler receives its requests.
LEMMA ConnexionDesservie ==
    ASSUME NEW C, C = Controleur(<<"auth">>, {}, ConnexionRoutes)
    PROVE  Desservie(C) /\ Parties(C, 1, {"auth"})
  <1>1. /\ Liste(ConnexionRoutes)
        /\ \A k \in DOMAIN ConnexionRoutes : Operation(ConnexionRoutes[k])
        /\ \A i, j \in DOMAIN ConnexionRoutes :
              i < j => ~Capte(ConnexionRoutes[i], ConnexionRoutes[j])
    BY ConnexionLignes, ConnexionDistinctes
  <1>2. \A k \in DOMAIN ConnexionRoutes : ConnexionRoutes[k].roles = SansRole
    BY OuvertesSansRole
  <1>3. /\ "auth" \notin {"partner", "users", "ecriture", "notifications"}
        /\ ~Parametre("auth")
    BY DEF Parametre
  <1> QED BY <1>1, <1>2, <1>3, PrefixeLibre

\* AuthController, the guarded one: each handler receives its requests.
LEMMA ProfilDesservie ==
    ASSUME NEW C, C = Controleur(<<"auth">>, {"jwt"}, ProfilRoutes)
    PROVE  Desservie(C) /\ Parties(C, 1, {"auth"})
  <1>1. /\ Liste(ProfilRoutes)
        /\ \A k \in DOMAIN ProfilRoutes : Operation(ProfilRoutes[k])
        /\ \A i, j \in DOMAIN ProfilRoutes :
              i < j => ~Capte(ProfilRoutes[i], ProfilRoutes[j])
    BY ProfilLignes, ProfilDistinctes
  <1>2. \A k \in DOMAIN ProfilRoutes : ProfilRoutes[k].roles = SansRole
    BY OuvertesSansRole
  <1>3. /\ "auth" \notin {"partner", "users", "ecriture", "notifications"}
        /\ ~Parametre("auth")
    BY DEF Parametre
  <1> QED BY <1>1, <1>2, <1>3, PrefixeLibre

\* AuthController, after its guarded one: each handler receives its requests.
LEMMA CodeDesservie ==
    ASSUME NEW C, C = Controleur(<<"auth">>, {}, CodeRoutes)
    PROVE  Desservie(C) /\ Parties(C, 1, {"auth"})
  <1>1. /\ Liste(CodeRoutes)
        /\ \A k \in DOMAIN CodeRoutes : Operation(CodeRoutes[k])
        /\ \A i, j \in DOMAIN CodeRoutes :
              i < j => ~Capte(CodeRoutes[i], CodeRoutes[j])
    BY CodeLignes, CodeDistinctes
  <1>2. \A k \in DOMAIN CodeRoutes : CodeRoutes[k].roles = SansRole
    BY OuvertesSansRole
  <1>3. /\ "auth" \notin {"partner", "users", "ecriture", "notifications"}
        /\ ~Parametre("auth")
    BY DEF Parametre
  <1> QED BY <1>1, <1>2, <1>3, PrefixeLibre

\* A list is known from its elements.
LEMMA ListeFonction ==
    ASSUME NEW c, Liste(c), NEW n, Len(c) = n
    PROVE  c = [k \in 1..n |-> c[k]]
  <1>1. PICK V : V = {c[k] : k \in DOMAIN c}
    OBVIOUS
  <1>2. c \in Seq(V)
    BY <1>1 DEF Liste
  <1>3. c = [k \in 1..Len(c) |-> c[k]]
    BY <1>2
  <1> QED BY <1>3

\* A path of two parts, put together.
LEMMA Deux ==
    ASSUME NEW a, NEW b, NEW d, Suivis(d, <<a>>, <<b>>)
    PROVE  d = <<a, b>>
  <1>1. PICK u : u = <<a>>
    OBVIOUS
  <1>2. PICK v : v = <<b>>
    OBVIOUS
  <1>3. Liste(u) /\ Liste(v) /\ Suivis(d, u, v)
    BY <1>1, <1>2, Listes
  <1>4. /\ Liste(d)
        /\ Len(d) = Len(u) + Len(v)
        /\ \A k \in DOMAIN u : k \in DOMAIN d /\ d[k] = u[k]
        /\ \A k \in DOMAIN v : Len(u) + k \in DOMAIN d /\ d[Len(u) + k] = v[k]
    BY <1>3, Joint
  <1>5. Len(u) = 1 /\ 1 \in DOMAIN u /\ u[1] = a
    BY <1>1
  <1>6. Len(v) = 1 /\ DOMAIN v = 1..1 /\ v[1] = b
    BY <1>2
  <1>7. Len(d) = 2 /\ d[1] = a /\ d[2] = b
    BY <1>4, <1>5, <1>6
  <1>8. d = [k \in 1..2 |-> d[k]]
    BY <1>4, <1>7, ListeFonction
  <1> QED BY <1>7, <1>8

\* A path of three parts, put together.
LEMMA Trois ==
    ASSUME NEW a, NEW b, NEW c, NEW d, Suivis(d, <<a>>, <<b, c>>)
    PROVE  d = <<a, b, c>>
  <1>1. PICK u : u = <<a>>
    OBVIOUS
  <1>2. PICK v : v = <<b, c>>
    OBVIOUS
  <1>3. Liste(u) /\ Liste(v) /\ Suivis(d, u, v)
    BY <1>1, <1>2, Listes
  <1>4. /\ Liste(d)
        /\ Len(d) = Len(u) + Len(v)
        /\ \A k \in DOMAIN u : k \in DOMAIN d /\ d[k] = u[k]
        /\ \A k \in DOMAIN v : Len(u) + k \in DOMAIN d /\ d[Len(u) + k] = v[k]
    BY <1>3, Joint
  <1>5. Len(u) = 1 /\ 1 \in DOMAIN u /\ u[1] = a
    BY <1>1
  <1>6. Len(v) = 2 /\ DOMAIN v = 1..2 /\ v[1] = b /\ v[2] = c
    BY <1>2
  <1>7. Len(d) = 3 /\ d[1] = a /\ d[2] = b /\ d[3] = c
    BY <1>4, <1>5, <1>6
  <1>8. d = [k \in 1..3 |-> d[k]]
    BY <1>4, <1>7, ListeFonction
  <1> QED BY <1>7, <1>8

\* The two exports of PartnerController, and what takes their requests.
LEMMA PartnerExports ==
    /\ \A j \in DOMAIN PartnerRoutes :
          PartnerRoutes[j].methode = "GET" /\ Len(PartnerRoutes[j].chemin) = 2
          /\ PartnerRoutes[j].chemin[2] = "export" => j \in {8, 15}
    /\ PartnerRoutes[8].methode = "GET"
    /\ PartnerRoutes[8].chemin = <<"client", "export">>
    /\ PartnerRoutes[15].methode = "GET"
    /\ PartnerRoutes[15].chemin = <<"fournisseur", "export">>
    /\ Capte(PartnerRoutes[3], PartnerRoutes[8])
    /\ Capte(PartnerRoutes[12], PartnerRoutes[15])
  <1> DEFINE s == PartnerRoutes
  <1>1. /\ s[3].methode = "GET" /\ s[3].chemin = <<"client", ":id">>
        /\ s[8].methode = "GET" /\ s[8].chemin = <<"client", "export">>
        /\ s[12].methode = "GET" /\ s[12].chemin = <<"fournisseur", ":id">>
        /\ s[15].methode = "GET" /\ s[15].chemin = <<"fournisseur", "export">>
    BY DEF PartnerRoutes, R
  <1>2. Capte(s[3], s[8]) /\ Capte(s[12], s[15])
    BY <1>1 DEF Capte, Parametre
  <1>3. ASSUME NEW j \in DOMAIN s, s[j].methode = "GET", Len(s[j].chemin) = 2,
               s[j].chemin[2] = "export"
        PROVE  j \in {8, 15}
    <2>1. j \in 1..16 /\ 2 \in DOMAIN s[j].chemin
      <3>1. j \in 1..16 /\ Liste(s[j].chemin)
        BY <1>3, PartnerLignes DEF Operation
      <3>2. PICK c : c = s[j].chemin
        OBVIOUS
      <3>3. DOMAIN c = 1..2
        BY <1>3, <3>1, <3>2, ListeDomaine
      <3> QED BY <3>1, <3>2, <3>3
    <2>2. /\ Methodes(s)[j] = "GET" /\ Longueurs(s)[j] = 2
          /\ Segments(s, 2)[j] = "export"
      BY <1>3, <2>1 DEF Methodes, Longueurs, Segments, Segment
    <2> QED BY <2>1, <2>2, PartnerFormes
  <1> QED BY <1>1, <1>2, <1>3

\* PartnerController: each handler receives its requests, but for the two
\* exports, declared after the handler that takes them.
LEMMA PartnerDesservie ==
    ASSUME NEW C, C = Controleur(<<"partner">>, {"jwt", "roles"}, PartnerRoutes)
    PROVE  Desservie(C) /\ Parties(C, 1, {"partner"})
  <1> DEFINE s == PartnerRoutes
  <1>1. PICK q : q = <<"partner">>
    OBVIOUS
  <1>2. Liste(q) /\ 1 \in DOMAIN q /\ q[1] = "partner"
    BY <1>1, Listes
  <1>3. PICK g : g = {"jwt", "roles"}
    OBVIOUS
  <1>4. "roles" \in g /\ "jwt" \in g
    BY <1>3
  <1>5. C = Controleur(q, g, s)
    BY <1>1, <1>3
  <1>6. DOMAIN s = 1..16 /\ Liste(s) /\ \A k \in DOMAIN s : Operation(s[k])
    BY PartnerLignes
  <1> HIDE DEF s
  <1>7. /\ Liste(C) /\ DOMAIN C = DOMAIN s
        /\ \A k \in DOMAIN C :
              /\ C[k].methode = s[k].methode
              /\ Suivis(C[k].chemin, q, s[k].chemin)
              /\ C[k].gardes = g
              /\ C[k].chemin # <<>> /\ C[k].chemin[1] = q[1]
              /\ Sure(C[k])
        /\ \A i, j \in DOMAIN C : Capte(C[i], C[j]) <=> Capte(s[i], s[j])
    BY <1>2, <1>4, <1>5, <1>6, UnControleur
  <1>8. \A k \in DOMAIN C : ~Refusee(C[k])
    BY <1>4, <1>7 DEF Refusee
  <1>9. ASSUME NEW j \in DOMAIN C, Condamnee(C[j]) PROVE j \in {8, 15}
    <2>1. C[j].chemin[1] = "partner"
      BY <1>2, <1>7
    <2>2. C[j].methode = "GET" /\ Len(C[j].chemin) = 3 /\ C[j].chemin[3] = "export"
      BY <1>9, <2>1 DEF Condamnee
    <2>3. Liste(s[j].chemin) /\ Suivis(C[j].chemin, q, s[j].chemin)
      BY <1>6, <1>7 DEF Operation
    <2>4. PICK c : c = s[j].chemin
      OBVIOUS
    <2>5. PICK d : d = C[j].chemin
      OBVIOUS
    <2>6. /\ Len(d) = Len(q) + Len(c)
          /\ \A k \in DOMAIN c : d[Len(q) + k] = c[k]
      BY <1>2, <2>3, <2>4, <2>5, SousPrefixe
    <2>7. Len(q) = 1
      BY <1>1
    <2>8. Len(c) \in Nat /\ DOMAIN c = 1..Len(c)
      BY <2>3, <2>4, ListeDomaine
    <2>9. Len(c) = 2
      BY <2>2, <2>5, <2>6, <2>7, <2>8
    <2>10. c[2] = "export"
      BY <2>2, <2>5, <2>6, <2>7, <2>8, <2>9
    <2> QED BY <1>6, <1>7, <2>2, <2>4, <2>9, <2>10, PartnerExports DEF s
  <1>10. Condamnee(C[8]) /\ Condamnee(C[15])
    <2>1. 8 \in DOMAIN C /\ 15 \in DOMAIN C
      BY <1>6, <1>7
    <2>2. C[8].methode = "GET" /\ C[15].methode = "GET"
      BY <1>7, <2>1, PartnerExports DEF s
    <2>3. /\ Suivis(C[8].chemin, <<"partner">>, <<"client", "export">>)
          /\ Suivis(C[15].chemin, <<"partner">>, <<"fournisseur", "export">>)
      BY <1>1, <1>7, <2>1, PartnerExports DEF s
    <2>4. /\ C[8].chemin = <<"partner", "client", "export">>
          /\ C[15].chemin = <<"partner", "fournisseur", "export">>
      BY <2>3, Trois
    <2> QED BY <2>2, <2>4 DEF Condamnee
  <1>11. ASSUME NEW i \in DOMAIN C, NEW j \in DOMAIN C, Capte(C[i], C[j]), i < j
         PROVE  Condamnee(C[j])
    <2>1. Capte(s[i], s[j])
      BY <1>7, <1>11
    <2>2. j \in {8, 15}
      BY <1>7, <1>11, <2>1, PartnerCapte DEF s
    <2> QED BY <1>10, <2>2
  <1>12. ASSUME NEW j \in DOMAIN C, Condamnee(C[j])
         PROVE  \E k \in DOMAIN C : k < j /\ Capte(C[k], C[j])
    <2>1. 3 \in DOMAIN C /\ 8 \in DOMAIN C /\ 12 \in DOMAIN C /\ 15 \in DOMAIN C
      BY <1>6, <1>7
    <2>2. Capte(C[3], C[8]) /\ Capte(C[12], C[15])
      BY <1>7, <2>1, PartnerExports DEF s
    <2>3. j \in {8, 15}
      BY <1>9, <1>12
    <2> QED BY <2>1, <2>2, <2>3
  <1>13. Desservie(C)
    BY <1>7, <1>8, <1>11, <1>12 DEF Desservie
  <1>14. \A k \in DOMAIN C : Liste(C[k].chemin)
    BY <1>7 DEF Sure, Operation
  <1>15. ~Parametre(q[1])
    BY <1>2 DEF Parametre
  <1> QED BY <1>2, <1>7, <1>13, <1>14, <1>15, PremierePartie

\* The paths of the export and of the import of EcritureController.
LEMMA EcritureChemins ==
    /\ EcritureRoutes[4].chemin = <<"export">>
    /\ EcritureRoutes[5].chemin = <<"import">>
  BY DEF EcritureRoutes, R

\* No other handler of EcritureController has such a path.
LEMMA EcritureNoms ==
    ASSUME NEW j \in DOMAIN EcritureRoutes, NEW c, c = EcritureRoutes[j].chemin,
           Len(c) = 1, c[1] \in {"export", "import"}
    PROVE  j \in {4, 5}
  <1> DEFINE s == EcritureRoutes
  <1>1. j \in 1..10 /\ Liste(c)
    BY EcritureLignes DEF Operation
  <1>2. 1 \in DOMAIN c
    BY <1>1, ListeDomaine
  <1>3. Segments(s, 1)[j] \in {"export", "import"}
    BY <1>2 DEF Segments, Segment
  <1> QED BY <1>1, <1>3, EcritureFormes

\* EcritureController, where RolesGuard stands alone: the export and the import
\* are refused, and every other handler receives its requests.
LEMMA EcritureDesservie ==
    ASSUME NEW C, C = Controleur(<<"ecriture">>, {"roles"}, EcritureRoutes)
    PROVE  Desservie(C) /\ Parties(C, 1, {"ecriture"})
  <1> DEFINE s == EcritureRoutes
  <1>1. PICK q : q = <<"ecriture">>
    OBVIOUS
  <1>2. Liste(q) /\ 1 \in DOMAIN q /\ q[1] = "ecriture"
    BY <1>1, Listes
  <1>3. PICK g : g = {"roles"}
    OBVIOUS
  <1>4. "roles" \in g /\ "jwt" \notin g
    BY <1>3
  <1>5. C = Controleur(q, g, s)
    BY <1>1, <1>3
  <1>6. DOMAIN s = 1..10 /\ Liste(s) /\ \A k \in DOMAIN s : Operation(s[k])
    BY EcritureLignes
  <1> HIDE DEF s
  <1>7. /\ Liste(C) /\ DOMAIN C = DOMAIN s
        /\ \A k \in DOMAIN C :
              /\ Suivis(C[k].chemin, q, s[k].chemin)
              /\ C[k].roles = s[k].roles
              /\ C[k].gardes = g
              /\ C[k].chemin # <<>> /\ C[k].chemin[1] = q[1]
              /\ Sure(C[k])
        /\ \A i, j \in DOMAIN C : Capte(C[i], C[j]) <=> Capte(s[i], s[j])
    BY <1>2, <1>4, <1>5, <1>6, UnControleur
  <1>8. \A k \in DOMAIN C : Refusee(C[k]) <=> k \in {4, 5}
    BY <1>4, <1>7, EcritureRoles DEF Refusee, s
  <1>9. ASSUME NEW j \in DOMAIN C, Condamnee(C[j]) PROVE j \in {4, 5}
    <2>1. C[j].chemin[1] = "ecriture"
      BY <1>2, <1>7
    <2>2. Len(C[j].chemin) = 2 /\ C[j].chemin[2] \in {"export", "import"}
      BY <1>9, <2>1 DEF Condamnee
    <2>3. Liste(s[j].chemin) /\ Suivis(C[j].chemin, q, s[j].chemin)
      BY <1>6, <1>7 DEF Operation
    <2>4. PICK c : c = s[j].chemin
      OBVIOUS
    <2>5. PICK d : d = C[j].chemin
      OBVIOUS
    <2>6. /\ Len(d) = Len(q) + Len(c)
          /\ \A k \in DOMAIN c : d[Len(q) + k] = c[k]
      BY <1>2, <2>3, <2>4, <2>5, SousPrefixe
    <2>7. Len(q) = 1
      BY <1>1
    <2>8. Len(c) \in Nat /\ DOMAIN c = 1..Len(c)
      BY <2>3, <2>4, ListeDomaine
    <2>9. Len(c) = 1
      BY <2>2, <2>5, <2>6, <2>7, <2>8
    <2>10. c[1] \in {"export", "import"}
      BY <2>2, <2>5, <2>6, <2>7, <2>8, <2>9
    <2> QED BY <1>7, <2>4, <2>9, <2>10, EcritureNoms DEF s
  <1>10. Condamnee(C[4]) /\ Condamnee(C[5])
    <2>1. 4 \in DOMAIN C /\ 5 \in DOMAIN C
      BY <1>6, <1>7
    <2>2. /\ Suivis(C[4].chemin, <<"ecriture">>, <<"export">>)
          /\ Suivis(C[5].chemin, <<"ecriture">>, <<"import">>)
      BY <1>1, <1>7, <2>1, EcritureChemins DEF s
    <2>3. /\ C[4].chemin = <<"ecriture", "export">>
          /\ C[5].chemin = <<"ecriture", "import">>
      BY <2>2, Deux
    <2> QED BY <2>3 DEF Condamnee
  <1>11. ASSUME NEW i \in DOMAIN C, NEW j \in DOMAIN C, Capte(C[i], C[j]),
                i < j \/ Refusee(C[i])
         PROVE  Condamnee(C[j])
    <2>1. Capte(s[i], s[j])
      BY <1>7, <1>11
    <2>2. i = j
      BY <1>7, <2>1, EcritureDistinctes DEF s
    <2>3. Refusee(C[i])
      BY <1>6, <1>7, <1>11, <2>2
    <2> QED BY <1>8, <1>10, <2>2, <2>3
  <1>12. \A j \in DOMAIN C : Condamnee(C[j]) => Refusee(C[j])
    BY <1>8, <1>9
  <1>13. Desservie(C)
    BY <1>7, <1>11, <1>12 DEF Desservie
  <1>14. \A k \in DOMAIN C : Liste(C[k].chemin)
    BY <1>7 DEF Sure, Operation
  <1>15. ~Parametre(q[1])
    BY <1>2 DEF Parametre
  <1> QED BY <1>2, <1>7, <1>13, <1>14, <1>15, PremierePartie

\* Of UserController and NotificationController, the operations listed are those
\* for some roles, and the reading of one's profile.
LEMMA CondamneesSeules ==
    ASSUME NEW x, x.chemin # <<>>, x.chemin[1] \in {"users", "notifications"}
    PROVE  /\ x.roles # SansRole => Condamnee(x)
           /\ Condamnee(x) =>
                 x.roles # SansRole \/ (x.methode = "GET" /\ Len(x.chemin) = 2
                                         /\ x.chemin[2] = "profile")
  BY DEF Condamnee

\* UserController, where RolesGuard stands alone: what asks for roles is
\* refused, the reading of one's profile before it is even told apart.
LEMMA UserDesservie ==
    ASSUME NEW C, C = Controleur(<<"users">>, {"roles"}, UserRoutes)
    PROVE  Desservie(C) /\ Parties(C, 1, {"users"})
  <1> DEFINE s == UserRoutes
  <1>1. PICK q : q = <<"users">>
    OBVIOUS
  <1>2. Liste(q) /\ 1 \in DOMAIN q /\ q[1] = "users"
    BY <1>1, Listes
  <1>3. PICK g : g = {"roles"}
    OBVIOUS
  <1>4. "roles" \in g /\ "jwt" \notin g
    BY <1>3
  <1>5. C = Controleur(q, g, s)
    BY <1>1, <1>3
  <1>6. DOMAIN s = 1..9 /\ Liste(s) /\ \A k \in DOMAIN s : Operation(s[k])
    BY UserLignes
  <1> HIDE DEF s
  <1>7. /\ Liste(C) /\ DOMAIN C = DOMAIN s
        /\ \A k \in DOMAIN C :
              /\ C[k].methode = s[k].methode
              /\ C[k].roles = s[k].roles
              /\ C[k].gardes = g
              /\ C[k].chemin # <<>> /\ C[k].chemin[1] = q[1]
              /\ Sure(C[k])
        /\ \A i, j \in DOMAIN C : Capte(C[i], C[j]) <=> Capte(s[i], s[j])
    BY <1>2, <1>4, <1>5, <1>6, UnControleur
  <1>8. \A k \in DOMAIN C : Refusee(C[k]) <=> C[k].roles # SansRole
    BY <1>4, <1>7 DEF Refusee
  <1>9. \A k \in DOMAIN C : C[k].roles # SansRole <=> k \notin {8, 9}
    BY <1>7, UserRoles DEF s
  <1>10. ASSUME NEW j \in DOMAIN C
         PROVE  Condamnee(C[j]) <=> C[j].roles # SansRole
    <2>1. C[j].chemin # <<>> /\ C[j].chemin[1] = "users"
      BY <1>2, <1>7
    <2>2. C[j].methode = "GET" => C[j].roles # SansRole
      <3>1. Methodes(s)[j] = s[j].methode /\ j \in 1..9
        BY <1>6, <1>7 DEF Methodes
      <3>2. C[j].methode = "GET" => j \notin {8, 9}
        BY <1>7, <3>1, UserFormes DEF s
      <3> QED BY <1>9, <3>2
    <2> QED BY <2>1, <2>2, CondamneesSeules
  <1>11. ASSUME NEW i \in DOMAIN C, NEW j \in DOMAIN C, Capte(C[i], C[j]),
                i < j \/ Refusee(C[i])
         PROVE  Condamnee(C[j])
    <2>1. Capte(s[i], s[j])
      BY <1>7, <1>11
    <2>2. CASE i # j
      <3>1. j = 6
        BY <1>7, <2>1, <2>2, UserCapte DEF s
      <3> QED BY <1>9, <1>10, <3>1
    <2>3. CASE i = j
      <3>1. Refusee(C[j])
        BY <1>6, <1>7, <1>11, <2>3
      <3> QED BY <3>1, <1>8, <1>10
    <2> QED BY <2>2, <2>3
  <1>12. \A j \in DOMAIN C : Condamnee(C[j]) => Refusee(C[j])
    BY <1>8, <1>10
  <1>13. Desservie(C)
    BY <1>7, <1>11, <1>12 DEF Desservie
  <1>14. \A k \in DOMAIN C : Liste(C[k].chemin)
    BY <1>7 DEF Sure, Operation
  <1>15. ~Parametre(q[1])
    BY <1>2 DEF Parametre
  <1> QED BY <1>2, <1>7, <1>13, <1>14, <1>15, PremierePartie

\* NotificationController, where RolesGuard stands alone: all is refused.
LEMMA NotificationDesservie ==
    ASSUME NEW C, C = Controleur(<<"notifications">>, {"roles"}, NotificationRoutes)
    PROVE  Desservie(C) /\ Parties(C, 1, {"notifications"})
  <1> DEFINE s == NotificationRoutes
  <1>1. PICK q : q = <<"notifications">>
    OBVIOUS
  <1>2. Liste(q) /\ 1 \in DOMAIN q /\ q[1] = "notifications"
    BY <1>1, Listes
  <1>3. PICK g : g = {"roles"}
    OBVIOUS
  <1>4. "roles" \in g /\ "jwt" \notin g
    BY <1>3
  <1>5. C = Controleur(q, g, s)
    BY <1>1, <1>3
  <1>6. Liste(s) /\ \A k \in DOMAIN s : Operation(s[k])
    BY NotificationLignes
  <1> HIDE DEF s
  <1>7. /\ Liste(C) /\ DOMAIN C = DOMAIN s
        /\ \A k \in DOMAIN C :
              /\ C[k].roles = s[k].roles
              /\ C[k].gardes = g
              /\ C[k].chemin # <<>> /\ C[k].chemin[1] = q[1]
              /\ Sure(C[k])
    BY <1>2, <1>4, <1>5, <1>6, UnControleur
  <1>8. \A k \in DOMAIN C : C[k].roles # SansRole
    BY <1>7, NotificationRoles DEF s
  <1>9. \A k \in DOMAIN C : Refusee(C[k])
    BY <1>4, <1>7, <1>8 DEF Refusee
  <1>10. \A k \in DOMAIN C : Condamnee(C[k])
    BY <1>2, <1>7, <1>8, CondamneesSeules
  <1>11. Desservie(C)
    BY <1>7, <1>9, <1>10 DEF Desservie
  <1>12. \A k \in DOMAIN C : Liste(C[k].chemin)
    BY <1>7 DEF Sure, Operation
  <1>13. ~Parametre(q[1])
    BY <1>2 DEF Parametre
  <1> QED BY <1>2, <1>7, <1>11, <1>12, <1>13, PremierePartie

\* Without a prefix, the paths of a controller are those of its handlers.
LEMMA SansPrefixe ==
    ASSUME NEW c, Liste(c), NEW d, Suivis(d, <<>>, c), NEW x, NEW y,
           x.chemin = d, y.chemin = c
    PROVE  Segment(x, 1) = Segment(y, 1)
  <1>1. PICK q : q = <<>>
    OBVIOUS
  <1>2. Liste(q) /\ Suivis(d, q, c)
    BY <1>1, Listes
  <1>3. /\ \A k \in DOMAIN c : Len(q) + k \in DOMAIN d /\ d[Len(q) + k] = c[k]
        /\ \A k \in DOMAIN d :
              k \in DOMAIN q \/ (k > Len(q) /\ k - Len(q) \in DOMAIN c)
    BY <1>2, Joint
  <1>4. Len(q) = 0 /\ DOMAIN q = {}
    BY <1>1
  <1>5. (1 \in DOMAIN d <=> 1 \in DOMAIN c) /\ (1 \in DOMAIN c => d[1] = c[1])
    <2>1. 1 \in DOMAIN c => 1 \in DOMAIN d /\ d[1] = c[1]
      BY <1>3, <1>4
    <2>2. 1 \in DOMAIN d => 1 \in DOMAIN c
      BY <1>3, <1>4
    <2> QED BY <2>1, <2>2
  <1> QED BY <1>5 DEF Segment

\* AppController, which has no prefix: each handler receives its requests.
LEMMA AppDesservie ==
    ASSUME NEW C, C = Controleur(<<>>, {}, AppRoutes)
    PROVE  Desservie(C) /\ Parties(C, 1, {"-", "health"})
  <1> DEFINE s == AppRoutes
  <1>1. PICK q : q = <<>>
    OBVIOUS
  <1>2. PICK g : g = {}
    OBVIOUS
  <1>3. Liste(q) /\ C = Controleur(q, g, s)
    BY <1>1, <1>2, Listes
  <1>4. /\ DOMAIN s = 1..2 /\ Liste(s)
        /\ \A k \in DOMAIN s : Liste(s[k].chemin) /\ Operation(s[k])
    BY AppLignes DEF Operation
  <1>5. /\ Liste(C) /\ DOMAIN C = DOMAIN s
        /\ \A k \in DOMAIN C :
              /\ Suivis(C[k].chemin, q, s[k].chemin)
              /\ C[k].roles = s[k].roles
              /\ C[k].lit = s[k].lit
        /\ \A i, j \in DOMAIN C : Capte(C[i], C[j]) <=> Capte(s[i], s[j])
    BY <1>3, <1>4, DansControleur
  <1>6. \A k \in DOMAIN C : Segment(s[k], 1) \in {"-", "health"}
    <2>1. Segment(s[1], 1) = "-" /\ Segment(s[2], 1) = "health"
      BY DEF Segment, AppRoutes, R
    <2> QED BY <1>4, <1>5, <2>1
  <1>7. \A k \in DOMAIN C : s[k].roles = SansRole
    BY <1>5, OuvertesSansRole
  <1>8. \A i, j \in DOMAIN C : i < j => ~Capte(s[i], s[j])
    BY <1>5, AppDistinctes
  <1> HIDE DEF s
  <1>9. ASSUME NEW k \in DOMAIN C
        PROVE  /\ Liste(C[k].chemin)
               /\ Segment(C[k], 1) \in {"-", "health"}
    <2>1. Liste(s[k].chemin) /\ Suivis(C[k].chemin, <<>>, s[k].chemin)
      BY <1>1, <1>4, <1>5
    <2>2. Segment(C[k], 1) = Segment(s[k], 1)
      BY <2>1, SansPrefixe
    <2>3. Liste(C[k].chemin)
      BY <1>3, <1>5, <2>1, Joint
    <2> QED BY <2>2, <2>3, <1>6
  <1>10. \A k \in DOMAIN C : Sure(C[k])
    BY <1>4, <1>5, <1>7, <1>9 DEF Sure, Operation
  <1>11. ASSUME NEW k \in DOMAIN C PROVE ~Condamnee(C[k])
    <2> SUFFICES ASSUME Condamnee(C[k]) PROVE FALSE
      OBVIOUS
    <2>1. C[k].chemin # <<>>
          /\ C[k].chemin[1] \in {"partner", "users", "ecriture", "notifications"}
      BY CondamneesDe
    <2>2. 1 \in DOMAIN C[k].chemin
      BY <1>9, <2>1, ListeNonVide
    <2>3. Segment(C[k], 1) = C[k].chemin[1]
      BY <2>2 DEF Segment
    <2> QED BY <1>9, <2>1, <2>3
  <1>12. \A k \in DOMAIN C : ~Refusee(C[k])
    BY <1>5, <1>7 DEF Refusee
  <1>13. Desservie(C)
    BY <1>5, <1>8, <1>10, <1>11, <1>12 DEF Desservie
  <1>14. ~Parametre("-") /\ ~Parametre("health")
    BY DEF Parametre
  <1> QED BY <1>9, <1>13, <1>14 DEF Parties

\* A path of one part.
Seule(q) == \E p : q = <<p>>

\* Under a prefix of one part, the first parts of the paths come second.
LEMMA SecondePartie ==
    ASSUME NEW q, Seule(q), NEW g, NEW s, Liste(s),
           \A k \in DOMAIN s : Liste(s[k].chemin),
           NEW P, Parties(s, 1, P),
           NEW C, C = Controleur(q, g, s)
    PROVE  Parties(C, 2, P)
  <1>1. Liste(q)
    BY Listes DEF Seule
  <1>2. Len(q) = 1 /\ DOMAIN q = 1..1
    BY DEF Seule
  <1>3. /\ DOMAIN C = DOMAIN s
        /\ \A k \in DOMAIN C : Suivis(C[k].chemin, q, s[k].chemin)
    BY <1>1, DansControleur
  <1>4. ASSUME NEW k \in DOMAIN C PROVE Segment(C[k], 2) = Segment(s[k], 1)
    <2>1. PICK c : c = s[k].chemin
      OBVIOUS
    <2>2. PICK d : d = C[k].chemin
      OBVIOUS
    <2>3. Liste(c) /\ Suivis(d, q, c)
      BY <1>3, <2>1, <2>2
    <2>4. /\ \A i \in DOMAIN c : Len(q) + i \in DOMAIN d /\ d[Len(q) + i] = c[i]
          /\ \A i \in DOMAIN d :
                i \in DOMAIN q \/ (i > Len(q) /\ i - Len(q) \in DOMAIN c)
      BY <1>1, <2>3, Joint
    <2>5. 1 \in DOMAIN c => 2 \in DOMAIN d /\ d[2] = c[1]
      BY <1>2, <2>4
    <2>6. 2 \in DOMAIN d => 1 \in DOMAIN c
      BY <1>2, <2>4
    <2> QED BY <2>1, <2>2, <2>5, <2>6 DEF Segment
  <1> QED BY <1>3, <1>4 DEF Parties

\* The paths of AuthController have their names for second part.
LEMMA AuthParties ==
    /\ Parties(ConnexionRoutes, 1, {"login", "register"})
    /\ Parties(ProfilRoutes, 1, {"profile"})
    /\ Parties(CodeRoutes, 1, {"envoyer-code-verification", "verifier-code",
                               "demander-reset-mdp", "reset-mdp", "login-google"})
  <1>1. Parties(ConnexionRoutes, 1, {"login", "register"})
    <2> DEFINE s == ConnexionRoutes
    <2>1. \A k \in DOMAIN s : Segment(s[k], 1) = Segments(s, 1)[k] /\ k \in 1..2
      BY ConnexionLignes DEF Segments
    <2>2. \A k \in 1..2 : Segments(s, 1)[k] \in {"login", "register"}
      BY ConnexionFormes
    <2> QED BY <2>1, <2>2 DEF Parties, Parametre
  <1>2. Parties(ProfilRoutes, 1, {"profile"})
    <2> DEFINE s == ProfilRoutes
    <2>1. \A k \in DOMAIN s : Segment(s[k], 1) = Segments(s, 1)[k] /\ k \in 1..1
      BY ProfilLignes DEF Segments
    <2>2. \A k \in 1..1 : Segments(s, 1)[k] \in {"profile"}
      BY ProfilFormes
    <2> QED BY <2>1, <2>2 DEF Parties, Parametre
  <1>3. Parties(CodeRoutes, 1, {"envoyer-code-verification", "verifier-code",
                                "demander-reset-mdp", "reset-mdp", "login-google"})
    <2> DEFINE s == CodeRoutes
    <2>1. \A k \in DOMAIN s : Segment(s[k], 1) = Segments(s, 1)[k] /\ k \in 1..5
      BY CodeLignes DEF Segments
    <2>2. \A k \in 1..5 : Segments(s, 1)[k] \in
             {"envoyer-code-verification", "verifier-code",
              "demander-reset-mdp", "reset-mdp", "login-google"}
      BY CodeFormes
    <2> QED BY <2>1, <2>2 DEF Parties, Parametre
  <1> QED BY <1>1, <1>2, <1>3

\* AuthController, whose guards are not all the same: each handler receives its
\* requests.
LEMMA AuthDesservie ==
    ASSUME NEW C, C = AuthController
    PROVE  Desservie(C) /\ Parties(C, 1, {"auth"})
  <1>1. PICK a : a = Controleur(<<"auth">>, {}, ConnexionRoutes)
    OBVIOUS
  <1>2. PICK b : b = Controleur(<<"auth">>, {"jwt"}, ProfilRoutes)
    OBVIOUS
  <1>3. PICK c : c = Controleur(<<"auth">>, {}, CodeRoutes)
    OBVIOUS
  <1>4. PICK d : d = a \o b
    OBVIOUS
  <1>5. Suivis(d, a, b) /\ Suivis(C, d, c)
    BY <1>1, <1>2, <1>3, <1>4 DEF Suivis, AuthController
  <1>6. /\ Desservie(a) /\ Parties(a, 1, {"auth"})
        /\ Desservie(b) /\ Parties(b, 1, {"auth"})
        /\ Desservie(c) /\ Parties(c, 1, {"auth"})
    BY <1>1, <1>2, <1>3, ConnexionDesservie, ProfilDesservie, CodeDesservie
  <1>7. Liste(a) /\ Liste(b) /\ Liste(c)
    BY <1>6 DEF Desservie
  <1>8. PICK P : P = {"login", "register"}
    OBVIOUS
  <1>9. PICK Q : Q = {"profile"}
    OBVIOUS
  <1>10. PICK S : S = {"envoyer-code-verification", "verifier-code",
                       "demander-reset-mdp", "reset-mdp", "login-google"}
    OBVIOUS
  <1>11. Parties(a, 2, P)
    <2>1. Liste(ConnexionRoutes)
          /\ \A k \in DOMAIN ConnexionRoutes : Liste(ConnexionRoutes[k].chemin)
      BY ConnexionLignes DEF Operation
    <2>2. PICK q : q = <<"auth">>
      OBVIOUS
    <2>3. Seule(q) /\ a = Controleur(q, {}, ConnexionRoutes)
      BY <1>1, <2>2 DEF Seule
    <2> QED BY <1>8, <2>1, <2>3, AuthParties, SecondePartie
  <1>12. Parties(b, 2, Q)
    <2>1. Liste(ProfilRoutes)
          /\ \A k \in DOMAIN ProfilRoutes : Liste(ProfilRoutes[k].chemin)
      BY ProfilLignes DEF Operation
    <2>2. PICK q : q = <<"auth">>
      OBVIOUS
    <2>3. Seule(q) /\ b = Controleur(q, {"jwt"}, ProfilRoutes)
      BY <1>2, <2>2 DEF Seule
    <2> QED BY <1>9, <2>1, <2>3, AuthParties, SecondePartie
  <1>13. Parties(c, 2, S)
    <2>1. Liste(CodeRoutes)
          /\ \A k \in DOMAIN CodeRoutes : Liste(CodeRoutes[k].chemin)
      BY CodeLignes DEF Operation
    <2>2. PICK q : q = <<"auth">>
      OBVIOUS
    <2>3. Seule(q) /\ c = Controleur(q, {}, CodeRoutes)
      BY <1>3, <2>2 DEF Seule
    <2> QED BY <1>10, <2>1, <2>3, AuthParties, SecondePartie
  <1>14. P \cap Q = {} /\ (P \cup Q) \cap S = {}
    BY <1>8, <1>9, <1>10
  <1>15. Desservie(d) /\ Liste(d)
    BY <1>5, <1>6, <1>11, <1>12, <1>14, JointDesservies
  <1>16. Parties(d, 2, P \cup Q)
    BY <1>5, <1>7, <1>11, <1>12, JointParties
  <1>17. Desservie(C)
    BY <1>5, <1>6, <1>13, <1>14, <1>15, <1>16, JointDesservies
  <1>18. Parties(d, 1, {"auth"} \cup {"auth"})
    BY <1>5, <1>6, <1>7, JointParties
  <1>19. Parties(C, 1, ({"auth"} \cup {"auth"}) \cup {"auth"})
    BY <1>5, <1>6, <1>7, <1>15, <1>18, JointParties
  <1>20. ({"auth"} \cup {"auth"}) \cup {"auth"} = {"auth"}
    OBVIOUS
  <1> QED BY <1>17, <1>19, <1>20

\* One more controller, under a prefix that is not yet taken.
LEMMA Ajoute ==
    ASSUME NEW s, NEW t, NEW d, Suivis(d, s, t), NEW P, NEW v,
           Desservie(s), Parties(s, 1, P), Desservie(t), Parties(t, 1, {v}),
           v \notin P
    PROVE  Desservie(d) /\ Parties(d, 1, P \cup {v})
  <1>1. Liste(s) /\ Liste(t) /\ P \cap {v} = {}
    BY DEF Desservie
  <1>2. Desservie(d)
    BY <1>1, JointDesservies
  <1>3. Parties(d, 1, P \cup {v})
    BY <1>1, JointParties
  <1> QED BY <1>2, <1>3

\* All the routes: no two controllers have the same prefix, and the two paths
\* of AppController are nobody's prefix.
THEOREM RoutesDesservies ==
    Desservie(Routes)
  <1>1. PICK a1 : a1 = AuthController
    OBVIOUS
  <1>2. PICK a2 : a2 = a1 \o FactureController
    OBVIOUS
  <1>3. PICK a3 : a3 = a2 \o PartnerController
    OBVIOUS
  <1>4. PICK a4 : a4 = a3 \o EcritureController
    OBVIOUS
  <1>5. PICK a5 : a5 = a4 \o ReportingController
    OBVIOUS
  <1>6. PICK a6 : a6 = a5 \o UserController
    OBVIOUS
  <1>7. PICK a7 : a7 = a6 \o AuditLogController
    OBVIOUS
  <1>8. PICK a8 : a8 = a7 \o NotificationController
    OBVIOUS
  <1>9. PICK a9 : a9 = a8 \o SettingsController
    OBVIOUS
  <1>10. Routes = a9 \o AppController
    BY <1>1, <1>2, <1>3, <1>4, <1>5, <1>6, <1>7, <1>8, <1>9 DEF Routes
  <1>11. Desservie(a1) /\ Parties(a1, 1, {"auth"})
    BY <1>1, AuthDesservie
  <1>12. Desservie(a2) /\ Parties(a2, 1, {"auth", "facture"})
    <2>1. PICK t : t = FactureController
      OBVIOUS
    <2>2. Desservie(t) /\ Parties(t, 1, {"facture"})
      BY <2>1, FactureDesservie DEF FactureController
    <2>3. Suivis(a2, a1, t)
      BY <1>2, <2>1 DEF Suivis
    <2>4. PICK P : P = {"auth"}
      OBVIOUS
    <2>5. "facture" \notin P
      BY <2>4
    <2>6. Desservie(a2) /\ Parties(a2, 1, P \cup {"facture"})
      BY <1>11, <2>2, <2>3, <2>4, <2>5, Ajoute
    <2> QED BY <2>4, <2>6
  <1>13. Desservie(a3) /\ Parties(a3, 1, {"auth", "facture", "partner"})
    <2>1. PICK t : t = PartnerController
      OBVIOUS
    <2>2. Desservie(t) /\ Parties(t, 1, {"partner"})
      BY <2>1, PartnerDesservie DEF PartnerController
    <2>3. Suivis(a3, a2, t)
      BY <1>3, <2>1 DEF Suivis
    <2>4. PICK P : P = {"auth", "facture"}
      OBVIOUS
    <2>5. "partner" \notin P
      BY <2>4
    <2>6. Desservie(a3) /\ Parties(a3, 1, P \cup {"partner"})
      BY <1>12, <2>2, <2>3, <2>4, <2>5, Ajoute
    <2> QED BY <2>4, <2>6
  <1>14. Desservie(a4) /\ Parties(a4, 1, {"auth", "facture", "partner", "ecriture"})
    <2>1. PICK t : t = EcritureController
      OBVIOUS
    <2>2. Desservie(t) /\ Parties(t, 1, {"ecriture"})
      BY <2>1, EcritureDesservie DEF EcritureController
    <2>3. Suivis(a4, a3, t)
      BY <1>4, <2>1 DEF Suivis
    <2>4. PICK P : P = {"auth", "facture", "partner"}
      OBVIOUS
    <2>5. "ecriture" \notin P
      BY <2>4
    <2>6. Desservie(a4) /\ Parties(a4, 1, P \cup {"ecriture"})
      BY <1>13, <2>2, <2>3, <2>4, <2>5, Ajoute
    <2> QED BY <2>4, <2>6
  <1>15. Desservie(a5) /\ Parties(a5, 1, {"auth", "facture", "partner", "ecriture",
                                          "reporting"})
    <2>1. PICK t : t = ReportingController
      OBVIOUS
    <2>2. Desservie(t) /\ Parties(t, 1, {"reporting"})
      BY <2>1, ReportingDesservie DEF ReportingController
    <2>3. Suivis(a5, a4, t)
      BY <1>5, <2>1 DEF Suivis
    <2>4. PICK P : P = {"auth", "facture", "partner", "ecriture"}
      OBVIOUS
    <2>5. "reporting" \notin P
      BY <2>4
    <2>6. Desservie(a5) /\ Parties(a5, 1, P \cup {"reporting"})
      BY <1>14, <2>2, <2>3, <2>4, <2>5, Ajoute
    <2> QED BY <2>4, <2>6
  <1>16. Desservie(a6) /\ Parties(a6, 1, {"auth", "facture", "partner", "ecriture",
                                          "reporting", "users"})
    <2>1. PICK t : t = UserController
      OBVIOUS
    <2>2. Desservie(t) /\ Parties(t, 1, {"users"})
      BY <2>1, UserDesservie DEF UserController
    <2>3. Suivis(a6, a5, t)
      BY <1>6, <2>1 DEF Suivis
    <2>4. PICK P : P = {"auth", "facture", "partner", "ecriture", "reporting"}
      OBVIOUS
    <2>5. "users" \notin P
      BY <2>4
    <2>6. Desservie(a6) /\ Parties(a6, 1, P \cup {"users"})
      BY <1>15, <2>2, <2>3, <2>4, <2>5, Ajoute
    <2> QED BY <2>4, <2>6
  <1>17. Desservie(a7) /\ Parties(a7, 1, {"auth", "facture", "partner", "ecriture",
                                          "reporting", "users", "audit-logs"})
    <2>1. PICK t : t = AuditLogController
      OBVIOUS
    <2>2. Desservie(t) /\ Parties(t, 1, {"audit-logs"})
      BY <2>1, AuditLogDesservie DEF AuditLogController
    <2>3. Suivis(a7, a6, t)
      BY <1>7, <2>1 DEF Suivis
    <2>4. PICK P : P = {
             "auth", "facture", "partner", "ecriture", "reporting", "users"}
      OBVIOUS
    <2>5. "audit-logs" \notin P
      BY <2>4
    <2>6. Desservie(a7) /\ Parties(a7, 1, P \cup {"audit-logs"})
      BY <1>16, <2>2, <2>3, <2>4, <2>5, Ajoute
    <2> QED BY <2>4, <2>6
  <1>18. Desservie(a8) /\ Parties(a8, 1, {"auth", "facture", "partner", "ecriture",
                                          "reporting", "users", "audit-logs",
                                          "notifications"})
    <2>1. PICK t : t = NotificationController
      OBVIOUS
    <2>2. Desservie(t) /\ Parties(t, 1, {"notifications"})
      BY <2>1, NotificationDesservie DEF NotificationController
    <2>3. Suivis(a8, a7, t)
      BY <1>8, <2>1 DEF Suivis
    <2>4. PICK P : P = {
             "auth", "facture", "partner", "ecriture", "reporting", "users", "audit-logs"}
      OBVIOUS
    <2>5. "notifications" \notin P
      BY <2>4
    <2>6. Desservie(a8) /\ Parties(a8, 1, P \cup {"notifications"})
      BY <1>17, <2>2, <2>3, <2>4, <2>5, Ajoute
    <2> QED BY <2>4, <2>6
  <1>19. Desservie(a9) /\ Parties(a9, 1, {"auth", "facture", "partner", "ecriture",
                                          "reporting", "users", "audit-logs",
                                          "notifications", "settings"})
    <2>1. PICK t : t = SettingsController
      OBVIOUS
    <2>2. Desservie(t) /\ Parties(t, 1, {"settings"})
      BY <2>1, SettingsDesservie DEF SettingsController
    <2>3. Suivis(a9, a8, t)
      BY <1>9, <2>1 DEF Suivis
    <2>4. PICK P : P = {"auth", "facture", "partner", "ecriture", "reporting",
                         "users", "audit-logs", "notifications"}
      OBVIOUS
    <2>5. "settings" \notin P
      BY <2>4
    <2>6. Desservie(a9) /\ Parties(a9, 1, P \cup {"settings"})
      BY <1>18, <2>2, <2>3, <2>4, <2>5, Ajoute
    <2> QED BY <2>4, <2>6
  <1>20. PICK t : t = AppController
    OBVIOUS
  <1>21. Desservie(t) /\ Parties(t, 1, {"-", "health"})
    BY <1>20, AppDesservie DEF AppController
  <1>22. Suivis(Routes, a9, t)
    BY <1>10, <1>20 DEF Suivis
  <1>23. PICK P : P = {"auth", "facture", "partner", "ecriture", "reporting",
                       "users", "audit-logs", "notifications", "settings"}
    OBVIOUS
  <1>24. P \cap {"-", "health"} = {} /\ Parties(a9, 1, P)
    BY <1>19, <1>23
  <1> QED BY <1>19, <1>21, <1>22, <1>24, JointDesservies

-----------------------------------------------------------------------------
(***************************************************************************)
(* One request: what is known of it at every stage.                         *)
(***************************************************************************)
Etapes == {"attente", "router", "jwt", "roles", "valider", "appeler", "servi",
           "400", "401", "403"}

\* A request is meant for some route.
Adressee == etape # "attente" => demande.voulue \in DOMAIN Routes

\* Once past the router, it is at the first route that takes it.
Premiere(r) ==
    /\ r \in DOMAIN Routes /\ Convient(r)
    /\ \A j \in DOMAIN Routes : Convient(j) => r <= j

Routee == etape \notin {"attente", "router"} => Premiere(route)

\* Nobody is known before JwtAuthGuard, and afterwards the one the token names
\* where that guard stands, nobody where it does not.
Reconnue ==
    /\ etape \in {"attente", "router", "jwt"} => user = "personne"
    /\ etape \in {"roles", "valider", "appeler", "servi", "400", "403"} =>
          IF "jwt" \in Routes[route].gardes
            THEN user = demande.jeton /\ Identifie(user)
            ELSE user = "personne"
    /\ etape = "401" => ~Identifie(demande.jeton)

\* What RolesGuard and the pipe have decided.
Jugee ==
    /\ etape \in {"valider", "appeler", "servi", "400"} =>
          \/ "roles" \notin Routes[route].gardes
          \/ Autorise(Routes[route].roles, user)
    /\ etape = "403" =>
          /\ "roles" \in Routes[route].gardes
          /\ ~Autorise(Routes[route].roles, user)
    /\ etape = "400" => ~demande.correct

InvSurface == etape \in Etapes /\ Adressee /\ Routee /\ Reconnue /\ Jugee

\* A set of natural numbers has a least element.
LEMMA MinNat ==
    ASSUME NEW T, T \subseteq Nat, T # {}
    PROVE  \E x \in T : \A y \in T : x <= y
  <1>1. PICK W : W = OpToRel(<, Nat)
    OBVIOUS
  <1>2. IsWellFoundedOn(W, Nat)
    BY <1>1, NatLessThanWellFounded
  <1>3. PICK x \in T : \A y \in T : ~(<<y, x>> \in W)
    BY <1>2, WFMin, Zenon
  <1>4. W = {ss \in Nat \X Nat : ss[1] < ss[2]}
    BY <1>1 DEF OpToRel
  <1>5. ASSUME NEW y \in T PROVE x <= y
    <2>1. x \in Nat /\ y \in Nat
      OBVIOUS
    <2>2. <<y, x>> \notin W
      BY <1>3
    <2>3. <<y, x>> \in Nat \X Nat
      BY <2>1
    <2>4. ~(<<y, x>>[1] < <<y, x>>[2])
      BY <2>2, <2>3, <1>4
    <2> QED BY <2>1, <2>4
  <1> QED BY <1>5

\* What the router chooses is the first of the routes that take the request.
LEMMA Choix ==
    ASSUME NEW S, S \subseteq Nat, S # {}
    PROVE  Choisir(S) \in S /\ \A j \in S : Choisir(S) <= j
  <1>1. \E i \in S : \A j \in S : i <= j
    BY MinNat
  <1> QED BY <1>1 DEF Choisir

\* The routes are numbered.
LEMMA RoutesNumerotees ==
    DOMAIN Routes \subseteq Nat
  BY RoutesDesservies, ListeDomaine DEF Desservie

\* The request the program starts with is meant for nothing yet.
LEMMA InvInit ==
    ASSUME InitSurface
    PROVE  InvSurface
  BY DEF InitSurface, InvSurface, Etapes, Adressee, Routee, Reconnue, Jugee

\* The router finds a route, at least the one the request is meant for.
LEMMA InvRouter ==
    ASSUME InvSurface, Router
    PROVE  InvSurface'
  <1>1. /\ etape = "router" /\ etape' = "jwt"
        /\ route' = Choisir({i \in DOMAIN Routes : Convient(i)})
        /\ demande' = demande /\ user' = user
    BY DEF Router
  <1>2. demande.voulue \in DOMAIN Routes /\ user = "personne"
    BY <1>1 DEF InvSurface, Adressee, Reconnue
  <1>3. Premiere(route)'
    <2> DEFINE S == {i \in DOMAIN Routes : Convient(i)}
    <2>1. Convient(demande.voulue)
      BY DEF Convient, Capte
    <2>2. S \subseteq Nat /\ S # {}
      BY <1>2, <2>1, RoutesNumerotees
    <2>3. route' \in S /\ \A j \in S : route' <= j
      <3> HIDE DEF S
      <3>1. Choisir(S) \in S /\ \A j \in S : Choisir(S) <= j
        BY <2>2, Choix
      <3> QED BY <1>1, <3>1 DEF S
    <2>4. \A j \in DOMAIN Routes : Convient(j)' <=> Convient(j)
      BY <1>1 DEF Convient
    <2>5. route' \in DOMAIN Routes /\ Convient(route')
      BY <2>3
    <2>6. Convient(route)'
      BY <1>1, <2>5 DEF Convient
    <2> QED BY <2>3, <2>4, <2>5, <2>6 DEF Premiere
  <1>4. etape' \in Etapes /\ Adressee' /\ Routee'
    BY <1>1, <1>2, <1>3 DEF Etapes, Adressee, Routee
  <1>5. Reconnue' /\ Jugee'
    BY <1>1, <1>2 DEF Reconnue, Jugee
  <1> QED BY <1>4, <1>5 DEF InvSurface

\* A route that is not looked for again stays the first.
LEMMA RouteGardee ==
    ASSUME InvSurface, etape \notin {"attente", "router"},
           UNCHANGED <<demande, route>>
    PROVE  Adressee' /\ Routee'
  <1>1. Premiere(route)
    BY DEF InvSurface, Routee
  <1>2. \A j : Convient(j)' <=> Convient(j)
    BY DEF Convient
  <1>3. Convient(route)' <=> Convient(route)
    BY DEF Convient
  <1>4. Premiere(route)'
    BY <1>1, <1>2, <1>3 DEF Premiere
  <1>5. demande.voulue \in DOMAIN Routes
    BY DEF InvSurface, Adressee
  <1> QED BY <1>4, <1>5 DEF Adressee, Routee

\* The guard that reads the token, where it stands.
LEMMA InvAuthentifier ==
    ASSUME InvSurface, Authentifier
    PROVE  InvSurface'
  <1>1. /\ etape = "jwt" /\ user = "personne"
        /\ demande' = demande /\ route' = route
    BY DEF InvSurface, Reconnue, Authentifier
  <1>2. Adressee' /\ Routee'
    BY <1>1, RouteGardee
  <1>3. CASE "jwt" \notin Routes[route].gardes
    <2>1. etape' = "roles" /\ user' = user
      BY <1>3 DEF Authentifier
    <2> QED BY <1>1, <1>2, <1>3, <2>1 DEF InvSurface, Etapes, Reconnue, Jugee
  <1>4. CASE "jwt" \in Routes[route].gardes /\ Identifie(demande.jeton)
    <2>1. etape' = "roles" /\ user' = demande.jeton
      BY <1>4 DEF Authentifier
    <2>2. Identifie(user)'
      BY <1>4, <2>1 DEF Identifie
    <2> QED BY <1>1, <1>2, <1>4, <2>1, <2>2
            DEF InvSurface, Etapes, Reconnue, Jugee
  <1>5. CASE "jwt" \in Routes[route].gardes /\ ~Identifie(demande.jeton)
    <2>1. etape' = "401" /\ user' = user
      BY <1>5 DEF Authentifier
    <2>2. ~Identifie(demande.jeton)'
      BY <1>1, <1>5 DEF Identifie
    <2> QED BY <1>1, <1>2, <2>1, <2>2 DEF InvSurface, Etapes, Reconnue, Jugee
  <1> QED BY <1>3, <1>4, <1>5

\* What is known of the user stays true of the same request.
LEMMA UserGarde ==
    ASSUME InvSurface, UNCHANGED <<demande, route, user>>,
           etape \in {"roles", "valider", "appeler"},
           etape' \in {"roles", "valider", "appeler", "servi", "400", "403"}
    PROVE  Adressee' /\ Routee' /\ Reconnue'
  <1>1. Adressee' /\ Routee'
    BY RouteGardee
  <1>2. IF "jwt" \in Routes[route].gardes
          THEN user = demande.jeton /\ Identifie(user)
          ELSE user = "personne"
    BY DEF InvSurface, Reconnue
  <1>3. Reconnue'
    BY <1>2 DEF Reconnue, Identifie
  <1> QED BY <1>1, <1>3

\* The guard that compares the roles, where it stands.
LEMMA InvAutoriser ==
    ASSUME InvSurface, Autoriser
    PROVE  InvSurface'
  <1> DEFINE passe == \/ "roles" \notin Routes[route].gardes
                      \/ Autorise(Routes[route].roles, user)
  <1>1. /\ etape = "roles" /\ UNCHANGED <<demande, route, user>>
        /\ etape' = IF passe THEN "valider" ELSE "403"
    BY DEF Autoriser
  <1>2. Adressee' /\ Routee' /\ Reconnue'
    BY <1>1, UserGarde
  <1>3. passe' <=> passe
    BY <1>1 DEF Autorise
  <1>4. Jugee'
    BY <1>1, <1>3 DEF Jugee
  <1>5. etape' \in Etapes
    BY <1>1 DEF Etapes
  <1> QED BY <1>2, <1>4, <1>5 DEF InvSurface

\* The validation pipe comes after the guards.
LEMMA InvValider ==
    ASSUME InvSurface, Valider
    PROVE  InvSurface'
  <1> DEFINE refuse == Routes[route].corps = "valide" /\ ~demande.correct
  <1>1. /\ etape = "valider" /\ UNCHANGED <<demande, route, user>>
        /\ etape' = IF refuse THEN "400" ELSE "appeler"
    BY DEF Valider
  <1>2. Adressee' /\ Routee' /\ Reconnue'
    BY <1>1, UserGarde
  <1>3. \/ "roles" \notin Routes[route].gardes
        \/ Autorise(Routes[route].roles, user)
    BY <1>1 DEF InvSurface, Jugee
  <1>4. Jugee'
    BY <1>1, <1>3 DEF Jugee, Autorise
  <1>5. etape' \in Etapes
    BY <1>1 DEF Etapes
  <1> QED BY <1>2, <1>4, <1>5 DEF InvSurface

\* The handler comes last.
LEMMA InvAppeler ==
    ASSUME InvSurface, Appeler
    PROVE  InvSurface'
  <1>1. /\ etape = "appeler" /\ UNCHANGED <<demande, route, user>>
        /\ etape' = "servi"
    BY DEF Appeler
  <1>2. Adressee' /\ Routee' /\ Reconnue'
    BY <1>1, UserGarde
  <1>3. \/ "roles" \notin Routes[route].gardes
        \/ Autorise(Routes[route].roles, user)
    BY <1>1 DEF InvSurface, Jugee
  <1>4. Jugee'
    BY <1>1, <1>3 DEF Jugee, Autorise
  <1>5. etape' \in Etapes
    BY <1>1 DEF Etapes
  <1> QED BY <1>2, <1>4, <1>5 DEF InvSurface

\* The invariant is kept by every step.
LEMMA InvPas ==
    ASSUME InvSurface, [NextSurface]_varsSurface
    PROVE  InvSurface'
  <1>1. CASE Recevoir
    <2>1. PICK i \in DOMAIN Routes : demande'.voulue = i
      BY <1>1 DEF Recevoir
    <2>2. etape' = "router" /\ user' = "personne"
      BY <1>1 DEF Recevoir
    <2> QED BY <2>1, <2>2 DEF InvSurface, Etapes, Adressee, Routee, Reconnue, Jugee
  <1>2. CASE Router
    BY <1>2, InvRouter
  <1>3. CASE Authentifier
    BY <1>3, InvAuthentifier
  <1>4. CASE Autoriser
    BY <1>4, InvAutoriser
  <1>5. CASE Valider
    BY <1>5, InvValider
  <1>6. CASE Appeler
    BY <1>6, InvAppeler
  <1>7. CASE Repondre
    <2>1. etape' = "attente" /\ user' = "personne"
      BY <1>7 DEF Repondre
    <2> QED BY <2>1 DEF InvSurface, Etapes, Adressee, Routee, Reconnue, Jugee
  <1>8. CASE UNCHANGED varsSurface
    <2>1. UNCHANGED <<demande, etape, route, user>>
      BY <1>8 DEF varsSurface
    <2>2. \A j : Convient(j)' <=> Convient(j)
      BY <2>1 DEF Convient
    <2>3. Convient(route)' <=> Convient(route)
      BY <2>1 DEF Convient
    <2>4. Routee'
      BY <2>1, <2>2, <2>3 DEF InvSurface, Routee, Premiere
    <2>5. etape' \in Etapes /\ Adressee' /\ Reconnue' /\ Jugee'
      BY <2>1 DEF InvSurface, Adressee, Reconnue, Jugee, Identifie, Autorise
    <2> QED BY <2>4, <2>5 DEF InvSurface
  <1> QED BY <1>1, <1>2, <1>3, <1>4, <1>5, <1>6, <1>7, <1>8 DEF NextSurface

\* The route a request is at is one of the list.
LEMMA RouteSure ==
    ASSUME InvSurface, etape \notin {"attente", "router"}
    PROVE  /\ route \in DOMAIN Routes /\ Sure(Routes[route])
           /\ demande.voulue \in DOMAIN Routes
           /\ Capte(Routes[route], Routes[demande.voulue])
           /\ \A j \in DOMAIN Routes :
                 Capte(Routes[j], Routes[demande.voulue]) => route <= j
  <1>1. Premiere(route) /\ demande.voulue \in DOMAIN Routes
    BY DEF InvSurface, Routee, Adressee
  <1> QED BY <1>1, RoutesDesservies DEF Premiere, Convient, Desservie

\* A request that is served was let in by the guards of its route: where the
\* handler asks for roles both of them stood, and the token names one of these.
LEMMA RolesDe ==
    ASSUME InvSurface
    PROVE  RolesRespectes
  <1> SUFFICES ASSUME etape = "servi"
               PROVE  /\ Routes[route].roles # SansRole =>
                            demande.jeton \in Routes[route].roles
                      /\ Routes[route].lit => user # "personne"
    BY DEF RolesRespectes
  <1> DEFINE x == Routes[route]
  <1>1. /\ x.roles \in {SansRole, Admin, Tous}
        /\ x.lit = FALSE \/ x.roles # SansRole
        /\ x.roles # SansRole => "roles" \in x.gardes
    BY RouteSure DEF Sure, Operation
  <1>2. /\ "roles" \notin x.gardes \/ Autorise(x.roles, user)
        /\ IF "jwt" \in x.gardes THEN user = demande.jeton ELSE user = "personne"
    BY DEF InvSurface, Reconnue, Jugee
  <1> HIDE DEF x
  <1>3. x.roles # SansRole => user \in x.roles /\ user # "personne"
    BY <1>1, <1>2 DEF Autorise, SansRole, Admin, Tous
  <1>4. x.roles # SansRole => demande.jeton \in x.roles
    BY <1>2, <1>3
  <1>5. x.lit => user # "personne"
    BY <1>1, <1>3
  <1> QED BY <1>4, <1>5 DEF x

\* An administrator's correct request fails for the two reasons the list of the
\* condemned operations is made of, and for no other.
LEMMA OperationsDe ==
    ASSUME InvSurface
    PROVE  ServicesRendus
  <1> SUFFICES ASSUME demande.jeton = "admin", demande.correct
               PROVE  /\ etape \notin {"400", "401"}
                      /\ etape = "403" => demande.voulue \in Condamnees
                      /\ etape = "servi" => ( route = demande.voulue
                            <=> demande.voulue \notin Condamnees )
    BY DEF ServicesRendus
  <1> DEFINE x == Routes[route]
             v == demande.voulue
             y == Routes[v]
  <1>1. etape \notin {"400", "401"}
    BY DEF InvSurface, Reconnue, Jugee, Identifie
  <1>2. ASSUME etape \in {"403", "servi"}
        PROVE  /\ x.roles \in {SansRole, Admin, Tous}
               /\ x.roles # SansRole => "roles" \in x.gardes
               /\ IF "jwt" \in x.gardes THEN user = "admin" ELSE user = "personne"
               /\ route \in DOMAIN Routes /\ v \in DOMAIN Routes
               /\ Capte(x, y)
               /\ \A j \in DOMAIN Routes : Capte(Routes[j], y) => route <= j
               /\ route \in Nat /\ v \in Nat
               /\ v \in Condamnees <=> Condamnee(y)
               /\ route <= v
    <2>1. etape \notin {"attente", "router"}
      BY <1>2
    <2>2. /\ route \in DOMAIN Routes /\ Sure(x) /\ v \in DOMAIN Routes
          /\ Capte(x, y)
          /\ \A j \in DOMAIN Routes : Capte(Routes[j], y) => route <= j
      BY <2>1, RouteSure
    <2>3. IF "jwt" \in x.gardes THEN user = "admin" ELSE user = "personne"
      BY <1>2 DEF InvSurface, Reconnue
    <2>4. Capte(y, y)
      BY DEF Capte
    <2>5. v \in Condamnees <=> Condamnee(y)
      BY <2>2 DEF Condamnees
    <2> QED BY <2>2, <2>3, <2>4, <2>5, RoutesNumerotees DEF Sure, Operation
  <1>3. /\ \A i, j \in DOMAIN Routes :
              Capte(Routes[i], Routes[j]) /\ (i < j \/ Refusee(Routes[i]))
                => Condamnee(Routes[j])
        /\ \A j \in DOMAIN Routes : Condamnee(Routes[j]) =>
              \/ Refusee(Routes[j])
              \/ \E k \in DOMAIN Routes : k < j /\ Capte(Routes[k], Routes[j])
    BY RoutesDesservies DEF Desservie
  <1>4. ASSUME etape = "403" PROVE v \in Condamnees
    <2>1. "roles" \in x.gardes /\ ~Autorise(x.roles, user)
      BY <1>4 DEF InvSurface, Jugee
    <2>2. Refusee(x)
      BY <1>2, <1>4, <2>1 DEF Autorise, Refusee, SansRole, Admin, Tous
    <2> QED BY <1>2, <1>3, <1>4, <2>2
  <1>5. ASSUME etape = "servi" PROVE route = v <=> v \notin Condamnees
    <2>1. "roles" \notin x.gardes \/ Autorise(x.roles, user)
      BY <1>5 DEF InvSurface, Jugee
    <2>2. ~Refusee(x)
      BY <1>2, <1>5, <2>1 DEF Autorise, Refusee, SansRole, Admin, Tous
    <2>3. ASSUME route = v PROVE v \notin Condamnees
      <3> SUFFICES ASSUME Condamnee(y) PROVE FALSE
        BY <1>2, <1>5
      <3>1. PICK k \in DOMAIN Routes : k < v /\ Capte(Routes[k], y)
        BY <1>2, <1>3, <1>5, <2>2, <2>3
      <3>2. v <= k /\ k \in Nat
        BY <1>2, <1>5, <2>3, <3>1, RoutesNumerotees
      <3> QED BY <1>2, <1>5, <3>1, <3>2
    <2>4. ASSUME route # v PROVE v \in Condamnees
      <3>1. route < v
        BY <1>2, <1>5, <2>4
      <3> QED BY <1>2, <1>3, <1>5, <3>1
    <2> QED BY <2>3, <2>4
  <1> QED BY <1>1, <1>4, <1>5

\* Every reachable state satisfies the invariant.
LEMMA InvToujours ==
    SpecSurface => []InvSurface
  <1>1. InitSurface => InvSurface
    BY InvInit
  <1>2. InvSurface /\ [NextSurface]_varsSurface => InvSurface'
    BY InvPas
  <1> QED BY <1>1, <1>2, PTL DEF SpecSurface

\* Whatever the token and the body, and wherever its request was routed, a
\* handler that asks for roles is reached only with a valid token of one of
\* them, and one that reads req.user.id only with a user to read.
THEOREM RolesToujoursRespectes ==
    SpecSurface => []RolesRespectes
  <1>1. InvSurface => RolesRespectes
    BY RolesDe
  <1> QED BY <1>1, InvToujours, PTL

\* An administrator's correct request reaches its handler, except for the
\* operations that a route declared before takes or a guard that stands alone
\* refuses, which are the listed ones and never reach theirs.
THEOREM OperationsPerdues ==
    SpecSurface => []ServicesRendus
  <1>1. InvSurface => ServicesRendus
    BY OperationsDe
  <1> QED BY <1>1, InvToujours, PTL
=============================================================================
