---------------------------- MODULE Chiffrement ----------------------------
(***************************************************************************)
(* EncryptionService: a code is kept encrypted in the store, and read back  *)
(* by the process that wrote it or, after a restart, by one that may have   *)
(* another environment.                                                     *)
(*                                                                          *)
(* AES-GCM and PBKDF2 are ideal: another key gives an error, never another  *)
(* text.  Salt and IV are drawn for each payload and travel in it, so only  *)
(* their lengths are kept.                                                  *)
(***************************************************************************)
EXTENDS Integers

CONSTANTS
    Environnements, \* environments a process may be started in
    Textes,         \* the codes
    Absente         \* a variable that is not set; no service, no payload

\* Length of the key an algorithm needs, and of the tag GCM makes.
TailleCle == [x \in {"aes-128-gcm", "aes-256-gcm"} |->
                IF x = "aes-128-gcm" THEN 16 ELSE 32]
TailleTag == 16

EnvironnementValide(e) ==
    /\ DOMAIN e = {"cle", "secret", "sel", "algorithme", "iterations",
                   "keyLength", "saltLength", "ivLength", "tagLength"}
    /\ e.algorithme \in DOMAIN TailleCle
    /\ {e.iterations, e.keyLength, e.saltLength, e.ivLength, e.tagLength}
          \subseteq Nat

ASSUME ChiffrementAssumption ==
    /\ Absente \notin Textes
    /\ \A e \in Environnements : EnvironnementValide(e)

VARIABLES
    env,    \* environment of the process, Absente if its start failed
    coffre, \* payload in the store and environment it was written in
    lu      \* <<environments of writer and reader, text, result>> of a reading

varsChiffrement == <<env, coffre, lu>>

InitChiffrement == env = Absente /\ coffre = Absente /\ lu = Absente
-----------------------------------------------------------------------------
\* The configured key, or one derived from JWT_SECRET and its salt, which is
\* derived from the secret as well when it is not set.
EncryptionKey(e) ==
    IF e.cle # Absente THEN <<"configuree", e.cle>>
    ELSE <<"derivee", e.secret, e.sel>>

\* The constructor accepts the environment.
Demarrable(e) ==
    /\ e.cle # "malformee"
    /\ e.cle # Absente \/ e.secret # Absente

\* What PBKDF2 makes of the key, for the salt of the payload.
Derivee(e) == <<EncryptionKey(e), e.iterations, e.keyLength>>

\* createCipheriv rejects an empty IV and a key that is too short or too long.
Chiffrable(e) == e.ivLength > 0 /\ e.keyLength = TailleCle[e.algorithme]

Encrypt(e, texte) ==
    [sel |-> e.saltLength, iv |-> e.ivLength, tag |-> TailleTag,
     algorithme |-> e.algorithme, cle |-> Derivee(e), texte |-> texte]

\* Variant: the payload is cut by the lengths of the environment.
DecryptParTailles(e, p) ==
    IF /\ p.sel = e.saltLength /\ p.iv = e.ivLength /\ p.tag = e.tagLength
       /\ e.keyLength = TailleCle[e.algorithme]
       /\ p.algorithme = e.algorithme /\ p.cle = Derivee(e)
    THEN p.texte ELSE Absente

\* Absente stands for an exception: a part is empty, the tag has another length
\* than the setting, the key does not fit, or the tag does not verify.
Decrypt(e, p) ==
    IF /\ p.sel > 0 /\ p.iv > 0 /\ p.tag = e.tagLength
       /\ e.keyLength = TailleCle[e.algorithme]
       /\ p.algorithme = e.algorithme /\ p.cle = Derivee(e)
    THEN p.texte ELSE Absente
-----------------------------------------------------------------------------
Demarrer ==
    /\ \E e \in Environnements : env' = IF Demarrable(e) THEN e ELSE Absente
    /\ lu' = Absente
    /\ UNCHANGED coffre

Deposer ==
    /\ env # Absente /\ Chiffrable(env)
    /\ \E texte \in Textes :
          coffre' = [charge |-> Encrypt(env, texte), par |-> env, texte |-> texte]
    /\ lu' = Absente
    /\ UNCHANGED env

Relire ==
    /\ env # Absente /\ coffre # Absente
    /\ lu' = <<coffre.par, env, coffre.texte, Decrypt(env, coffre.charge)>>
    /\ UNCHANGED <<env, coffre>>

NextChiffrement == Demarrer \/ Deposer \/ Relire

SpecChiffrement == InitChiffrement /\ [][NextChiffrement]_varsChiffrement
-----------------------------------------------------------------------------
\* The settings that decide what a payload can be read with.
MemesReglages(e, f) ==
    /\ \/ e.cle # Absente /\ e.cle = f.cle
       \/ e.cle = Absente /\ f.cle = Absente /\ e.secret = f.secret /\ e.sel = f.sel
    /\ e.iterations = f.iterations /\ e.algorithme = f.algorithme

\* After a restart a code is read back exactly if the key and the derivation are
\* the same: JWT_SECRET may change when OTP_ENCRYPTION_KEY is set, and the
\* lengths of salt and IV may change in any case.  The tag length of the reader
\* must be 16 and the salt of the writer not empty, or every code is refused.  A
\* code is never read as another one.
RelectureFidele ==
    lu # Absente =>
        LET e == lu[1] f == lu[2]
            lisible == /\ MemesReglages(e, f)
                       /\ e.keyLength = f.keyLength
                       /\ f.tagLength = TailleTag /\ e.saltLength > 0
        IN  lu[4] = IF lisible THEN lu[3] ELSE Absente
=============================================================================
