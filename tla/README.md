# Verification of the CEMAC accounting backend

TLA+ models, TLC runs and TLAPS proofs for the NestJS service under `src/`.
Paths below are relative to the repository root (`src/invoice/...` is
`invoice` under the TypeScript source directory); names of definitions keep the
names of the source, or are French like its domain vocabulary.

## 1. The system

One Node process serves HTTP. Handlers run on one event loop: a handler runs
until its next `await`, so handlers of different requests interleave between
awaited calls and nowhere else. State is in PostgreSQL (through TypeORM; no
handler opens a transaction, every repository call is a statement of its own)
and in Redis, or in a `Map` of the process when no Redis is configured. Several
instances may share both.

| Component | State | Operations | Calls | What makes it correct |
|---|---|---|---|---|
| Invoice (`invoice/`) | `factures`, `lignes_facture`, `paiements_facture` | calculate, create, modify, change status, register payment, delete, export | audit log, notification | amounts follow the tax rules; paid = sum of payments; balance = total - paid; settled only if nothing is due; lines and payments belong to an existing invoice |
| One-time codes (`auth/auth.service.ts`) | codes and request counters in the OTP store, `users` | request a code, verify an account, reset a password, register, login | OTP store, delivery, audit log | limited rate; a code is used once, for its purpose and its user, and lasts as long as announced |
| OTP store (`redis/redis.service.ts`) | Redis, or the fallback `Map` | set, get, del, incr, expire | Redis | the fallback does what Redis does, expiry included |
| Message delivery (`auth/auth-message.service.ts`) | Twilio client, loaded once | sendCode by mail, SMS, WhatsApp | SMTP, Twilio, webhook | who is told that a code was sent can have it; one provider for the life of the process |
| Encryption (`auth/encryption.service.ts`) | key, from the environment | encrypt, decrypt | node crypto | a code is read back exactly, also by the next process, or refused |
| User (`user/`) | `users`, shared with `AuthService` | create, update, remove, reset by mail | audit log, notification, codes | one account per address; a decision of an administrator lasts; no password in clear |
| Partner (`partner/`) | `clients`, `fournisseurs` | CRUD, import, export | audit log, invoice | unique names; what an answered import says it inserted is there; a deleted partner stays away |
| Accounting (`accounting/`) | `ecritures_comptables` | create, import, statements, export | audit log | statements agree with the journal and with each other |
| Reporting (`reporting/`) | none | sales, purchases, performance | reads the entries, audit log | a report shows the journal |
| Settings (`settings/`) | `settings`, one row created on first use | read, update | audit log | no value given is lost; the row is single |
| Audit log, Notification | one table each | log / create, mark read | | an entry per effect |
| HTTP surface (`main.ts`, controllers, guards) | none | routing, authentication, roles, validation | every service | a request reaches the handler it is meant for, with its body, if its roles allow it |

The hard behaviours are these. Handlers read a row, await, and write back values
computed from what they read (payments, modifications, `save(user)`). Handlers
write several tables one statement after the other and may stop between any two.
A counter is checked and incremented by two commands with others between. Codes
and counters expire while requests are in progress. Amounts are rounded when
stored, decisions are taken before. Imports are loops of single insertions.
Reports read twice. `PROJECT.json` lists these hazards one by one, at the line
where each bites, with the properties that speak of it.

## 2. Modules

| Module | Models | Code |
|---|---|---|
| `FactureCalcul` | tax rules, discount, statuses, rounding of a column: pure operators | `calculateTotals`, entity columns |
| `FactureArrondi` | one invoice as stored, requests one after the other, with rounding | `createFacture`, `registerPayment`, `updateFacture` |
| `Facture` | concurrent requests with failures on the three invoice tables, the audit log and the notifications | `FactureService` |
| `MagasinTTL` | a store with expiring entries: pure operators | as the services use `RedisService` |
| `Redis` | what a store promises (abstract specification) | the commands of `RedisService` with a server |
| `RedisRepli` | the fallback `Map`; refines `Redis` | `fallbackGet`, `fallbackSet`, `isExpired`, the commands |
| `Otp` | concurrent requests with failures on the OTP store and the accounts, and time | `requestCode`, `verifierCode`, `resetMdp` |
| `Ecriture` | creations, imports and reports on the journal of entries; statements as operators | `EcritureService`, `ReportingService` |
| `Livraison` | the choice of a provider and its failures, as operators over one process | `AuthMessageService` |
| `OtpLivraison` | `Otp` with `Livraison` in place of its delivery step; refines `Otp` | `requestCode` with `sendCode` |
| `Surface` | router, guards and validation pipe for every route | controllers, `RolesGuard`, `main.ts` |
| `Serveur` | slots for requests in progress, shared by the next three | |
| `Comptes` | accounts: registration, login, administration, and what a verification or a reset saves | `UserService`, `AuthService` |
| `Partenaires` | clients and suppliers, with imports | `PartnerService` |
| `Reglages` | the settings row | `SettingsService` |
| `Chiffrement` | codes written and read by processes started in different environments | `EncryptionService` |
| `FactureProofs`, `FactureTablesProofs`, `FactureArrondiProofs`, `OtpProofs` (`Otp`, `OtpLivraison`), `RedisRepliProofs`, `EcritureProofs`, `SurfaceProofs`, `AdministrationProofs` (`Comptes`, `Partenaires`, `Reglages`, `Chiffrement`) | theorems | |
| `MCFacture`, `MCFactureArrondi`, `MCOtp`, `MCOtpLivraison`, `MCEcriture`, `MCAdministration` | constants for TLC; the last one also composes the four modules of administration, `RedisRepli` and `Surface` | |

How state and actions correspond to the code:

* **Requests.** `req` maps each slot to a request in progress: a program counter
  (`pc`), the body, and the local variables the handler holds across an await
  (`lu` is the row it read). `Recevoir` is the arrival of any request with any
  body of the small sets; every other action is *one awaited call together with
  the computation up to the next one*. Early returns and 4xx answers are in the
  guards: `Accepte` is the 404 of `findOne` and the client check of
  `registerPayment`, `RefuserInsertion` the unique invoice number, `LireCode` the
  401 of a wrong code. `Echouer` is a rejected call or the end of the process:
  the request is gone, what it wrote stays.
* **Tables** are functions from ids to rows. In `Facture` the lines of an invoice
  and its payments are represented by their sums, since no code looks at a
  single one; amounts are whole cents. `MettreAJour` is an `UPDATE ... WHERE id`,
  which does nothing when the row is gone. Only changed columns are written by
  `repository.update`, whereas `repository.save(user)` in `Otp` writes the
  entity as it was read (`CompteModifie`).
* **Rounding** is the subject of `FactureArrondi`, where a cent is `Centime` units
  and `Colonne` rounds to a multiple of it, as `decimal(15, 2)` does; the unit is
  so small that the rates 9.5 % and 19.25 % are exact on the inputs
  (`ExactitudeAssumption`).
* **Time** is `Temps`: entries of the store count down. A unit of time is a
  fraction of the life times given as constants.
* **Codes** are numbered in the order they are generated. `UtiliserCode` tries
  any code generated so far, or a wrong one (0). In `Otp` the store holds what
  was put in: that encryption is transparent to one process is the subject of
  `Chiffrement`.
* **Delivery** is one await of one provider, hence one step (`SendCode`). What
  became of the message (`Issues`) is accepted, refused, or taken with the answer
  lost; the last two look the same to the program. `config` is the environment of
  the process, chosen once; `twilio` is `twilioClientLoaded` with the client.
  `OtpLivraison` adds to each request in progress the code it sends and the mode
  of its delivery (`envois`), which is what the answer depends on.
* **Saving an entity** is two statements in `Comptes`, as TypeORM does it: a read
  of the row by its id (`RelireCompte`), then an update of the columns in which
  the entity differs, or an insertion under the old id when there was no row
  (`SauverCompte`). `Otp` takes both together and keeps the two columns it needs.
* **Administration.** Of a partner only the name is kept, since handlers decide on
  nothing else; of an account the columns that a guard or a write of the program
  distinguishes. A login body may lack its address: `findOne` drops a condition on
  `undefined`, so that any row may be found (`Correspond`). A failed statement has
  no effect and ends the request, unless the handler catches it (`RejeterCompte`:
  `register` ignores a failing audit entry).
* **Encryption** keeps of a payload what `decrypt` can tell apart: the lengths of
  its parts and the key they were made with. AES-GCM and PBKDF2 are ideal: a wrong
  key is an error, never another text.
* **Statements** on the journal are six loops in two services; in `Ecriture` each
  is a sum over a set of classes by one shared operator, `Solde`, with the sign its
  class has there. A wrong set of classes in one loop is visible to `EtatsAccordes`,
  a sign changed inside one of the six loops is not.
* **History variables** record what the properties need and the program does not
  keep: advances whose payment row is missing (`acompteDu`), invoices whose
  requests overlapped or failed half-way (`troubles`), what a code was generated
  for (`emis`), how often it was used (`usages`), how long its message still
  promises it (`annonces`), which invoices a negative payment was recorded for
  (`rembourses`), which request and row an entry
  comes from (`origines`). No action reads them to decide what to do.
* **Surface** is a list of all routes in the order of declaration, and one request
  at a time through router, `JwtAuthGuard`, `RolesGuard`, pipe and handler.

The service modules take the bodies their controllers and unit tests declare. Run
`surface_corps` shows that the validation pipe currently empties some of these
bodies before they reach the services, and `surface_documentee` that some
operations do not reach them at all: those of `UserController` for administrators
are refused to everybody (`RolesGuard` without `JwtAuthGuard`). The models of the
services are of the services, whoever calls them: what `Comptes` says of
creations, updates and removals by an administrator concerns callers of
`UserService`, today its tests, and the routes once their guards are completed.

## 3. Runs

| Run | Shows |
|---|---|
| `facture_arrondi` | The stored total is the reference total to the nearest cent whatever payments and modifications came before (`TotalDeReference`); the columns of a stored invoice add up within one cent (`ColonnesCoherentes`); rounding never settles an invoice with an amount due (`ReglementArrondi`). |
| `facture_concurrence` | With two requests at a time that may fail anywhere: `PayeCouvert` (no invoice shows more paid than was recorded), `AuditFonde` (no payment is audited that is not in the table). On invoices whose requests did not overlap or fail after a write: `FacturesExactes`, `TablesExactes`, `AuditsExacts`. |
| `facture_paiements` | Without modifications, under all interleavings, with payments of both signs: `SoldeCoherent` (balance = total - paid although both may be stale), `RegleeSoldee` (a settled invoice has nothing due, or was paid back); every request is answered (`ReponseRendue`). |
| `facture_paiements_perdus` | Violation: two overlapping payments of one invoice, one is lost from `montant_paye`. |
| `otp_concurrence` | With two requests at a time that may fail: `TauxBorne` (the limit is passed by less than the number of concurrent requests); `ChangementParCode` (an account changes only by a code generated for it and for that change); `TauxLibere` (a user at the limit is let in again, unless a request failed just before setting the deadline). |
| `otp_serie` | One request at a time, failing anywhere, with the providers: `CodeUneFois`, `CodeGarde` (a code is lost only to time, a newer one of its user and purpose, or a request that presented it), `VerificationDurable`, `MotDePasseChoisi`; `CodeParvenu` (a code the user is told of was taken by a provider or is in the answer), `FournisseurStable` (one provider for all SMS and WhatsApp messages of a process). |
| `otp_annonce` | Violation: a code is refused while the message that delivered it still promises it (`CodeUtilisable`). |
| `otp_depassement` | Violation: two overlapping requests send more codes than `OTP_MAX_ATTEMPTS`. |
| `ecriture` | With two requests at a time that may fail: the entries of an import are a prefix of its file (`ImportEnPrefixe`), its announced count is what was saved and audited (`ImportAnnonce`), the statements and reports agree (`EtatsAccordes`), and a report reads two moments in order (`RapportEntreDeuxEtats`). |
| `administration` | Accounts: `MotDePasseHache`, `DecisionRespectee` (a role given or a removal is undone only by a verification or a reset received before it), `JetonFonde` (the same for the role in a token), `ReponseInscription`. Partners: `TraceSuppression`, `ImportSeul`. Settings: `BorneReglages`, `ReglageConserve`. Encryption: `RelectureFidele` (which changes of the environment a stored code survives). Routes: `RolesRespectes` (handlers run for their roles, with the user they read). The fallback `Map` implements `Redis` (`CommeRedis`, with the refinement mapping `Visible`). |
| `surface_documentee` | Violation: a correct request of an administrator for a route the repository's README documents is not served by it (`OperationsServies`); the trace is `GET /ecriture/export`, answered with 403. |
| `surface_corps` | Violation: the invoice of the repository's README reaches its handler without its fields. |

Each property of a passing run has a mutant in `PROJECT.json`, a variant of one
definition the way a bug in that code would make it; the variants stand before
the definitions they replace, marked "Variant".

The inductive invariants of section 4 (`InvCouverture`, `InvAudit`, `InvExacte`,
`InvArrondi`, `TauxReserve`, `CodesFondes`, `InvSerie`, `InvImport`, `InvRapport`,
`InvSurface` and the others) are in no run: TLC checked each of them until it was
proved, and they are proved inductive for every instance.

### What holds only under a condition

Some properties one would like are false of this code when requests overlap. The
project states them for the executions where they do hold, and says which
these are:

* `FacturesExactes`, `TablesExactes` and `AuditsExacts` speak of an invoice
  outside `troubles`. An overlap of two payments loses one
  (`facture_paiements_perdus`); a creation that fails after its first statement
  leaves an invoice without lines whose number is taken; two `saveLines` at once
  keep the lines of both; a payment during a deletion leaves an orphan.
* `SoldeCoherent` and `RegleeSoldee` hold without modifications. A modification
  that overlaps with a payment mixes the columns of both; one that raises the
  total of a settled invoice leaves it `reglee`. Nothing refuses a negative
  payment (`facture.service.ts:236-254`): paying 100 and then -100 leaves an
  invoice `reglee` with 100 due. `RegleeSoldee` allows exactly that, a settled
  invoice with an amount due when payments were given back until nothing of it
  is left paid (`Reglable`), and the run reaches it.
* `PayeCouvert` and `AuditFonde` are about payments that are not negative: a
  stale write over one that was given back shows more than is left.
* `CodeUneFois`, `CodeGarde`, `VerificationDurable` and `MotDePasseChoisi`
  are checked with one slot, and proved for any number of slots when the requests
  of a same user do not overlap (`Serie`). When they do, TLC finds that a code is
  used twice, that a used code's deletion takes the code issued meanwhile, and
  that `save(user)` undoes what the other request changed.
* `TauxLibere` excepts a user for whom a request failed between `incr` and
  `expire`: that counter has no deadline, and nothing in the code ever resets it.
* `DecisionRespectee` and `JetonFonde` name their exception (`rompues`): a
  verification or a reset that read the account before the decision saves it
  back, under its old role or after its removal. TLC finds either one when the
  exception is left out. A login that read the role before the decision signs it.
* `ImportSeul` implies that an import which failed after its first row can never
  be completed by sending the same file again, unless its rows are removed first.
* `BorneReglages` allows as many rows as slots: two first uses that overlap create
  two, and which of them later readers get is up to PostgreSQL.
  `ReglageConserve` says that no value is lost from the table, not that the
  reader gets the row that has it.
* `RelectureFidele`: every code is refused when `OTP_TAG_LENGTH` is not 16 or
  `OTP_SALT_LENGTH` is 0, although the process starts and encrypts.
* `OperationsServies` is false of the operations that `Condamnees` of
  `SurfaceProofs` lists: three literal paths behind a parameter declared before
  them, and the handlers with roles of the controllers where `RolesGuard` stands
  without `JwtAuthGuard`. `OperationsPerdues` proves that it is false of these
  and of no others.
* `CodeUtilisable` takes the message at its word: "Il expire dans 10 minutes"
  (`auth-message.service.ts:149`), a constant, twice the default of `OTP_EXPIRY`;
  in the second half the code is refused. Its clock, `annonces`, starts when a
  provider takes the message, some awaits after the store started its own. Even
  equal durations would leave the code refused for the time these awaits take;
  the same holds of `expiresInSeconds`, which the answer gives later still
  (`auth.service.ts:196`). What does hold, and is proved, is `CodeGarde`.
* `CodeParvenu` counts a code in the answer as received. The flag
  `localDeliveryEnabled` (`auth-message.service.ts:97`) is never read: codes are
  shown in the answer whenever no provider is configured, or SMTP fails.
  `auth-message.service.spec.ts:83` and `:129` expect an exception there when
  local delivery is disabled; the model follows the code.
* `EtatsAccordes` shows that with equal debits and credits the balance sheet is
  off by the result of the period: `equilibre` is true only when the result is
  zero.

### Bounds

Two slots suffice for every hazard listed: each is about one handler passing
between two statements of another. Three or four requests (`MaxRequetes`) allow a
creation followed by two overlapping requests and one afterwards; one invoice row,
since no handler looks at two (`MaxFactures`). Amounts are chosen so that a
payment settles an invoice exactly, falls short, or (with two) exceeds it, with
and without an advance. In `FactureArrondi` they straddle the VAT threshold and
end in fractions of a cent. In `RedisRepli` the clock runs past the longest life
time. In `Otp` the limit is reached with the requests allowed, codes outlive a
step and die before the window. In `Ecriture` the amounts are such that no two
different sets of entries have the same totals, and one file has a row that the
table refuses in its middle. `otp_serie` has one slot, four requests (a code, its
use, a second code, its use) and two environments in which, as the SDK of Twilio
may be missing, every branch of `sendCode` is taken. `administration` has two
slots and three requests: one to create a row and two that overlap on it. The
table has room for two accounts, with an administrator at the start, and three
partners; a file has two rows, since a third is like the second; clients and
suppliers are both present, two columns of settings with one value each besides
the default tell a lost update from a kept one; and sixteen environments differ
from that of `.env.example` in a setting or two, each change with a value of every
kind the code distinguishes. Its parts share no variable, so that the run follows
one of them while the others are at rest: interleaving them would multiply the
states and add no behaviour to any part. `Surface` has no bound: all routes, all
kinds of token. Symmetry is used on slots (in `administration` also on addresses
and names, which are only compared), and in no run with a liveness property.

The runs of `Facture`, `FactureArrondi`, `Ecriture` and `MCAdministration` say
`CHECK_DEADLOCK FALSE`: the bounds on requests, writes and the clock stop these
systems where the real one goes on.

### Fairness

`FairSpec` of `Facture` and of `Otp` assumes weak fairness of each request in
progress: the event loop resumes a handler whose awaited call has returned, and
calls return or are rejected. `Otp` also assumes that time passes. No request is
assumed to arrive, and no failure to happen.

## 4. Proofs

`FactureProofs` proves, for any number of slots, requests and invoices, and any
integers as amounts unless a condition is named:

* `TypeCorrecte`: `Spec => []TypeOK`. `RequeteOK` is the part that is not about
  sets: at each step the request holds what the step uses.
* `JamaisTropPaye`: `Spec => []PayeCouvert` when payments are not negative
  (`Montants \subseteq Nat`; section 3 says why). `PayeCouvert` is not inductive:
  a request writes back a value it read some steps ago. The invariant adds
  `LectureCouverte`, that what every request in progress *will* write is covered
  already (after its payment row is in the table, with that payment),
  `PaiementsPositifs`, that what is recorded is not negative, and `IdsAttribues`,
  that an id is in no request before it is given out, so that a new invoice starts
  with nothing paid (`IdsPas`, for amounts of any sign). The covered amount of an
  invoice only grows, which keeps all snapshots covered; deletions of payments are
  set apart in `purges`.

`FactureTablesProofs` goes on, for the same constants:

* `SoldeToujoursCoherent` and `RegleeToujoursSoldee`, where `Operations` lacks
  `"modifier"` and `StatutsDemandes` lacks `"reglee"`, for payments and advances of
  any sign. Payments may overlap and
  one may overwrite the other; the row stays consistent because each is computed
  from a row that was consistent (`LectureExacte`) and no other column of the row
  moves: the total an invoice was created with is the total of every snapshot of
  it. The proof uses `IdsPas` for the fact that an id never comes back. For
  the status, a request that is about to write a negative payment has its invoice in
  `rembourses` already, and this set only grows.
* `AuditToujoursFonde`: `Spec => []AuditFonde`, under all interleavings and
  failures, when payments are not negative. A payment is audited two statements
  after its row is written, so the invariant must say that the payments still to
  be audited fit into what is recorded and not audited yet. `InvAudit` states it
  without a sum over requests in progress, which every step would have to take
  apart, as a packing: each of these payments has a place on the line from 0 to
  `Reste(i)`, as long as its amount, and no two places overlap (`Disposes`). A new
  payment gets its place at the end; an audited one leaves its place, and those
  after it move down.
* `ToujoursExactes`, `TablesToujoursExactes`, `AuditsToujoursExacts`: the three
  properties of undisturbed invoices; the first and the last when advances are not
  negative, as `createFacture` keeps a negative one in the row and records no
  payment for it. What the three tables, the audit trail and
  the notifications hold of an invoice is its file (`Dossier`); `Suivi(x, q)` says
  what file `x` is when request `q` about it has come to its current step, and
  `InvExacte` that outside `troubles` there is at most one such request, with its
  file at that step. A step of a request about another invoice leaves the file
  alone; this is what makes the proof one of sequential code, action by action.
* `PaiementsComptesSansRecouvrement`: the property that run
  `facture_paiements_perdus` violates holds of every execution in which no two
  requests about one invoice are in progress together (`SansRecouvrement`) and none
  fails after its first write (`EchecEntame`), again when advances are not
  negative. Both are needed; requests about
  different invoices may overlap at will. The proof is that nothing else puts an
  invoice into `troubles`.

`FactureArrondiProofs` proves, for any prices, discounts, payments and number of
writes (`MontantsAssumption`; amounts may be negative, nothing in the code bounds
them) and any unit in which the rates are exact (`ExactitudeAssumption`):

* lemmas on the arithmetic: the column nearest to an amount is half a cent away at
  most, has its sign, and is the amount itself when that is on the cent
  (`Arrondi`, `ArrondiExact`); columns whose exact values add up do so to one cent
  (`TroisColonnes`: three halves of a cent are less than two cents); the rates
  taken one after the other are the rates in closed form (`TauxReunis`).
* `TypeCorrecte`, `TotauxDeReference`, `ColonnesToujoursCoherentes`, from
  `InvArrondi`.
* `ReglementsArrondis`: `Spec => ReglementArrondi` when advances and payments are
  not negative, and payments are whole cents. These conditions matter: a payment
  of a fraction of a cent can leave a balance that is positive where the status is
  decided and zero in its column.

`OtpProofs` proves for any users, slots and limits:

* `TypeCorrecte`: `Spec => []TypeOK`.
* `TauxJamaisDepasse`: `Spec => [](TauxReserve /\ TauxBorne)`. `TauxBorne`
  alone is not inductive: an increment comes after the check. `TauxReserve`
  counts the requests between check and increment as already made; a request
  joins them only while the counter is below the limit, and at most all slots
  are among them.
* `TauxRespecteSansRecouvrement`: `Spec /\ []UnSeulEnVol => []TauxRespecte`. The
  limit that run `otp_depassement` shows exceeded is respected whenever no two
  requests of a user are between check and increment at once; a weaker condition
  than `Serie` below, since requests may overlap in every other step. Both theorems
  rest on `TauxEtapes`: a step lets one request through, counts one, or raises nothing.

* `JamaisSansCode`: `Spec => []ChangementParCode`. Requests with the two purposes,
  of several users, share one store, and an entity read early is saved late. The
  invariant `CodesFondes` says that a code lies under the key it was generated
  for, that a request past the check of its code holds one of its own purpose and
  user, and that the entity it will save shows nothing no used code gave. The
  history of codes only grows (`Prolonge`), so these facts last.

* `CodesUneFois`, `CodesGardes`, `VerificationsDurables`, `MotsDePasseChoisis`:
  `Spec /\ []Serie` implies each of the four, where `Serie` says that no two
  requests in progress are about the same user. Requests of other users may be
  anywhere, and fail anywhere. `InvSerie` follows the only request of a user from
  step to step: the code it checked is still in the store and unused until it
  saves, and the entity it read is still the row. Without `Serie` TLC shows all
  four false (section 3).

The last part of `OtpProofs` is about `OtpLivraison`, for any set of environments:

* `LivraisonRaffine`: `SpecLivree => Spec`. The variables of `Otp` are mapped to
  themselves, so that the abstract state needs no mapping; each step of the
  detailed specification is a step of `Otp`, a delivery that throws being its
  `Echouer`, which is why `OtpLivraison` assumes `Pannes` (`LivraisonEchoue`). The
  safety proved of `Otp` is inherited: `JamaisSansCodeLivre`, by this and
  `JamaisSansCode`.
* `CodesEnSerieLivres`: with one slot, requests of a user cannot overlap, hence
  the four properties above, as run `otp_serie` checks them.
* `CodesParvenus`, `FournisseursStables`: the invariant adds that a request about
  to answer has had its code delivered (`EnvoiFait`), and what the loaded client
  says of the deliveries so far (`ClientGarde`).

`RedisRepliProofs` proves the refinement `SpecRepli => CommeRedis` step by step
(`RepliCommeRedis`), for any keys, values and positive durations: each command on
the `Map` is the command of `Redis` on what is seen of the `Map`, and a unit of
time ages what is seen by one. A lemma on one entry (`ItemVu`, `NouveauVu`,
`TempsVu`) stands behind each command, and `ImageModifiee` carries it to the
`Map`. Durations are positive because `expire` with 0 parts the two stores: the
server deletes the key, the `Map` keeps it for ever (`OTP_RATE_LIMIT_WINDOW=0`
would reach this; the default is 900).

`EcritureProofs` proves, for any slots, requests and files:

* `TypeCorrecte`.
* `ImportsEnPrefixe`, `ImportsAnnonces`. Entries of an import are counted among
  those of others, so the invariant (`InvImport`) is stated in ids and ranks: the
  ids a request in progress has created are as many as its counter says
  (`SuiviImport`), each new one is above them all, and its rank among them is its
  row in the file. Two requests in progress have different numbers (`Distincts`).
* `RapportsEntreDeuxEtats`. The journal only grows, so a statement on a prefix of it
  stays what it was; `InvRapport` says of a report in progress which prefix its
  first query saw.

* `BalanceFidele`, `EtatsToujoursAccordes`: `Spec => []EtatsAccordes`, for any
  journal. A balance is a loop over the entries that updates one line for each,
  the statements are loops over the lines of the balance. What the loops compute
  is proved by induction over the journal, done by hand as the induction theorems
  of the library cannot be instantiated: a set of naturals has a least element
  (`NatLessThanWellFounded`), recursive functions on the naturals exist, and so
  the folds of the library satisfy their equations. `BalanceFidele` says that a
  balance has a line for each account with an entry and no other, and shows for
  any set of classes what adding up the entries one by one gives; that the
  statements agree follows from such running totals. The only assumption is that
  the cells of an entry are numbers (`MontantsAssumption`): the `NaN` that
  `Number()` may give (`ecriture.service.ts:78`) is outside it.

`SurfaceProofs` proves, of the routes the controllers declare:

* `RoutesDesservies`: which operations the router and the guards keep from being
  served, as a property of the list of routes. Comparing each route with each
  other would be too many cases. The list is a concatenation of the routes of ten
  controllers: each table is settled from its columns, and the result (`Desservie`)
  is carried to the whole list because requests for one prefix do not fit another.
* `RolesToujoursRespectes` and `OperationsPerdues` (`ServicesRendus`: which requests
  of an administrator are served by their own handler, by another, or by none), from
  `InvSurface`: where a
  request stands, its route is the first that fits (`Routee`), its user is who the
  token names if `JwtAuthGuard` stood there and nobody otherwise (`Reconnue`), and
  the guards passed so far agree with it (`Jugee`).

`AdministrationProofs` proves, for any slots, requests, tables and environments:

* `DecisionsRespectees`, `JetonsFondes`, `MotsDePasseHaches`, `InscriptionsSures`.
  What makes them inductive is about requests: an entity in
  hand shows the role its account was last given, unless the request is older than
  that decision or the decision was undone (`Fonde`); two requests in progress
  have different numbers (`Distincts`), so that no other request's insertion is
  taken for one's own.
* `SuppressionsDefinitives`, `ImportsSeuls`. A request that will log a deletion
  knows an id that was given out, and whose row is gone (`SuiviOK`); ids are given
  out once (`Numerotes`), so the row does not come back. For imports: an inserted
  name is in the table or was given up (`Retrouves`), hence two requests insert the
  same name only if it was given up in between (`Uniques`).
* `ReglagesBornes`, `ReglagesConserves`. Rows and creations in progress together
  are at most as many as the slots (`Place`): a request joins the creations only
  while the table is empty.

* `RelectureToujoursFidele`, for any two environments of writer and reader, not
  only the sixteen of the run.

The assumptions are those of the modules: bounds are natural numbers, amounts
integers, slots finite, a missing row no row.
They are evaluated by every run. To state what a request in progress holds,
`RequeteOK` of `Facture` and of `Ecriture` ties each step to its operation.

Left to TLC, and why:

* liveness (`ReponseRendue`, `TauxLibere`): fairness is about `ENABLED`, which the
  installed provers do not handle;
* the five violations, which are counterexamples. For three of them section 4 says
  when the property holds or where it fails (`PaiementsComptesSansRecouvrement`,
  `TauxRespecteSansRecouvrement`, `OperationsPerdues`); `CorpsTransmis` is false of
  every handler whose body is a class without validators, and `CodeUtilisable` of
  every code that is delivered and neither used nor replaced, in each single
  request.

Every invariant and action property of the passing runs is proved.

## 5. Not modelled

* Binary floating point: amounts are exact. An exactly settled invoice may in the
  program keep a difference of 1e-10 before it is stored.
* Hashing of passwords (bcrypt): a hash is known by the request that made it.
* Exports (PDF, Excel, CSV): they read and format; those of partners appear as
  their audit entry. Finders and filters of the audit log only read.
* A restart of the process in `OtpLivraison` (it would only load the Twilio client
  again) and in `RedisRepli` (the `Map` starts empty). A restart that changes the
  environment is the subject of `Chiffrement`; the end of the process as seen by a
  request is `Echouer`.
* Calls that are rejected although they took effect, save for messages: a retry
  of the client is then a new request.
* `EcritureService.update` and `delete`: nothing calls them.
  `NotificationService.markAsRead`: a single update that nothing else reads.
* `CodeRequestPayload` with an address and a telephone number of two users:
  `findUserByPayload` then prefers one of them; `Otp` starts from the user found.
* The settings `partnerImportEnabled`, `partnerExportEnabled` and those of 2FA: no
  code reads them.
* The Redis server, PostgreSQL, TypeORM, passport, Express, message providers and
  node crypto: modelled from how the code uses them, marked external in
  `PROJECT.json`.
* Message texts, logging, Swagger, CORS, configuration parsing.

## 6. Plan

Done, in this order: `FactureCalcul`, `FactureArrondi`, `Facture` (the money);
`MagasinTTL`, `Redis`, `RedisRepli`; `Otp`; `FactureProofs`, `OtpProofs`;
`Ecriture`; `Surface`; the proofs about balances; `Reglages`, `Partenaires`,
`Comptes` with their proofs; `Livraison`, `OtpLivraison` and the refinement of
`Otp`; `Chiffrement`; then theorems: `AuditFonde` and the exact invoices, the
rounding, `Ecriture`, codes of users whose requests do not overlap, the
refinement of `Redis` by the `Map`, the agreement of the statements, `Surface`,
and the conditions under which payments are all counted and the limit respected.

Next: a ledger that `Facture` implements on undisturbed invoices (one atomic step
per request; `InvExacte` is most of the mapping), the exact set of overlaps that
lose a payment (which of the interleavings of `facture_paiements_perdus` keep
`PaiementsComptes`), and the cells of an imported file that are no numbers
(`ecriture.service.ts:78`).
