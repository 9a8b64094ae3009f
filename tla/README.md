# ts-server: a verification development

TLA+ models of [ts-server](../src/main.go), a Go web server with accounts, passkeys, an item
store, pictures and a rate limiter over one SQLite file; TLC runs that check them on small
instances; and TLAPS proofs that hold for every instance.

Source paths below are relative to `src/`.

## 1. Inventory

| Component | Where | State it keeps | Operations | Module |
|---|---|---|---|---|
| Process lifecycle | `main.go` | the listener, the signal channel, one shared `err` variable | start, SIGINT/SIGTERM, `Shutdown` (10 s), `Close`, `DB.Close` | `Server` |
| Configuration | `internal/app/{app,env}.go` | none | `getEnv`, `New` | `Server` |
| Migration | `internal/database/migrate.go`, `db/migrations/` | table `schema_migrations` | create the file, apply each pending migration in a transaction | `Server`, `Upgrades` |
| Database handle | `internal/database/sqlite.go` | connection pool | `New` (rewrites the URL into a path) | `Server` |
| Models | `internal/bob/models/*.bob.go` (generated) | the tables; objects that point at each other | insert, find, update, delete, reload, relate, load, join | `Records`, `Models` |
| Factories | `internal/bob/factory/*.bob.go` (generated) | base mods; templates | mods, `Build`, `Create` | `Factory` |
| Users and tokens | `internal/auth/{auth,user}.go` | table `user`; tokens held by clients | `NewUser`, `GetUserByName`, `GetUserFromToken`, `Token`, `Validate`, `SetPassword`, `SetProfilePicture` | `Accounts`, `Pages` |
| Account service | `internal/handlers/user/v1/{auth,user}.go` | none of its own | `Login`, `SignUp`, `Logout`, `GetUser`, `UpdatePassword`, `GetAPIKey`, `UpdateProfilePicture` | `Accounts`, `Pages` |
| Passkeys | the same files and `internal/auth/creds.go` | table `credential`; two session maps, each under a mutex | begin and finish of registration and of login | `Passkeys` |
| Item service | `internal/handlers/item/v1/item.go` | table `item` | `CreateItem`, `GetItem`, `GetItems`, `UpdateItem`, `DeleteItem` | `Items` |
| File service | `internal/handlers/file/file.go` | table `file` | read one file of the caller | `Pages` |
| Redirect, authentication | `internal/interceptors/{redirect,auth}.go` | none | whom a request is taken for, where it is sent | `Pages` |
| Rate limiter | `internal/interceptors/ratelimit.go` | the visitors map | `getVisitor`, `Allow`, `cleanupVisitors` | `RateLimit`, `RatePromise` |
| Web client, error mapping | `internal/handlers/client`, `internal/putil/connect.go` | none | serve embedded files; turn a missing row into `NotFound` | `Pages`; `Items`, `Accounts` |
| Protocol | `internal/connect/` (generated) | none | messages, routing, validation rules | routing in `Pages`, validation in the services |
| Logging, CORS, table descriptions, error constants | `internal/interceptors/{log,cors}.go`, `internal/bob/{dbinfo,dberrors}/` | none | none that decides anything | none |

### How the parts interact

`main.go` reads the environment, migrates the database, opens it, and serves; a goroutine of its
own waits for a signal and shuts the server down. `net/http` serves each request on a goroutine of
its own. `main.go:62-66` routes it: files and pages go through the redirect, calls of the services
through the interceptors in the order of `main.go:56-60`. The user and the item service log, validate
and authenticate; the service that hands out tokens logs, validates and limits. Authentication
verifies a signed token and takes the user from it; the table is not looked at. A handler then
runs a few statements through the generated models, each by itself: **no handler opens a
transaction**. So what two requests do to each other is decided statement by statement, and
this is the grain of every model here.

Goroutines share the SQLite file, the session map of each passkey handler (under a mutex that
is held for one map operation), the visitors map of the rate limiter (under a mutex held for
one map operation, with a bucket per visitor that has its own mutex), a sweep goroutine
that forgets visitors, and the variable `err` of `main` (under nothing). Everything in memory is lost
when the process ends. Processes share the file and the port.

### What is hard here

* *Check, then act.* `SignUp` looks for the name and inserts; `UpdateItem` and `DeleteItem` find a
  row by id and user and write it by id alone; `FinishPasskeyLogin` computes a counter from one
  read and writes it two statements later; `GetItems` counts and then selects; `dbmate` lists the
  pending migrations and then applies them.
* *Ids that come back.* Every id is `INTEGER PRIMARY KEY` without `AUTOINCREMENT`: SQLite issues the
  id of the last row again once that row has been deleted.
* *Copies that age.* A token is a copy of a user's row, password hash included, and is trusted for
  hours. The objects of the models are copies of rows, and relations are loaded into them; an `Update`
  replaces the object, and its relations with it.
* *Answers late, twice, or to somebody else's question.* A passkey response may arrive under any
  name, at either handler, after the session was replaced, taken or lost, and signed with a key that was not asked for.
* *Partial failure.* A passkey session is taken before the response is parsed; a statement may
  take effect and its answer be lost; a relation is stored by two statements; a `Create` that
  fails leaves the rows it has made.
* *Two rules for one question.* The redirect believes the first token cookie, the interceptor any
  cookie or the bearer token; dbmate and `database.New` read one URL, each by rules of its own.
* *Clocks.* `Allow` reads the clock before it takes the bucket's lock, and the sweep deletes
  visitors while requests hold their buckets.
* *Start and stop.* `main` returns when `Shutdown` begins; migrations of two processes race; a signal
  may come before the server listens; `err` is written by two goroutines.
* *Circles.* A login page leads to the pages behind it and back; users have pictures, pictures
  users, and a factory creates what a row needs.

`PROJECT.json` lists each hazard at its line with the properties that are about it.

### What makes each component correct

* Items: nobody changes or removes another user's row; an acknowledged
  update is in the table; an answer's page fits its count.
* Accounts: a token names an account that exists; a name never changes hands; a password changes
  only by its holder, or whom bcrypt cannot tell from its holder.
* Passkeys: a challenge is accepted once; a key belongs to whoever asked for it; a login is by the
  owner of the key; an answer with a key that was asked for, to a live session, is not refused; the counter is not
  turned back without a race.
* Rate limit: the bound of the bucket holds across sweeps and interleavings; no refusal within
  a burst and one request a second; the map does not grow for ever.
* Server: a file holds what it records; migrations are applied in order, each once; what is served
  is migrated; a failure to listen is reported; a start and a stop come to an end.
* Pages: a file is its user's; pages and calls take a client for the same user; nobody is redirected
  in circles.
* Models: a method writes the rows of its objects and no others; objects, pointers and rows agree
  when it returns.
* Factories: the rows `Create` makes for a row are linked to it in the tables, they are in `R` unless the
  row is a user's with a new picture, and `Create` returns.

## 2. The modules

| Module | What it is |
|---|---|
| `Rowids` | how SQLite numbers rows; a table is a function from ids to rows |
| `Items` | the item service over the item table |
| `Accounts` | sign-up, login, password change, API keys over the user table and the tokens |
| `Passkeys` | registration and login ceremonies, both session maps, the credential table, the authenticators |
| `RatePromise` | what the rate limiter promises: an abstract specification |
| `RateLimit` | the limiter, its token bucket and the sweep; implements `RatePromise` |
| `Upgrades` | what is promised of a database file: an abstract specification |
| `Server` | processes that start, migrate, listen, serve, are signalled and crash; implements `Upgrades` |
| `Pages` | routes, redirect, interceptor, web client, files and pictures |
| `Records` | the five tables and the statements that setters make |
| `Models` | the objects of the generated models, over `Records` |
| `Factory` | templates and `Create`, over `Records` |
| `MC...` | instances for TLC: values, inputs, symmetry sets |
| `...Proofs` | the theorems about `Items`, `Accounts`, `Passkeys`, `RateLimit`, `Server`, `Pages`, `Models`, `Factory`, and their lemmas |

Conventions. In the services, a *slot* is a goroutine that serves one request after another, so the number of
requests is not bounded; `pc[s]` names the statement the slot runs next (`UpdateItem_Write` is the
statement of `UpdateItem` that writes), `call[s]` is what its handler holds, `reply[s]` what it
answered last. A statement that takes effect may still be answered with an error, as a cancelled
request is (`AnswerWritten`), and any statement may fail without effect (`Fail`). A variable called
*history* (`stale`, `past`, `raced`, `accepted`, `overtaken`, `granted`, `Models`' `out`) records what
happened and guards nothing. An operator whose comment begins with "Fault:" is not part of the model: it
is a plausible wrong version of the operator that follows it, used to show that a property can fail.

### Items and Rowids

`Begin` is a request that has passed validation; `Calls` is the set of requests there are.
The validation rules (`item.pb.go`) are in `Sent`: a text column that `UpdateItem` sends is not
empty. The columns differ in whether they hold *text* and in which one is searched, and in nothing else.
The other actions are the statements of `item.go` and their failure.
`Written` is the line that matters in `UpdateItem`: all columns are set, one not sent to its zero
value. A filter is the set of names its LIKE pattern matches, a time window the set of times it lets
pass; how the texts of two times compare is an input. Negative limits and offsets are inputs, as
nothing validates them. `GetItems` has no ORDER BY; the model takes the order of ids, in which SQLite
scans the table.

`NextId` is the rowid algorithm. It is what makes a reissued id possible, and so what
`ForeignWriteNeedsReissue` is about.

### Accounts

A token is the claims it carries; `tokens` is the set of those that still verify. `Expire` may drop
any at any time, which stands for both life times (8 h, 24 h). `Begin` for an operation that needs
a user requires a token with these claims. A hash is represented by the password it was made of.
Passwords above 72 bytes (`Unhashable`) cannot be hashed. The comparison has no such limit: it looks at
the 72 bytes that bcrypt takes of a password (`Digest`), so that one too long to be hashed is accepted where it begins like the one
stored, and `Validate` compares digests. `Resolve` is the first row `WHERE username = ?` finds. `Validate` compares with the user at hand,
which for `UpdatePassword` and `GetAPIKey` is the one in the token: after a change an older token
still answers for the older password. No operation deletes or renames an account.

### Passkeys

A challenge is a random number of 32 bytes, so a challenge drawn is a new one: challenge `c` is the
`c`-th drawn, and `issued[c]` says for whom and for which ceremony. `registrations` and `logins` are the
two `sessions` maps. A finish request takes its session in one step
(`getSession` deletes it), and looks at the response in a later one. `Sign` is the authenticator: it makes
a new key for a registration, or signs a login challenge, with any key there is, asked for or not, and with either value of the flag
BackupEligible; it counts if it is one that counts. So it is `ValidLogin`, as in the library, that keeps foreign keys out: the keys
of the session, the keys of the account, and the flag stored with the key. `responses` only grows, and `Finish` delivers any of it, any number of
times, under any name, to either handler. `Restart` empties the maps and drops the requests under
way. A response that is never valid (a wrong signature, another account's
user handle, inconsistent flags) is refused as one to a challenge of no session is, and is not modelled beside it. The attestation
and the other flags are compared with nothing that is stored, and transports go only into the list of keys that a browser is shown (`creds.go:16-21`);
they are left out, as is the clone warning, which the handler never reads (`UpdateCounter`). The sign count is stored as a
signed number of 32 bits and converted back when read, which loses nothing. Where two accounts
have the same name, only the first can be found by name, so that an account stands for its name.

### RateLimit and RatePromise

`GetVisitor`, `ReadClock`, `Reserve` are the three points at which a request of the limiter touches
shared state, `CleanupVisitors` one round of the sweep. Tokens are counted in ticks, so that
fractions are exact. A visitor is known by its `User-Agent` header, which is what the code takes as
the key. `MaxStall` bounds how long a goroutine may be held up; it is an assumption
about the scheduler, and the code depends on it: the bucket of a request held for more than three minutes between `getVisitor` and
`Allow` may be forgotten meanwhile, its agent gets a second one, and the bound no longer holds. This does not happen in the model
(`RateLimitConstants`), and nothing is shown about it. `RatePromise` states the promise over the requests granted alone: between two
granted requests, both counted, at most `Burst` more were granted than whole seconds passed, as long
as grants come in the order of their clock readings; requests that overtake each other between the
clock and the lock turn the bucket's time back, and nothing is promised of them. The refinement maps `granted` to `granted`.

### Server and Upgrades

A process is a record: `pc` is what `main` does next, `handler` what the signal goroutine does next, and
`err`, `closing`, `signal`, `reqs` what they share. A file is a record of the tables it has, the
versions in `schema_migrations`, whether that table is there, and whether users are stored, which
is all the two migrations ask. Paths come in three kinds: the absolute one, the same path relative to the
working directory, and the odd one that `database.New` makes of a scheme it does not cut off.
Where the working directory is the root the first two are one.

Each migration is one transaction (`ApplyMigration`), decided by what the file holds *now*, though the list
of pending ones was read before: this is where two processes race. How `dbmate` reads the URL, lists, decides and applies is taken
from its vendored source. `MigrateFails` is any statement that
fails, `Crash` the end of a process at any step. `Start` picks any environment, so a process may come back with
another one. `err` has no lock: `CheckNil` and `CheckClosed` read it one after the other, and a read beside a
write may yield a torn value, which is neither `nil` nor `ErrServerClosed` (`torn`). Connections that
h2c has taken over are not waited for by `Shutdown`; requests on them are outside `Tracked`.

`Upgrades` says of each file that its migrations are applied one at a time and in order. The refinement
maps its `applied` to the `done` of each file.

### Pages

A client is the request it has under way and the last answer. `Route` is the mux, `WithAuthRedirect`
the redirect, `ServeFile`, `ServeClient` and `Call` what is behind it; a redirect is followed with the
cookies the request came with. `live` holds the tokens that still verify, and `Expire` drops one at any
step, also between a redirect and the request that follows it. `Caller` is whom a call runs as:
the service for signing in has no authentication. The actions on pictures are the two statements of
`SetProfilePicture`. `One` answers an error when there is no row, so the branch that inserts a
first picture is never taken, and `FindPicture` has no such step. What the other procedures do is in the
modules of their services. Which embedded file answers a page, the redirects `http.FileServer` makes
of its own accord, and the `redir` parameter, which the web client alone reads, are left out.

### Records, Models and Factory

The generator writes the same methods for each of five tables. A method is one definition here with the
table as a parameter, mapped to `user.bob.go` (or `file.bob.go` for what a user has not); the section at the
end of each module names the instances and maps each to the file of its table. A column stands for itself
if it is a key or a link, or may be NULL; one column stands for all others of a table that an INSERT must give.

`Records` holds the statements: which columns an INSERT has (those of its first setter), when SQLite refuses
it, what an UPDATE does to rows and to the key. In `Models`, `heap` is a sequence of objects and a pointer is
a place in it; `R` is `one`, the parent, and `many`, for each table of children the set of the objects in the slice
(no property tells their order apart). Objects that a query finds are appended in any one order. Each method
is one statement and one step, but a to-one insert, which inserts the parent and then updates the
child (`half` is what stands between). `Elsewhere` is another request that writes any row between two
steps. Where-mods, counts, query hooks, right joins and left joins to the many side are left out.

In `Factory`, a template is a record of the columns it gives and the rows it is to be related to, and `stack`
holds the calls of `Create` under way, the innermost first, so that its recursion is a sequence of steps. `ctx`
is the relations the calls around have set about, which is what ends it. `todo` has, for each relation, the entries
a call has still to deal with; `Turn` is the relation whose turn it is in the order of `insertOptRels`. What is dealt with is put
into `R` (`Appended`); a picture is attached by an UPDATE of the user, which replaces the object and leaves nothing else in its `R`
(`Attached`). `many` records all that has ever been put there. `New` applies the base mods,
which say for each relation of a table how many rows each of its entries asks for. `WithParentsCascading` comes to an end when a table
comes again, after three templates at most, and is written out as far. A random value is a choice among the
values of a column. Left out: `FromExisting` of rows with loaded relations, base mods that do anything
but ask for rows, and `CreateMany` called by the caller, which is `Create` repeated.

## 3. The runs

All runs are exhaustive for their instance.

| Run | Checks | Shows |
|---|---|---|
| `items` | `TypeOK`, `FoundRowStands`, `ForeignWriteNeedsReissue`, `AckedUpdateLanded`, `PageAgreesWithCount` | a row is changed only by its user, or by a request whose row was deleted and whose id was issued again; page and count of an answer differ only if the same user's items changed in between |
| `accounts` | `TypeOK`, `ClaimsHaveAccount`, `NameKeepsAccount`, `DuplicateNeedsRace`, `PasswordChangedByHolder` | tokens of any age name real accounts; a name stays with the first account; only a race makes a second |
| `passkeys` | `TypeOK`, `AcceptedOnce`, `KeysAnswerTheirRegistration`, `LoginByOwner`, `AnswerToSessionIsValid`, `CounterFallsOvertaken` | each challenge admits one response, for the account it was drawn for and by a key of that account, whatever key signs what; the counter falls only in an overtaken login |
| `ratelimit` | `TypeOK`, `VisitorsForgotten`, `KeepsPromise`, `RefusesOnlyPastPromise` | the limiter implements the promise and grants all it allows; that visitors are forgotten never shows |
| `server` | `TypeOK`, `SchemaMatchesRecord`, `ServesMigrated`, `FailureReported`, `MigratesInOrder`, `StopsWhenSignalled`, `ServesOrStops` | races, failures, crashes and restarts leave every file as it says; what serves is migrated; starts and stops end |
| `pages` | `TypeOK`, `FilesOfCaller`, `PagesAndCallsAgree`, `RedirectsEnd` | files are shown to and changed by their users only; cookies of two users never mix; every request is answered in the end |
| `models` | `TypeOK`, `OnlyNamedRows`, `AckedLinksStored`, `SliceRenewed`, `LoadedAsStored` | methods touch the rows of their objects only; after a success pointers, objects and rows agree |
| `factory` | `TypeOK`, `LinkedAsPlaced`, `PlacedUnlessNewPicture`, `CreateEnds` | what `Create` makes is linked to its row, however deep, and is in `R`, but for a user with a new picture, which has the picture alone there; `Create` ends though templates relate tables in circles |
| `items_own` | `DeletesOwnItem` | *violated*: a `DeleteItem` deletes another user's item after its id was issued again |
| `accounts_unique` | `NamesUnique` | *violated*: two sign-ups that race make two accounts of one name |
| `server_drain` | `DrainsBeforeReturn` | *violated*: `main` returns while `Shutdown` still waits for a request |
| `first_picture` | `PicturesStored` | *violated*: a first picture is refused with an internal error |

Deadlock is checked but in `models`, where `MaxCalls` ends every behaviour, and in `factory`, where a
caller stops at its first answer.

### Bounds, and why they are enough

* **Two slots** in the services. The code's races are between a request that stands between two
  of its statements and others that run meanwhile. As slots are reused, one slot can hold still
  while the other runs any number of requests.
* **`MaxId = 2`** rows at a time in `Items` and `Accounts`. A reissued id needs one row to be deleted and
  another made; a duplicate name needs two accounts. Ids are reused, so the number of rows made in a run
  of `Items` is not bounded.
* **Two users or two names** tell the caller from anybody else.
* **Three passwords**: two that can be hashed (old and new) and one that cannot, which begins like the first and so has its digest.
* **Two columns** in `items`, a text one, which is searched, and one that is not, because the validation tells
  these apart. Without patterns or windows there is nothing to count, so one pattern is enough; a time window
  differs from it in the column alone.
* **`passkeys`: two keys** (one with a counter), **three challenges, three responses**: a registration, a login,
  and one more of either kind to replace them, or two registrations and a login signed with the other account's key. A response may be
  delivered any number of times.
* **`ratelimit`: one agent**, as agents share nothing but the clock and the sweep. `Burst = 2`
  and two ticks to a second give fractions of tokens. `MaxNow = 9` is more than
  `Idle + SweepEvery + MaxStall = 8`, so that an agent is forgotten and comes back. `Idle`
  satisfies the condition that three minutes satisfy in the code: more than a bucket takes to fill.
* **`server`: two processes**, one request each. The file at the absolute path is new, or of the release before
  the passkeys and in use; the environments are a good one and each kind that keeps a process from serving. The
  two files of other paths come about. `server_drain` needs one process.
* **`pages`: two clients and two users** with one token each, cookie lists of none, one and two tokens, and one
  request for each class of path and procedure, each kind of file (one's own, another's, no id) and each content. A user has one file,
  or two, which the table allows. `Expire` may drop each token at any step.
* **`models`: `MaxObjects = 5`, `MaxCalls = 3`**, from three states of the tables: any three calls on objects already
  read, of which the last may meet what the first two and another request have done. A relation is stored, seen stale and loaded again
  within three. `VIEW Seen` leaves out `out`, which no guard reads; the properties are about
  single steps and look at the `out` of the step, so a state that differs in it alone has the same successors.
* **`factory`: `MaxMods = 1`**, with a second template that the mod may relate, base mods that ask for a
  file with every user, and relations of no, one and two rows. `MaxId = 15` is above every id a call reaches; were it not,
  `Insert` would have no row to give and `CreateEnds` would fail.
* Symmetry is declared in `items`, `accounts`, `passkeys` and `ratelimit` (and the violating runs of their instances), over users, slots, names,
  and keys of one kind: no definition orders them or tells one from another. No run with a
  liveness property has it.

### Fairness, and why the code justifies it

* `Server`: weak fairness of `Main(p)` and of `Handler(p)`. They are two goroutines without a lock between them, and the
  Go scheduler runs a goroutine that can go on. `Shutdown` waits for ten seconds at most, so `Overdue` needs no help from
  requests. Starts, signals, requests, failures of statements and crashes are not fair: none has to happen.
* `Pages`: weak fairness of `Handle(c)`, the goroutine of the request and a client that follows a redirect.
  A client need not send anything and a token need not expire. The guard may send a client from the login to a page
  and back only while its token is seen live and then expired, which happens once per token.
* `Factory`: weak fairness of `Steps`, the one goroutine that runs `Create`.

The other modules have safety properties only: no handler of theirs loops or waits for another (a session
is not waited for, a mutex is held for one step).

## 4. The proofs

The theorems hold for every value of the constants that satisfies the named assumption of the module
(`ItemsConstants`, `AccountsConstants`, `PasskeysConstants`, `RateLimitConstants`, `ServerConstants`,
`PagesConstants`, `ModelsConstants`, `FactoryConstants`): any number of users, slots, processes, columns, ids, rows, objects, challenges, any burst. TLC evaluates
these assumptions in every run.

Three facts about sets of numbers and row ids are proved where they are needed. `MinOfNaturals` and `MaxOfBounded`: a non-empty set of
numbers has a least, and a bounded one a greatest element; the first by well-foundedness of `<`, the
second because the least upper bound is a member. `NextIdIsNew`: the id of a new row is above all
ids in the table.

**Items** (`ItemsProofs`). The inductive invariant is `TypeOK /\ FoundRowStands`.

| Theorem | Property |
|---|---|
| `TypeCorrect` | `TypeOK` |
| `FoundRowSafe` | `FoundRowStands` |
| `ForeignWriteSafe` | `ForeignWriteNeedsReissue` |
| `AckedUpdateSafe` | `AckedUpdateLanded` |
| `PageAgrees` | `PageAgreesWithCount` |

`FoundRowStands` is inductive given the types. The step to see is a deletion: it marks as stale
every slot that has found the row, which leaves nothing to show for them; a creation takes an id not in use,
so it puts no other row where a slot has found one. `ForeignWriteSafe` follows, because only three actions
change a row that exists, and each changes the one its caller has found. `PageAgrees` rests on `CountStands`, that the
count a list call holds is still that of its rows unless the slot is overtaken, and on `PageOfCount`: ids have
ranks, and as many of `n` rows have a rank inside the window as `n`, limit and offset say.

**Accounts** (`AccountsProofs`). The inductive invariant joins `TypeOK` and `ClaimsHaveAccount` with

* `PasswordRemembered`: what an account's password is, it has been;
* `CheckStands`: a sign-up past its check either finds the name still free or has been raced;
* `OldShown`: a password change past its checks has shown a password with the digest of the one in its claims, and holds a new one
  that can be hashed.

| Theorem | Property |
|---|---|
| `TypeCorrect` | `TypeOK` |
| `ClaimsSafe` | `ClaimsHaveAccount` |
| `NameSafe` | `NameKeepsAccount` |
| `DuplicateSafe` | `DuplicateNeedsRace` |
| `PasswordSafe` | `PasswordChangedByHolder` |

`ClaimsHaveAccount` alone is not inductive: a token made by `Login` carries the account's present password,
and that this is among its past ones is `PasswordRemembered`. That a claim's account stays the first of
its name needs that new ids are above the old, which is `NextIdIsNew`.

**Passkeys** (`PasskeysProofs`).

| Theorem | Property |
|---|---|
| `TypeCorrect` | `TypeOK` |
| `OnceAccepted` | `AcceptedOnce` |
| `CounterFalls` | `CounterFallsOvertaken` |
| `LoginSafe` | `LoginByOwner` |
| `AnswerSafe` | `AnswerToSessionIsValid` |
| `KeysSafe` | `KeysAnswerTheirRegistration` |

* `Typed` adds to `TypeOK` that `responses` is finite, without which the counts of an authenticator have no
  type.
* `OnceAccepted` rests on `Sessions`. `SessionsIssued` says that a session, in its map or in the hands of the
  slot that took it, is for the account and the ceremony its challenge was drawn for; hence no
  two sessions have one challenge. `Live` says that a challenge that may still be accepted never
  has been, and is in one place only. Taking a session moves a challenge from its map to one slot,
  and accepting it removes it from there.
* `CounterFalls` rests on `ReadStands`: what a login is about to write is not below what is stored, unless
  the slot is marked as overtaken. Only `FinishLogin_Update` lowers a counter, and then by `ReadStands` its slot
  is overtaken.
* `LoginSafe` rests on `Owners` (with `Sessions`): every response at a handler has been signed or does not
  parse, and the keys a session allows belong to its account. That the key is one of these is what `ValidLogin` sees to, as a response
  may be signed with any key. The last one is kept because no step takes a key from its owner: a registration adds a
  key that is not stored, and a login writes the counter alone.
* `KeysSafe` rests on `Made`: a key is made once; a stored key was made in an accepted registration of its
  owner, with the flag that is stored, and no two in one. The new key cannot share its challenge with a stored one, because that
  one's challenge was accepted and a challenge in a slot's hands never was (`Live`).
* `AnswerSafe` rests on both: by `Owners` the account still has the keys its session allows, and by `Made` the flag stored with a key is
  the one it was made with.

**Rate limiter** (`RateLimitProofs`). Any number of agents and goroutines, any burst; the assumption that matters is
`Idle >= Burst * Second + MaxStall`: an agent is not forgotten before its bucket would be full.

| Theorem | Property |
|---|---|
| `TypeCorrect` | `TypeOK` |
| `Forgets` | `VisitorsForgotten` |
| `Implements` | `KeepsPromise`: `RateLimit` implements `RatePromise` |
| `RefusesNoLess` | `RefusesOnlyPastPromise` |

The promise says nothing of buckets, so the invariant has to say what a bucket knows of the grants. `Kept(q, b)`:
from every grant in `q` on, what the grants cost is at most a full bucket and the time since, less what `b` still
holds; and from one grant, the last before which the bucket was full, it is exactly that. The bound makes the
next grant fit (`GrantUsed`), the equality makes one more at the next refusal too many (`RefuseUsed`). A bucket made anew
knows nothing of the grants before it; `Owes` says that they are then so long ago (`Filled`) that they leave
a full bucket (`GrantFresh`). It is kept by the sweep because a visitor's last grant is at most `MaxStall` after it
was last seen (`Recent`), and by requests under way because these keep their agent in the map (`UnderWay`).

**Server** (`ServerProofs`). Any number of processes, environments, requests and files found that record what they hold.

| Theorem | Property |
|---|---|
| `TypeCorrect` | `TypeOK` |
| `FilesMatch` | `SchemaMatchesRecord` |
| `MigratedIsServed` | `ServesMigrated` |
| `FailureIsReported` | `FailureReported` |
| `Implements` | `MigratesInOrder`: `Server` implements `Upgrades` |

The inductive invariant says of files that they record what they hold and that the versions recorded are the
first ones (`FilesInv`), and of a process by its place that what it does not count as pending is in the file
(`Placed`). No step of another process disturbs `Placed`, since files only gain versions. A migration that a
faster process has applied does not run a second time, because its tables are there (`Runs`), so it ends the slower one.
`Told` relates `err`, the goroutine and what has been logged.

**Pages** (`PagesProofs`). Any users, tokens, clients, requests and files.

| Theorem | Property |
|---|---|
| `TypeCorrect` | `TypeOK` |
| `PagesAgree` | `PagesAndCallsAgree` |
| `FilesOwned` | `FilesOfCaller` |

A request keeps its headers through redirects, and its user is that of a token among them (`InFlight`); a file found for
an upload stays its user's. `PagesAgree` is `FirstAgrees`: where the first cookie verifies, it is the first that
the interceptor tries.

**Models** (`ModelsProofs`). Any tables found, setters, rows, objects and length of behaviour, so far as
`ModelsConstants` goes: the tables found have their columns, setters set columns of their table, and setters of one
INSERT *fit*. The last is for the caller to see to: the columns are those of the first setter, the values of the others go by
their place, and with as many other columns set they would land in the wrong ones. No caller in the
repository inserts more than one.

| Theorem | Property |
|---|---|
| `TypeCorrect` | `TypeOK` |
| `NamedRows` | `OnlyNamedRows` |
| `LinksAcked` | `AckedLinksStored` |
| `SlicesRenewed` | `SliceRenewed` |
| `LoadsStored` | `LoadedAsStored` |

`TypeOK` is inductive as it stands (`Typed` is the same with its parts named), and the four action properties follow step by step
from it: `Step` says all five of one step, there is a lemma for each method, and `NextStep` joins them. What the
methods share is proved once, below them:

* of statements: `UpdatedInPlace` and `UpdatedMoves` (an UPDATE of the key that is accepted moves one row or finds none),
  `UpdatedLeaves`, `InsertedAdds`, and that both keep the columns of a table. `NamedLink`: the link that `InsertFiles`
  puts into each setter lands in the link column, because that column is the last of its table;
* of objects: `ScannedIsScan`, a query adds one object for each row it finds; `CopyIsCopy`, after `copyMatchingRows` each
  place of the slice has a new object with its row and the old one's relations, or the old object where the
  row is gone; `RelatedHeap`, `PairedHeap`, `DealtHeap`, which pointers a relation sets. `Relinked` says once and for all that pointers to
  objects of the right tables keep the heap typed and rows as they were.

`AttachMany` is the step to see: the rows are written by key, `UpdateAll` puts new objects in the slice, and
both ends are then set on these and not on the ones the caller came with (`UpdateAllRenews`, then `RelatedHeap`).

**Factories** (`FactoryProofs`). Any tables found, base mods, mods, counts, templates related to any depth and calls within one another.
`FactoryConstants` says that the tables found hold rows, that counts are numbers, and that base mods ask for one picture at most.

| Theorem | Property |
|---|---|
| `TypeCorrect` | `TypeOK` |
| `CreatedLinked` | `LinkedAsPlaced` |

Neither property is inductive, and the answer of `Create` says nothing of the calls that led to it. The invariant `IInv` has three parts.

* *Templates.* A template is `Sound` if it is in a set of templates that has with each of them those it is related to, and
  each asks for what its table allows (`IsTemplate`). This says of a template of any depth, without recursion, what holds of
  all in it; each mod has a lemma that it leaves a template sound (`WithSound`, `AddSound`, `FromExistingSound`,
  `WithParentsCascadingSound`, ...), and rows that are added leave it so (`SoundStays`).
* *Calls.* Each call under way (`IsCall`) has a sound template, has left to do what that template asks (`Follows`), and has
  done what is in the tables (`Stored`); what it has put into R so far is linked to its row, whether R still has it or not (`Linked`). A call within another makes a row of the
  table that the other is waiting for (`Within`).
* *Between calls.* A call `Knows` its own row, the rows of the entry it is at, and those it has made and linked. No two
  calls know the same row (`Apart`). This is what the theorem rests on: a statement writes rows that its own call
  knows, or a new one, so it leaves the links of all others alone (`LinkedStays`).

`AttachStep` is the step to see: the UPDATE of a link is in place (`UpdatedInPlace`, as a link is no key), names rows only the innermost
call knows, and sets in each the link to the call's row; a picture is the last thing a user is related to, and there is one, so it does not
undo an earlier one. `ReturnStep` hands what a call knows to the one around it. A row that was there already may be known to nobody, and
two calls may hold it: for these rows, `existing`, nothing is promised.

**Model-checked only.** The liveness properties (`StopsWhenSignalled`, `ServesOrStops`, `RedirectsEnd`, `CreateEnds`):
liveness under fairness and ENABLED are out of the prover's reach; and `PlacedUnlessNewPicture`, for which the calls under way would have to say what of
`R` is left after each relation. Every other safety property that a passing run checks is proved.

## 5. Where the code and its documents part

The first four are violating runs and findings in `PROJECT.json`, with the line that says otherwise; the others show in what passes.

1. `item.go:214` deletes by id alone after a look by id and user. When the row is deleted in between and
   its id issued again, another user's item goes (`items_own`).
2. `auth.go:65` checks that a name is new, and no unique key backs the check (`accounts_unique`). The
   second account can never be logged in to.
3. `main.go:100` returns when `Shutdown` begins, and the process ends with requests under way
   (`server_drain`).
4. `user.go:103` looks for the user's file with a query that answers an error where there is none, so a first
   picture is never stored (`first_picture`).
5. `factory/user.bob.go:304` attaches a new picture by updating the user, and `Update` (`models/user.bob.go:281-282`) takes over the `R` of the
   row it reads back, which is empty. The credentials, files and items placed before are linked in the tables and gone from `R`, where
   `factory/user.bob.go:316` says they are. `PlacedUnlessNewPicture` states what is there instead, and `factory` checks it.
6. `ratelimit.go:79` says of `RateLimit` "up to 3 requests per second", and `ratelimit.go:88` makes it the burst of a limiter that fills at one a
   second. A client that sends two a second is refused its sixth request: `KeepsPromise` allows five in the
   two and a half seconds, and `RefusesOnlyPastPromise` says no more than that fewer are not refused.

What else a reader of the models will notice, and the properties state as it is: `UpdateItem` sets columns that were not
sent to zero; an older token is validated against the hash it carries; the stored counter of a passkey may fall when a
login is overtaken; more requests than the limit pass when they overtake each other between clock and lock; a
database URL with a relative path is migrated in one file and opened in another; a database in
use before the passkeys cannot be migrated; an old password may be given with anything behind its 72nd byte.

## 6. Not modelled, and why

* Table descriptions and error constants (`dbinfo`, `dberrors`): no code of the repository uses them. Logging and CORS: no state,
  no decision of this code.
* The encoding of messages, their accessors and the clients of the services (`internal/connect/`): generated, and
  one side of a format whose other side is a library. The fields of a request are the inputs of the actions.
* Where-mods, counts and query hooks of the models: they build conditions that no handler combines with what is modelled. Right joins, and left
  joins to the many side (`bob_joins.bob.go:22`), which no handler uses.
* Cryptography: a token that verifies is one that was issued, a challenge is fresh, a response is signed by the
  key it names or refused. The attestation of a credential, which nothing reads again, and its transports, which `creds.go:16-21` puts into the list of keys a browser is shown.
* SQLite: one statement is one atomic step; `Fail` and its kin cover a busy or broken database. How the texts of two times
  compare in `GetItems`.
* The values of PORT that cannot be listened on, beyond a port that is taken: both come to the same branch.
* The validation of requests is present where it decides something (empty texts, password lengths).

## 7. Plan

| Step | Modules | State |
|---|---|---|
| 1 | `Rowids`, `Items` | done; all its properties are proved |
| 2 | `Accounts` | done; all its properties are proved |
| 3 | `Passkeys` | done; all its properties are proved |
| 4 | `RatePromise`, `RateLimit` | done; all its properties are proved |
| 5 | `Upgrades`, `Server` | done; all its safety properties are proved |
| 6 | `Pages` | done; all its safety properties are proved |
| 7 | `Records`, `Models` | done; all its properties are proved. Left to model: where-mods, right joins, left joins to the many side |
| 8 | `Factory` | done; its safety properties are proved but `PlacedUnlessNewPicture`. Left to model: `FromExisting` with loaded relations |

`Accounts`, `Passkeys`, `Items` and `Pages` share nothing but the ids in tokens, which is why they are not
composed: `Items` and `Pages` take any user id a token may carry, and `ClaimsHaveAccount` says of which kind these are.
