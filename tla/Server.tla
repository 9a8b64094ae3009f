------------------------------- MODULE Server -------------------------------
(***************************************************************************)
(* The life of server processes: main.go, internal/app and                 *)
(* internal/database.  A process reads its environment, migrates the       *)
(* database, listens, serves, and ends by itself, by a signal or by a      *)
(* crash; then it may be started again.  Several processes share the files *)
(* and the ports of one machine.                                           *)
(*                                                                         *)
(* In a process that has come to listen, main and the goroutine that waits *)
(* for a signal run side by side and write one variable, err.              *)
(***************************************************************************)
EXTENDS Integers, Sequences, SequencesExt

CONSTANTS
  Procs,     \* the processes
  Envs,      \* the environments a process may be started in
  NoEnv,     \* the environment of a process that is not there
  Requests,  \* the requests a process may have under way
  Tracked,   \* those of them on connections that net/http has kept
  Found      \* the database files the processes may find

VARIABLES
  file,  \* path -> the database file
  proc   \* process -> its state

vars == <<file, proc>>

(***************************************************************************)
(* The migrations: 20250410195416_init.sql and 20250418055807_passkeys.sql *)
(***************************************************************************)

Migrations == <<{"user", "file", "item"}, {"credential", "webauthn_id"}>>
Versions == DOMAIN Migrations
Tables == UNION Range(Migrations)

\* An empty file, which is also what a file that is not there becomes when a
\* statement runs.  log: its table schema_migrations is there; rows: it holds
\* users.
Empty == [log |-> FALSE, done |-> {}, tables |-> {}, rows |-> FALSE]

\* CREATE TABLE refuses a table that is there; ADD of a NOT NULL column without
\* a default refuses a table that has rows.
Runs(f, k) ==
  /\ Migrations[k] \cap f.tables = {}
  /\ k = 2 => "user" \in f.tables /\ ~f.rows
  /\ k \notin f.done

\* Fault: the row of the last migration is written with the first.
MigratedAtOnce(f, k) ==
  [f EXCEPT !.done = Versions, !.tables = Tables]

Migrated(f, k) ==
  [f EXCEPT !.done = @ \cup {k}, !.tables = @ \cup Migrations[k]]

\* Fault: without a transaction the statements before the one that fails stay.
Half(f, k) ==
  IF Runs(f, k) THEN Migrated(f, k)
  ELSE [f EXCEPT !.tables = @ \cup {"credential"}]

Pending(f) == Versions \ f.done

File == [log : BOOLEAN, done : SUBSET Versions, tables : SUBSET Tables, rows : BOOLEAN]

\* The file holds the tables of the migrations its schema_migrations names.
Recorded(f) ==
  /\ f.tables = UNION {Migrations[k] : k \in f.done}
  /\ f.done # {} => f.log

(***************************************************************************)
(* Which file: dbmate takes a URL, whose path may be relative, and knows   *)
(* two schemes for SQLite; database.New takes a text, cuts the one scheme  *)
(* off and makes the rest absolute.  What keeps its scheme is the name of  *)
(* another file.                                                           *)
(***************************************************************************)

Paths == {"root", "work", "odd"}
Unset == "unset"

Driver(e) == e.scheme \in {"sqlite", "sqlite3"}
ConnectionString(e) == IF e.rooted THEN "root" ELSE e.dir
New(e) == IF e.scheme = "sqlite" THEN "root" ELSE "odd"

\* Only this program has migrated the files that are found.
ASSUME ServerConstants ==
  /\ Tracked \subseteq Requests /\ NoEnv \notin Envs
  /\ \A e \in Envs : e.dir \in Paths
  /\ \A g \in Found :
       /\ g \in [Paths -> File]
       /\ \A f \in Paths : Recorded(g[f]) /\ \E n \in 0 .. 2 : g[f].done = 1 .. n

getEnv(e) == e.key /\ e.scheme # Unset /\ e.url # "bad"
Port(e) == IF e.port = Unset THEN "8080" ELSE e.port

(***************************************************************************)
(* A process.                                                              *)
(***************************************************************************)

Stages == {"off", "getEnv", "find", "table", "apply", "new",
           "listen", "serve", "nil?", "closed?", "return"}
Up == {"listen", "serve", "nil?", "closed?", "return"}

\* What the goroutine that waits for a signal does next; where it is about to
\* write err.
Handling == {"wait", "drain", "drained", "overdue", "close", "closeDB", "done"}
Writing == {"drained", "overdue", "close", "closeDB"}

\* A process that is not there.
Off ==
  [pc |-> "off", env |-> NoEnv, pending |-> {}, err |-> "nil", logged |-> FALSE,
   bind |-> "none", signal |-> "none", handler |-> "wait", closing |-> FALSE,
   reqs |-> {}]

At(p, pc) == proc[p].pc = pc
Goes(p, pc) == proc' = [proc EXCEPT ![p].pc = pc]
Ends(p) == proc' = [proc EXCEPT ![p] = Off]

Start(p) ==
  \E e \in Envs :
    /\ At(p, "off")
    /\ proc' = [proc EXCEPT ![p] = [Off EXCEPT !.pc = "getEnv", !.env = e]]
    /\ UNCHANGED file

\* Nothing is shared until the file is opened.  A build for development embeds
\* no migrations.
GetEnv(p) ==
  LET e == proc[p].env
  IN /\ At(p, "getEnv")
     /\ CASE getEnv(e) /\ e.dev -> Goes(p, "new")
          [] getEnv(e) /\ ~e.dev /\ Driver(e) -> Goes(p, "find")
          [] OTHER -> Ends(p)
     /\ UNCHANGED file

\* A check for the table that finds none, and a read of the table that finds
\* some: both together are one read, for the table and its rows only come to be.
FindMigrations(p) ==
  /\ At(p, "find")
  /\ proc' = [proc EXCEPT ![p].pc = "table",
                          ![p].pending = Pending(file[ConnectionString(proc[p].env)])]
  /\ UNCHANGED file

CreateMigrationsTable(p) ==
  /\ At(p, "table")
  /\ file' = [file EXCEPT ![ConnectionString(proc[p].env)].log = TRUE]
  /\ Goes(p, "apply")

\* Fault: a migration that fails is tried again.
ApplyMigrationAgain(p) ==
  /\ At(p, "apply") /\ proc[p].pending # {}
  /\ LET f == ConnectionString(proc[p].env)
         k == Min(proc[p].pending)
     IN /\ Runs(file[f], k)
        /\ file' = [file EXCEPT ![f] = Migrated(@, k)]
        /\ proc' = [proc EXCEPT ![p].pending = @ \ {k}]

\* Fault: a migration that fails is left out.
ApplyMigrationOrNot(p) ==
  /\ At(p, "apply") /\ proc[p].pending # {}
  /\ LET f == ConnectionString(proc[p].env)
         k == Min(proc[p].pending)
     IN /\ file' = IF Runs(file[f], k)
                   THEN [file EXCEPT ![f] = Migrated(@, k)] ELSE file
        /\ proc' = [proc EXCEPT ![p].pending = @ \ {k}]

\* Fault: no transaction.
ApplyMigrationHalf(p) ==
  /\ At(p, "apply") /\ proc[p].pending # {}
  /\ LET f == ConnectionString(proc[p].env)
         k == Min(proc[p].pending)
     IN /\ file' = [file EXCEPT ![f] = Half(@, k)]
        /\ IF Runs(file[f], k)
           THEN proc' = [proc EXCEPT ![p].pending = @ \ {k}]
           ELSE Ends(p)

\* The pending migrations in their order, each in one transaction with its row
\* in schema_migrations.
ApplyMigration(p) ==
  /\ At(p, "apply") /\ proc[p].pending # {}
  /\ LET f == ConnectionString(proc[p].env)
         k == Min(proc[p].pending)
     IN IF Runs(file[f], k)
        THEN /\ file' = [file EXCEPT ![f] = Migrated(@, k)]
             /\ proc' = [proc EXCEPT ![p].pending = @ \ {k}]
        ELSE Ends(p) /\ UNCHANGED file

MigrationsApplied(p) ==
  /\ At(p, "apply") /\ proc[p].pending = {}
  /\ Goes(p, "new")
  /\ UNCHANGED file

\* A statement of the migration fails: the file is locked, or worse.
MigrateFails(p) ==
  /\ proc[p].pc \in {"find", "table", "apply"}
  /\ Ends(p)
  /\ UNCHANGED file

\* The handle is opened without a look at the file; webauthn parses the host
\* of the URL, which no numeric IPv6 host survives.
Prepare(p) ==
  /\ At(p, "new")
  /\ IF proc[p].env.url = "numeric" THEN Ends(p) ELSE Goes(p, "listen")
  /\ UNCHANGED file

Taken(p) == \E q \in Procs : /\ proc[q].pc = "serve" /\ ~proc[q].closing
                             /\ Port(proc[q].env) = Port(proc[p].env)

\* Fault: a server that has been shut down can be started.
ListenAnyway(p) ==
  /\ At(p, "listen")
  /\ proc' = IF Taken(p)
             THEN [proc EXCEPT ![p].pc = "nil?", ![p].err = "failed", ![p].bind = "failed"]
             ELSE [proc EXCEPT ![p].pc = "serve", ![p].bind = "ok", ![p].closing = FALSE]
  /\ UNCHANGED file

ListenAndServe(p) ==
  /\ At(p, "listen")
  /\ proc' =
       CASE proc[p].closing -> [proc EXCEPT ![p].pc = "nil?", ![p].err = "closed"]
         [] ~proc[p].closing /\ Taken(p) ->
              [proc EXCEPT ![p].pc = "nil?", ![p].err = "failed", ![p].bind = "failed"]
         [] OTHER -> [proc EXCEPT ![p].pc = "serve", ![p].bind = "ok"]
  /\ UNCHANGED file

\* ListenAndServe does not wait for what Shutdown waits for.
ServerClosed(p) ==
  /\ At(p, "serve") /\ proc[p].closing
  /\ proc' = [proc EXCEPT ![p].pc = "nil?", ![p].err = "closed"]
  /\ UNCHANGED file

\* err is read twice, and may be another the second time; it is two words, so
\* a read beside a write may give a value that is neither of two.
CheckNil(p) ==
  /\ At(p, "nil?")
  /\ Goes(p, IF proc[p].err = "nil" THEN "return" ELSE "closed?")
  /\ UNCHANGED file

\* Fault: every return of ListenAndServe is taken for a failure.
CheckNothing(p) ==
  /\ At(p, "closed?")
  /\ proc' = [proc EXCEPT ![p].pc = "return", ![p].logged = TRUE]
  /\ UNCHANGED file

CheckClosed(p) ==
  \E torn \in BOOLEAN :
    /\ At(p, "closed?")
    /\ torn => proc[p].handler \in Writing
    /\ proc' = [proc EXCEPT ![p].pc = "return",
                            ![p].logged = torn \/ proc[p].err # "closed"]
    /\ UNCHANGED file

Return(p) ==
  /\ At(p, "return")
  /\ Ends(p)
  /\ UNCHANGED file

(***************************************************************************)
(* The goroutine that waits for a signal.  A signal that comes before      *)
(* signal.Notify ends the process.                                         *)
(***************************************************************************)

Signal(p) ==
  /\ ~At(p, "off")
  /\ IF proc[p].pc \in Up
     THEN proc[p].signal = "none" /\ proc' = [proc EXCEPT ![p].signal = "sent"]
     ELSE Ends(p)
  /\ UNCHANGED file

Handles(p, from, to) ==
  /\ proc[p].pc \in Up /\ proc[p].handler = from
  /\ UNCHANGED file
  /\ proc' = [proc EXCEPT ![p] = to]

\* Fault: the signal stays in the channel.
ShutdownAgain(p) ==
  /\ proc[p].signal = "sent"
  /\ Handles(p, "wait", [proc[p] EXCEPT !.closing = TRUE, !.handler = "drain"])

Shutdown(p) ==
  /\ proc[p].signal = "sent"
  /\ Handles(p, "wait", [proc[p] EXCEPT !.signal = "taken", !.closing = TRUE,
                                        !.handler = "drain"])

\* Connections that h2c has taken over are not waited for.
Drained(p) ==
  /\ proc[p].reqs \cap Tracked = {}
  /\ Handles(p, "drain", [proc[p] EXCEPT !.handler = "drained"])

Overdue(p) == Handles(p, "drain", [proc[p] EXCEPT !.handler = "overdue"])

\* What Shutdown, Close and DB.Close answered becomes err.
Close(p) ==
  \/ Handles(p, "drained", [proc[p] EXCEPT !.err = "nil", !.handler = "closeDB"])
  \/ Handles(p, "overdue", [proc[p] EXCEPT !.err = "failed", !.handler = "close"])
  \/ \E e \in {"nil", "failed"} :
       Handles(p, "close", [proc[p] EXCEPT !.err = e, !.handler = "closeDB"])

CloseDB(p) ==
  \E e \in {"nil", "failed"} :
    Handles(p, "closeDB", [proc[p] EXCEPT !.err = e, !.handler = "done"])

(***************************************************************************)
(* Requests, and the end no code has a say in.                             *)
(***************************************************************************)

Accept(p) ==
  \E r \in Requests \ proc[p].reqs :
    /\ At(p, "serve") /\ ~proc[p].closing
    /\ proc' = [proc EXCEPT ![p].reqs = @ \cup {r}]
    /\ UNCHANGED file

\* A request may have stored a user, if the table is there.
Answer(p) ==
  \E r \in proc[p].reqs, signUp \in BOOLEAN :
    LET f == New(proc[p].env)
    IN /\ proc[p].pc \in Up
       /\ signUp => proc[p].handler # "done"
                    /\ {"user", "webauthn_id"} \subseteq file[f].tables
       /\ proc' = [proc EXCEPT ![p].reqs = @ \ {r}]
       /\ file' = [file EXCEPT ![f].rows = @ \/ signUp]

Crash(p) ==
  /\ ~At(p, "off")
  /\ Ends(p)
  /\ UNCHANGED file

(***************************************************************************)
(* The specification.  main and the goroutine are scheduled in the end;    *)
(* nothing is assumed of requests, signals, failures, crashes and starts.  *)
(***************************************************************************)

Main(p) ==
  \/ GetEnv(p) \/ FindMigrations(p) \/ CreateMigrationsTable(p)
  \/ ApplyMigration(p) \/ MigrationsApplied(p) \/ Prepare(p) \/ ListenAndServe(p)
  \/ ServerClosed(p) \/ CheckNil(p) \/ CheckClosed(p)
  \/ Return(p)

Handler(p) ==
  Shutdown(p) \/ Drained(p) \/ Overdue(p) \/ Close(p) \/ CloseDB(p)

Init ==
  /\ file \in Found
  /\ proc = [p \in Procs |-> Off]

Next ==
  \E p \in Procs : \/ Start(p) \/ Main(p) \/ MigrateFails(p) \/ Handler(p)
                   \/ Signal(p) \/ Accept(p) \/ Answer(p) \/ Crash(p)

Fairness == \A p \in Procs : WF_vars(Main(p)) /\ WF_vars(Handler(p))

Spec == Init /\ [][Next]_vars /\ Fairness

(***************************************************************************)
(* Properties                                                              *)
(***************************************************************************)

TypeOK ==
  /\ file \in [Paths -> File]
  /\ \A p \in Procs :
       /\ proc[p].pc \in Stages /\ proc[p].handler \in Handling
       /\ proc[p].env \in Envs \cup {NoEnv}
       /\ proc[p].pending \subseteq Versions
       /\ proc[p].err \in {"nil", "closed", "failed"}
       /\ proc[p].reqs \subseteq Requests
       /\ proc[p].handler # "wait" => proc[p].signal = "taken"

\* A file holds the tables of the migrations its schema_migrations names and
\* nothing else: no race of two processes, no statement that fails and no crash
\* leaves a migration half done or done without its row.
SchemaMatchesRecord == \A f \in Paths : Recorded(file[f])

\* Where the URL is the absolute path of a scheme database.New knows, or the
\* working directory is the root, a process of a release serves from a file with
\* all its migrations: a database that cannot be migrated keeps it from serving.
\* (Other URLs are migrated in one file and served from another.)
ServesMigrated ==
  \A p \in Procs :
    LET e == proc[p].env
    IN proc[p].pc \in Up /\ ~e.dev /\ e.scheme = "sqlite"
         /\ (e.rooted \/ e.dir = "root")
       => file[New(e)].done = Versions

\* When main returns and no signal came, a server that could not listen has
\* said so.  It has said so of one that could only if the goroutine was about to
\* write err or had written it.
FailureReported ==
  \A p \in Procs :
    At(p, "return") =>
      /\ proc[p].bind = "failed" /\ proc[p].signal = "none" => proc[p].logged
      /\ proc[p].logged => proc[p].bind = "failed"
                           \/ proc[p].handler \in Writing \cup {"done"}

\* A process that has been signalled ends.
StopsWhenSignalled ==
  \A p \in Procs : proc[p].signal = "sent" ~> At(p, "off")

\* A process that starts comes to serve, or ends.
ServesOrStops ==
  \A p \in Procs : At(p, "getEnv") ~> (At(p, "serve") \/ At(p, "off"))

\* Processes that race, fail and crash apply migrations one at a time, in order.
Promise == INSTANCE Upgrades WITH
  Count <- Len(Migrations), applied <- [f \in Paths |-> file[f].done]
MigratesInOrder == Promise!Spec

\* "Gracefully shutdown on SIGINT or SIGTERM" (main.go:76): when main returns
\* after a signal, Shutdown has waited for the requests or run out of time.
DrainsBeforeReturn ==
  \A p \in Procs :
    At(p, "return") /\ proc[p].signal = "taken" =>
      proc[p].reqs \cap Tracked = {} \/ proc[p].handler # "drain"
=============================================================================
