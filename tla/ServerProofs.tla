---------------------------- MODULE ServerProofs ----------------------------
(***************************************************************************)
(* Proofs about the life of server processes: for any number of processes  *)
(* and requests, in any environments, with any files the program has       *)
(* migrated before.                                                        *)
(***************************************************************************)
EXTENDS Server, WellFoundedInduction, TLAPS

-----------------------------------------------------------------------------
(***************************************************************************)
(* Sets of numbers.                                                        *)
(***************************************************************************)

\* A non-empty set of numbers has a smallest element.
LEMMA MinOfNaturals ==
  ASSUME NEW S \in SUBSET Nat, S # {}
  PROVE  Min(S) \in S /\ \A x \in S : Min(S) <= x
<1> DEFINE Less == OpToRel(<, Nat)
<1>1. IsWellFoundedOn(Less, Nat)
  BY NatLessThanWellFounded
<1>2. \A x, y \in Nat : y < x => <<y, x>> \in Less
  BY DEF OpToRel
<1> HIDE DEF Less
<1>3. PICK b \in S : \A k \in S : <<k, b>> \notin Less
  BY <1>1, WFMin
<1>4. ASSUME NEW k \in S  PROVE b <= k
  <2>1. k \in Nat /\ b \in Nat /\ ~(k < b)
    BY <1>2, <1>3
  <2> QED BY <2>1
<1> QED
  BY <1>4 DEF Min

-----------------------------------------------------------------------------
(***************************************************************************)
(* Files.                                                                  *)
(***************************************************************************)

LEMMA TheVersions ==
  /\ Versions = {1, 2} /\ Len(Migrations) = 2
  /\ Migrations[1] = {"user", "file", "item"}
  /\ Migrations[2] = {"credential", "webauthn_id"}
BY DEF Versions, Migrations

LEMMA TheTables == \A k \in Versions : Migrations[k] \subseteq Tables
<1>1. \A k \in Versions : Migrations[k] \in Range(Migrations)
  BY DEF Versions, Range
<1> QED
  BY <1>1 DEF Tables

InOrder(f) == \E n \in 0 .. 2 : f.done = 1 .. n

\* The next migration leaves a file that matches its record, and one more done.
LEMMA MigratedMatches ==
  ASSUME NEW f \in File, Recorded(f), InOrder(f), f.log,
         NEW k \in Versions, k \notin f.done, \A j \in 1 .. k - 1 : j \in f.done
  PROVE  /\ Migrated(f, k) \in File /\ Recorded(Migrated(f, k))
         /\ f.done = 1 .. k - 1 /\ Migrated(f, k).done = 1 .. k
         /\ Migrated(f, k).log
<1> DEFINE m == Migrated(f, k)
<1>1. m \in File
  BY TheTables DEF Migrated, File
<1>2. m.done = f.done \cup {k} /\ m.tables = f.tables \cup Migrations[k] /\ m.log = f.log
  BY DEF Migrated, File
<1>3. k \in {1, 2}
  BY TheVersions
<1>4. f.done = 1 .. k - 1
  <2>1. PICK n \in 0 .. 2 : f.done = 1 .. n
    BY DEF InOrder
  <2>2. n = k - 1
    BY <1>3, <2>1
  <2> QED
    BY <2>1, <2>2
<1>5. m.done = 1 .. k
  BY <1>2, <1>3, <1>4
<1>6. Recorded(m)
  BY <1>2 DEF Recorded
<1> QED
  BY <1>1, <1>2, <1>4, <1>5, <1>6

(***************************************************************************)
(* The inductive invariant.  A process that applies migrations has seen    *)
(* all before its next one done in its file; err is main's until the       *)
(* goroutine is about to write it.                                         *)
(***************************************************************************)

Process ==
  [pc : Stages, env : Envs \cup {NoEnv}, pending : SUBSET Versions,
   err : {"nil", "closed", "failed"}, logged : BOOLEAN,
   bind : {"none", "ok", "failed"}, signal : {"none", "sent", "taken"},
   handler : Handling, closing : BOOLEAN, reqs : SUBSET Requests]

\* Where a process is, by what is done in its file.
Placed(r, fs) ==
  LET f == fs[ConnectionString(r.env)]
  IN  /\ r.pc # "off" => r.env \in Envs
      /\ r.pc = "apply" => f.log
      /\ r.pc \in {"table", "apply"} => Versions \ r.pending \subseteq f.done
      /\ r.pc \in {"new"} \cup Up /\ ~r.env.dev => f.done = Versions

\* What main knows of its failure to listen.
Told(r) ==
  /\ r.handler # "wait" => r.signal = "taken"
  /\ r.bind = "failed" => r.pc \in {"nil?", "closed?", "return"}
  /\ r.pc \in {"nil?", "closed?"} /\ r.handler \in {"wait", "drain"} =>
       r.err = IF r.bind = "failed" THEN "failed" ELSE "closed"
  /\ r.pc = "return" /\ r.bind = "failed" /\ r.signal = "none" => r.logged
  /\ r.logged => r.bind = "failed" \/ r.handler \in Writing \cup {"done"}

FilesInv ==
  /\ file \in [Paths -> File]
  /\ \A f \in Paths : Recorded(file[f]) /\ InOrder(file[f])

Inv ==
  /\ FilesInv
  /\ proc \in [Procs -> Process]
  /\ \A p \in Procs : Placed(proc[p], file) /\ Told(proc[p])

LEMMA EnvPaths ==
  /\ \A e \in Envs : ConnectionString(e) \in Paths
  /\ \A e : New(e) \in Paths
BY ServerConstants DEF ConnectionString, New, Paths

LEMMA OffFits == Off \in Process /\ Placed(Off, file) /\ Told(Off)
<1>1. Off \in Process
  BY DEF Off, Process, Stages, Handling
<1>2. Placed(Off, file) /\ Told(Off)
  BY DEF Off, Placed, Told, Up
<1> QED
  BY <1>1, <1>2

LEMMA InitInv == Init => Inv
<1> SUFFICES ASSUME Init  PROVE Inv
  OBVIOUS
<1>1. FilesInv
  BY ServerConstants DEF Init, FilesInv, InOrder
<1>2. \A p \in Procs : proc[p] = Off
  BY DEF Init
<1>3. proc \in [Procs -> Process]
  BY OffFits DEF Init
<1> QED
  BY <1>1, <1>2, <1>3, OffFits DEF Inv

\* What is done stays done.
LEMMA PlacedStays ==
  ASSUME NEW r, NEW fs, NEW gs, Placed(r, fs), NEW f, NEW g,
         f = fs[ConnectionString(r.env)], g = gs[ConnectionString(r.env)],
         f.done \subseteq g.done, g.done \subseteq Versions, f.log => g.log
  PROVE  Placed(r, gs)
<1>1. r.pc # "off" => r.env \in Envs
  BY DEF Placed
<1>2. r.pc = "apply" => g.log
  BY DEF Placed
<1>3. r.pc \in {"table", "apply"} => Versions \ r.pending \subseteq g.done
  BY DEF Placed
<1>4. r.pc \in {"new"} \cup Up /\ ~r.env.dev => g.done = Versions
  BY DEF Placed
<1> QED
  BY <1>1, <1>2, <1>3, <1>4 DEF Placed

\* A step of one process that leaves the files alone.
LEMMA OneMoves ==
  ASSUME Inv, NEW p \in Procs, NEW r \in Process,
         proc' = [proc EXCEPT ![p] = r], UNCHANGED file, Placed(r, file), Told(r)
  PROVE  Inv'
<1>1. proc' \in [Procs -> Process]
  BY DEF Inv
<1>2. FilesInv'
  BY DEF Inv, FilesInv, Recorded, InOrder
<1>3. \A q \in Procs : Placed(proc'[q], file) /\ Told(proc'[q])
  BY DEF Inv
<1> QED
  BY <1>1, <1>2, <1>3 DEF Inv

\* A step that changes one file, in which what was done stays done.
LEMMA FileChanges ==
  ASSUME Inv, NEW p \in Procs, NEW r \in Process, proc' = [proc EXCEPT ![p] = r],
         NEW f \in Paths, NEW g \in File, file' = [file EXCEPT ![f] = g],
         Recorded(g), InOrder(g), file[f].done \subseteq g.done, file[f].log => g.log,
         Placed(r, file'), Told(r)
  PROVE  Inv'
<1>1. proc' \in [Procs -> Process]
  BY DEF Inv
<1>2. file' \in [Paths -> File] /\ file'[f] = g
      /\ \A h \in Paths \ {f} : file'[h] = file[h]
  BY DEF Inv, FilesInv
<1>3. FilesInv'
  BY <1>2 DEF Inv, FilesInv, Recorded, InOrder
<1>4. \A h \in Paths : /\ file[h].done \subseteq file'[h].done
                       /\ file[h].log => file'[h].log
                       /\ file'[h].done \subseteq Versions
  BY <1>2 DEF File
<1>5. \A q \in Procs \ {p} : Placed(proc'[q], file')
  <2> SUFFICES ASSUME NEW q \in Procs \ {p}  PROVE Placed(proc'[q], file')
    OBVIOUS
  <2>1. proc'[q] = proc[q] /\ Placed(proc[q], file)
    BY DEF Inv
  <2>2. CASE proc[q].pc = "off"
    BY <2>1, <2>2 DEF Placed, Up
  <2>3. CASE proc[q].pc # "off"
    <3>1. ConnectionString(proc[q].env) \in Paths
      BY <2>1, <2>3, EnvPaths DEF Placed
    <3> DEFINE h == ConnectionString(proc[q].env)
    <3>2. /\ file[h].done \subseteq file'[h].done /\ file'[h].done \subseteq Versions
          /\ file[h].log => file'[h].log
      BY <1>4, <3>1
    <3> HIDE DEF h
    <3> QED
      BY <2>1, <3>2, PlacedStays DEF h
  <2> QED
    BY <2>2, <2>3
<1>6. Placed(proc'[p], file') /\ \A q \in Procs : Told(proc'[q])
  BY DEF Inv
<1> QED
  BY <1>1, <1>3, <1>5, <1>6 DEF Inv

\* A process that ends.
LEMMA EndsInv ==
  ASSUME Inv, NEW p \in Procs, Ends(p), UNCHANGED file
  PROVE  Inv'
BY OffFits, OneMoves DEF Ends

(***************************************************************************)
(* The steps keep it.                                                      *)
(***************************************************************************)

LEMMA StartInv ==
  ASSUME Inv, NEW p \in Procs, Start(p)
  PROVE  Inv'
<1>1. PICK e \in Envs : proc' = [proc EXCEPT ![p] = [Off EXCEPT !.pc = "getEnv", !.env = e]]
  BY DEF Start
<1> DEFINE r == [Off EXCEPT !.pc = "getEnv", !.env = e]
<1>2. r \in Process /\ Placed(r, file) /\ Told(r)
  BY OffFits DEF Process, Placed, Told, Off, Stages, Up
<1>3. proc' = [proc EXCEPT ![p] = r] /\ UNCHANGED file
  BY <1>1 DEF Start
<1> HIDE DEF r
<1> QED
  BY <1>2, <1>3, OneMoves

\* main goes on, and nothing but its place changes.
LEMMA PlaceMoves ==
  ASSUME Inv, NEW p \in Procs, NEW pc \in Stages, Goes(p, pc), UNCHANGED file,
         LET r == [proc[p] EXCEPT !.pc = pc] IN Placed(r, file) /\ Told(r)
  PROVE  Inv'
<1> DEFINE r == [proc[p] EXCEPT !.pc = pc]
<1>1. r \in Process /\ proc' = [proc EXCEPT ![p] = r]
  BY DEF Goes, Inv, Process
<1> HIDE DEF r
<1> QED
  BY <1>1, OneMoves DEF r

LEMMA GetEnvInv ==
  ASSUME Inv, NEW p \in Procs, GetEnv(p)
  PROVE  Inv'
<1>1. Placed(proc[p], file) /\ Told(proc[p]) /\ At(p, "getEnv") /\ UNCHANGED file
      /\ proc[p] \in Process
  BY DEF GetEnv, Inv
<1>2. Ends(p) \/ (proc[p].env.dev /\ Goes(p, "new")) \/ Goes(p, "find")
  BY DEF GetEnv
<1>3. CASE Ends(p)
  BY <1>1, <1>3, EndsInv
<1>4. CASE proc[p].env.dev /\ Goes(p, "new")
  <2>1. LET r == [proc[p] EXCEPT !.pc = "new"] IN Placed(r, file) /\ Told(r)
    BY <1>1, <1>4 DEF Placed, Told, At, Process, Up
  <2> QED
    BY <1>1, <1>4, <2>1, PlaceMoves DEF Stages
<1>5. CASE Goes(p, "find")
  <2>1. LET r == [proc[p] EXCEPT !.pc = "find"] IN Placed(r, file) /\ Told(r)
    BY <1>1, <1>5 DEF Placed, Told, At, Process, Up
  <2> QED
    BY <1>1, <1>5, <2>1, PlaceMoves DEF Stages
<1> QED
  BY <1>2, <1>3, <1>4, <1>5

LEMMA FindMigrationsInv ==
  ASSUME Inv, NEW p \in Procs, FindMigrations(p)
  PROVE  Inv'
<1> DEFINE f == file[ConnectionString(proc[p].env)]
           r == [proc[p] EXCEPT !.pc = "table", !.pending = Pending(f)]
<1>1. Placed(proc[p], file) /\ Told(proc[p]) /\ proc[p] \in Process /\ proc[p].pc = "find"
  BY DEF FindMigrations, At, Inv
<1>2. r \in Process
  BY <1>1 DEF Process, Stages, Pending
<1>3. Placed(r, file) /\ Told(r)
  BY <1>1 DEF Placed, Told, Process, Pending, Up
<1>4. proc' = [proc EXCEPT ![p] = r] /\ UNCHANGED file
  BY <1>1 DEF FindMigrations, Process, Inv
<1> HIDE DEF r
<1> QED
  BY <1>2, <1>3, <1>4, OneMoves

LEMMA CreateMigrationsTableInv ==
  ASSUME Inv, NEW p \in Procs, CreateMigrationsTable(p)
  PROVE  Inv'
<1> DEFINE f == ConnectionString(proc[p].env)
           g == [file[f] EXCEPT !.log = TRUE]
           r == [proc[p] EXCEPT !.pc = "apply"]
<1>1. Placed(proc[p], file) /\ Told(proc[p]) /\ proc[p] \in Process /\ proc[p].pc = "table"
  BY DEF CreateMigrationsTable, At, Inv
<1>2. f \in Paths
  BY <1>1, EnvPaths DEF Placed
<1>3. file[f] \in File /\ Recorded(file[f]) /\ InOrder(file[f])
  BY <1>2 DEF Inv, FilesInv
<1>4. g \in File /\ Recorded(g) /\ InOrder(g) /\ g.done = file[f].done /\ g.log
  BY <1>3 DEF File, Recorded, InOrder
<1>5. file' = [file EXCEPT ![f] = g] /\ proc' = [proc EXCEPT ![p] = r]
  BY DEF CreateMigrationsTable, Goes
<1>6. file'[f] = g
  BY <1>2, <1>5 DEF Inv, FilesInv
<1>7. r \in Process /\ Told(r) /\ r.pc = "apply" /\ r.env = proc[p].env
      /\ r.pending = proc[p].pending
  BY <1>1 DEF Process, Stages, Told, Up
<1>8. Placed(r, file')
  <2> HIDE DEF r, g
  <2> QED BY <1>1, <1>4, <1>6, <1>7 DEF Placed, Up
<1> HIDE DEF r, g, f
<1> QED
  BY <1>2, <1>4, <1>5, <1>7, <1>8, FileChanges

\* What ApplyMigration does, for the invariant and for the promise of Upgrades.
LEMMA ApplyMigrates ==
  ASSUME Inv, NEW p \in Procs, At(p, "apply"), proc[p].pending # {},
         NEW f, f = ConnectionString(proc[p].env), NEW k, k = Min(proc[p].pending),
         Runs(file[f], k)
  PROVE  /\ f \in Paths /\ k \in Versions /\ k \in proc[p].pending
         /\ Migrated(file[f], k) \in File /\ Recorded(Migrated(file[f], k))
         /\ file[f].done = 1 .. k - 1 /\ Migrated(file[f], k).done = 1 .. k
         /\ Migrated(file[f], k).log
<1>1. Placed(proc[p], file) /\ proc[p] \in Process /\ proc[p].pc = "apply"
  BY DEF At, Inv
<1>2. f \in Paths
  BY <1>1, EnvPaths DEF Placed
<1>3. file[f] \in File /\ Recorded(file[f]) /\ InOrder(file[f])
  BY <1>2 DEF Inv, FilesInv
<1> DEFINE S == proc[p].pending
<1>4. S \subseteq Versions /\ S \subseteq {1, 2} /\ S \in SUBSET Nat /\ S # {}
  BY <1>1, TheVersions DEF Process
<1>5. k \in S /\ \A x \in S : k <= x
  BY <1>4, MinOfNaturals
<1>6. k \in Versions /\ k \in {1, 2}
  BY <1>4, <1>5
<1>7. \A j \in 1 .. k - 1 : j \in file[f].done
  <2> SUFFICES ASSUME NEW j \in 1 .. k - 1  PROVE j \in file[f].done
    OBVIOUS
  <2>1. j \in Versions /\ j < k
    BY <1>6, TheVersions
  <2>2. j \notin S
    BY <1>5, <1>6, <2>1
  <2>3. Versions \ S \subseteq file[f].done
    BY <1>1 DEF Placed
  <2> QED
    BY <2>1, <2>2, <2>3
<1>8. file[f].log /\ k \notin file[f].done
  BY <1>1 DEF Placed, Runs
<1> QED
  BY <1>2, <1>3, <1>5, <1>6, <1>7, <1>8, MigratedMatches

LEMMA ApplyMigrationInv ==
  ASSUME Inv, NEW p \in Procs, ApplyMigration(p)
  PROVE  Inv'
<1> DEFINE f == ConnectionString(proc[p].env)
           k == Min(proc[p].pending)
           g == Migrated(file[f], k)
           r == [proc[p] EXCEPT !.pending = @ \ {k}]
<1>1. Placed(proc[p], file) /\ Told(proc[p]) /\ proc[p] \in Process /\ proc[p].pc = "apply"
      /\ At(p, "apply") /\ proc[p].pending # {}
  BY DEF ApplyMigration, At, Inv
<1>2. CASE Ends(p) /\ UNCHANGED file
  BY <1>2, EndsInv
<1>3. CASE /\ Runs(file[f], k)
           /\ file' = [file EXCEPT ![f] = g] /\ proc' = [proc EXCEPT ![p] = r]
  <2>1. /\ f \in Paths /\ k \in Versions /\ g \in File /\ Recorded(g) /\ g.log
        /\ file[f].done = 1 .. k - 1 /\ g.done = 1 .. k
    BY <1>1, <1>3, ApplyMigrates
  <2>2. InOrder(g) /\ file[f].done \subseteq g.done /\ k \in g.done
    BY <2>1, TheVersions DEF InOrder
  <2>3. r \in Process /\ Told(r) /\ r.pc = "apply" /\ r.env = proc[p].env
        /\ r.pending = proc[p].pending \ {k}
    BY <1>1 DEF Process, Told, Up
  <2>4. file'[f] = g
    BY <1>3, <2>1 DEF Inv, FilesInv
  <2>5. Versions \ r.pending \subseteq g.done
    BY <1>1, <2>2, <2>3 DEF Placed
  <2>6. Placed(r, file')
    <3> HIDE DEF r, g, k
    <3> QED BY <1>1, <2>1, <2>3, <2>4, <2>5 DEF Placed, Up
  <2> HIDE DEF r, g, f, k
  <2> QED
    BY <1>3, <2>1, <2>2, <2>3, <2>6, FileChanges
<1>4. Runs(file[f], k) =>
        file' = [file EXCEPT ![f] = g] /\ proc' = [proc EXCEPT ![p] = r]
  BY DEF ApplyMigration
<1>5. ~Runs(file[f], k) => Ends(p) /\ UNCHANGED file
  BY DEF ApplyMigration
<1> QED
  BY <1>2, <1>3, <1>4, <1>5

LEMMA MigrationsAppliedInv ==
  ASSUME Inv, NEW p \in Procs, MigrationsApplied(p)
  PROVE  Inv'
<1> DEFINE f == file[ConnectionString(proc[p].env)]
<1>1. Placed(proc[p], file) /\ Told(proc[p]) /\ proc[p] \in Process
      /\ proc[p].pc = "apply" /\ proc[p].pending = {} /\ Goes(p, "new") /\ UNCHANGED file
  BY DEF MigrationsApplied, At, Inv
<1>2. f \in File
  BY <1>1, EnvPaths DEF Placed, Inv, FilesInv
<1>3. f.done = Versions
  BY <1>1, <1>2 DEF Placed, File
<1>4. LET r == [proc[p] EXCEPT !.pc = "new"] IN Placed(r, file) /\ Told(r)
  BY <1>1, <1>3 DEF Placed, Told, Process, Up
<1> QED
  BY <1>1, <1>4, PlaceMoves DEF Stages

LEMMA PrepareInv ==
  ASSUME Inv, NEW p \in Procs, Prepare(p)
  PROVE  Inv'
<1>1. Placed(proc[p], file) /\ Told(proc[p]) /\ proc[p] \in Process
      /\ proc[p].pc = "new" /\ UNCHANGED file
  BY DEF Prepare, At, Inv
<1>2. Ends(p) \/ Goes(p, "listen")
  BY DEF Prepare
<1>3. LET r == [proc[p] EXCEPT !.pc = "listen"] IN Placed(r, file) /\ Told(r)
  BY <1>1 DEF Placed, Told, Process, Up
<1> QED
  BY <1>1, <1>2, <1>3, EndsInv, PlaceMoves DEF Stages

\* A process that has come to listen stays in its environment, and its file is
\* one with all migrations.
LEMMA UpMoves ==
  ASSUME Inv, NEW p \in Procs, proc[p].pc \in Up, UNCHANGED file,
         NEW r \in Process, r.pc \in Up, r.env = proc[p].env, Told(r),
         proc' = [proc EXCEPT ![p] = r]
  PROVE  Inv'
<1>1. Placed(r, file)
  BY DEF Placed, Inv, Up
<1> QED
  BY <1>1, OneMoves

LEMMA ListenAndServeInv ==
  ASSUME Inv, NEW p \in Procs, ListenAndServe(p)
  PROVE  Inv'
<1> DEFINE r1 == [proc[p] EXCEPT !.pc = "nil?", !.err = "closed"]
           r2 == [proc[p] EXCEPT !.pc = "nil?", !.err = "failed", !.bind = "failed"]
           r3 == [proc[p] EXCEPT !.pc = "serve", !.bind = "ok"]
<1>1. Told(proc[p]) /\ proc[p] \in Process /\ proc[p].pc = "listen" /\ UNCHANGED file
  BY DEF ListenAndServe, At, Inv
<1>2. \E r \in {r1, r2, r3} : proc' = [proc EXCEPT ![p] = r]
  BY <1>1 DEF ListenAndServe, Process, Inv
<1>3. \A r \in {r1, r2, r3} :
        r \in Process /\ r.pc \in Up /\ r.env = proc[p].env /\ Told(r)
  BY <1>1 DEF Process, Stages, Up, Told
<1> HIDE DEF r1, r2, r3
<1> QED
  BY <1>1, <1>2, <1>3, UpMoves DEF Up

LEMMA ServerClosedInv ==
  ASSUME Inv, NEW p \in Procs, ServerClosed(p)
  PROVE  Inv'
<1> DEFINE r == [proc[p] EXCEPT !.pc = "nil?", !.err = "closed"]
<1>1. Told(proc[p]) /\ proc[p] \in Process /\ proc[p].pc = "serve" /\ UNCHANGED file
  BY DEF ServerClosed, At, Inv
<1>2. proc' = [proc EXCEPT ![p] = r]
  BY <1>1 DEF ServerClosed, Process, Inv
<1>3. r \in Process /\ r.pc \in Up /\ r.env = proc[p].env /\ Told(r)
  BY <1>1 DEF Process, Stages, Up, Told
<1> HIDE DEF r
<1> QED
  BY <1>1, <1>2, <1>3, UpMoves DEF Up

\* While the goroutine has not come to write err, it says how listening ended.
LEMMA CheckInv ==
  ASSUME Inv, NEW p \in Procs, CheckNil(p) \/ CheckClosed(p)
  PROVE  Inv'
<1>1. Told(proc[p]) /\ proc[p] \in Process /\ UNCHANGED file
      /\ proc[p].pc \in {"nil?", "closed?"}
  BY DEF CheckNil, CheckClosed, At, Inv
<1>2. CASE CheckNil(p)
  <2> DEFINE r == [proc[p] EXCEPT !.pc = IF proc[p].err = "nil" THEN "return" ELSE "closed?"]
  <2>1. proc' = [proc EXCEPT ![p] = r] /\ proc[p].pc = "nil?"
    BY <1>2 DEF CheckNil, Goes, At
  <2>2. r \in Process /\ r.pc \in Up /\ r.env = proc[p].env
    BY <1>1 DEF Process, Stages, Up
  <2>3. Told(r)
    BY <1>1, <2>1 DEF Process, Handling, Writing, Told
  <2> HIDE DEF r
  <2> QED
    BY <1>1, <2>1, <2>2, <2>3, UpMoves DEF Up
<1>3. CASE CheckClosed(p)
  <2>1. PICK torn \in BOOLEAN :
          /\ torn => proc[p].handler \in Writing
          /\ proc' = [proc EXCEPT ![p].pc = "return",
                                  ![p].logged = torn \/ proc[p].err # "closed"]
    BY <1>3 DEF CheckClosed
  <2> DEFINE r == [proc[p] EXCEPT !.pc = "return", !.logged = torn \/ proc[p].err # "closed"]
  <2>2. proc' = [proc EXCEPT ![p] = r] /\ proc[p].pc = "closed?"
    BY <1>1, <1>3, <2>1 DEF CheckClosed, At, Process, Inv
  <2>3. r \in Process /\ r.pc = "return" /\ r.env = proc[p].env /\ r.handler = proc[p].handler
        /\ r.bind = proc[p].bind /\ r.signal = proc[p].signal
        /\ (r.logged <=> torn \/ proc[p].err # "closed")
    BY <1>1 DEF Process, Stages
  <2>4. proc[p].handler \in Handling
    BY <1>1 DEF Process
  <2>5. Told(r)
    <3> HIDE DEF r
    <3>1. proc[p].handler \in {"wait", "drain"} \cup Writing \cup {"done"}
      BY <2>4 DEF Handling, Writing
    <3>2. proc[p].handler \in {"wait", "drain"} =>
            proc[p].err = IF proc[p].bind = "failed" THEN "failed" ELSE "closed"
      BY <1>1, <2>2 DEF Told
    <3>3. r.logged => r.bind = "failed" \/ r.handler \in Writing \cup {"done"}
      BY <2>1, <2>3, <3>1, <3>2
    <3>4. r.bind = "failed" /\ r.signal = "none" => r.logged
      BY <1>1, <2>3, <3>2 DEF Told
    <3> QED
      BY <1>1, <2>3, <3>3, <3>4 DEF Told
  <2> HIDE DEF r
  <2> QED
    BY <1>1, <2>2, <2>3, <2>5, UpMoves DEF Up
<1> QED
  BY <1>2, <1>3

LEMMA SignalInv ==
  ASSUME Inv, NEW p \in Procs, Signal(p)
  PROVE  Inv'
<1> DEFINE r == [proc[p] EXCEPT !.signal = "sent"]
<1>1. Told(proc[p]) /\ proc[p] \in Process /\ UNCHANGED file
  BY DEF Signal, Inv
<1>2. CASE proc[p].pc \notin Up
  BY <1>1, <1>2, EndsInv DEF Signal
<1>3. CASE proc[p].pc \in Up
  <2>1. proc[p].signal = "none" /\ proc' = [proc EXCEPT ![p] = r]
    BY <1>3 DEF Signal
  <2>2. r \in Process /\ r.pc = proc[p].pc /\ r.env = proc[p].env /\ Told(r)
    BY <1>1, <2>1 DEF Process, Told
  <2> HIDE DEF r
  <2> QED
    BY <1>1, <1>3, <2>1, <2>2, UpMoves
<1> QED
  BY <1>2, <1>3

LEMMA HandlerInv ==
  ASSUME Inv, NEW p \in Procs, Handler(p)
  PROVE  Inv'
<1>1. Told(proc[p]) /\ proc[p] \in Process
  BY DEF Inv
<1>2. ASSUME NEW from, NEW r, Handles(p, from, r), r \in Process,
             r.pc = proc[p].pc, r.env = proc[p].env, Told(r)
      PROVE  Inv'
  BY <1>2, UpMoves DEF Handles
<1>3. ASSUME Shutdown(p)  PROVE Inv'
  <2> DEFINE r == [proc[p] EXCEPT !.signal = "taken", !.closing = TRUE, !.handler = "drain"]
  <2>1. Handles(p, "wait", r) /\ proc[p].handler = "wait"
    BY <1>3 DEF Shutdown, Handles
  <2>2. r \in Process /\ r.pc = proc[p].pc /\ r.env = proc[p].env /\ Told(r)
    BY <1>1, <2>1 DEF Process, Handling, Writing, Told
  <2> HIDE DEF r
  <2> QED BY <1>2, <2>1, <2>2
<1>4. ASSUME NEW h \in {"drained", "overdue"},
             Handles(p, "drain", [proc[p] EXCEPT !.handler = h])  PROVE Inv'
  <2> DEFINE r == [proc[p] EXCEPT !.handler = h]
  <2>1. Handles(p, "drain", r) /\ proc[p].handler = "drain"
    BY <1>4 DEF Handles
  <2>2. r \in Process /\ r.pc = proc[p].pc /\ r.env = proc[p].env /\ Told(r)
    BY <1>1, <2>1 DEF Process, Handling, Writing, Told
  <2> HIDE DEF r
  <2> QED BY <1>2, <2>1, <2>2
<1>5. ASSUME NEW from \in Writing, NEW h \in {"close", "closeDB", "done"},
             NEW e \in {"nil", "failed"},
             Handles(p, from, [proc[p] EXCEPT !.err = e, !.handler = h])  PROVE Inv'
  <2> DEFINE r == [proc[p] EXCEPT !.err = e, !.handler = h]
  <2>1. Handles(p, from, r) /\ proc[p].handler = from
    BY <1>5 DEF Handles
  <2>2. r \in Process /\ r.pc = proc[p].pc /\ r.env = proc[p].env /\ Told(r)
    BY <1>1, <2>1 DEF Process, Handling, Writing, Told
  <2> HIDE DEF r
  <2> QED BY <1>2, <2>1, <2>2
<1>6. Drained(p) \/ Overdue(p) => Inv'
  BY <1>4 DEF Drained, Overdue
<1>7. Close(p) => Inv'
  BY <1>5 DEF Close, Writing
<1>8. CloseDB(p) => Inv'
  BY <1>5 DEF CloseDB, Writing
<1> QED
  BY <1>3, <1>6, <1>7, <1>8 DEF Handler

LEMMA AcceptInv ==
  ASSUME Inv, NEW p \in Procs, Accept(p)
  PROVE  Inv'
<1>1. PICK q \in Requests : proc' = [proc EXCEPT ![p].reqs = @ \cup {q}]
  BY DEF Accept
<1> DEFINE r == [proc[p] EXCEPT !.reqs = @ \cup {q}]
<1>2. Told(proc[p]) /\ proc[p] \in Process /\ UNCHANGED file /\ proc[p].pc \in Up
  BY DEF Accept, At, Inv, Up
<1>3. proc' = [proc EXCEPT ![p] = r]
  BY <1>1
<1>4. r \in Process /\ r.pc = proc[p].pc /\ r.env = proc[p].env /\ Told(r)
  BY <1>2 DEF Process, Told
<1> HIDE DEF r
<1> QED
  BY <1>2, <1>3, <1>4, UpMoves

\* A request stores rows, not tables.
LEMMA AnswerInv ==
  ASSUME Inv, NEW p \in Procs, Answer(p)
  PROVE  Inv'
<1> DEFINE f == New(proc[p].env)
<1>1. PICK q \in proc[p].reqs, signUp \in BOOLEAN :
        /\ proc' = [proc EXCEPT ![p].reqs = @ \ {q}]
        /\ file' = [file EXCEPT ![f].rows = @ \/ signUp]
  BY DEF Answer
<1> DEFINE r == [proc[p] EXCEPT !.reqs = @ \ {q}]
           g == [file[f] EXCEPT !.rows = @ \/ signUp]
<1>2. Told(proc[p]) /\ Placed(proc[p], file) /\ proc[p] \in Process /\ proc[p].pc \in Up
  BY DEF Answer, Inv
<1>3. f \in Paths
  BY EnvPaths
<1>4. file[f] \in File /\ Recorded(file[f]) /\ InOrder(file[f])
  BY <1>3 DEF Inv, FilesInv
<1>5. g \in File /\ g.done = file[f].done /\ g.log = file[f].log /\ g.tables = file[f].tables
  BY <1>4 DEF File
<1>6. Recorded(g) /\ InOrder(g)
  BY <1>4, <1>5 DEF Recorded, InOrder
<1>7. proc' = [proc EXCEPT ![p] = r] /\ file' = [file EXCEPT ![f] = g]
  BY <1>1
<1>8. r \in Process /\ r.pc = proc[p].pc /\ r.env = proc[p].env /\ Told(r)
      /\ r.pending = proc[p].pending
  BY <1>2 DEF Process, Told
<1>9. Placed(r, file')
  <2> DEFINE h == ConnectionString(proc[p].env)
  <2>1. h \in Paths
    BY <1>2, EnvPaths DEF Placed, Up
  <2>2. file'[h].done = file[h].done /\ file'[h].log = file[h].log
        /\ file[h].done \subseteq Versions
    BY <1>3, <1>4, <1>5, <1>7, <2>1 DEF Inv, FilesInv, File
  <2>3. Placed(r, file)
    BY <1>2, <1>8 DEF Placed, ConnectionString
  <2>4. ConnectionString(r.env) = h
    BY <1>8
  <2> HIDE DEF r, h
  <2> QED
    BY <2>2, <2>3, <2>4, PlacedStays
<1> HIDE DEF r, g, f
<1> QED
  BY <1>3, <1>5, <1>6, <1>7, <1>8, <1>9, FileChanges

LEMMA StepInv == Inv /\ [Next]_vars => Inv'
<1> SUFFICES ASSUME Inv, [Next]_vars  PROVE Inv'
  OBVIOUS
<1>1. CASE UNCHANGED vars
  BY <1>1 DEF vars, Inv, FilesInv
<1>2. ASSUME NEW p \in Procs, Start(p) \/ Main(p)  PROVE Inv'
  <2>1. Return(p) => Inv'
    BY EndsInv DEF Return
  <2> QED
    BY <1>2, <2>1, StartInv, GetEnvInv, FindMigrationsInv, CreateMigrationsTableInv,
       ApplyMigrationInv, MigrationsAppliedInv, PrepareInv, ListenAndServeInv,
       ServerClosedInv, CheckInv DEF Main
<1>3. ASSUME NEW p \in Procs,
             MigrateFails(p) \/ Handler(p) \/ Signal(p) \/ Accept(p) \/ Answer(p) \/ Crash(p)
      PROVE  Inv'
  <2>1. MigrateFails(p) \/ Crash(p) => Inv'
    BY EndsInv DEF MigrateFails, Crash
  <2> QED
    BY <1>3, <2>1, HandlerInv, SignalInv, AcceptInv, AnswerInv
<1> QED
  BY <1>1, <1>2, <1>3 DEF Next

\* Every file is that of a number of migrations, and every process is where main
\* and its signal goroutine can be, with the file it needs there
\* (main.go:37-105, migrate.go:36-53).
THEOREM Invariant == Spec => []Inv
<1> QED BY InitInv, StepInv, PTL DEF Spec

\* Type correctness: every variable has its type, and the goroutine has taken the
\* signal it handles (main.go:79-98).
THEOREM TypeCorrect == Spec => []TypeOK
<1>1. Inv => TypeOK
  BY DEF Inv, FilesInv, TypeOK, Process, Told
<1> QED BY <1>1, Invariant, PTL

\* No race, failure or crash leaves a file whose tables are not those of the
\* migrations its schema_migrations names (migrate.go:47).
THEOREM FilesMatch == Spec => []SchemaMatchesRecord
<1>1. Inv => SchemaMatchesRecord
  BY DEF Inv, FilesInv, SchemaMatchesRecord
<1> QED BY <1>1, Invariant, PTL

\* A process of a release that migrates and opens the same file serves only from
\* one with all migrations.
THEOREM MigratedIsServed == Spec => []ServesMigrated
<1>1. Inv => ServesMigrated
  <2> SUFFICES ASSUME Inv, NEW p \in Procs, proc[p].pc \in Up, ~proc[p].env.dev,
                      proc[p].env.scheme = "sqlite",
                      proc[p].env.rooted \/ proc[p].env.dir = "root"
               PROVE  file[New(proc[p].env)].done = Versions
    BY DEF ServesMigrated
  <2>1. ConnectionString(proc[p].env) = "root" /\ New(proc[p].env) = "root"
    BY DEF ConnectionString, New
  <2>2. Placed(proc[p], file)
    BY DEF Inv
  <2> QED
    BY <2>1, <2>2 DEF Placed
<1> QED BY <1>1, Invariant, PTL

\* What main says of listening when it returns, though the goroutine writes err
\* beside it (main.go:85-105).
THEOREM FailureIsReported == Spec => []FailureReported
<1>1. Inv => FailureReported
  BY DEF Inv, FailureReported, Told, At
<1> QED BY <1>1, Invariant, PTL

(***************************************************************************)
(* The promise of Upgrades.                                                *)
(***************************************************************************)

Applied == [f \in Paths |-> file[f].done]

\* A step that migrates no file changes nothing of what is applied.
LEMMA OthersKeepApplied ==
  ASSUME Inv, NEW p \in Procs,
         \/ Start(p) \/ MigrateFails(p) \/ Handler(p) \/ Signal(p) \/ Accept(p)
         \/ Answer(p) \/ Crash(p) \/ (Main(p) /\ ~ApplyMigration(p))
  PROVE  Applied' = Applied
<1>1. CASE UNCHANGED file
  BY <1>1 DEF Applied
<1>2. CASE CreateMigrationsTable(p)
  BY <1>2 DEF CreateMigrationsTable, Applied, Inv, FilesInv, File
<1>3. CASE Answer(p)
  BY <1>3 DEF Answer, Applied, Inv, FilesInv, File
<1> QED
  BY <1>1, <1>2, <1>3 DEF Start, MigrateFails, Handler, Shutdown, Drained, Overdue, Close,
     CloseDB, Handles, Signal, Accept, Crash, Main, GetEnv, FindMigrations,
     MigrationsApplied, Prepare, ListenAndServe, ServerClosed, CheckNil, CheckClosed, Return

\* Processes that race, fail and end apply the migrations of a file one at a time
\* and in their order: Server implements Upgrades.
THEOREM Implements == Spec => MigratesInOrder
<1>1. Init => Promise!Init
  BY ServerConstants, TheVersions DEF Init, Promise!Init, Promise!UpTo
<1>2. Inv /\ [Next]_vars => [Promise!Next]_Applied
  <2> SUFFICES ASSUME Inv, [Next]_vars  PROVE Promise!Next \/ Applied' = Applied
    BY DEF Applied
  <2>1. CASE UNCHANGED vars
    BY <2>1 DEF vars, Applied
  <2>2. ASSUME NEW p \in Procs, ApplyMigration(p)
        PROVE  Promise!Next \/ Applied' = Applied
    <3> DEFINE f == ConnectionString(proc[p].env)
               k == Min(proc[p].pending)
    <3>1. CASE ~Runs(file[f], k)
      BY <2>2, <3>1 DEF ApplyMigration, Applied
    <3>2. CASE Runs(file[f], k)
      <4>1. /\ f \in Paths /\ k \in Versions
            /\ file[f].done = 1 .. k - 1 /\ Migrated(file[f], k).done = 1 .. k
        BY <2>2, <3>2, ApplyMigrates DEF ApplyMigration
      <4>2. file' = [file EXCEPT ![f] = Migrated(@, k)]
        BY <2>2, <3>2 DEF ApplyMigration
      <4>3. k \in 1 .. Len(Migrations)
        BY <4>1, TheVersions
      <4>4. Applied[f] = 1 .. k - 1 /\ Applied' = [Applied EXCEPT ![f] = 1 .. k]
        BY <4>1, <4>2 DEF Applied, Inv, FilesInv
      <4> HIDE DEF f, k
      <4>5. \E g \in Paths, n \in 1 .. Len(Migrations) :
              Applied[g] = 1 .. n - 1 /\ Applied' = [Applied EXCEPT ![g] = 1 .. n]
        BY <4>1, <4>3, <4>4
      <4> QED
        BY <4>5 DEF Promise!Next, Promise!Upgrade, Promise!UpTo, Applied
    <3> QED
      BY <3>1, <3>2
  <2>3. ASSUME NEW p \in Procs, ~ApplyMigration(p),
               \/ Start(p) \/ Main(p) \/ MigrateFails(p) \/ Handler(p)
               \/ Signal(p) \/ Accept(p) \/ Answer(p) \/ Crash(p)
        PROVE  Applied' = Applied
    BY <2>3, OthersKeepApplied
  <2> QED
    BY <2>1, <2>2, <2>3 DEF Next
<1> QED
  BY <1>1, <1>2, Invariant, PTL DEF Spec, MigratesInOrder, Promise!Spec, Applied
=============================================================================
