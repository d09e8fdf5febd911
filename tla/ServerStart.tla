----------------------------- MODULE ServerStart -----------------------------
(***************************************************************************)
(* The life of the server process: main (cmd/server/main.go) opens the     *)
(* database, runs the migrations (storage/db.go, ExecMigrations), seeds    *)
(* and listens; it is stopped at any time and started again, also with     *)
(* newer migrations.  What is in memory is new each time: here the login   *)
(* rate limiter, which works while the server listens.                     *)
(*                                                                         *)
(* Migrations are numbered in the order of their names (db.go:80).  A file *)
(* is a sequence of statements that each make one object of the schema and *)
(* are each committed when they end: the driver opens no transaction.      *)
(***************************************************************************)
EXTENDS LoginRateLimiter

CONSTANTS
    Last,       \* the number of migrations there will ever be
    Statements, \* what the statements of each migration make
    Tolerant,   \* what is made with IF NOT EXISTS
    Shipped,    \* the migrations of the first release
    SeedDevData \* SEED_DEV_DATA

Migrations == 1 .. Last
Objects == UNION {{Statements[m][i] : i \in DOMAIN Statements[m]} : m \in Migrations}

\* Only what is made with IF NOT EXISTS is made by two statements.
ASSUME MigrationAssumption ==
    /\ Last \in Nat \ {0}
    /\ Shipped \in Migrations
    /\ DOMAIN Statements = Migrations
    /\ \A m \in Migrations : /\ DOMAIN Statements[m] = 1 .. Len(Statements[m])
                             /\ Len(Statements[m]) \in Nat \ {0}
    /\ \A m, n \in Migrations : \A i \in DOMAIN Statements[m], j \in DOMAIN Statements[n] :
          Statements[m][i] = Statements[n][j] =>
              Statements[m][i] \in Tolerant \/ <<m, i>> = <<n, j>>
    /\ SeedDevData \in BOOLEAN

VARIABLES
    shipped,  \* the files in the migrations directory: 1 .. shipped
    schema,   \* objects of the database
    recorded, \* schema_migrations.name
    seeded,   \* the row of dev@example.com exists
    phase,    \* where main is
    at, stmt, \* the migration and the statement it is at
    cut       \* history: migrations that were stopped half-way

boot == <<shipped, schema, recorded, seeded, phase, at, stmt, cut>>
vars == <<limiter, boot>>

Phases == {"down", "check", "exec", "record", "seed", "listening"}

Init ==
    /\ now = 0
    /\ LimiterInit
    /\ shipped = Shipped
    /\ schema = {} /\ recorded = {} /\ seeded = FALSE
    /\ phase = "down" /\ at = 1 /\ stmt = 1
    /\ cut = {}

-----------------------------------------------------------------------------
\* A newer release is installed.
Deploy ==
    /\ phase = "down"
    /\ shipped' \in (shipped + 1) .. Last
    /\ UNCHANGED <<limiter, schema, recorded, seeded, phase, at, stmt, cut>>

\* main up to ExecMigrations, which lists and sorts the files.
Start ==
    /\ phase = "down"
    /\ phase' = "check" /\ at' = 1
    /\ UNCHANGED <<limiter, shipped, schema, recorded, seeded, stmt, cut>>

\* Mutant: the recorded migrations are run again.
Check_RunsAll ==
    /\ phase = "check"
    /\ \/ at > shipped /\ phase' = "seed" /\ UNCHANGED <<at, stmt>>
       \/ at <= shipped /\ phase' = "exec" /\ stmt' = 1 /\ UNCHANGED at
    /\ UNCHANGED <<limiter, shipped, schema, recorded, seeded, cut>>

\* Mutant: a recorded migration ends the list.
Check_UntilRecorded ==
    /\ phase = "check"
    /\ \/ (at > shipped \/ at \in recorded) /\ phase' = "seed" /\ UNCHANGED <<at, stmt>>
       \/ at <= shipped /\ at \notin recorded /\ phase' = "exec" /\ stmt' = 1 /\ UNCHANGED at
    /\ UNCHANGED <<limiter, shipped, schema, recorded, seeded, cut>>

\* Mutant: one file past the end of the list.
Check_PastEnd ==
    /\ phase = "check"
    /\ \/ at > shipped + 1 /\ phase' = "seed" /\ UNCHANGED <<at, stmt>>
       \/ at <= shipped + 1 /\ at \in recorded /\ at' = at + 1 /\ UNCHANGED <<phase, stmt>>
       \/ at <= shipped + 1 /\ at \notin recorded /\ phase' = "exec" /\ stmt' = 1 /\ UNCHANGED at
    /\ UNCHANGED <<limiter, shipped, schema, recorded, seeded, cut>>

\* The next file is run unless it is recorded.
Check ==
    /\ phase = "check"
    /\ \/ at > shipped /\ phase' = "seed" /\ UNCHANGED <<at, stmt>>
       \/ at <= shipped /\ at \in recorded /\ at' = at + 1 /\ UNCHANGED <<phase, stmt>>
       \/ at <= shipped /\ at \notin recorded /\ phase' = "exec" /\ stmt' = 1 /\ UNCHANGED at
    /\ UNCHANGED <<limiter, shipped, schema, recorded, seeded, cut>>

\* A statement that would make what is there already, and does not tolerate it.
Repeats == Statements[at][stmt] \in schema \ Tolerant

\* Mutant: an error of a later statement is ignored and the rest skipped.
Exec_FirstOnly ==
    /\ phase = "exec" /\ ~Repeats
    /\ schema' = schema \cup {Statements[at][stmt]}
    /\ phase' = "record"
    /\ UNCHANGED <<limiter, shipped, recorded, seeded, at, stmt, cut>>

Exec ==
    /\ phase = "exec" /\ ~Repeats
    /\ schema' = schema \cup {Statements[at][stmt]}
    /\ \/ stmt < Len(Statements[at]) /\ stmt' = stmt + 1 /\ UNCHANGED phase
       \/ stmt = Len(Statements[at]) /\ phase' = "record" /\ UNCHANGED stmt
    /\ UNCHANGED <<limiter, shipped, recorded, seeded, at, cut>>

\* INSERT INTO schema_migrations.
Record ==
    /\ phase = "record"
    /\ recorded' = recorded \cup {at}
    /\ phase' = "check" /\ at' = at + 1
    /\ UNCHANGED <<limiter, shipped, schema, seeded, stmt, cut>>

\* ensureDevSeed inserts its account unless it is there; it ignores that
\* Register refuses its devices, which have no key (devices/service.go:57), and
\* main goes on when the seed fails.
Seed ==
    /\ phase = "seed"
    /\ seeded' \in {seeded, SeedDevData \/ seeded}
    /\ phase' = "listening"
    /\ NewLimiter
    /\ UNCHANGED <<now, shipped, schema, recorded, at, stmt, cut>>

-----------------------------------------------------------------------------
\* The process is over; what is in memory is lost.
Down ==
    /\ phase' = "down"
    /\ NewLimiter
    /\ UNCHANGED <<now, shipped, schema, recorded, seeded, at, stmt>>

\* The statement fails and main ends: log.Fatalf("migration error").
Fails ==
    /\ phase = "exec" /\ Repeats
    /\ Down
    /\ UNCHANGED cut

\* The process is killed, or the deadline of a migration passes, between two
\* steps: statements of the file may have run, and the record is not written.
Interrupt ==
    /\ phase # "down"
    /\ Down
    /\ cut' = cut \cup {m \in {at} : phase = "record" \/ (phase = "exec" /\ stmt > 1)}

Serve ==
    /\ phase = "listening"
    /\ \E c \in Calls : Allow(c) \/ \E a \in Addresses : ReadClock(c, a)
    /\ UNCHANGED boot

Time == Tick /\ UNCHANGED boot

Next == \/ Deploy \/ Start \/ Check \/ Exec \/ Record \/ Seed
        \/ Fails \/ Interrupt \/ Serve \/ Time

Spec == Init /\ [][Next]_vars

-----------------------------------------------------------------------------
TypeOK ==
    /\ LimiterTypeOK
    /\ shipped \in Migrations
    /\ schema \subseteq Objects
    /\ recorded \subseteq Migrations
    /\ seeded \in BOOLEAN
    /\ phase \in Phases
    /\ at \in 1 .. Last + 1
    /\ stmt \in Nat \ {0}
    /\ phase = "exec" => at \in Migrations /\ stmt \in 1 .. Len(Statements[at])
    /\ cut \subseteq Migrations

Made(m) == \A i \in 1 .. Len(Statements[m]) : Statements[m][i] \in schema

\* Through every stop and every release, what schema_migrations says has run is
\* a beginning of the list, and it did run, to its last statement
\* (db.go:82-120).
RecordedIsMade ==
    \A m \in recorded : /\ Made(m)
                        /\ \A n \in 1 .. m : n \in recorded

\* A server that listens has every object its release knows of, whatever the
\* database it found.
ListensOnSchema == phase = "listening" => \A m \in 1 .. shipped : Made(m)

\* A start fails on a statement it cannot repeat only if an earlier one was
\* stopped between a statement of this very file and its record; a file whose
\* statements all tolerate repetition never fails (db.go:105-117).
OnlyCutOnesFail ==
    phase = "exec" /\ Repeats => at \in cut

\* A migration that is not recorded has made something it cannot make again, in an
\* earlier run than the one in progress, if there is one.
Broken ==
    \E m \in 1 .. shipped \ recorded : \E i \in 1 .. Len(Statements[m]) :
        /\ Statements[m][i] \in schema \ Tolerant
        /\ m = at => phase # "record" /\ (phase = "exec" => stmt <= i)

\* Once a migration was stopped there, no start of this or of any later release
\* succeeds: nothing undoes or skips what such a file has made (db.go:82-120).
BrokenForGood == [](Broken => [](phase # "listening"))
=============================================================================
