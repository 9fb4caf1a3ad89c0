----------------------------- MODULE Migrations -----------------------------
(***************************************************************************)
(* ApplyMigrations (internal/db/migrate.go): each replica runs, at its     *)
(* start, one transaction that applies the migrations its release knows    *)
(* and that the database has not seen.  Transactions of several replicas   *)
(* overlap: what one checked may be applied by another before it acts.     *)
(* Step 0 is the table schema_migrations itself, step v the v-th file.     *)
(***************************************************************************)
EXTENDS Naturals, Sequences

CONSTANTS
  Replicas,
  Release   \* how many migrations the release of each replica knows

ASSUME ReleaseAssumption == Release \in [Replicas -> Nat]

VARIABLES
  schema,  \* the committed steps, in the order they took effect
  mig      \* the transaction of each replica

migrationVars == <<schema, mig>>

Transactions ==
  [pc : {"none", "check", "apply", "commit"}, step : Nat, done : Seq(Nat)]
NoTransaction == [pc |-> "none", step |-> 0, done |-> <<>>]

In(step, s) == \E n \in DOMAIN s : s[n] = step

Begin(r) ==
  /\ mig' = [mig EXCEPT ![r] = [NoTransaction EXCEPT !.pc = "check"]]
  /\ UNCHANGED schema

\* Mutant of Check: committed steps are not skipped.
CheckBlindly(r) ==
  /\ mig[r].pc = "check"
  /\ mig' = [mig EXCEPT ![r].pc = IF mig[r].step > Release[r] THEN "commit" ELSE "apply"]
  /\ UNCHANGED schema

\* IF NOT EXISTS, or SELECT EXISTS of the version: sees committed steps only.
Check(r) ==
  /\ mig[r].pc = "check"
  /\ mig' = [mig EXCEPT ![r] =
       IF @.step > Release[r] THEN [mig[r] EXCEPT !.pc = "commit"]
       ELSE IF In(@.step, schema) THEN [mig[r] EXCEPT !.step = @ + 1]
       ELSE [mig[r] EXCEPT !.pc = "apply"]]
  /\ UNCHANGED schema

\* Another transaction applied the step and is not decided: its locks and its
\* entry in the unique index block whoever comes second.
Blocked(r) == \E q \in Replicas \ {r} : In(mig[r].step, mig[q].done)

\* Mutant of Collides: versions are no primary key and every file may run again.
CollidesNever(r) == FALSE

\* The step was committed since it was checked: the name or the version exists.
Collides(r) == In(mig[r].step, schema)

Apply(r) ==
  /\ mig[r].pc = "apply" /\ ~Blocked(r) /\ ~Collides(r)
  /\ mig' = [mig EXCEPT ![r] = [pc |-> "check", step |-> @.step + 1,
                                done |-> Append(@.done, @.step)]]
  /\ UNCHANGED schema

Commit(r) ==
  /\ mig[r].pc = "commit"
  /\ schema' = schema \o mig[r].done
  /\ mig' = [mig EXCEPT ![r] = NoTransaction]

\* An error, or the end of the connection.
Rollback(r) ==
  /\ mig' = [mig EXCEPT ![r] = NoTransaction]
  /\ UNCHANGED schema

MigrationsInit == schema = <<>> /\ mig = [r \in Replicas |-> NoTransaction]

-----------------------------------------------------------------------------
\* The steps of r's release, in order.
StepsOf(r) == [n \in 1..Release[r] + 1 |-> n - 1]

\* However replicas race, fail and restart, the schema is empty or that of one
\* of the releases: every file ran once, in order, and no transaction left a part.
SchemaIsSomeRelease == schema = <<>> \/ \E r \in Replicas : schema = StepsOf(r)
=============================================================================
