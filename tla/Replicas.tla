------------------------------ MODULE Replicas ------------------------------
(***************************************************************************)
(* The life of the replicas of the service (run in                         *)
(* cmd/users-service/main.go): start, migrations, serving with the         *)
(* subscription loop, shutdown by a signal, death, restart.  Composes      *)
(* Migrations and GroupConsumer.                                           *)
(***************************************************************************)
EXTENDS Migrations, GroupConsumer

CONSTANT MaxIncidents  \* bound: failures, deaths and shutdowns of the run

ASSUME ReplicasAssumption == Subscribers = Replicas /\ MaxIncidents \in Nat

VARIABLES
  phase,     \* of each process
  incidents  \* how many happened so far

vars == <<migrationVars, consumerVars, phase, incidents>>

Phases == {"down", "migrating", "serving", "stopping"}

Enter(r, p) == phase' = [phase EXCEPT ![r] = p]
Incident == incidents < MaxIncidents /\ incidents' = incidents + 1

\* Kubernetes starts the process again.
Launch(r) ==
  /\ phase[r] = "down" /\ Enter(r, "migrating") /\ Begin(r)
  /\ UNCHANGED <<consumerVars, incidents>>

Migrate(r) ==
  /\ Check(r) \/ Apply(r)
  /\ UNCHANGED <<consumerVars, phase, incidents>>

\* The loops start once the transaction is committed; a commit whose answer is
\* lost ends the process all the same.
Migrated(r) ==
  /\ Commit(r)
  /\ \/ /\ Enter(r, "serving") /\ sub' = [sub EXCEPT ![r].pc = "try"]
        /\ UNCHANGED incidents
     \/ Enter(r, "down") /\ Incident /\ UNCHANGED sub
  /\ UNCHANGED <<published, durable, handled>>

\* Mutant of GiveUp: the error is logged and the process goes on.
GiveUpLogged(r) ==
  /\ Rollback(r) /\ Enter(r, "serving")
  /\ sub' = [sub EXCEPT ![r].pc = "try"] /\ UNCHANGED <<published, durable, handled>>

\* run returns the error: the process ends.
GiveUp(r) == Rollback(r) /\ Enter(r, "down") /\ UNCHANGED consumerVars

MigrationFails(r) ==
  /\ phase[r] = "migrating"
  /\ \/ /\ mig[r].pc = "apply" /\ ~Blocked(r) /\ Collides(r)
        /\ UNCHANGED incidents
     \/ Incident
  /\ GiveUp(r)

\* SIGTERM.
Stop(r) ==
  /\ phase[r] = "serving" /\ Enter(r, "stopping") /\ Incident
  /\ UNCHANGED <<migrationVars, consumerVars>>

\* The process ends: after Serve has returned, which does not wait for the
\* subscription loop, or at any time by a crash.
End(r) ==
  /\ Enter(r, "down") /\ sub' = [sub EXCEPT ![r] = NoLoop]
  /\ UNCHANGED <<migrationVars, published, durable, handled>>
Exit(r) == phase[r] = "stopping" /\ End(r) /\ UNCHANGED incidents
Crash(r) == phase[r] \in {"serving", "stopping"} /\ Incident /\ End(r)

Loop(r) ==
  /\ \/ Subscribe(r)
     \/ durable.holder # None /\ SubscribeFails(r)
     \/ Retry(r)
  /\ UNCHANGED <<migrationVars, phase, incidents>>

Shutdown(r) ==
  /\ phase[r] = "stopping" /\ (Unsubscribe(r) \/ LeaveLoop(r))
  /\ UNCHANGED <<migrationVars, phase, incidents>>

Callback(r) ==
  /\ \/ Handle(r, TRUE)
     \/ sub[r].event \in Poison /\ HandleFails(r)
  /\ UNCHANGED <<migrationVars, phase, incidents>>

Failure(r) ==
  /\ \/ SubscribeFails(r) \/ LoseConnection(r)
     \/ Handle(r, FALSE) \/ HandleFails(r)
  /\ Incident
  /\ UNCHANGED <<migrationVars, phase>>

\* Groups and JetStream.
Announce(e) == Publish(e) /\ UNCHANGED <<migrationVars, phase, incidents>>
Push(e) ==
  /\ \E r \in Replicas : Deliver(r, e)
  /\ UNCHANGED <<migrationVars, phase, incidents>>
Notice == Unbind /\ UNCHANGED <<migrationVars, phase, incidents>>

Init ==
  /\ MigrationsInit /\ ConsumerInit
  /\ phase = [r \in Replicas |-> "down"] /\ incidents = 0

Process(r) ==
  Launch(r) \/ Migrate(r) \/ Migrated(r) \/ MigrationFails(r) \/ Exit(r)

Next ==
  \/ \E r \in Replicas :
       Process(r) \/ Loop(r) \/ Callback(r) \/ Stop(r) \/ Shutdown(r) \/ Crash(r) \/ Failure(r)
  \/ \E e \in Events : Announce(e) \/ Push(e)
  \/ Notice

Spec == Init /\ [][Next]_vars

\* Processes, their goroutines and JetStream go on; every event that may be
\* delivered again and again is delivered.
FairSpec ==
  /\ Spec
  /\ \A r \in Replicas : WF_vars(Process(r)) /\ WF_vars(Loop(r)) /\ WF_vars(Callback(r))
  /\ WF_vars(Notice)
  /\ \A e \in Events \ Poison : SF_vars(Push(e))

-----------------------------------------------------------------------------
\* The variables keep their types; a subscription that works is the one the
\* durable is bound to, so at most one replica gets the events pushed.
TypeOK ==
  /\ schema \in Seq(Nat) /\ mig \in [Replicas -> Transactions]
  /\ published \subseteq Events /\ handled \subseteq published
  /\ durable \in Durables /\ sub \in [Replicas -> Loops]
  /\ phase \in [Replicas -> Phases] /\ incidents \in 0..MaxIncidents
  /\ \A r \in Replicas : sub[r].pc = "bound" => durable.exists /\ durable.holder = r

\* A replica that serves finds the schema of its release, and a replica handles
\* events only while it serves or shuts down, so never on a schema it does not know.
ServingIsMigrated ==
  \A r \in Replicas :
    phase[r] \in {"serving", "stopping"} \/ sub[r] # NoLoop
      => \A step \in 0..Release[r] : In(step, schema)

\* When incidents cease, every replica serves, although replicas that start
\* together make each other's migrations fail.
ReplicasServe == \A r \in Replicas : <>[](phase[r] = "serving")

\* An event that can be handled is handled at last: another replica takes over
\* the durable of one that died, was shut down, or lost its connection for good,
\* and an event that can never be handled does not hold up the others.
EventsHandled ==
  \A e \in Events \ Poison : e \in published ~> e \in handled

Queue == INSTANCE EventQueue WITH
  waiting <- IF durable.exists THEN durable.pending ELSE published

\* The loops, the callbacks and the durable are a queue that drops no event before
\* it was handled: no step of a replica takes an event out of it but the one that
\* handles it, and a durable that is deleted gives all of them back.
ImplementsQueue == Queue!Spec
=============================================================================
