--------------------------- MODULE ReplicasProofs ---------------------------
(***************************************************************************)
(* Theorems about Replicas, Migrations and GroupConsumer, for any number   *)
(* of replicas of any releases, any events and any number of incidents.    *)
(***************************************************************************)
EXTENDS Replicas, SequenceTheorems, TLAPS

(***************************************************************************)
(* The consumer: the durable and the loops agree about who is bound, and   *)
(* what waits in the durable or in a callback was published.               *)
(***************************************************************************)
ConsumerTyped ==
  /\ published \subseteq Events /\ handled \subseteq published
  /\ durable \in Durables /\ durable.pending \subseteq published
  /\ durable.holder # None => durable.exists
  /\ sub \in [Subscribers -> Loops]
  /\ \A r \in Subscribers :
       /\ sub[r].event # None => sub[r].event \in published
       /\ sub[r].pc = "bound" => durable.holder = r

ConsumerInv == ConsumerTyped /\ NothingLost

(***************************************************************************)
(* The migrations: k steps are committed, 0 to k - 1.  The steps a         *)
(* transaction has done follow them, and no two transactions have done     *)
(* any: the first step is the same for both, and blocks the second.        *)
(***************************************************************************)
Sound(t, last, k) ==
  /\ t.pc = "none" => t = NoTransaction
  /\ \A n \in 1..Len(t.done) : t.done[n] = k + n - 1
  /\ t.step <= k + Len(t.done) /\ (t.done # <<>> => t.step = k + Len(t.done))
  /\ t.pc = "check" => t.step <= last + 1
  /\ t.pc = "apply" => t.step <= last
  /\ t.pc = "commit" => t.step = last + 1

Ordered(s) == \A n \in 1..Len(s) : s[n] = n - 1

OneWriter == \A r, q \in Replicas : r # q => mig[r].done = <<>> \/ mig[q].done = <<>>

MigrationInv ==
  /\ schema \in Seq(Nat) /\ mig \in [Replicas -> Transactions]
  /\ Ordered(schema) /\ OneWriter
  /\ \A r \in Replicas : Sound(mig[r], Release[r], Len(schema))
  /\ schema = <<>> \/ \E r \in Replicas : Len(schema) = Release[r] + 1

\* A process is in one of its parts at a time, and serves after its commit.
PhaseInv ==
  /\ phase \in [Replicas -> Phases] /\ incidents \in 0..MaxIncidents
  /\ \A r \in Replicas :
       /\ phase[r] = "migrating" <=> mig[r].pc # "none"
       /\ sub[r] # NoLoop => phase[r] \in {"serving", "stopping"}
       /\ phase[r] \in {"serving", "stopping"} => Release[r] < Len(schema)

-----------------------------------------------------------------------------
(* The consumer.                                                           *)

LEMMA NoLoopType == NoLoop \in Loops /\ NoLoop.pc = "off" /\ NoLoop.event = None
BY DEF NoLoop, Loops

LEMMA NoDurableType ==
  NoDurable \in Durables /\ ~NoDurable.exists /\ NoDurable.holder = None /\ NoDurable.pending = {}
BY DEF NoDurable, Durables

\* One replica holds the durable.
LEMMA OneBound ==
  ASSUME ConsumerInv, NEW r \in Subscribers, NEW q \in Subscribers,
         sub[r].pc = "bound", sub[q].pc = "bound"
  PROVE  r = q
BY DEF ConsumerInv, ConsumerTyped

\* A loop changes to l, one that is bound only if it is the holder's.
LEMMA LoopChanges ==
  ASSUME ConsumerInv, NEW r \in Subscribers, NEW l \in Loops, sub' = [sub EXCEPT ![r] = l],
         l.event # None => l.event \in published, l.pc = "bound" => sub[r].pc = "bound",
         UNCHANGED <<published, durable, handled>>
  PROVE  ConsumerInv'
<1>1. sub \in [Subscribers -> Loops]
  BY DEF ConsumerInv, ConsumerTyped
<1>2. ASSUME NEW q \in Subscribers PROVE sub'[q] = IF q = r THEN l ELSE sub[q]
  BY <1>1
<1> QED BY <1>1, <1>2 DEF ConsumerInv, ConsumerTyped, NothingLost

LEMMA GotoKeeps ==
  ASSUME ConsumerInv, NEW r \in Subscribers, NEW pc \in {"off", "try", "wait", "lost"}, Goto(r, pc),
         UNCHANGED <<published, durable, handled>>
  PROVE  ConsumerInv'
<1> DEFINE l == [sub[r] EXCEPT !.pc = pc]
<1>1. /\ sub[r] \in Loops /\ sub' = [sub EXCEPT ![r] = l]
      /\ sub[r].event # None => sub[r].event \in published
  BY DEF ConsumerInv, ConsumerTyped, Goto
<1>2. l \in Loops /\ l.event = sub[r].event /\ l.pc = pc
  BY <1>1 DEF Loops
<1> HIDE DEF l
<1> QED BY <1>1, <1>2, LoopChanges

LEMMA WaitsKeep ==
  ASSUME ConsumerInv, NEW r \in Subscribers,
         SubscribeFails(r) \/ Retry(r) \/ LeaveLoop(r) \/ LoseConnection(r)
  PROVE  ConsumerInv'
BY GotoKeeps DEF SubscribeFails, Retry, LeaveLoop, LoseConnection

\* The callback takes an event, or leaves it.
LEMMA EventKeeps ==
  ASSUME ConsumerInv, NEW r \in Subscribers, NEW e \in published \cup {None},
         sub' = [sub EXCEPT ![r].event = e], UNCHANGED <<published, durable, handled>>
  PROVE  ConsumerInv'
<1> DEFINE l == [sub[r] EXCEPT !.event = e]
<1>1. sub[r] \in Loops /\ sub' = [sub EXCEPT ![r] = l] /\ published \subseteq Events
  BY DEF ConsumerInv, ConsumerTyped
<1>2. l \in Loops /\ l.event = e /\ l.pc = sub[r].pc
  BY <1>1 DEF Loops
<1> HIDE DEF l
<1> QED BY <1>1, <1>2, LoopChanges

LEMMA DeliverKeeps ==
  ASSUME ConsumerInv, NEW r \in Subscribers, NEW e \in Events, Deliver(r, e)
  PROVE  ConsumerInv'
<1>1. e \in published
  BY DEF Deliver, ConsumerInv, ConsumerTyped
<1> QED BY <1>1, EventKeeps DEF Deliver

LEMMA HandleFailsKeeps ==
  ASSUME ConsumerInv, NEW r \in Subscribers, HandleFails(r)
  PROVE  ConsumerInv'
BY EventKeeps DEF HandleFails

\* What leaves the durable was handled in the same step.
LEMMA HandleKeeps ==
  ASSUME ConsumerInv, NEW r \in Subscribers, NEW acked \in BOOLEAN, Handle(r, acked)
  PROVE  ConsumerInv'
<1> DEFINE e == sub[r].event
           l == [sub[r] EXCEPT !.event = None]
<1>1. /\ sub[r] \in Loops /\ durable \in Durables /\ sub \in [Subscribers -> Loops]
      /\ sub' = [sub EXCEPT ![r] = l] /\ e \in published
      /\ handled' = handled \cup {e} /\ UNCHANGED published
  BY DEF ConsumerInv, ConsumerTyped, Handle
<1>2. l \in Loops /\ l.event = None /\ l.pc = sub[r].pc
  BY <1>1 DEF Loops
<1>3. /\ durable' \in Durables /\ durable'.exists = durable.exists
      /\ durable'.holder = durable.holder
      /\ durable'.pending \subseteq durable.pending /\ durable.pending \ {e} \subseteq durable'.pending
  BY <1>1 DEF Handle, Durables
<1> HIDE DEF e, l
<1>4. ASSUME NEW q \in Subscribers PROVE sub'[q] = IF q = r THEN l ELSE sub[q]
  BY <1>1
<1>5. ConsumerTyped'
  BY <1>1, <1>2, <1>3, <1>4 DEF ConsumerInv, ConsumerTyped
<1>6. NothingLost'
  BY <1>1, <1>3 DEF ConsumerInv, NothingLost
<1> QED BY <1>5, <1>6 DEF ConsumerInv

LEMMA PublishKeeps ==
  ASSUME ConsumerInv, NEW e \in Events, Publish(e)
  PROVE  ConsumerInv'
<1>1. published' = published \cup {e} /\ UNCHANGED <<handled, sub>> /\ durable \in Durables
  BY DEF Publish, ConsumerInv, ConsumerTyped
<1>2. /\ durable' \in Durables /\ durable'.exists = durable.exists
      /\ durable'.holder = durable.holder
      /\ durable'.pending = IF durable.exists THEN durable.pending \cup {e} ELSE durable.pending
  BY <1>1 DEF Publish, Durables
<1> QED BY <1>1, <1>2 DEF ConsumerInv, ConsumerTyped, NothingLost

\* A new durable has everything to deliver.
LEMMA SubscribeKeeps ==
  ASSUME ConsumerInv, NEW r \in Subscribers, Subscribe(r)
  PROVE  ConsumerInv'
<1> DEFINE l == [sub[r] EXCEPT !.pc = "bound", !.created = ~durable.exists]
<1>1. /\ sub[r] \in Loops /\ durable \in Durables /\ sub \in [Subscribers -> Loops]
      /\ sub' = [sub EXCEPT ![r] = l] /\ durable.holder = None
      /\ UNCHANGED <<published, handled>>
  BY DEF ConsumerInv, ConsumerTyped, Subscribe
<1>2. durable.exists \in BOOLEAN
  BY <1>1 DEF Durables
<1>3. l \in Loops /\ l.event = sub[r].event
  BY <1>1, <1>2 DEF Loops
<1> HIDE DEF l
<1>4. ASSUME NEW q \in Subscribers PROVE sub'[q] = IF q = r THEN l ELSE sub[q]
  BY <1>1
<1>5. ASSUME NEW q \in Subscribers, q # r PROVE sub[q].pc # "bound"
  BY <1>1, EventsAssumption DEF ConsumerInv, ConsumerTyped
<1> DEFINE pending == IF durable.exists THEN durable.pending ELSE published
<1>6. durable' = [exists |-> TRUE, holder |-> r, pending |-> pending]
  BY DEF Subscribe, Replayed
<1>7. pending \subseteq published /\ published \ handled \subseteq pending /\ published \subseteq Events
  BY DEF ConsumerInv, ConsumerTyped, NothingLost
<1> HIDE DEF pending
<1>8. /\ durable' \in Durables /\ durable'.exists /\ durable'.holder = r /\ durable'.pending = pending
  BY <1>6, <1>7 DEF Durables
<1>9. ConsumerTyped'
  BY <1>1, <1>3, <1>4, <1>5, <1>7, <1>8 DEF ConsumerInv, ConsumerTyped
<1>10. NothingLost'
  BY <1>1, <1>7, <1>8 DEF NothingLost
<1> QED BY <1>9, <1>10 DEF ConsumerInv

\* A durable that is deleted starts again from the first event.
LEMMA UnsubscribeKeeps ==
  ASSUME ConsumerInv, NEW r \in Subscribers, Unsubscribe(r)
  PROVE  ConsumerInv'
<1> DEFINE l == [sub[r] EXCEPT !.pc = "off"]
<1>1. /\ sub[r] \in Loops /\ durable \in Durables /\ sub \in [Subscribers -> Loops]
      /\ sub' = [sub EXCEPT ![r] = l] /\ UNCHANGED <<published, handled>>
  BY DEF ConsumerInv, ConsumerTyped, Unsubscribe, Goto
<1>2. l \in Loops /\ l.event = sub[r].event /\ l.pc = "off"
  BY <1>1 DEF Loops
<1> HIDE DEF l
<1>3. ASSUME NEW q \in Subscribers
      PROVE  sub'[q].pc # "bound" /\ sub'[q].event = sub[q].event
  BY <1>1, <1>2, OneBound DEF Unsubscribe
<1>4. /\ durable' \in Durables /\ durable'.holder = None
      /\ \/ durable' = NoDurable
         \/ durable'.exists = durable.exists /\ durable'.pending = durable.pending
  BY <1>1, NoDurableType DEF Unsubscribe, Durables
<1>5. sub' \in [Subscribers -> Loops]
  BY <1>1, <1>2
<1> QED
  BY <1>1, <1>3, <1>4, <1>5, NoDurableType DEF ConsumerInv, ConsumerTyped, NothingLost

LEMMA UnbindKeeps == ConsumerInv /\ Unbind => ConsumerInv'
<1> SUFFICES ASSUME ConsumerInv, Unbind PROVE ConsumerInv'
  OBVIOUS
<1>1. PICK r \in Subscribers : durable.holder = r /\ sub[r].pc # "bound"
  BY DEF Unbind
<1>2. durable \in Durables /\ UNCHANGED <<published, handled, sub>>
  BY DEF ConsumerInv, ConsumerTyped, Unbind
<1>3. /\ durable' \in Durables /\ durable'.holder = None
      /\ durable'.exists = durable.exists /\ durable'.pending = durable.pending
  BY <1>2 DEF Unbind, Durables
<1> QED BY <1>1, <1>2, <1>3 DEF ConsumerInv, ConsumerTyped, NothingLost

-----------------------------------------------------------------------------
(* The migrations.                                                         *)

LEMMA NoTransactionType ==
  /\ NoTransaction \in Transactions /\ NoTransaction.pc = "none"
  /\ NoTransaction.step = 0 /\ NoTransaction.done = <<>> /\ Len(NoTransaction.done) = 0
BY EmptySeq DEF NoTransaction, Transactions

\* What MigrationInv says of r.
LEMMA TransactionType ==
  ASSUME MigrationInv, NEW r \in Replicas
  PROVE  /\ mig[r] \in Transactions /\ mig[r].step \in Nat /\ mig[r].done \in Seq(Nat)
         /\ Sound(mig[r], Release[r], Len(schema))
         /\ Len(schema) \in Nat /\ Len(mig[r].done) \in Nat /\ Release[r] \in Nat
         /\ mig[r].done = <<>> => Len(mig[r].done) = 0
BY LenProperties, ReleaseAssumption DEF MigrationInv, Transactions

\* The steps of an ordered sequence are those below its length.
LEMMA OrderedSteps ==
  ASSUME NEW s \in Seq(Nat), Ordered(s), NEW v \in Nat
  PROVE  In(v, s) <=> v < Len(s)
<1>1. Len(s) \in Nat /\ DOMAIN s = 1..Len(s)
  BY LenProperties
<1>2. ASSUME v < Len(s) PROVE In(v, s)
  <2>1. v + 1 \in DOMAIN s /\ s[v + 1] = v
    BY <1>1, <1>2 DEF Ordered
  <2> QED BY <2>1 DEF In
<1> QED BY <1>1, <1>2 DEF In, Ordered

\* A transaction changes to t, one that has done something only if no other has.
LEMMA TransactionChanges ==
  ASSUME MigrationInv, NEW r \in Replicas, NEW t \in Transactions,
         mig' = [mig EXCEPT ![r] = t], UNCHANGED schema, Sound(t, Release[r], Len(schema)),
         t.done = <<>> \/ \A q \in Replicas \ {r} : mig[q].done = <<>>
  PROVE  MigrationInv'
<1>1. mig' \in [Replicas -> Transactions]
  BY DEF MigrationInv
<1>2. ASSUME NEW q \in Replicas PROVE mig'[q] = IF q = r THEN t ELSE mig[q]
  BY DEF MigrationInv
<1>3. \A q \in Replicas : Sound(mig'[q], Release[q], Len(schema))
  BY <1>2 DEF MigrationInv
<1>4. OneWriter'
  BY <1>2 DEF MigrationInv, OneWriter
<1> QED BY <1>1, <1>3, <1>4 DEF MigrationInv

LEMMA BeginKeeps == ASSUME MigrationInv, NEW r \in Replicas, Begin(r) PROVE MigrationInv'
<1> DEFINE t == [NoTransaction EXCEPT !.pc = "check"]
<1>1. /\ t \in Transactions /\ t.pc = "check" /\ t.step = 0 /\ t.done = <<>>
      /\ mig' = [mig EXCEPT ![r] = t] /\ UNCHANGED schema
  BY EmptySeq DEF Begin, NoTransaction, Transactions
<1> HIDE DEF t
<1>2. Len(t.done) = 0
  BY <1>1, EmptySeq
<1>3. Sound(t, Release[r], Len(schema))
  BY <1>1, <1>2, TransactionType DEF Sound
<1> QED BY <1>1, <1>3, TransactionChanges

LEMMA RollbackKeeps == ASSUME MigrationInv, NEW r \in Replicas, Rollback(r) PROVE MigrationInv'
<1>1. Sound(NoTransaction, Release[r], Len(schema))
  BY NoTransactionType, TransactionType DEF Sound
<1> QED BY <1>1, NoTransactionType, TransactionChanges DEF Rollback

\* A step that is skipped is committed, so nothing was done before it.
LEMMA CheckKeeps == ASSUME MigrationInv, NEW r \in Replicas, Check(r) PROVE MigrationInv'
<1> DEFINE v == mig[r].step
           k == Len(schema)
<1>1. /\ mig[r] \in Transactions /\ mig[r].pc = "check" /\ v \in Nat /\ k \in Nat
      /\ Sound(mig[r], Release[r], k) /\ Len(mig[r].done) \in Nat /\ Release[r] \in Nat
      /\ mig[r].done = <<>> => Len(mig[r].done) = 0
  BY TransactionType DEF Check
<1>2. ASSUME NEW t \in Transactions, mig' = [mig EXCEPT ![r] = t], t.done = mig[r].done,
             t.step = v \/ (t.step = v + 1 /\ v < k),
             \/ t.pc = "check" /\ t.step <= Release[r] + 1
             \/ t.pc = "apply" /\ t.step <= Release[r]
             \/ t.pc = "commit" /\ t.step = Release[r] + 1
      PROVE  MigrationInv'
  <2>1. t.step <= k + Len(t.done) /\ (t.done # <<>> => t.step = k + Len(t.done))
    BY <1>1, <1>2 DEF Sound
  <2>2. Sound(t, Release[r], k)
    BY <1>1, <1>2, <2>1 DEF Sound
  <2>3. t.done = <<>> \/ \A q \in Replicas \ {r} : mig[q].done = <<>>
    BY <1>2 DEF MigrationInv, OneWriter
  <2> QED BY <1>2, <2>2, <2>3, TransactionChanges DEF Check
<1>3. CASE v > Release[r]
  <2> DEFINE t == [mig[r] EXCEPT !.pc = "commit"]
  <2>1. mig' = [mig EXCEPT ![r] = t]
    BY <1>3 DEF Check
  <2>2. t \in Transactions /\ t.pc = "commit" /\ t.step = v /\ t.done = mig[r].done
    BY <1>1 DEF Transactions
  <2>3. v = Release[r] + 1
    BY <1>1, <1>3 DEF Sound
  <2> HIDE DEF t
  <2> QED BY <1>2, <2>1, <2>2, <2>3
<1>4. CASE v <= Release[r] /\ In(v, schema)
  <2> DEFINE t == [mig[r] EXCEPT !.step = v + 1]
  <2>1. mig' = [mig EXCEPT ![r] = t]
    <3>1. ~(mig[r].step > Release[r])
      BY <1>1, <1>4
    <3> QED BY <1>4, <3>1 DEF Check
  <2>2. t \in Transactions /\ t.pc = "check" /\ t.step = v + 1 /\ t.done = mig[r].done
    BY <1>1 DEF Transactions
  <2>3. v < k
    BY <1>1, <1>4, OrderedSteps DEF MigrationInv
  <2>4. v + 1 <= Release[r] + 1
    BY <1>1, <1>4
  <2> HIDE DEF t, v, k
  <2> QED BY <1>2, <2>1, <2>2, <2>3, <2>4
<1>5. CASE v <= Release[r] /\ ~In(v, schema)
  <2> DEFINE t == [mig[r] EXCEPT !.pc = "apply"]
  <2>1. mig' = [mig EXCEPT ![r] = t]
    <3>1. ~(mig[r].step > Release[r])
      BY <1>1, <1>5
    <3> QED BY <1>5, <3>1 DEF Check
  <2>2. t \in Transactions /\ t.pc = "apply" /\ t.step = v /\ t.done = mig[r].done
    BY <1>1 DEF Transactions
  <2> HIDE DEF t
  <2> QED BY <1>2, <1>5, <2>1, <2>2
<1> QED BY <1>1, <1>3, <1>4, <1>5

\* A step that is applied is the next after those committed and those done; a
\* transaction that has done something blocks it.
LEMMA ApplyKeeps == ASSUME MigrationInv, NEW r \in Replicas, Apply(r) PROVE MigrationInv'
<1> DEFINE v == mig[r].step
           k == Len(schema)
           d == mig[r].done
           t == [pc |-> "check", step |-> v + 1, done |-> Append(d, v)]
<1>1. /\ mig[r] \in Transactions /\ mig[r].pc = "apply" /\ v \in Nat /\ k \in Nat
      /\ Sound(mig[r], Release[r], k) /\ d \in Seq(Nat) /\ Len(d) \in Nat /\ Release[r] \in Nat
      /\ d = <<>> => Len(d) = 0
      /\ ~Collides(r) /\ ~Blocked(r) /\ UNCHANGED schema
  BY TransactionType DEF Apply
<1>2. mig' = [mig EXCEPT ![r] = t]
  BY DEF Apply
<1>3. v = k + Len(d)
  <2>1. ~(v < k)
    BY <1>1, OrderedSteps DEF Collides, MigrationInv
  <2> QED BY <1>1, <2>1 DEF Sound
<1>4. /\ Append(d, v) \in Seq(Nat) /\ Append(d, v) # <<>> /\ Len(Append(d, v)) = Len(d) + 1
      /\ \A n \in 1..Len(d) : Append(d, v)[n] = d[n]
      /\ Append(d, v)[Len(d) + 1] = v
  BY <1>1, AppendProperties
<1>5. t \in Transactions /\ t.pc = "check" /\ t.step = v + 1 /\ t.done = Append(d, v)
  BY <1>1, <1>4 DEF Transactions
<1> HIDE DEF t
<1>6. \A n \in 1..Len(t.done) : t.done[n] = k + n - 1
  <2> SUFFICES ASSUME NEW n \in 1..Len(d) + 1 PROVE Append(d, v)[n] = k + n - 1
    BY <1>1, <1>4, <1>5
  <2>1. CASE n = Len(d) + 1
    BY <1>1, <1>3, <1>4, <2>1
  <2>2. CASE n \in 1..Len(d)
    BY <1>1, <1>4, <2>2 DEF Sound
  <2> QED BY <1>1, <2>1, <2>2
<1>7. Sound(t, Release[r], k)
  <2>1. t.step = k + Len(t.done) /\ t.step \in Nat
    BY <1>1, <1>3, <1>4, <1>5
  <2>2. v <= Release[r]
    BY <1>1 DEF Sound
  <2>3. t.step <= Release[r] + 1
    BY <1>1, <1>5, <2>2
  <2> HIDE DEF v, k, d
  <2> QED BY <1>5, <1>6, <2>1, <2>3 DEF Sound
<1>8. ASSUME NEW q \in Replicas \ {r}, mig[q].done # <<>> PROVE FALSE
  <2>1. d = <<>>
    BY <1>8 DEF MigrationInv, OneWriter
  <2>2. mig[q].done \in Seq(Nat) /\ Sound(mig[q], Release[q], k)
    BY TransactionType
  <2>3. Len(mig[q].done) \in Nat \ {0} /\ DOMAIN mig[q].done = 1..Len(mig[q].done)
    BY <1>8, <2>2, EmptySeq, LenProperties
  <2>4. 1 \in DOMAIN mig[q].done /\ mig[q].done[1] = v
    BY <1>1, <1>3, <2>1, <2>2, <2>3 DEF Sound
  <2> QED BY <1>1, <2>4 DEF Blocked, In
<1> QED BY <1>1, <1>2, <1>5, <1>7, <1>8, TransactionChanges

\* What is committed continues what was, up to the release; the others had
\* done nothing if anything is committed.
LEMMA CommitKeeps ==
  ASSUME MigrationInv, NEW r \in Replicas, Commit(r)
  PROVE  /\ MigrationInv'
         /\ Len(schema) <= Len(schema') /\ Release[r] < Len(schema')
<1> DEFINE k == Len(schema)
           d == mig[r].done
<1>1. /\ mig[r].pc = "commit" /\ k \in Nat /\ Sound(mig[r], Release[r], k) /\ mig[r].step \in Nat
      /\ schema \in Seq(Nat) /\ d \in Seq(Nat) /\ Len(d) \in Nat /\ Release[r] \in Nat
      /\ d = <<>> => Len(d) = 0
  BY TransactionType DEF Commit, MigrationInv
<1>2. schema' = schema \o d /\ mig' = [mig EXCEPT ![r] = NoTransaction]
  BY DEF Commit
<1>3. /\ schema' \in Seq(Nat) /\ Len(schema') = k + Len(d)
      /\ \A n \in 1..k + Len(d) : schema'[n] = IF n <= k THEN schema[n] ELSE d[n - k]
  BY <1>1, <1>2, ConcatProperties
<1>4. Ordered(schema')
  <2> SUFFICES ASSUME NEW n \in 1..k + Len(d) PROVE schema'[n] = n - 1
    BY <1>3 DEF Ordered
  <2>1. CASE n <= k
    BY <1>1, <1>3, <2>1 DEF MigrationInv, Ordered
  <2>2. CASE n > k
    <3>1. n - k \in 1..Len(d) /\ n \in Nat
      BY <1>1, <2>2
    <3>2. d[n - k] = k + (n - k) - 1
      BY <1>1, <3>1 DEF Sound
    <3> QED BY <1>1, <1>3, <2>2, <3>1, <3>2
  <2> QED BY <1>1, <2>1, <2>2
<1>5. /\ mig[r].step = Release[r] + 1 /\ mig[r].step <= k + Len(d)
      /\ d # <<>> => mig[r].step = k + Len(d)
  BY <1>1 DEF Sound
<1>6. Len(schema) <= Len(schema') /\ Release[r] < Len(schema')
  <2>1. ASSUME NEW n \in Nat, n = k + Len(d) PROVE k <= n /\ Release[r] < n
    BY <1>1, <1>5, <2>1
  <2> QED BY <1>1, <1>3, <2>1
<1>7. d # <<>> => Len(schema') = Release[r] + 1
  BY <1>1, <1>3, <1>5
<1>8. d = <<>> => schema' = schema
  BY <1>1, <1>2, ConcatEmptySeq
<1>9. mig' \in [Replicas -> Transactions] /\ mig'[r] = NoTransaction
      /\ \A q \in Replicas \ {r} : mig'[q] = mig[q]
  BY <1>2, NoTransactionType DEF MigrationInv
<1>10. OneWriter'
  BY <1>9, NoTransactionType DEF MigrationInv, OneWriter
<1>11. ASSUME NEW q \in Replicas PROVE Sound(mig'[q], Release[q], Len(schema'))
  <2>1. CASE q = r
    <3>1. Len(schema') \in Nat /\ Release[q] \in Nat
      BY <1>3, LenProperties, ReleaseAssumption
    <3> QED BY <1>9, <2>1, <3>1, NoTransactionType DEF Sound
  <2>2. CASE q # r /\ d = <<>>
    BY <1>8, <1>9, <2>2 DEF MigrationInv
  <2>3. CASE q # r /\ d # <<>>
    <3>1. /\ mig'[q] = mig[q] /\ mig[q].done = <<>> /\ Sound(mig[q], Release[q], k)
          /\ mig[q].step \in Nat /\ Len(mig[q].done) = 0
      BY <1>9, <2>3, TransactionType DEF MigrationInv, OneWriter
    <3>2. mig[q].step <= Len(schema')
      <4>1. mig[q].step <= k + Len(mig[q].done)
        BY <3>1 DEF Sound
      <4>2. mig[q].step <= k
        BY <1>1, <3>1, <4>1
      <4> QED BY <1>1, <1>3, <1>6, <3>1, <4>2
    <3>3. Len(schema') \in Nat
      BY <1>1, <1>3
    <3> DEFINE n == Len(schema')
    <3> HIDE DEF n, d, k
    <3> SUFFICES Sound(mig[q], Release[q], n)
      BY <3>1 DEF n
    <3>4. n \in Nat /\ mig[q].step <= n + Len(mig[q].done)
      BY <3>1, <3>2, <3>3 DEF n
    <3> QED BY <3>1, <3>4 DEF Sound
  <2> QED BY <2>1, <2>2, <2>3
<1>12. schema' = <<>> \/ \E q \in Replicas : Len(schema') = Release[q] + 1
  BY <1>7, <1>8 DEF MigrationInv
<1> QED BY <1>3, <1>4, <1>6, <1>9, <1>10, <1>11, <1>12 DEF MigrationInv

-----------------------------------------------------------------------------
(* The processes.                                                          *)

ReplicasInv == ConsumerInv /\ MigrationInv /\ PhaseInv

LEMMA IncidentTyped ==
  ASSUME PhaseInv, Incident \/ UNCHANGED incidents
  PROVE  incidents' \in 0..MaxIncidents
BY ReplicasAssumption DEF PhaseInv, Incident

\* The loop and the callback of r run, or those of nobody.
LEMMA LoopStep ==
  ASSUME ReplicasInv, NEW r \in Replicas, sub[r] # NoLoop,
         \A q \in Replicas \ {r} : sub'[q] = sub[q],
         UNCHANGED <<migrationVars, phase>>, Incident \/ UNCHANGED incidents, ConsumerInv'
  PROVE  ReplicasInv'
<1>1. PhaseInv'
  BY IncidentTyped DEF ReplicasInv, PhaseInv, migrationVars
<1>2. MigrationInv'
  BY DEF ReplicasInv, MigrationInv, OneWriter, migrationVars
<1> QED BY <1>1, <1>2 DEF ReplicasInv

LEMMA EventStep ==
  ASSUME ReplicasInv, UNCHANGED <<migrationVars, phase, incidents, sub>>, ConsumerInv'
  PROVE  ReplicasInv'
BY DEF ReplicasInv, PhaseInv, MigrationInv, OneWriter, migrationVars

\* Only a loop that runs does anything.
LEMMA LoopRuns ==
  ASSUME ReplicasInv, NEW r \in Replicas,
         \/ Subscribe(r) \/ SubscribeFails(r) \/ Retry(r) \/ Unsubscribe(r) \/ LeaveLoop(r)
         \/ LoseConnection(r) \/ HandleFails(r)
         \/ \E acked \in BOOLEAN : Handle(r, acked)
         \/ \E e \in Events : Deliver(r, e)
  PROVE  /\ sub[r] # NoLoop /\ ConsumerInv'
         /\ \A q \in Replicas \ {r} : sub'[q] = sub[q]
<1>1. r \in Subscribers /\ ConsumerInv
  BY ReplicasAssumption DEF ReplicasInv
<1>2. sub[r].pc # "off" \/ sub[r].event # None
  BY DEF Subscribe, SubscribeFails, Retry, Unsubscribe, LeaveLoop, LoseConnection, HandleFails,
         Handle, Deliver
<1>3. \E l : sub' = [sub EXCEPT ![r] = l]
  BY DEF Subscribe, SubscribeFails, Retry, Unsubscribe, LeaveLoop, LoseConnection, HandleFails,
         Handle, Deliver, Goto
<1>4. sub \in [Replicas -> Loops]
  BY ReplicasAssumption DEF ReplicasInv, ConsumerInv, ConsumerTyped
<1>5. \A q \in Replicas \ {r} : sub'[q] = sub[q]
  BY <1>3, <1>4
<1>6. ConsumerInv'
  BY <1>1, SubscribeKeeps, WaitsKeep, UnsubscribeKeeps, HandleFailsKeeps, HandleKeeps, DeliverKeeps
<1> QED BY <1>2, <1>5, <1>6, NoLoopType

LEMMA RunsKeep ==
  ASSUME ReplicasInv, NEW r \in Replicas,
         \/ Loop(r) \/ Callback(r) \/ Shutdown(r) \/ Failure(r)
         \/ \E e \in Events : Deliver(r, e) /\ UNCHANGED <<migrationVars, phase, incidents>>
  PROVE  ReplicasInv'
<1>1. /\ \/ Subscribe(r) \/ SubscribeFails(r) \/ Retry(r) \/ Unsubscribe(r) \/ LeaveLoop(r)
         \/ LoseConnection(r) \/ HandleFails(r)
         \/ \E acked \in BOOLEAN : Handle(r, acked)
         \/ \E e \in Events : Deliver(r, e)
      /\ UNCHANGED <<migrationVars, phase>> /\ (Incident \/ UNCHANGED incidents)
  BY DEF Loop, Callback, Shutdown, Failure
<1>2. sub[r] # NoLoop /\ ConsumerInv' /\ \A q \in Replicas \ {r} : sub'[q] = sub[q]
  BY <1>1, LoopRuns
<1> QED BY <1>1, <1>2, LoopStep

LEMMA EventsKeep ==
  ASSUME ReplicasInv, Notice \/ \E e \in Events : Announce(e) \/ Push(e)
  PROVE  ReplicasInv'
<1>1. ConsumerInv
  BY DEF ReplicasInv
<1>2. CASE Notice
  BY <1>1, <1>2, UnbindKeeps, EventStep DEF Notice, Unbind
<1>3. ASSUME NEW e \in Events, Announce(e) PROVE ReplicasInv'
  BY <1>1, <1>3, PublishKeeps, EventStep DEF Announce, Publish
<1>4. ASSUME NEW e \in Events, Push(e) PROVE ReplicasInv'
  BY <1>4, RunsKeep DEF Push
<1> QED BY <1>2, <1>3, <1>4

LEMMA LaunchKeeps == ASSUME ReplicasInv, NEW r \in Replicas, Launch(r) PROVE ReplicasInv'
<1>1. /\ phase[r] = "down" /\ phase' = [phase EXCEPT ![r] = "migrating"]
      /\ UNCHANGED <<consumerVars, incidents, schema>> /\ MigrationInv'
  BY BeginKeeps DEF Launch, Enter, Begin, ReplicasInv
<1>2. ConsumerInv'
  BY <1>1 DEF ReplicasInv, ConsumerInv, ConsumerTyped, NothingLost, consumerVars
<1>3. mig'[r].pc = "check" /\ \A q \in Replicas \ {r} : mig'[q] = mig[q]
  BY DEF Launch, Begin, NoTransaction, ReplicasInv, MigrationInv
<1>4. PhaseInv'
  BY <1>1, <1>3 DEF ReplicasInv, PhaseInv, Phases, consumerVars
<1> QED BY <1>1, <1>2, <1>4 DEF ReplicasInv

LEMMA MigrateKeeps == ASSUME ReplicasInv, NEW r \in Replicas, Migrate(r) PROVE ReplicasInv'
<1>1. UNCHANGED <<consumerVars, phase, incidents, schema>> /\ MigrationInv'
  BY CheckKeeps, ApplyKeeps DEF Migrate, Check, Apply, ReplicasInv
<1>2. ConsumerInv'
  BY <1>1 DEF ReplicasInv, ConsumerInv, ConsumerTyped, NothingLost, consumerVars
<1>3. mig[r] \in Transactions /\ mig \in [Replicas -> Transactions]
  BY DEF ReplicasInv, MigrationInv
<1>4. mig[r].pc # "none" /\ mig'[r].pc # "none" /\ \A q \in Replicas \ {r} : mig'[q] = mig[q]
  BY <1>3 DEF Migrate, Check, Apply, Transactions
<1>5. PhaseInv'
  BY <1>1, <1>4 DEF ReplicasInv, PhaseInv, consumerVars
<1> QED BY <1>1, <1>2, <1>5 DEF ReplicasInv

\* The transaction is gone, and the process ends or serves.
LEMMA MigratedKeeps == ASSUME ReplicasInv, NEW r \in Replicas, Migrated(r) PROVE ReplicasInv'
<1> DEFINE l == [sub[r] EXCEPT !.pc = "try"]
<1>1. /\ MigrationInv' /\ Len(schema) <= Len(schema') /\ Release[r] < Len(schema')
      /\ mig[r].pc = "commit" /\ UNCHANGED <<published, durable, handled>>
  BY CommitKeeps DEF Migrated, ReplicasInv, Commit
<1>2. sub[r] = NoLoop /\ phase[r] = "migrating" /\ r \in Subscribers
  BY <1>1, ReplicasAssumption DEF ReplicasInv, PhaseInv
<1>3. /\ sub \in [Replicas -> Loops] /\ mig \in [Replicas -> Transactions]
      /\ phase \in [Replicas -> Phases]
  BY ReplicasAssumption DEF ReplicasInv, ConsumerInv, ConsumerTyped, MigrationInv, PhaseInv
<1>4. l \in Loops /\ l.event = None /\ l.pc = "try"
  BY <1>2, NoLoopType DEF Loops
<1>5. mig'[r].pc = "none" /\ \A q \in Replicas \ {r} : mig'[q] = mig[q]
  BY <1>3, NoTransactionType DEF Migrated, Commit
<1>6. /\ \/ sub' = [sub EXCEPT ![r] = l] /\ phase' = [phase EXCEPT ![r] = "serving"]
         \/ sub' = sub /\ phase' = [phase EXCEPT ![r] = "down"]
      /\ Incident \/ UNCHANGED incidents
  BY DEF Migrated, Enter
<1> HIDE DEF l
<1>7. ConsumerInv'
  <2>1. CASE sub' = [sub EXCEPT ![r] = l]
    BY <1>1, <1>2, <1>4, <2>1, LoopChanges DEF ReplicasInv
  <2>2. CASE sub' = sub
    BY <1>1, <2>2 DEF ReplicasInv, ConsumerInv, ConsumerTyped, NothingLost
  <2> QED BY <1>6, <2>1, <2>2
<1>8. /\ phase' \in [Replicas -> Phases] /\ phase'[r] \in {"serving", "down"}
      /\ sub'[r] # NoLoop => phase'[r] = "serving"
      /\ \A q \in Replicas \ {r} : sub'[q] = sub[q] /\ phase'[q] = phase[q]
  BY <1>2, <1>3, <1>6 DEF Phases
<1>9. ASSUME NEW q \in Replicas, Release[q] < Len(schema) PROVE Release[q] < Len(schema')
  <2>1. Release[q] \in Nat /\ Len(schema) \in Nat /\ Len(schema') \in Nat
    BY <1>1, LenProperties, ReleaseAssumption DEF ReplicasInv, MigrationInv
  <2> QED BY <1>1, <1>9, <2>1
<1>10. PhaseInv'
  BY <1>1, <1>5, <1>6, <1>8, <1>9, IncidentTyped DEF ReplicasInv, PhaseInv
<1> QED BY <1>1, <1>7, <1>10 DEF ReplicasInv

LEMMA MigrationFailsKeeps ==
  ASSUME ReplicasInv, NEW r \in Replicas, MigrationFails(r)
  PROVE  ReplicasInv'
<1>1. /\ phase[r] = "migrating" /\ phase' = [phase EXCEPT ![r] = "down"]
      /\ UNCHANGED <<consumerVars, schema>> /\ (Incident \/ UNCHANGED incidents) /\ MigrationInv'
  BY RollbackKeeps DEF MigrationFails, GiveUp, Enter, Rollback, ReplicasInv
<1>2. ConsumerInv'
  BY <1>1 DEF ReplicasInv, ConsumerInv, ConsumerTyped, NothingLost, consumerVars
<1>3. mig'[r].pc = "none" /\ \A q \in Replicas \ {r} : mig'[q] = mig[q]
  BY NoTransactionType DEF MigrationFails, GiveUp, Rollback, ReplicasInv, MigrationInv
<1>4. PhaseInv'
  BY <1>1, <1>3, IncidentTyped DEF ReplicasInv, PhaseInv, Phases, consumerVars
<1> QED BY <1>1, <1>2, <1>4 DEF ReplicasInv

LEMMA StopKeeps == ASSUME ReplicasInv, NEW r \in Replicas, Stop(r) PROVE ReplicasInv'
<1>1. /\ phase[r] = "serving" /\ phase' = [phase EXCEPT ![r] = "stopping"]
      /\ UNCHANGED <<migrationVars, consumerVars>> /\ Incident
  BY DEF Stop, Enter
<1>2. ConsumerInv' /\ MigrationInv'
  BY <1>1 DEF ReplicasInv, ConsumerInv, ConsumerTyped, NothingLost, consumerVars,
              MigrationInv, OneWriter, migrationVars
<1>3. PhaseInv'
  BY <1>1, IncidentTyped DEF ReplicasInv, PhaseInv, Phases, consumerVars, migrationVars
<1> QED BY <1>2, <1>3 DEF ReplicasInv

LEMMA EndKeeps == ASSUME ReplicasInv, NEW r \in Replicas, Exit(r) \/ Crash(r) PROVE ReplicasInv'
<1>1. /\ phase[r] \in {"serving", "stopping"} /\ phase' = [phase EXCEPT ![r] = "down"]
      /\ sub' = [sub EXCEPT ![r] = NoLoop] /\ UNCHANGED <<migrationVars, published, durable, handled>>
      /\ Incident \/ UNCHANGED incidents
  BY DEF Exit, Crash, End, Enter
<1>2. r \in Subscribers /\ sub \in [Replicas -> Loops]
  BY ReplicasAssumption DEF ReplicasInv, ConsumerInv, ConsumerTyped
<1>3. ConsumerInv'
  BY <1>1, <1>2, NoLoopType, LoopChanges DEF ReplicasInv
<1>4. MigrationInv'
  BY <1>1 DEF ReplicasInv, MigrationInv, OneWriter, migrationVars
<1>5. PhaseInv'
  BY <1>1, <1>2, IncidentTyped DEF ReplicasInv, PhaseInv, Phases, migrationVars
<1> QED BY <1>3, <1>4, <1>5 DEF ReplicasInv

LEMMA NextKeeps == ReplicasInv /\ [Next]_vars => ReplicasInv'
<1> SUFFICES ASSUME ReplicasInv, [Next]_vars PROVE ReplicasInv'
  OBVIOUS
<1>1. CASE UNCHANGED vars
  BY <1>1 DEF vars, consumerVars, migrationVars, ReplicasInv, PhaseInv, MigrationInv, OneWriter,
              ConsumerInv, ConsumerTyped, NothingLost
<1> QED
  BY <1>1, LaunchKeeps, MigrateKeeps, MigratedKeeps, MigrationFailsKeeps, StopKeeps, EndKeeps,
     RunsKeep, EventsKeep
  DEF Next, Process

LEMMA InitKeeps == Init => ReplicasInv
<1> SUFFICES ASSUME Init PROVE ReplicasInv
  OBVIOUS
<1>1. ConsumerInv
  BY NoLoopType, NoDurableType DEF Init, ConsumerInit, ConsumerInv, ConsumerTyped, NothingLost
<1>2. schema = <<>> /\ Len(schema) = 0 /\ schema \in Seq(Nat)
  BY EmptySeq DEF Init, MigrationsInit
<1>3. ASSUME NEW r \in Replicas PROVE mig[r] = NoTransaction /\ Sound(mig[r], Release[r], Len(schema))
  BY <1>2, NoTransactionType DEF Init, MigrationsInit, Sound
<1>4. MigrationInv
  BY <1>2, <1>3, NoTransactionType
  DEF Init, MigrationsInit, MigrationInv, OneWriter, Ordered
<1>5. PhaseInv
  BY <1>3, NoTransactionType, ReplicasAssumption DEF Init, PhaseInv, Phases, ConsumerInit
<1> QED BY <1>1, <1>4, <1>5 DEF ReplicasInv

LEMMA Kept == Spec => []ReplicasInv
BY InitKeeps, NextKeeps, PTL DEF Spec

-----------------------------------------------------------------------------
(* The theorems.                                                           *)

\* The variables keep their types, and a subscription that works is the one the
\* durable is bound to, so two replicas never get the events pushed together
\* (the durable name of StartGroupMembershipConsumer).
THEOREM TypeCorrect == Spec => []TypeOK
<1>1. ReplicasInv => TypeOK
  <2> SUFFICES ASSUME ReplicasInv PROVE TypeOK
    OBVIOUS
  <2>1. ASSUME NEW r \in Replicas, sub[r].pc = "bound"
        PROVE  durable.exists /\ durable.holder = r
    BY <2>1, ReplicasAssumption, EventsAssumption DEF ReplicasInv, ConsumerInv, ConsumerTyped
  <2> QED
    BY <2>1, ReplicasAssumption
    DEF ReplicasInv, ConsumerInv, ConsumerTyped, MigrationInv, PhaseInv, TypeOK
<1> QED BY <1>1, Kept, PTL

\* No event is lost between two subscriptions, whoever dies, is shut down or
\* loses its connection (StartGroupMembershipConsumer).
THEOREM EventsKept == Spec => []NothingLost
<1>1. ReplicasInv => NothingLost
  BY DEF ReplicasInv, ConsumerInv
<1> QED BY <1>1, Kept, PTL

\* Replicas that start together apply every migration once and in order, and
\* leave no part of a release behind (ApplyMigrations).
THEOREM SchemaReleased == Spec => []SchemaIsSomeRelease
<1>1. ReplicasInv => SchemaIsSomeRelease
  <2> SUFFICES ASSUME ReplicasInv, NEW r \in Replicas, Len(schema) = Release[r] + 1
               PROVE  schema = StepsOf(r)
    BY DEF ReplicasInv, MigrationInv, SchemaIsSomeRelease
  <2>1. schema \in [1..Release[r] + 1 -> Nat]
    BY LenProperties DEF ReplicasInv, MigrationInv
  <2>2. \A n \in 1..Release[r] + 1 : schema[n] = n - 1
    BY DEF ReplicasInv, MigrationInv, Ordered
  <2> QED BY <2>1, <2>2 DEF StepsOf
<1> QED BY <1>1, Kept, PTL

\* A replica serves, and handles events, only on a schema that has every
\* migration of its release (run starts the loops after ApplyMigrations).
THEOREM ServesMigrated == Spec => []ServingIsMigrated
<1>1. ReplicasInv => ServingIsMigrated
  <2> SUFFICES ASSUME ReplicasInv, NEW r \in Replicas,
                      phase[r] \in {"serving", "stopping"} \/ sub[r] # NoLoop,
                      NEW step \in 0..Release[r]
               PROVE  In(step, schema)
    BY DEF ServingIsMigrated
  <2>1. Release[r] < Len(schema) /\ schema \in Seq(Nat) /\ Ordered(schema)
    BY DEF ReplicasInv, PhaseInv, MigrationInv
  <2>2. step < Len(schema) /\ step \in Nat
    BY <2>1, LenProperties, ReleaseAssumption
  <2> QED BY <2>1, <2>2, OrderedSteps
<1> QED BY <1>1, Kept, PTL

-----------------------------------------------------------------------------
(* The queue of events.                                                    *)

Waiting == IF durable.exists THEN durable.pending ELSE published

LEMMA StutterQueue ==
  UNCHANGED <<published, durable, handled>> => UNCHANGED <<published, Waiting, handled>>
BY DEF Waiting

\* Every step of a subscription is one of the queue, or none.
LEMMA SubscriptionQueue ==
  ASSUME ReplicasInv, NEW r \in Replicas,
         \/ Subscribe(r) \/ SubscribeFails(r) \/ Retry(r) \/ Unsubscribe(r) \/ LeaveLoop(r)
         \/ LoseConnection(r) \/ HandleFails(r)
         \/ \E acked \in BOOLEAN : Handle(r, acked)
         \/ \E e \in Events : Deliver(r, e)
  PROVE  Queue!Next \/ UNCHANGED <<published, Waiting, handled>>
<1>1. /\ durable \in Durables /\ r \in Subscribers /\ published \subseteq Events
      /\ sub[r].pc = "bound" => durable.holder = r
      /\ durable.holder # None => durable.exists
      /\ sub[r].event # None => sub[r].event \in published
  BY ReplicasAssumption DEF ReplicasInv, ConsumerInv, ConsumerTyped
<1>2. r # None
  BY <1>1, EventsAssumption
<1>3. CASE Subscribe(r)
  BY <1>3 DEF Subscribe, Replayed, Waiting
<1>4. CASE SubscribeFails(r) \/ Retry(r) \/ LeaveLoop(r) \/ LoseConnection(r) \/ HandleFails(r)
  BY <1>4, StutterQueue DEF SubscribeFails, Retry, LeaveLoop, LoseConnection, HandleFails
<1>5. ASSUME NEW e \in Events, Deliver(r, e) PROVE UNCHANGED <<published, Waiting, handled>>
  BY <1>5, StutterQueue DEF Deliver
<1>6. CASE Unsubscribe(r)
  <2>1. CASE durable' = NoDurable
    <3>1. Waiting' = published /\ UNCHANGED <<published, handled>>
      BY <1>6, <2>1, NoDurableType DEF Unsubscribe, Waiting
    <3> QED BY <3>1 DEF Queue!Next, Queue!BeginAgain, Waiting
  <2>2. CASE durable' = [durable EXCEPT !.holder = None]
    BY <1>1, <1>6, <2>2 DEF Unsubscribe, Durables, Waiting
  <2> QED BY <1>6, <2>1, <2>2 DEF Unsubscribe
<1>7. ASSUME NEW acked \in BOOLEAN, Handle(r, acked) PROVE Queue!Next
  <2> DEFINE e == sub[r].event
  <2>1. e \in published /\ e \in Events /\ handled' = handled \cup {e} /\ UNCHANGED published
    BY <1>1, <1>7 DEF Handle
  <2>2. CASE acked /\ sub[r].pc = "bound"
    <3>1. durable' = [durable EXCEPT !.pending = @ \ {e}] /\ durable.exists
      BY <1>1, <1>2, <1>7, <2>2 DEF Handle
    <3>2. durable'.exists /\ durable'.pending = durable.pending \ {e}
      BY <1>1, <3>1 DEF Durables
    <3>3. Waiting' = Waiting \ {e}
      BY <3>1, <3>2 DEF Waiting
    <3> HIDE DEF e
    <3> QED BY <2>1, <3>3 DEF Queue!Next, Queue!Handle, Waiting
  <2>3. CASE ~(acked /\ sub[r].pc = "bound")
    <3>1. Waiting' = Waiting
      BY <1>7, <2>1, <2>3 DEF Handle, Waiting
    <3> HIDE DEF e
    <3> QED BY <2>1, <3>1 DEF Queue!Next, Queue!Handle, Waiting
  <2> QED BY <2>2, <2>3
<1> QED BY <1>3, <1>4, <1>5, <1>6, <1>7

LEMMA StepQueue ==
  ReplicasInv /\ [Next]_vars => Queue!Next \/ UNCHANGED <<published, Waiting, handled>>
<1> SUFFICES ASSUME ReplicasInv, [Next]_vars
             PROVE  Queue!Next \/ UNCHANGED <<published, Waiting, handled>>
  OBVIOUS
<1>1. CASE UNCHANGED vars
  BY <1>1, StutterQueue DEF vars, consumerVars
<1>2. ASSUME NEW r \in Replicas, Process(r) \/ Stop(r) \/ Crash(r)
      PROVE  UNCHANGED <<published, Waiting, handled>>
  BY <1>2, StutterQueue
  DEF Process, Launch, Migrate, Migrated, MigrationFails, GiveUp, Exit, End, Stop, Crash, consumerVars
<1>3. ASSUME NEW r \in Replicas, Loop(r) \/ Callback(r) \/ Shutdown(r) \/ Failure(r)
      PROVE  Queue!Next \/ UNCHANGED <<published, Waiting, handled>>
  <2>1. \/ Subscribe(r) \/ SubscribeFails(r) \/ Retry(r) \/ Unsubscribe(r) \/ LeaveLoop(r)
        \/ LoseConnection(r) \/ HandleFails(r)
        \/ \E acked \in BOOLEAN : Handle(r, acked)
    BY <1>3 DEF Loop, Callback, Shutdown, Failure
  <2> QED BY <2>1, SubscriptionQueue
<1>4. ASSUME NEW e \in Events, Announce(e) PROVE Queue!Next
  <2>1. e \notin published /\ published' = published \cup {e} /\ UNCHANGED handled
    BY <1>4 DEF Announce, Publish
  <2>2. Waiting' = Waiting \cup {e}
    <3>1. durable \in Durables
      BY DEF ReplicasInv, ConsumerInv, ConsumerTyped
    <3>2. durable'.exists = durable.exists
          /\ (durable.exists => durable'.pending = durable.pending \cup {e})
      BY <1>4, <3>1 DEF Announce, Publish, Durables
    <3> QED BY <2>1, <3>2 DEF Waiting
  <2> QED BY <2>1, <2>2 DEF Queue!Next, Queue!Publish, Waiting
<1>5. ASSUME NEW e \in Events, Push(e) PROVE Queue!Next \/ UNCHANGED <<published, Waiting, handled>>
  BY <1>5, SubscriptionQueue DEF Push
<1>6. CASE Notice
  <2>1. durable \in Durables /\ durable' = [durable EXCEPT !.holder = None]
    BY <1>6 DEF Notice, Unbind, ReplicasInv, ConsumerInv, ConsumerTyped
  <2>2. durable'.exists = durable.exists /\ durable'.pending = durable.pending
    BY <2>1 DEF Durables
  <2> QED BY <1>6, <2>2 DEF Notice, Unbind, Waiting
<1> QED BY <1>1, <1>2, <1>3, <1>4, <1>5, <1>6 DEF Next

\* The subscriptions of the replicas are a queue that drops no event before it was
\* handled, whatever replicas die, stop, or lose their connection, and whatever
\* acknowledgements are lost (StartGroupMembershipConsumer and its loop).
THEOREM ReplicasImplementQueue == Spec => ImplementsQueue
<1>1. Init => Queue!Init
  BY NoDurableType DEF Init, ConsumerInit, Queue!Init
<1>2. ReplicasInv /\ [Next]_vars => [Queue!Next]_(Queue!vars)
  BY StepQueue DEF Queue!vars, Waiting
<1> QED BY <1>1, <1>2, Kept, PTL DEF Spec, ImplementsQueue, Queue!Spec
=============================================================================
