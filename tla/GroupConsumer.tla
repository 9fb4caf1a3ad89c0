---------------------------- MODULE GroupConsumer ----------------------------
(***************************************************************************)
(* The subscription to the group membership events                         *)
(* (internal/server/group_consumer.go): every replica tries to bind the    *)
(* durable JetStream consumer, again and again until it succeeds once; its *)
(* callback handles one event at a time and acknowledges or gives back.    *)
(* JetStream, as nats.go presents it, is external: it pushes to one        *)
(* subscription per durable and delivers again what was not acknowledged;  *)
(* Unsubscribe deletes a durable that the same Subscribe had created.      *)
(***************************************************************************)
EXTENDS Naturals

CONSTANTS
  Subscribers,  \* the replicas, each with one loop
  Events,
  Poison,       \* the events whose handling always fails
  Frail,        \* the replicas whose connection may be given up for good
  None

ASSUME EventsAssumption ==
  /\ Poison \subseteq Events /\ Frail \subseteq Subscribers
  /\ None \notin Subscribers \cup Events

VARIABLES
  published,  \* the events of the stream
  durable,    \* the durable consumer: who is bound, what is not acknowledged
  handled,    \* history: the events that were handled successfully
  sub         \* the loop and the callback of each replica

consumerVars == <<published, durable, handled, sub>>

NoDurable == [exists |-> FALSE, holder |-> None, pending |-> {}]
Durables == [exists : BOOLEAN, holder : Subscribers \cup {None}, pending : SUBSET Events]

\* "lost": bound once, and nats.go has stopped to reconnect.
Loops == [pc : {"off", "try", "wait", "bound", "lost"}, created : BOOLEAN,
          event : Events \cup {None}]
NoLoop == [pc |-> "off", created |-> FALSE, event |-> None]

Goto(r, pc) == sub' = [sub EXCEPT ![r].pc = pc]

Publish(e) ==
  /\ e \notin published
  /\ published' = published \cup {e}
  /\ durable' = IF durable.exists THEN [durable EXCEPT !.pending = @ \cup {e}] ELSE durable
  /\ UNCHANGED <<handled, sub>>

\* Mutant of Replayed: DeliverNew instead of DeliverAll.
ReplayedNothing == {}

\* DeliverAll: what a new durable has to deliver.
Replayed == published

Subscribe(r) ==
  /\ sub[r].pc = "try" /\ durable.holder = None
  /\ durable' = [exists |-> TRUE, holder |-> r,
                 pending |-> IF durable.exists THEN durable.pending ELSE Replayed]
  /\ sub' = [sub EXCEPT ![r].pc = "bound", ![r].created = ~durable.exists]
  /\ UNCHANGED <<published, handled>>

\* The durable is bound already, or NATS does not answer.
SubscribeFails(r) ==
  /\ sub[r].pc = "try" /\ Goto(r, "wait")
  /\ UNCHANGED <<published, durable, handled>>

Retry(r) ==
  /\ sub[r].pc = "wait" /\ Goto(r, "try")
  /\ UNCHANGED <<published, durable, handled>>

Deliver(r, e) ==
  /\ sub[r].pc = "bound" /\ sub[r].event = None /\ e \in durable.pending
  /\ sub' = [sub EXCEPT ![r].event = e]
  /\ UNCHANGED <<published, durable, handled>>

\* The acknowledgement needs the connection, and may still be lost.
Handle(r, acked) ==
  /\ sub[r].event \notin Poison \cup {None}
  /\ handled' = handled \cup {sub[r].event}
  /\ durable' = IF acked /\ sub[r].pc = "bound"
                THEN [durable EXCEPT !.pending = @ \ {sub[r].event}] ELSE durable
  /\ sub' = [sub EXCEPT ![r].event = None]
  /\ UNCHANGED published

\* Mutant of HandleFails: the callback tries the same event again.
HandleFailsInPlace(r) ==
  /\ sub[r].event # None
  /\ UNCHANGED consumerVars

\* Mutant of HandleFails: what failed is acknowledged too.
HandleFailsAcked(r) ==
  /\ sub[r].event # None
  /\ durable' = [durable EXCEPT !.pending = @ \ {sub[r].event}]
  /\ sub' = [sub EXCEPT ![r].event = None]
  /\ UNCHANGED <<published, handled>>

\* Nak: the event comes again.
HandleFails(r) ==
  /\ sub[r].event # None
  /\ sub' = [sub EXCEPT ![r].event = None]
  /\ UNCHANGED <<published, durable, handled>>

\* Mutant of Unsubscribe: the subscription is used on.
UnsubscribeOnly(r) ==
  /\ sub[r].pc = "bound"
  /\ durable' = NoDurable
  /\ UNCHANGED <<published, handled, sub>>

\* Shutdown of a subscription that works.
Unsubscribe(r) ==
  /\ sub[r].pc = "bound" /\ Goto(r, "off")
  /\ durable' = IF sub[r].created THEN NoDurable ELSE [durable EXCEPT !.holder = None]
  /\ UNCHANGED <<published, handled>>

\* Shutdown of a loop that has no working subscription.
LeaveLoop(r) ==
  /\ sub[r].pc \in {"try", "wait", "lost"} /\ Goto(r, "off")
  /\ UNCHANGED <<published, durable, handled>>

LoseConnection(r) ==
  /\ r \in Frail /\ sub[r].pc = "bound" /\ Goto(r, "lost")
  /\ UNCHANGED <<published, durable, handled>>

\* The server notices that the bound connection is gone.
Unbind ==
  /\ \E r \in Subscribers : durable.holder = r /\ sub[r].pc # "bound"
  /\ durable' = [durable EXCEPT !.holder = None]
  /\ UNCHANGED <<published, handled, sub>>

ConsumerInit ==
  /\ published = {} /\ durable = NoDurable /\ handled = {}
  /\ sub = [r \in Subscribers |-> NoLoop]

-----------------------------------------------------------------------------
\* No event falls between two subscriptions: one that nobody handled is still to
\* be delivered by the durable, or by the next one, which starts from the first
\* event.  Handling that fails, callbacks that outlive their connection, crashes
\* and shutdowns that delete the durable do not change that
\* (StartGroupMembershipConsumer).
NothingLost ==
  \A e \in published \ handled : durable.exists => e \in durable.pending
=============================================================================
