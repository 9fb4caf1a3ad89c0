# Verification of the users service

TLA+ models of the users service (Go, gRPC, PostgreSQL), model-checked with TLC
and proved in part with TLAPS. Paths below are relative to the repository's
sources. `PROJECT.json` lists the components, the runs, the mutants, the source
lines of every definition and the hazards.

## The system

The service owns the tables `users`, `user_api_tokens` and `user_devices` and
keeps four other services in step with them, with no transaction across any two:
Identity (a record per user), Authorization (the cluster-admin relation and the
organizations of a user), OpenZiti management (an identity per device) and
Groups (group memberships, announced by NATS JetStream events). Several replicas may
run at once, each with a gRPC server and three background loops.

| part | state | operations | interacts with |
|---|---|---|---|
| accounts (`internal/server/server.go`, `store/store.go`) | rows of `users`, unique subject and username | sign-in, CreateUser, UpdateUser, UpdateMe, DeleteUser | Identity, Authorization |
| devices (same files) | rows of `user_devices`, deleted with their user | CreateDevice, DeleteDevice | OpenZiti, Authorization and Groups (listing) |
| group sync (`group_sync.go`, `group_consumer.go`) | none of its own: attributes of OpenZiti identities | one handler per event, one pass per timer tick | Authorization, Groups, JetStream, OpenZiti, both tables |
| liveness polling (`device_liveness.go`) | four columns of `user_devices` | one pass per timer tick | OpenZiti |
| subscription loop (`group_consumer.go`) | a durable consumer | subscribe, retry, unsubscribe | JetStream |
| API tokens (`server.go`, `store.go`, `apitoken/`) | rows of `user_api_tokens` | create, list, revoke, resolve | two clocks |
| pagination (`store/pagination.go`) | a cursor held by the client | next page | inserts and deletions |
| usernames (`server/username.go`) | an iterator | normalize, derive, next candidate | unique index |
| migrations (`internal/db/migrate.go`) | `schema_migrations` | apply at start | other replicas |
| start-up (`cmd/users-service/main.go`) | the process | start, serve, stop, end | migrations, subscription loop |
| reads (`server.go`, `store.go`) | none | SearchUsers, ListUsers, GetUser, BatchGetUsers, GetMe, ListDevices | usernames, pagination |

What is hard: a handler is a sequence of calls with other handlers between any
two; every call can fail before or after it took effect; compensations are best
effort; values listed earlier are written later (groups, memberships, liveness
columns); background loops of several replicas overlap. What makes each part
correct is stated below, module by module; `PROJECT.json` "hazards" lists the
places in the code where it could go wrong.

## Modules

### UserAccounts (core)

A request is a record in `req`; its `pc` names the next call the handler makes,
and each call is one action. `users` are the rows, `registered` the records of
Identity, `tuples` the relations of Authorization (`<<id, Cluster>>` is the admin
relation, `<<id, org>>` a membership). An operator `Answers` gives the outcomes of
a call: done, refused (`"error"`), done while the caller is told it failed
(`"lost"`). `Crash` drops a request where it stands; a cancelled request is the
same, or a compensation that fails.

| code | actions |
|---|---|
| ResolveOrCreateUser and Store.ResolveOrCreateUser | CallResolve, Select, Insert, Reselect, Register, Rollback |
| CreateUser | CallCreate, InsertNew, RegisterNew, Grant, Rollback |
| UpdateUser, UpdateMe | CallUpdate, Update, Sync; UpdateMe |
| DeleteUser | CallDelete, Demote, ListMemberships, Revoke, Delete |
| organizations service, replicas | OrgJoin, OrgLeave, Crash |

The unique indexes appear as `SubjectTaken` and `UsernameTaken`; when both are
violated PostgreSQL may name either. A request offers a sequence of usernames in
order, standing for the candidates of the iterator. Columns other than id,
subject and username are left out: nothing the code does depends on them.
UpdateMe is one statement and so one action. `late` and `answered` are history:
the relations written while their user was not settled (gone, still being
created, or past the cleanup of a deletion), and which sign-ins and creations
were answered OK.

Properties: `UniqueKeys`; `OrphanTuplesAreLate` (DeleteUser leaves behind only
relations written after its cleanup had passed); `AnnouncedAreRegistered`;
`AnnouncedSurvive` (no compensation removes an account announced as created);
`AdminSetClosed` (no cluster admin comes from nowhere); `EventuallyRegistered`
and `RequestsEnd`.

`UserDirectory` is what callers are promised: accounts with unique keys that
appear whole under an id never used before, may be renamed to a free username,
are announced, and go away only before they were announced or after somebody
asked for their deletion. `ImplementsDirectory` shows that UserAccounts
implements it. The mapping takes the rows for the accounts, the creations
answered OK for the announcements, and the ids of the deletions under way for
the accounts somebody asked to delete; registrations, relations and the steps of
the handlers disappear as stutters.

Two statements of the repository do not hold and are kept as violation runs:

* `AnsweredSurvive`: CreateUser deletes its row on every registration error,
  AlreadyExists included. When a sign-in for the same subject registers the
  account in between, that account is deleted although the sign-in was answered.
* `FirstSignInTakesAdmin`: `config.go:73` says the first sign-in takes cluster
  admin when none is configured; no sign-in writes the relation any more.

### DeviceSync

Workers are requests for CreateDevice and DeleteDevice (`Creators`), the consumer
of membership events (`Consumer`; JetStream binds a durable to one subscription
and runs its callback one message at a time) and the reconciliation goroutine
(`Reconciler`). `orgs` is what Authorization answers about the organizations of a
user, `member` what Groups answers about memberships, `events` the JetStream
messages not acknowledged, `attrs` the attributes in OpenZiti, `rows` and `ziti`
the two halves of a device. A listing of groups is one call for the
organizations and then one per organization and page (`Pages`, each within one
organization); a user of no organization has no group listed, whatever Groups
says. The devices of a user and the users of a pass are listed in one step each,
although listAllUserDevices and ListUsers read pages; they come in the order of
their ids (`Rank`), which are random, so the order is any but the same in every
pass.

| code | actions |
|---|---|
| listUserOrganizationIDs | ListOrganizations |
| userGroupRoleAttributes, listUserGroups | ListGroups, over the pages of `PagesOf` |
| syncUserDeviceGroupRoles | ListDevices, Patch, EndSync |
| handleUserMembershipChange, Ack and Nak | TakeEvent, EndSync, Fail |
| ReconcileAllUserDeviceGroupRoles | StartPass, NextUser |
| CreateDevice | CallCreate, ListOrganizations, ListGroups, CreateIdentity, CreateRow, Unlink |
| DeleteDevice | CallDelete, Unlink |
| deletion of a user (cascade) | UserDeleted |
| Groups, Authorization | Change, ChangeOrg |

A membership changes and its event is published in one step (`Change`): that the
listing shows a change once its event is delivered is assumed of Groups, and of
Groups only. Nothing announces a change in Authorization (`ChangeOrg`): the
organizations service makes it at any time, before or after the events about the
groups, and so does DeleteUser, which revokes the memberships first
(`server.go:765`) and leaves user and devices in place when the deletion of the
row (`server.go:771`) then fails. The stream keeps its events, and any may come
again (`Redeliver`), which also stands for the replay after the durable was
deleted at shutdown. CreateDevice returns an error, without compensation, when
OpenZiti answers without an enrollment JWT (`server.go:490`): the identity stays
as it does when the answer is lost, and that outcome of `CreateIdentity` stands
for both.

Properties: `StaleAttributesAreExplained` says who may leave a wrong attribute
for good. A reconciliation pass may (it adds groups it listed before the
membership ended, and it removes nothing), and so may a CreateDevice that listed
the groups before a change: `raced` records the attributes these two left wrong.
A change in Authorization may, whoever patches, the event consumer included: an
organization left takes its groups out of the listing while the attributes stay;
one joined after the event was handled comes too late for it; and one read just
before it changed makes the patch wrong. `unannounced` records the attributes
left wrong that way, at the change or at the patch. Both are history; a patch
that names the group, or a deletion of the row, ends the record. Of changes in
Groups alone the event consumer leaves nothing wrong behind.

`RowsHaveIdentity` and
`NoIdentityLeaks` are about the two halves of a device, under every fault:
`doubted` is history, the devices about which an answer was lost, a
request died or OpenZiti refused a deletion, and the two properties say that nothing else
leaves a row without its identity or an identity without its row (but the
deletion of a user, whose cascade does not reach OpenZiti).

`PassesAdd` and `EventsSettle` are convergence, by the passes alone and by the
events alone. A pass ends at the first patch that fails, so a device OpenZiti
never accepts a patch for (`Broken`; one whose identity is gone is the same)
keeps every pass from the devices and users after it: `PassesAdd` excepts those,
which the code does not serve, and covers everybody before it. Passes add what
no event announced, so organizations may come and go there. `EventsSettle`
excepts the attributes in `unannounced`, for which the next event about the
group is what helps.

### DeviceLiveness

Each poller is the timer of one replica. A pass copies the rows of a user
(`ListDevices`), asks about one device (`Poll`, which also computes the new
columns from the copy) and writes them (`Update`). OpenZiti (`enrolled`,
`online`), the clock, creations and deletions move in between. A redeemed token
stays redeemed, and only enrolled identities are online: assumed of OpenZiti.
`Poll` takes OpenZiti's answer and `time.Now` in one step, and all replicas read
one clock that never goes back; clocks that differ would spread the times two
replicas record further apart, and no property relates those. A device without an
identity id, which pollDeviceLiveness skips (62-64), is left out: CreateDevice
inserts none.

Properties: `RecordsAgree` (the columns of a row agree with each other);
`EnrollmentKept` (never pending again, thanks to the early return that skips an
unchanged offline device); `TimesAdvance`, for one replica: with two, each may
stamp the first enrollment with its own time, and the last-seen time may move
back; `SettledIsRecorded` and `SeenKeepsAdvancing`.

### Replicas: Migrations and GroupConsumer

`Replicas` is `run()` of `main.go` in several processes, of releases that may
differ: `Launch`, the migrations, the start of the loops (`Migrated`), a signal
(`Stop`), the end (`Exit`, which does not wait for the subscription loop) and
`Crash`. It composes two modules whose actions it takes as they are.

`Migrations`: the one transaction of ApplyMigrations, a check and an application
per file (`Check`, `Apply`), and the commit. PostgreSQL is external: a transaction
sees what is committed when a statement starts, waits for another transaction
that inserted the same key (`Blocked`), and fails when that one commits
(`Collides`). A failed migration ends the process and Kubernetes starts it again.

`GroupConsumer`: the loop of each replica (`Subscribe`, `SubscribeFails`, `Retry`,
`Unsubscribe`, `LeaveLoop`) and its callback (`Handle`, `HandleFails`). JetStream as
nats.go presents it is external and assumed so: a durable consumer pushes to one
subscription, and refuses another while that one is connected; DeliverAll starts
a new durable at the first event; Unsubscribe deletes the durable if that
Subscribe created it; a client that cannot reconnect gives up
(`LoseConnection`, for the replicas in `Frail`), which the loop does not notice.
The retry delay, one second doubled up to thirty, is a step and not a time.

Properties: `SchemaIsSomeRelease`, `ServingIsMigrated`, `NothingLost` (an event
nobody handled is still to be delivered, by this durable or the next) and, when
incidents cease, `ReplicasServe` and `EventsHandled`. A replica that lost its
connection for good stays without a subscription until it is restarted, so
EventsHandled needs a second replica that is not frail.

`EventQueue` is what the subscription promises: a queue that hands out every
event until it was handled; it may begin again with all of them, or hand out one
that was handled, but it drops none that was not. `ImplementsQueue` shows that
Replicas implements it. What waits in the queue is what is pending in the
durable, or everything published while there is no durable; bindings,
deliveries, migrations and the deaths of processes disappear as stutters.

### APITokens

Each statement of CreateAPIToken, RevokeAPIToken and ResolveAPIToken is an action.
The clocks of PostgreSQL and of the replicas advance on their own, never backwards, and
differ by at most `Skew`. `dead` is history: the tokens about which some caller
was told, or could know, that they are gone, or expired at a replica.

Properties: `DeadStayDead`, `UseIsRecorded` (an accepted use has set
`last_used_at`, except within the skew before the expiry) and `OwnersRevoke`. A
token in use when it is revoked may still be accepted: the property is about
requests that begin after the answer.

`TokenRegistry` is what callers are promised: a token, once issued, only ever
stops being valid, and who asks about it gets an answer that was true at some
moment of the request, or none. `ImplementsRegistry` shows that APITokens
implements it, although the token is read in two statements and its expiry
compared with two clocks. A token is valid for a replica when its row has no expiry or one ahead of
that replica's clock; a question is open from the call of
ResolveAPIToken until the expiry was compared or no row was found. Creations,
revocations, touches and clocks that pass no expiry disappear as stutters; `good`
is history, whether the token was valid when the request began.

### Directory: Usernames and Listing

`Usernames` has the functions of `username.go` (`Normalized`, `DeriveBase`,
`WithSuffix`, `Candidates`) and `escapeLikePattern` against LIKE as PostgreSQL
matches it, on texts that are sequences of a few characters with the
lengths and numbers scaled down. The loops of the code (`Squeezing`, `Escaping`) and the
matcher (`Starts`) are recursive functions over prefixes of a text. `Listing` is `listEntities`: a page at a time, one row more
than the page to know whether another follows, the last id as the cursor.
`Directory` composes them: users sign up with derived names, rename themselves,
go away, are searched for and are listed. The races of the candidate loop are
those of UserAccounts; here a sign-up takes one step.

Properties: `CandidatesUsable` (every candidate, however shortened, is a valid
username, and the numbered ones differ), `SearchIsLiteral` and `ScanIsExact`
(a listing returns no row twice and every row that was there throughout).

## Runs

`MC*.tla` define the instances and each `.cfg` is one run.

| run | instance and bounds | shows |
|---|---|---|
| accounts_faults | 2 requests, 2 ids, 1 username, 1 organization, all faults | cleanup, compensation, admin role, unique keys, refinement of UserDirectory |
| accounts_sign_in | 2 requests, 2 ids, 2 usernames, errors and lost answers | registration and termination (liveness) |
| accounts_answered | 2 requests, no faults | violation, see above |
| accounts_first_admin | empty table | violation, see above |
| devices_attributes | 1 user, 1 device, 1 request, consumer, reconciler, 2 groups of an organization that may be left, all faults | RowsHaveIdentity, NoIdentityLeaks, StaleAttributesAreExplained |
| devices_passes | 2 users, the second with 2 devices of which the last is never patched, 1 group of an organization that comes and goes, errors, consumer unfair | PassesAdd |
| devices_events | 1 user, 1 device, 2 groups of an organization that comes and goes, errors, lost answers, redelivery | StaleAttributesAreExplained, EventsSettle |
| liveness_replicas | 2 pollers, 1 device, times 1 to 3, all faults | RecordsAgree, EnrollmentKept |
| liveness_settles | 1 poller, 2 devices of which one never answers, times 1 and 2, all faults | TimesAdvance, SettledIsRecorded, SeenKeepsAdvancing |
| replicas | 2 replicas of releases with 1 and 2 files, 3 events of which one is poison, 3 incidents | schema, service and events survive restarts (safety and liveness), refinement of EventQueue |
| tokens | 2 requests, 2 users, 1 token, 2 replicas, times to 3, clocks 1 apart, errors and lost answers | DeadStayDead, UseIsRecorded, OwnersRevoke, refinement of TokenRegistry |
| directory | 4 users, usernames of at most 5 characters, numbers to 3, pages of 1 to 3 | CandidatesUsable, SearchIsLiteral, ScanIsExact |

Two requests suffice for the races of the account handlers: every conflict is
between one handler and one other at a shared key, and a third actor is present
as the environment (organizations, Groups, user deletions). In devices_attributes
one request creates and deletes, next to the consumer, the reconciler and user
deletions. A free id more than
the accounts of a run lets a deleted subject sign in again under a new id.

A listing reads the organizations in one call and the groups in another, so with
one organization and one page it already mixes an older and a newer state; of
two groups one may be held by the consumer while the other is what it lists.
Several pages and organizations are covered by the proofs only. With one device,
a patch that took effect while its answer was lost stands for a patch loop that
stopped half way. In devices_passes the users and devices before the one that
fails for ever are a user without devices and a device of the same user; its
memberships do not end, for no pass removes anything. devices_attributes starts
without memberships, which makes its groups alike (symmetry), and
its organization is left but not joined; devices_events has both. There is no
crash in devices_events and devices_passes: an error has the same effect on the
worker.

In liveness_replicas the third time value tells a first stamp from two later ones.
`Ops`, `Targets`, `Faults`, `MaxTime` and the sizes of the
constant sets are the only bounds; the requests, passes and events of a run are
otherwise unlimited. Inserts and creations fail when the ids of the model are
used up.

In `replicas`, `MaxIncidents` bounds what goes wrong (failures, deaths, signals,
lost commits); three let one replica die in its migration, lose a connection and
be stopped. One token is enough in `tokens`: statements name one token, and two requests and
a deletion of the user meet at it; expiry falls before, at and after each clock's
time. In `directory` `CandidatesUsable` is checked for all 19,531 texts of up to six
characters out of a letter, a capital, an underscore, a dash and a character
not allowed, so that a base is shorter than, as long as and longer than a
username may be, with dashes wherever the cut falls.

Deadlock is checked except in the DeviceSync runs, where creations and user
deletions are bounded and the system may come to rest.

Each property has a mutant: the operators marked "Mutant of" replace a definition
with what a plausible bug would do, and break the property.

## Fairness

* `RequestFairness`: gRPC runs each handler to its end, so a waiting handler's
  next call returns, with any outcome (weak fairness).
* `SignInFairness`: clients keep signing in, and the database and Identity do not
  fail for one subject every time (strong fairness). There is no retry in the
  service: that the client comes back is an assumption on clients.
* `PassSpec`, `PollFairness`: tickers keep firing, goroutines run on, and no call
  repeated for the same user or device fails every time. Patches and polls of
  devices in `Broken` return, but may fail every time.
* `EventSpec`: JetStream delivers a message again until it is acknowledged.
* `FairSpec` of Replicas: processes that ended are started again, their
  goroutines run on, NATS notices a dead connection (weak fairness), and an event that is given
  back is pushed again, also while others are (strong fairness). Nothing makes an
  incident happen or a signal come, and there are `MaxIncidents` of them.

## Proofs

Eight modules hold theorems, each about the specification of the same name, for
every value of the constants: any number of requests, replicas, users, devices,
tokens, events and rows, and any faults. They rest on the assumptions named in
the models (`ASSUME`): ids, keys and None are different things, bounds are
numbers, the initial rows obey the unique indexes (and are finitely many, in
Directory), candidate lists are not
empty, suffixes of usernames are short texts of letters and digits, different for
different numbers, and the collation tells the characters of a username apart.

| module, theorem | states | inductive invariant and argument |
|---|---|---|
| UserAccountsProofs TypeCorrect | `[]TypeOK` | `TypeInv`: also, ids in rows were drawn, and each `pc` has the fields it needs |
| KeysUnique | `[]UniqueKeys` | with `TypeInv`: inserts take a fresh id and free keys, a rename a free username |
| AnnouncedRegistered | `[]AnnouncedAreRegistered` | `CreationInv`: at most one request may take a row back, it was not announced, and it is registered before the grant |
| AnnouncedKept | `AnnouncedSurvive` | `CreationInv`: a rollback is of a row never announced |
| AdminsClosed | `AdminSetClosed` | `GrantInv`: only a request for the admin role reaches the grant |
| OrphansAreLate | `[]OrphanTuplesAreLate` | `CleanupInv`: a relation not late has a row, no request that may take the row back, and no deletion past it |
| UserDirectoryProofs AccountsImplementDirectory | `ImplementsDirectory` | step by step from the invariants above: each action maps to one of the directory or to a stutter |
| DeviceSyncProofs TypeCorrect | `[]TypeOK` | `TypeInv`: each `pc` of a job has the fields it needs |
| RowsIdentified, IdentitiesAccounted | `[]RowsHaveIdentity`, `[]NoIdentityLeaks` | `IdentityInv`: who inserts a row is alone with the new identity; who deletes an identity finds its row gone, or the device in doubt |
| StalenessExplained | `[]StaleAttributesAreExplained` | `AttributesInv`: the groups the consumer listed are the memberships of now within the organizations it saw, but for changes whose event waits; the event it holds excuses only the devices it has not patched yet; and an organization it saw differently marks exactly the attributes its patch leaves wrong |
| DeviceLivenessProofs TypeCorrect | `[]TypeOK` | inductive |
| ColumnsAgree, EnrollmentStays | `[]RecordsAgree`, `EnrollmentKept` | `CopiesSound`: rows, the copies a pass listed and the columns it is about to write all agree, and claim "enrolled" only when it is so |
| AloneTimesAdvance | `TimesAdvance` | under `OnePoller` (one replica), `CopiesCurrent`: what a pass listed is what the row has |
| ReplicasProofs TypeCorrect | `[]TypeOK` | `ReplicasInv`, of the three parts below |
| EventsKept | `[]NothingLost` | `ConsumerInv`: what waits in the durable or in a callback was published; a new durable starts with all of it, and an event leaves it as it is handled |
| SchemaReleased | `[]SchemaIsSomeRelease` | `MigrationInv`: the committed steps are the first k, the steps a transaction has done follow them, and at most one transaction has done any |
| ServesMigrated | `[]ServingIsMigrated` | `PhaseInv` with `MigrationInv`: a commit leaves all steps of the release committed, and a loop runs only in a process past its commit |
| ReplicasImplementQueue | `ImplementsQueue` | step by step from `ReplicasInv` (`ConsumerInv` says that what a callback holds was published): only the acknowledgement of a handled event takes it out of the queue |
| APITokensProofs TypeCorrect | `[]TypeOK` | `TypeInv` |
| DeadRefused, UseRecorded | `[]DeadStayDead`, `[]UseIsRecorded` | `TokensInv`: one row per token; a dead token has no row or an expired one; what a request has read of a row is as good as the row. `Ages` is what every step keeps: clocks go forward, tokens are drawn once and expiries do not change |
| OnlyOwnersRevoke | `OwnersRevoke` | from `TypeInv`: only three actions remove rows, and a touch puts its row back |
| TokensImplementRegistry | `ImplementsRegistry` | step by step from `TypeInv` and `TokensInv`, which says of a token not good when its request began that it is gone or expired ever since, and of what was read of a row that it is as good as the row |
| DirectoryProofs ListingExact | `[]ScanIsExact` | `ScanInv` of ListingProofs: rows up to the cursor were returned, those after it were not. Rests on `PageClosed`, `PageEnds` and `LastPage`: a page has no holes, has a last row if another follows, and has all that is left if none does |
| TypeCorrect | `[]TypeOK` | `DirectoryInv`: usernames in the table are acceptable and unique, a candidate is taken only if it is free, and only finitely many rows exist |
| CandidatesUseful, CandidatesAccepted | `[]CandidatesUsable`; every candidate of an acceptable base is acceptable | whatever the text, what normalization leaves is empty or acceptable; what is cut off makes room for the suffix, and the suffix after the last dash tells the numbers apart, for a number has no dash |
| PrefixMatched | `Like(v, Escaped(p) \o <<"%">>)` is `IsPrefix(p, v)`, for all texts | one step of the matcher for each character of the prefix, quoted or not |
| SearchLiteral | `[]SearchIsLiteral` | with PrefixMatched and `DirectoryInv`: the order of the answers ranks the finitely many matches, so every place up to their number has one of them |

Few of these properties are inductive. A rollback, the last step of a deletion,
a patch or a late write may act only because of what the same request, or another
one, did several steps before; the invariants above say what a request in flight
may rely on although others have run since. They were model-checked on small
instances before they were proved.

`TimesAdvance` is proved for one replica and is false for two.

The theorems about texts need what a recursive function computes for every
input. `DirectoryProofs` proves its own tools for that, because the library's
induction theorems cannot be used with this prover: `NatSet` and `UpTo` say that a set that has 0 and, with a number, the next
has them all (the least number outside it would have no predecessor), and
`Recursion` that a recursive definition over a finite rank has a function that satisfies its
equation (functions that agree with it up to a rank exist for every rank). The set is then that of the
lengths for which a statement holds.

Only model-checked: liveness (`EventuallyRegistered`, `RequestsEnd`, `PassesAdd`,
`EventsSettle`, `SettledIsRecorded`, `SeenKeepsAdvancing`, `ReplicasServe`,
`EventsHandled`), for the prover has neither fairness nor ENABLED.

## Not modelled

* GetUser, GetUserByOIDCSubject, BatchGetUsers, GetMe, ListDevices and
  ListAPITokens change no state: one statement each, for some after or before a
  check of the admin relation, and nothing is promised about the two together.
* Configuration is read once; conversions between rows, messages and status codes are
  pure; the chart and the end-to-end tests carry no logic of the service.
* The text of page tokens and API tokens, the hash of a subject or token (assumed
  not to collide and not to be guessed), columns nothing depends on, and the length of
  timeouts and delays.
* Two callbacks at a time: when a connection dies, its last callback may overlap
  with the first of the next replica. GroupConsumer has that overlap, but
  DeviceSync, which knows what handling does to attributes, has one consumer.

## Plan

What is left to do: a model of two callbacks at a time on the attributes of a device, and
a listing of devices in several statements in DeviceSync.
