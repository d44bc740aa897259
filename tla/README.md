# Verification of the LoRaWAN platform connector

TLA+ specifications of the connector in `src/`, TLC configurations that check
them on small instances, and theorems that TLAPS proves for all instances.

## The system

The connector keeps a ChirpStack server in step with the SENERGY platform. It is
one Go process. It keeps almost nothing of its own: all durable state is in
Keycloak (accounts), the platform's device repository (devices, hubs, device
types), ChirpStack (users, tenants, apps, devices, gateways, keys), Redis and
Kafka. Every operation is a sequence of remote calls with a timeout for each, and
other operations run between any two of them.

| Component | Source | State | Operations |
|---|---|---|---|
| User provisioning, user sync | `pkg/controller/provision.go`, `pkg/api/provision.go`, `pkg/api/sync.go` | accounts; ChirpStack users, tenants, memberships, apps, integrations | `ProvisionUser`, `DeleteUser`, `ProvisionAllUsers`, `DeleteOutdatedUsers`, `POST /provision`, `PATCH /sync/users` |
| Access token | `pkg/controller/controller.go` | `c.jwt`, `c.jwtMux` | refresh goroutine, read lock around calls |
| Gateway sync | `sync_gateway.go`, `gateway.go`, `api/gateway.go` | hubs, gateways, Redis keys, topic `hubs` | `SyncGateway`, `SyncAllGateways`, `DeleteOutdatedGateways`, topic consumer, certificates |
| Device sync | `sync_device.go` | devices, keys, activations, topic `devices`, email cache | `SyncDevice`, `SyncAllDevices`, `DeleteOutdatedDevices`, topic consumer |
| Device type sync | `sync_device_types.go` | device profiles, device types and their cache, Redis stream | `SyncAllDeviceProfiles`, stream consumer, `ensureSyncedService` |
| Event forwarding | `event.go`, `api/event.go` | Redis keys of heard devices, cached devices and profiles, device attributes | `HandleEvent`, `AnnotateDeviceJoined` |
| Commands, platform connector | `command.go`, `connector.go` | lifetimes of caches | downlinks |
| Start and schedule | `main.go`, `pkg/pkg.go`, `sync.go` | - | startup sync, then the API; hourly ticker |
| Configuration, logging, API docs | the rest | none that changes | - |

How they interact: `New()` starts the token refresh and the consumers of the
topics, then runs `Sync()` (users, devices, device types, gateways, each followed
by the delete of what is outdated), and only then `Start` opens the API. So
consumers and the startup sync overlap, requests do not overlap the startup sync
but overlap everything else. Device and gateway sync find the owner's tenant with
the same `getOrCreateChirpstackTenantId` as provisioning and may create it.
`SetHub` and `UpdateDevice` make the device repository publish a message that the
connector itself consumes.

What is hard, and what makes each part correct:

* *Provisioning*: look-up and creation are two calls with no lock. At most one
  tenant per email; no user in another user's tenant; nothing of a live account
  deleted; a run cut off anywhere is completed by the next.
* *Token*: a call under the read lock carries a token that stays valid for it;
  refresh and callers never block each other for good.
* *Gateway and device sync*: every worker acts on a copy read earlier and writes
  whole objects back. After a full sync platform and ChirpStack match; a
  comparison of two lists read at different times deletes nothing that is in use;
  the messages the connector causes itself die out.
* *Device types*: a sync, the consumer and every event read a device type, change
  the copy and write all of it, events from a copy that is up to a minute old.
  One type per profile; no service or variable lost; every event's variables
  known before it is forwarded; a change of a profile arrives.
* *Events*: devices and profiles come from a cache of a minute. A user's edit is
  not written away, and takes effect on the keys, but for a bounded time.
* *All sync runs*: they end whatever fails, and say so if something failed.

## Modules

| Module | Models | Correspondence |
|---|---|---|
| `Provision` | provisioning and user sync | `proc[<<caller, email>>]` is a goroutine; its `pc` names the next remote call of `ProvisionUser` or `DeleteUser`, `run[s]` is a `ProvisionAllUsers` + `DeleteOutdatedUsers` pass with the shared `ctx`/`cf` variables, `Resolve...` are the look-ups of the other syncs |
| `ProvisionProofs` | | theorems about `Provision`: types, tenants and members, deletes |
| `ProvisionSyncProofs` | | theorems about `Provision`: one tenant per email, what a sync achieves, whose id the integration carries |
| `TokenLock` | `c.jwt`, `c.jwtMux`, refresh goroutine | `pc` of each caller, `refresh` of the goroutine, `leaked` read locks that nobody releases |
| `TokenService` | what the lock promises | the current token and the token each call carries; abstract: no lock, no refresh, no failures |
| `TokenLockProofs` | | theorems about `TokenLock`, also that it implements `TokenService` |
| `GatewaySync` | hubs and gateways, certificates | `proc` is a worker of the topic consumer or of a run, with its `copy` of the hub, the `old` gateway it read and the `new` one it writes; `run[r]` has what `DeleteOutdatedGateways` listed (`known`) and is about to delete (`doomed`) |
| `GatewaySyncProofs` | | theorems about `GatewaySync` |
| `DeviceSync` | devices, keys, activations | `proc` as above with the set `todo` of decided calls; `sweep` is the paging goroutine of `DeleteOutdatedDevices` for one application |
| `DeviceSyncProofs` | | theorems about `DeviceSync` |
| `DeviceTypes` | device types and their writers | `proc` is a goroutine of a run, the consumer or an event, with the `copy` of the types it will write; `cache` is `IotCache`; `conn` and `stream` are the consumer's place in the Redis stream |
| `DeviceTypesProofs` | | theorems about `DeviceTypes`: types, services, events, doubles, what a sync achieves |
| `EventContent` | `prepareContentVariable`, the comparison of content | values and content variables as trees: functions of the paths (sequences of names) at which something stands; the recursion of the two functions as recursive functions over these paths |
| `EventContentProofs` | | theorems about `EventContent`: what the recursions compute, of trees of any depth and width |
| `EventForward` | uplinks, joins, Redis keys, caches | `proc` is a handler of POST /event with the `copy` of the cached device; time passes in ticks |
| `EventForwardProofs` | | theorems about `EventForward` |
| `MC...` | | values of the constants for TLC |

One action is one remote call with the code up to the next call. A call that
fails or whose reply is lost (`CallsFail`) makes the worker return as the code
does: the effect may have happened. `Restart` stops all goroutines at any point;
`quiet` and `failed` of a run are history variables: nothing else happened since
it began, and something in it failed (whether the code reports that or not is
`err`); `swept` is what it has deleted. More history variables say which copies
overlapped (`raced`), which profiles two goroutines were about to create a type for (`doubled`), and how old
a user's edit is (`edited`, `changed`, `kept`). Definitions marked `Fault:` are wrong variants of the definition that
follows them. They are not part of any specification; replacing the definition by
one of them shows that a property notices.

Data is abstracted to what the properties distinguish: emails name tenants, a
location is one value, a set of keys is one value, a local id is an EUI and
whether it is stored in lower case, message max ages are milliseconds that
ChirpStack keeps as seconds. In `DeviceTypes` one value stands for the content of
a profile (name, description, attributes, list item), and a service is the set of
its variables; the trees below it are the matter of `EventContent`.

What is assumed of other systems: tenant names are not unique, users' emails and
gateways' and devices' EUIs are; `Create` of something that exists and `Update`
or `Delete` of something that does not are refused; an update of a hub or device
that is gone from the device repository is refused; whether ChirpStack's gateway `Update` moves a gateway to the
tenant of the request is left open (both happen); a Kafka message whose handler
fails is consumed, and a restart loses some messages or handles them again.
In `GatewaySync` and `DeviceSync` the tenant and application of an owner with an
email are found; `Provision` covers their creation. A hub or device whose owner has
no email is skipped (`sync_gateway.go:79`). In `GatewaySync` owners get, change
and lose emails at any time (`SetMail`), and a gateway belongs to the tenant of an
email. In `DeviceSync` the owners with an email are those of the constant
`Account`, which does not change, and ChirpStack may at first have devices of the
others; the email cache of a minute is not modelled. A device whose keys are new is
synced on if its activation cannot be read, and that error is reported by nobody
(`sync_device.go:113`). GetUsers is unpaged, so `Pages` returns any
`KcMax` accounts; `KcMax` is large enough in the runs that pass. ChirpStack may
have users before the connector first runs (`Old`), those without an account too.
Ids of users, tenants and applications are interchangeable, so the next unused one
is taken.

More about device types and events: `DeviceTypes` takes `UpdateDeviceType` of the
library to leave the written type in its cache, and `EventForward`, which depends
on it, leaves open whether `UpdateDevice` refreshes the cached device, drops it or
leaves it. Device types are never deleted and the id of a deleted profile is not
used again. A max age may be any duration that
`time.ParseDuration` accepts, a negative one too, for which the Redis client sets no
expiry. The calls of the platform library in `HandleEvent` have no context;
`Patience` bounds how long one takes, and what is proved of stale edits is proved
for every `Patience`.

## Runs

`tlc -workers 2 -config <run>.cfg <module>`. The runs and the properties they
check are listed in `PROJECT.json`; the sizes are distinct states.

| Run | Asks | Bounds | Size |
|---|---|---|---|
| `provision_recovery` | does the next sync repair whatever a restart at any call left? | 2 accounts, 2 emails, a user ChirpStack already has, 2 endpoints, 1 restart, 1 account change, one caller at a time | 534,000 |
| `provision_concurrent` | does a goroutine ever use somebody else's tenant; who deletes, and what? | 2 emails, one protected; startup sync, a PATCH and a worker that looks up tenants by cached emails overlap; failing calls, lost replies, renaming of tenants | 1,557,000 |
| `token_lock` | which token does a call carry; who waits for whom? | 3 callers, one leaks its lock, 1 reader without lock, logins that fail or hang, a call without deadline | 7,300 |
| `gateway_sync` | do hubs and gateways match after a sync? | hubs of 2 owners that may claim one EUI and change their emails, 3 edits, 1 restart, failing calls, certificates | 4,081,000 |
| `gateway_live` | do the connector's own messages die out, do syncs end? | the same hubs with one of two max ages, 2 edits, a sync requested at any time | 200,000 |
| `device_sync` | do devices, activations and the platform match after a sync? | ABP devices with one EUI, 2 owners with an email and one without, pages of one, 3 edits, 1 restart, failing calls | 1,956,000 |
| `device_live` | does a sync delete what the platform has; do messages die out, does paging end? | an OTAA device with keys and joins, 2 EUIs, local ids of either case, pages of one, requested syncs | 190,000 |
| `device_types` | what do writers of whole device types lose? | 1 profile with 2 contents and room for 2 types, consumer, startup sync, an event's goroutine, 3 edits or events, 1 restart, failing calls | 1,101,000 |
| `device_types_live` | does a change arrive, do syncs end? | 2 profiles, one of another region, pages of one, requested syncs whose calls fail, 1 edit, 1 restart | 113,000 |
| `event_content` | what does an event make of the variables that are known? | all values of depth 2 with 2 names and lists of up to 1 element, one after the other, 2 edits by users | 978,000 |
| `event_forward` | how long does stale data matter? | 1 device, 2 handlers, 2 edits, max ages of either sign, a cache of 2 ticks, calls of 1 tick | 3,342,000 |
| `type_regions` | violation: see below | 2 profiles, 1 edit | |

Why these bounds: each hazard needs two claims to one thing (two emails, two
owners of one EUI, two creators of a device type, two copies of a device), one
call that stops, and one run after it that must repair the result. Two of each
and one restart produce them; the third tenant, user or type id is for the one
that is made twice. Three edits are the fewest that take an EUI from one owner to
another (two owners register, the first one goes), and what a sync then does
depends on which of two deletes comes first. With one account more to change
(`MaxChanges = 2`, 3,413,000 states) the safety properties of `provision_recovery`
hold as well; that is not among the runs for its time. `MaxEdits`, `MaxChanges` and `MaxCrashes` bound the
environment, never the connector. Ids are never used up in a way that stops a
run: `provision_recovery` has an id for every email and account it can create at
a time, and `provision_concurrent` lets calls fail, so that a worker that finds no
free id takes an error instead; `device_types` does the same. In `event_content`
depth 2 gives a variable inside of a variable, a list or object that becomes a
scalar and the other way round, and "0" is a key of objects as well as the name of
a list's element. In `event_forward` an entry can be used in its first and in its
last tick and a handler may hold it for one more, so a copy can be as old as
`Window` allows. Deadlock is not checked where users and requests may stop at
their bound; it is checked in `token_lock`.

The properties say "after an undisturbed sync without failures" where the code
can promise no more: with edits during the sync, or a failed call in it, the
result is whatever the next sync finds. The states that such a sync starts from
are the ones that earlier edits, failures, restarts and lost messages left. Some
of the properties have an exception, which three edits make visible. A hub or
device may be marked as a duplicate by an entry that the same sync deletes afterwards, so `SyncServesHubs` and
`SyncCreatesDevices` accept a mark whose EUI is in `swept`, and `SyncActivates`
does not speak of such an EUI. `SyncRemovesDevices` is conditional twice: after
a deletion the next offset skips devices, so it speaks of syncs that delete nothing
or whose devices fit into one page (`Fits`; `device_sync` deletes from full pages);
and `DeleteOutdatedDevices` skips a page if the platform returns as many devices as
the page has, so no two devices of an owner may have one EUI (`OneEach`).
`device_paging` refutes the statement without `Fits` (`SyncRemovesAll`). The device runs have
either keys (OTAA) or a session (ABP) on a device; a device with both is in the model
and in the proofs, but not in a run. `QuietSyncSucceeds`: such a sync of users reports
an error only for an account without an email, or for a delete whose context
another goroutine has cancelled through the shared variables (`provision.go:224`).

Fairness: weak fairness of each worker and of each run, that is, of the
goroutines the Go scheduler runs and of remote calls that return within the
timeout of their context (`XREAD` blocks for ever, which is no call that must
return: its action is enabled only when the stream has an entry). In `TokenLock`
some calls need not return: the login of the refresh goroutine has no timeout
(`controller.go:118` gets the context of the process) and may hang with the write lock
held (`LoginHang`), and so may the calls of the device repository, which have no
context (`Unbounded`). A janitor may leak its read lock (`sync_device.go:258`).
Each of the three stops refresh and callers for good: `CallersServed` and
`RefreshCompletes` therefore say "or a lock is lost" (`LockLost`). Nothing is assumed
of users, devices, requests, restarts or of a caller to call again. Calls of the
consumers are not assumed to succeed, only to return; in `device_types_live` the
calls of requested syncs may fail (`Failing`) and `RunsEnd` is checked with that.
A start whose sync ends the process again (`type_panic`) would repeat for ever, so it
assumes that this stops at some time. In the gateway and device
modules and in `Provision` the liveness runs have no failing calls.

`Settles` of the gateways needs max ages that agree at some time for good: as long as
a hub's and its gateway's differ, `SetHub` stores the interval the gateway had
and `Update` the one the hub had (`sync_gateway.go:440`, `473`), so the two swap for
ever (`SameAges`; `gateway_live` has two ages). It also takes Redis to return keys in one order
as long as they are the same: `slices.Equal` compares the order of the links
(`sync_gateway.go:511`), which the model has as sets. A scan in another order, or
one that fails now and then, changes the hub again.

## What the runs show to be wrong

One documented statement has a run in `PROJECT.json`:

* `type_regions`: "list of regions to sync, if empty all regions will be synced"
  (`configuration/config.go:36`). The consumer of the request stream does not look
  at the region (`sync_device_types.go:236`), so profiles of any region get device
  types when they are created or updated.

More configurations are kept that are not among the runs; TLC finds the named
property violated in each, within seconds (three configurations name two
properties; `tlc -continue` reports both). The first three contradict the README
("The previous tenant will be deleted automatically!") and comments
(`sync_gateway.go:263`, `sync_device.go:351`):

| Configuration | Property | Behaviour |
|---|---|---|
| `orphan_partial` | `SyncRemovesTenants` | `DeleteUser` deletes the user, then the tenant; stopped in between it leaves a tenant that no later sync looks at, as `DeleteOutdatedUsers` walks users |
| `gateway_unread` | `QuietSyncKeeps` | a tenant or owner that cannot be read counts as "no matching gateway", and the gateway of an existing hub is deleted |
| `device_paging` | `SyncRemovesAll` | the offset advances while the page is deleted, so devices are skipped |
| `duplicate_tenant` | `OneTenantPerEmail` | two callers look up one tenant, both create it, and every later look-up fails |
| `stale_snapshot` | `LiveUserKept` | a user who registers between the two lists is deleted; with `KcMax` below the number of accounts, one beyond the page of `GetUsers` is, too |
| `substring_search` | `OnlyOwnMembers` | a search that matches a longer email is used as it is (`provision.go:315`) |
| `reused_email` | `HeaderIsOwner` | an email moves to another account and the integration keeps the old `X-UserId` |
| `gateway_order`, `device_order` | `DuplicateHasGateway`, `DuplicateHasDevice` | `DeleteOutdated...` deletes the entry because of which the same sync marked another hub or device, which is without until the next sync |
| `gateway_janitor` | `MatchedGatewayKept` | a hub that is made between the lists of `DeleteOutdatedGateways` loses its gateway |
| `gateway_delete` | `DeletesOwnGateway` | between Get and Delete the EUI goes to another tenant |
| `gateway_cert` | `AnnotationKept` | a sync writes the certificate's expiration away with its older copy |
| `gateway_failures`, `device_failures` | `FailureReported` | errors are joined to a shadowed `err`, or dropped; a device whose owner has no email |
| `device_keys` | `SyncSetsKeys` | keys still to be created are no reason to go on (`sync_device.go:139`) |
| `device_case` | `QuietSyncKeeps` | a device whose local id could not be lowered looks missing |
| `type_panic` | `NoPanic` | `err` is tested instead of `err2` (`sync_device_types.go:107`): a profile deleted between List and Get ends the process |
| `type_failures` | `FailureReported` | for the same reason a run in which calls fail reports success |
| `type_double` | `NoDoubles` | consumer and sync both find no device type and both create one |
| `type_lost` | `NothingLost` | an event and a sync write copies of one type; a service is lost |
| `type_lost` | `ContentKept` | an event writes a cached type back and with it the older content of the profile |
| `content_status` | `SyncRestoresStatus` | swapped arguments (`sync_device_types.go:431`): a variable missing from "status" is no reason for an update |
| `content_status` | `EventHasService` | an event whose value is null is forwarded with an empty service id |
| `event_lost` | `EditKept` | a join writes the cached device over a user's edit |
| `event_lost` | `KeysExpire` | a max age that does not parse, is zero or is negative, or an interval of zero, makes a key that never expires |

The hourly sync never happens: `defer ticker.Stop()` (`sync.go:53`) stops the
ticker when `setupSync` returns. The modules therefore have no such run.

## Proofs

`tlapm <module>`; every proof is checked to its leaves.

`TokenLockProofs`, for any number of callers, tokens and leaks:

* `TypeCorrect`, `HeldTokenCorrect`. The invariant `Inv` adds `Exclusive`, that
  nobody holds a read lock during a login, to `TypeOK` and `HeldTokenIsCurrent`:
  without it `LoginOk` could replace the token under a reader.
* `ExpiryCorrect`: a call that begins with an expired token does so while the
  refresh waits to retry, from the same invariant and the state of the refresh.
* `ServiceCorrect`: `Spec => Service!Spec`, the refinement. A read lock that is
  granted is the beginning of a call, its release the end; `LoginOk` is the new
  token together with the callers that queued; a failed login lets the queue in and
  is a beginning, too; everything else stutters. That a login finds no call under
  way is `Exclusive`. Hanging logins and calls stutter: they never release what they
  hold.

`ProvisionProofs`, for any number of accounts, emails, callers, sync runs, ids,
restarts and failing calls:

* `TypeCorrect`. `TypeOK` alone is not inductive: `AddMember` and `CreateApp`
  store the ids a goroutine holds. `LocalsOK` says which `pc` has which ids.
* `HeldTenantCorrect`, `OnlyOwnMembersCorrect`. A goroutine's tenant has its
  email or is gone, because ids are fresh and every rename is to the same name;
  `UserInv` says the same of user ids (and that two emails have two users). A
  membership then joins a user and a tenant of one email.
* `DeletesOnlyUnseenCorrect`. `DeletesJustified`: while a delete goroutine of a
  run exists the run is in its delete phase, and its email is neither protected
  nor in the run's snapshot. An action property, from the invariant and one lemma
  per group of actions.

The last three of these assume `ExactSearch`, that a tenant search matches the searched
name only; `substring_search` shows that they are false without it. The
assumptions on the constants (`IdAssumption`, `ActorAssumption`, ...) say that
kinds of ids do not overlap; TLC evaluates them in every run.

`ProvisionSyncProofs`, for the same:

* `OneTenantCorrect` and `OneTenantOneCaller`: `OneTenantPerEmail`. Looking a
  tenant up and creating it are two calls without a lock, so the first theorem
  assumes `[]OneWorker`, that no two goroutines work on one email; `TenantInv` then
  keeps, between the two, that there is none. The second derives `[]OneWorker` for
  the startup sync and one `POST /provision` at a time (`OneCaller`), which the API
  keeps apart (`CallerInv`). `duplicate_tenant` shows that two callers break it.
* `SyncRemovesUsersCorrect`. `RemoveInv`: in the delete phase of a quiet run
  without error every user whose account it has not seen has a delete under way, and
  `DeletesInv`: a delete that has left its first call has removed its user. It
  needs no hypothesis, as `DeleteOutdatedUsers` waits for all and joins their errors.
* `SyncProvisionsCorrect`. `HeldInv` says of a goroutine of a quiet run that what
  its variables hold is what the stores have at each `pc` (user, tenant,
  membership, app, integration), as nothing else touches its email (`EmailKept`);
  `ServeInv` that the accounts whose goroutines are through are served, also while
  the run deletes others. Hypotheses: `ExactSearch`, and `OnePage`, that Keycloak
  returns all accounts at once; with a smaller page the sync deletes users that it
  has not seen (`stale_snapshot`).
* `HeaderCorrect`: `HeaderIsOwner`, which `reused_email` refutes. `ProvisionUser`
  does not compare the header of an integration it finds, and the theorem says when
  that is harmless: if some function `owner` tells of every email the one account
  that ever has it (`[]Owned(owner)`), every integration carries its tenant's owner,
  not only after a sync. `HeaderInv`: goroutines provision an email for its owner,
  apps and integrations are gone when their tenant is, and the app that a goroutine
  has found or made is in a tenant of its email.
* `QuietSyncCorrect` and `QuietSyncOneCaller`: `QuietSyncSucceeds`, an action
  property. With one tenant per email (`TenantInv`) and one app per tenant
  (`AppInv`) no look-up is ambiguous; `FaultInv` leaves the cancelled context of a
  delete as the only reason for a goroutine's error. The hypotheses are those of
  `OneTenantCorrect`.

`GatewaySyncProofs`, for any number of hubs, owners, EUIs, runs, requests, edits,
restarts and failing calls:

* `TypeCorrect`. `TypeInv` adds what a goroutine has in its variables at each `pc`
  (`LocalsOK`), that the message the consumer handles is still on the topic, and
  the same of certificate requests.
* `SyncCorrect`: `SyncServesHubs`; `SyncRemovesCorrect`: `SyncRemovesGateways`; and
  `FaultlessSyncKeepsCorrect`, an action property. The inductive invariant
  `SyncInv` says of each run that is quiet and has not failed: it is the only
  cause of messages (`Undisturbed`); every copy that a goroutine holds agrees with
  its hub in all that decides about the gateway (`CopiesOK`); and what has been
  reached in its phase (`PhaseOK`): in "syncing", a hub whose goroutine has ended
  is served; then all are, and `known` is the set of EUIs and owners of the hubs;
  then `doomed` has no gateway with a hub, and every gateway without one is in it.
  `Keep` collects what a step of the consumer preserves while the run goes on: the
  messages of the run's own `SetHub` write the same hubs again.

`DeviceSyncProofs`, for any number of devices, owners, EUIs, runs, requests,
edits, restarts and failing calls, and every page size:

* `TypeCorrect`. `TypeInv` adds what a worker has in its variables at each `pc`
  (`LocalsOK`), that the consumer works on a message of the topic (`ConsumerOK`),
  and which goroutines exist in which phase of a run (`PhasesOK`).
* `SyncCorrect`: `SyncCreatesDevices`; `SyncActivatesCorrect`: `SyncActivates`;
  `SyncRemovesCorrect`: `SyncRemovesDevices`; and `FaultlessSyncKeepsCorrect`, an action property. The
  invariant `SyncInv` says of each quiet run that has not failed: the only messages
  are those of its own `LowerLocalId` (`Undisturbed`); a copy agrees with its
  device, or the device was marked as a duplicate since (`CopiesOK`); which devices
  are served in which phase (`PhaseOK`); and what each sweep has read and has yet to
  delete (`SweepsOK`). `Keep` is what a step preserves of devices, ChirpStack and
  sessions while the run goes on.
* `SyncRemovesCorrect` has the condition `Small`, that one page holds all EUIs,
  in place of `Fits`, which speaks of the devices that are there. That a page is skipped only if nothing in
  it is outdated needs `OneEach`: then the platform's devices are not more than their
  EUIs (`FS_Injection`). The other theorems need no condition.

`DeviceTypesProofs`, for any number of profiles, types, services, variables,
events, runs, restarts and failing calls:

* `TypeCorrect`. `LocalOK` adds which `pc` has a profile and its content, as a
  write takes both from the goroutine's record.
* `ServicesCorrect`, `EventCorrect`. `CopyInv`: while a type is not `raced`, its
  cached entry and every copy of it have the services that the platform has, and
  at most one goroutine has a copy. So a whole write loses nothing. `OneCopy`, that an
  event holds one type, lets a step be judged by the type it writes.
* `ProfileCorrect`. `ProfileInv`: while a profile is not `doubled`, a goroutine
  that is about to create its type is alone, and there is none yet.

* `SyncCorrect`: `SyncUpdatesTypes`, for every page size. `SyncInv` says of each quiet run that has not
  failed what each of its goroutines holds (`HeldOK`: the profile's present content
  and types of this profile) and how far its profile is (`ProgressOK`): not yet
  listed; in work, with the types still to write among the copies it holds; or
  current. Nothing is assumed of the types before: doubles, older content and
  unfinished writes are what the sync repairs.
* That the pages together are all profiles is arithmetic about ranks:
  `RanksTaken` (every number up to the size of a finite set is the rank of an
  element) and `PageFull`. Both would be inductions over finite sets; they are
  proved by a smallest counterexample instead (`SmallestSet`, from the
  well-foundedness of the strict subset ordering).

`EventContentProofs`, for all finite trees of values and variables over any names
and scalar types, however deep and wide:

* `PrepareCorrect`: `Learned(val, base, Prepare(val, base))`, that is, what
  `prepareContentVariable` makes of every path, said without recursion. A path of
  the value has the value's type and the note that was known, unless the value says
  null; a path the value does not speak of is kept, unless something on the way to
  it is no object or list any more. Nothing is assumed of the variables known
  before.
* `NeedsUpdateCorrect`: `contentVariableNeedsUpdate` is true exactly if some path
  of the new tree is missing in the existing one or something differs there. What
  only the existing tree has goes unnoticed: with the arguments swapped that is
  the cause of `content_status`.
* `RepeatedEvent`: the same value twice is the same as once.
* `TypeCorrect`, `EventDescribedCorrect`, `SyncCleansCorrect`: the properties of the
  run. `SyncInv` adds to `SyncCleansStatus` that a sync is over (`synced` is reset)
  before the next event is learnt.

The recursion is a function over the paths of a finite tree. That there is one
function that satisfies it, and what it is, would be an induction over data; the
proof gives a function without recursion that does what the definition says
(`CallBelow`, `CompareDeviates`) and shows that two such functions are equal,
from a deepest path at which they are not (`CallUnique`, `CompareUnique`). That
there is a deepest one (`Deepest`) is a smallest counterexample again. Assumed of the
constants: the values and the template are finite trees, and null is no type.

`EventForwardProofs`, for any number of devices, handlers and gateways, and every
`Minute`, `Hour` and `Patience`:

* `TypeCorrect`.
* `EditCorrect`. `EditInv`: an entry with another age than the device's is older
  than the edit, so age of the edit and time left for the entry are at most
  `Minute`; a handler that holds such a copy took it in that time.
* `ChangeCorrect` adds `IntervalInv`, the same of the profile's interval, and
  `SetInv`: a handler that has decided on an expiration after both were old enough
  has decided on the current one.
* `KeysExpireCorrect`: `KeysExpire`, which `event_lost` refutes. If the max ages that
  users write can be parsed and, like the intervals, are positive (`[]Positive`), no
  copy has another and no key is set for ever. Max ages are any integers: this is a
  condition of the theorem, not an assumption about the constants.

Every safety property of the passing runs is a theorem: all invariants and action
properties and the refinement of `TokenService`. Only model-checked is liveness
(`SyncTerminates`, `CallersServed`, `RefreshCompletes`, `Settles`, `RunsEnd`,
`ChangeArrives`), which is beyond the prover. `type_regions` and the configurations
above are counterexamples, which TLC finds.

`tlapm` reads `UNION A \cup B` as `UNION (A \cup B)` and `SUBSET A \ B` likewise,
TLC as `(UNION A) \cup B`; the modules have parentheses there, so that both check
the same.

## Not modelled

Commands (one call that enqueues a downlink) and the set-up of the platform
library in `connector.go`: they have no state. The hourly ticker, as it never fires.
The nested read lock of the token provider (`controller.go:104`): whether the client
library asks the provider inside of a call is not in the repository. Device profiles
and types appear in `DeviceSync` as a call that may fail.
Left out for good: HTTP routing, configuration, logging, mail texts, certificate
contents, parsing of coordinates, and the order in which Redis returns keys.
In `GatewaySync` each element of `Patch` is one request for a sync.
`Restart` keeps the configuration except the endpoint. `GatewaySync`,
`DeviceSync` and `DeviceTypes` each see only their own phase of `Sync()`, starting
at once. `EventContent` has one writer at a time, `DeviceTypes` has the races.

## Plan

In the order of importance:

1. `Provision`, `TokenLock` with proofs; `GatewaySync`, `DeviceSync` (done).
2. `DeviceTypes`, `EventContent`, `EventForward`, with proofs (done).
3. `TokenService` and the refinement by `TokenLock`, checked and proved (done).
4. `GatewaySync`: types and the properties about syncs, proved (done).
5. `DeviceSync`: the same, proved (done).
6. `OneTenantPerEmail` for one caller at a time, and the completed syncs of
   `Provision` and `DeviceTypes`, proved (done).
7. `EventContent` without recursive operators, and what its recursion computes,
   proved for all finite trees; `HeaderIsOwner` and `KeysExpire` under the
   conditions that make them true, proved (done).
8. Compositions: `Provision` with the tenant look-up of `GatewaySync`; the keys of
   `EventForward` with the links of `GatewaySync`.
