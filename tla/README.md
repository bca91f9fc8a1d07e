# Formal models of the TAKAB Ailert seismic-alert cabinet

TAKAB Ailert warns the occupants of a building of an earthquake. A cabinet in the
building (`src/edge/takab_edge`, Python, one or two processes on a Raspberry Pi)
listens to the SASMEX receiver (a dry contact, the WR-1) and to its own
seismometer, drives siren, strobe, gas valve, lift and door retainers, and tells a
cloud (`src/api`, FastAPI over Postgres and MQTT) what happens; web and mobile
clients hang from the cloud.

This directory holds TLA+ models of the cabinet's core and of what it signs, sends and
hears with the cloud, the TLC configurations that
check them on small instances, and TLAPS proofs of their main invariants for every
value of the constants. The models are read from the code and follow what it does,
also where it disagrees with its comments; those places are listed under
*Disagreements*. File names below are relative to `src/edge/takab_edge` unless they
begin with `src/`.

    tlc -workers 2 -config GpioRelays.cfg MCGpioRelays     # one run
    tlapm GpioRelaysProofs.tla                             # one proof module

## 1. Inventory

| Component | State it keeps | Operations | Hard because | Status |
|---|---|---|---|---|
| Pin owner, `gpio/` | demands (latch, silence, tests, rules, safe state), bookkeeping of the relays, timers | reflex, buttons, tests, order batches, safe state, reset, start/stop | a dozen callers on as many threads; timers that fire late; pulses that bypass the bookkeeping | `GpioRelays` |
| Pin ownership, `gpio/`, `pinlink/server.py` | flock, open lines, bound socket | claim, open, serve, close, release, rescue | processes start, fail and are killed in any order | `PinOwnership` |
| Rule engine, `rules/__init__.py` | identity of the episode, channel freshness | evaluate, adopt, end, reset | identity shared with the tracker across two locks | `Episode` (thresholds are an input) |
| Episode tracker, `rules/episode.py` | tier, identity, silence clock, cap, file | observe, restore | silence must be continuous; two threads; power cuts | `Episode` |
| Supervisor, `supervisor.py` | wiring, test window | `_act_and_publish` on two threads | what one thread read is stale when it uses it | `Episode` |
| Cloud connector, `cloud/` | queue, files, deduplication, link | publish, flush, evict, drop, reload | the head of the queue is nowhere while it is sent; lost acknowledgements; full disk | `CloudSpool` |
| Block backfill, `backfill/` | upload, cooldown, evidence queue | route, kick, upload | a second route that drains the same queue | `CloudSpool` (evidence queue planned) |
| LAN panel, `local_api/` | sessions | silence, close the alert, tests | orders of an operator race the alert | not modelled; what its orders do to their targets is in `GpioRelays` and `Episode` |
| Pin link, `pinlink/`, `gpio_link.py` | client cache, identity delivered, queue of each connection | request, event, state, reconnect, reconcile | three threads push without a common lock; events missed while down | `PinLink` (deadlines of the requests left out) |
| Drill, `drill/` | drill in progress, timer | start, replace, stop, end of window, abort | check of the alert outside the lock; stale timers | `Drill`, and its cloud side in `Commands` |
| Command dispatcher, `dispatch/`, `security/` | nonces, acknowledgements, update state | verify, run once, acknowledge | repeats across restarts; update and canary | `Commands` (update, canary and self-test left out) |
| Actuators, `actuators/` | none of its own | tier to sequence of channels | ends in one batch to the pin owner | not modelled |
| Actuation ledger, `audit/` | append-only log, watermark | append, rotate, drain | crash between write and watermark | planned |
| Telemetry, `telemetry/` | rate by tier | publish samples | feeds the capped topic of the spool | planned |
| LoRa mirror, `lora/` | pending frames | repeat until acknowledged | lossy link | planned |
| Audio, `audio/` | voice, its mark and generation, the player | start, stop, watch, silence | one player, six callers, three locks | `Drill` (ambient music and the siren on the jack left out) |
| Configuration store, `config/store.py` | document, version, high water, cache file | apply, persist, restore | a disk that refuses, a restart, repeats | `SignedDocs` |
| Signal, SeedLink, buffer, health, CCTV | caches, files | numeric processing, probes, external processes | not coordination | not modelled |
| API ingest and incidents, `src/api` | incidents, events | idempotent ingest, quorum, closing | duplicated, reordered messages; concurrent workers | `handle_command_ack` in `Commands`, what opens, raises, links and closes an incident in `Notify`; the rest planned |
| API commands, `src/api` | command rows, drills, published versions | sign, publish, record, expire, sync documents | a message cannot be rolled back with the transaction | `Commands`, `SignedDocs` |
| API notifications, `src/api` | jobs of an incident, duplicate guard, demonstration mode | plan, upgrade, escalate, send, retry, block | a message cannot be rolled back; the incident changes under the pass | `Notify` (panic, mails of single actions, receipts left out) |
| Routers, reports, web, mobile, infrastructure | - | request/response, UI, scripts | little state of their own | not modelled |

How they interact. The WR-1 contact calls the pin owner, which latches and sounds
before anything else (the *reflex*) and then notifies observers; the supervisor is
one. SeedLink packets arrive on another thread. Both threads run
`_act_and_publish`: rules decide a tier and an identity, actuators send the pin owner
one batch, the tracker turns decisions into transitions (opening, escalation,
closing), and both the transition and the event that opens an incident go to the
connector, which is durable. With the pins in another process the same calls cross a
Unix socket, and a read may fail. The panel calls the pin owner and the rules. The
cloud signs two kinds of message for a cabinet: orders (one nonce each, run once,
acknowledged through the connector) and documents (numbered, taken only upwards). A
drill is such an order; its voice and the voice of the alert share one player. What the
cabinet says of an alert opens or raises an incident in the cloud, and a worker tells people.

## 2. What each module models

**`GpioRelays`** (`gpio/__init__.py`). The variables are the attributes of
`GpioController`: the demands (`latched`, `silenced`, `sirenTest`, `actuationTest`,
`demand`, `safed`), the bookkeeping (`energized`, with `known` for its keys), the
devices (`wired`, `relay`), timers and test threads. What a method does under the
lock is one action, because the lock is held for all of it; what it does before or
after is another (`SilenceButton` reads the toggle, `SilenceButtonApplies` uses it;
`TimerFires` puts a callback behind the lock, `EndSirenTest` is the callback).
`Apply(cs)` is `_apply` on each channel of `cs`: every action that changes a demand
names the channels its method recomputes, so a forgotten channel is visible.
Cancelling a `threading.Timer` does not stop a callback that has fired: `late` counts
them. A batch refuses a channel it does not know and applies the rest. Left out: the
CIRES heartbeat thread, the clock of the test window, observers, the log.

**`PinOwnership`** (`_acquire_pin_ownership`, `_on_start`, `_on_stop`,
`_rescatar_hardware_a_medio_montar`, and the socket of `pinlink/server.py`). One
variable for the flock, the lines each process has open, the socket, and where each
process is. A start may be refused, fail after any device, be rescued, stop, or be
killed at any point; closing devices may raise. The kernel's own exclusivity of
GPIO lines is deliberately not assumed.

**`Episode`** (`rules/__init__.py`, `rules/episode.py`, `supervisor.py`,
`reset_alert` of `local_api`). Engine and tracker are atomic objects, each under its
lock; the pass between them is not, so a thread goes through `decided`, `acted`,
`read`, `observed`, `announce` one step at a time. The silence clock may complete and
the episode may outlive its cap at any moment, which covers every configured
duration. The operator's close is its two calls. A restart restores the file, or
discards it (too old, unreadable), and the engine adopts what was restored. Left
out: `decide()` (thresholds, stale channels), whose result, a tier, is an input.

**`CloudSpool`** (`cloud/__init__.py`, `backfill/__init__.py`). Queue, files,
deduplication, the one flush in progress with the record it took out, and the S3
upload with the copy it took. The deque is the set of its records and the relation `ahead`,
which of two is nearer the head: what an eviction or a block upload leaves of a queue of any
length is then a restriction of both, and no theorem needs induction over sequences. Publish, evict, send, lose the acknowledgement, remove
the file, upload, drop, age, cool down, lose the link, lose power and boot are actions.
A record whose write failed has `durable = FALSE` (its name is `None` in the code).
`count` is `_topic_counts`, by which the eviction goes, kept apart from the measures that
are there. The disk may refuse every removal: after the broker's acknowledgement
(`FileRemoved`), in the eviction of a publication (`Oldest`, which then has taken the record
out of the queue), in the middle of a block's drop (`DropRefused`, which has counted out
records that stay) and in the eviction of a boot (`BootDies`: the constructor raises and
`up` stays false). Left out: the transport, subscriptions, the beacon, the bound of the
deduplication's memory (20 000 identities), a rename that is done before the directory's
`fsync` fails (a failed write leaves no file here), and files that a boot cannot read and
puts aside.

**`DurableOutbox`** is the abstract specification of the connector: a message
accepted with a durable copy is released only once delivered; delivery is at least
once; a message accepted without a copy is fragile and a power cut forgets it. `CloudSpool`
implements it by reading *owed* off the files, *fragile* off the records without one
and *got* off what either route delivered.

**`PinLink`** (`pinlink/server.py`, `pinlink/client.py`, and `_dispatch_sasmex` as the
source of the events). `at` is where each of the owner's three threads is: the reflex's,
which mints the identity of an alert, sends the event and pushes a state; the emitter,
which polls while there are subscribers; and the reader, which serves the requests. A
push is three actions, because nothing is held across them: `Look` takes the snapshot,
`Seal` adds the identity of that moment, `Send` queues it. `Drop` breaks the connection
at any moment; `Connect` and `Subscribe` are the client's return. `TakeState` and
`TakeEvent` are what the client's reader does with a message, reconciliation included.
Left out: the codec, credentials and rate limits, the deadlines of the requests, a
restart of either process, an overflow of the observers' mailbox.

**`Drill`** (`drill/__init__.py`, `audio/__init__.py`, and the abort calls of
`supervisor.py` and `dispatch/`). A thread is the agenda of the atomic steps it has yet
to take: a start is its check, the locked start and the voice; an alert is its aborts and
then its own voice; the watcher reads the mark and stops the player later. `MCInputs`
chooses which orders, alerts and buttons happen together. Left out: ambient music and the
siren on the jack, a player that refuses to die, the stop of the module.

**`Commands`** (`commands/service.py`, `routers/drills.py`, `ingest/handlers.py`, and in
the cabinet `dispatch/`, `security/`, `drill/`). One order per cabinet: each issued by its
own request, or all of them the start of one drill, issued by one request whose
transaction commits at the end. Publication cannot be rolled back, the two queues repeat
and reorder, clocks differ (so expiry may come at any moment), and a restart forgets the
nonces. An order the cabinet receives is refused before anything moves (`Refused`) or is
carried out (`CarriedOut`), and what is carried out may be answered as failed: the link to
the pins broke after the relays moved, or one relay of several did not follow. `denied`
notes those. What an order does to the relays is `GpioRelays`.

**`SignedDocs`** (`commands/sync.py`, `push_catalog` of `routers/commands.py`,
`config/store.py`). The console edits what a gateway should have; a transaction reads the
recorded version, publishes the next one and records it, and may fail before or after the
broker took the message. The cabinet takes only versions above its high water, writes its
cache, may be refused by the disk, and restarts from that file. It also refuses a document
that its contract does not allow (`Invalid`), which the cloud publishes without looking. A
restart makes one of three things of the file (`Loaded`): all of it; its mark alone, if the
key was rotated or the contract of a new version of the program refuses the document; or
nothing, if it cannot be read. The seismic catalogue follows the same protocol; its file
is only good or unreadable. `Serialised` says whether the writers hold the advisory lock,
as the worker's passes do.

**`Notify`** (`notify/` and `demo_mode.py` of `src/api`, and the statements of `ingest/` and
`incident/` that open, raise, link and close an incident). One incident and its rows of
`notification_jobs`: a cascade of one channel with a duplicate guard (`sms`) and one without
(`email`), the push of the incident and that of the order to evacuate. `db` is what is
committed and `tx` what the pass sees, for a pass is one transaction under an advisory lock:
three planning steps in their order, then one message at a time, then the commit, with the
rest of the system moving in between. `Cut` loses what `tx` has and not what left. A request
for the demonstration mode is two steps, because nothing is locked between them. Left out:
panic incidents, mails and pushes of single actions, the parallel mail of a critical
incident, the hour and the day that bound what a pass looks at, deadlines, recipients, texts
and provider receipts.

`MCGpioRelays`, `MCPinOwnership`, `MCCloudSpool`, `MCDrill` and `MCCommands` give constants their values for TLC.
`GpioRelaysProofs` (with `PinOwnership`), `CloudSpoolProofs`, `CommandsProofs`,
`SignedDocsProofs`, `EpisodeProofs`, `NotifyProofs`, `PinLinkProofs` and `DrillProofs` hold the proofs.

## 3. The runs

| Run | Question | Bounds | Result |
|---|---|---|---|
| `gpio_relays` | Do all callers together keep the relays what the demands call for? | siren, strobe, gas valve (both rest polarities); batches of all three and of the valve; one test thread; one late callback per timer | pass, 1.1 M states |
| `episode_threads` | Does an episode with both threads, operator, test window and degraded sensors only escalate, close on continuous silence and always owe its closing? | two identities, no power cut | pass, 1.9 M states |
| `episode_seedlink` | Does one thread keep engine, tracker and cloud in one identity across a power cut and a refusing disk, and does every episode end in the cloud too? | every ground tier but `manual_only`, three identities, one cut, fairness | pass, 284 k states |
| `cloud_spool` | Is anything lost, forgotten, duplicated in the cabinet, reordered or unbounded, and is the abstract outbox implemented? | two events, one measure, cap 1, three file names, a disk that refuses any write or removal, one cut, one uncounted measure | pass, 1.5 M states (the events are symmetric) |
| `cloud_live` | Does everything leave once the link stays up? | as above, a disk that works, fairness | pass, 133 k states |
| `pin_ownership` | Can two processes govern pins, or an owner be unreachable? | three processes, two lines, closing may fail | pass |
| `pin_link` | Does every alert reach the client's observers, once, however the socket breaks, and does the cached state follow the cabinet? | two alerts, three events or connections, two messages on their way, fairness | pass, 1.1 M states |
| `drill` | Does the real alert win over the drill and its voice, does a drill end in its own window, and is the cloud told the truth about it? | two drills, four kinds of alert, the buttons, in the combinations of `MCInputs`, fairness | pass, 330 k states |
| `commands` | Does what the console shows of an order and of a drill agree with what the cabinets did? | two cabinets (symmetric), one restart | pass, 1.9 M states |
| `signed_docs` | Do cloud and cabinet agree on the document in force, and does no message take the cabinet back? | a valid document, one that the cabinet refuses and none, two writers, three edits, four versions, one failed transaction, one restart from a good, ignored or unreadable file, a refusing disk, fairness | pass, 419 k states |
| `notify` | Does the cascade give up no voice, repeat no message, escape the demonstration mode, and does the building hear the order to evacuate? | one incident, a cascade of two channels or none, two attempts, one request for the mode, one cut or lapsed guard, fairness | pass, 665 k states |
| `episode_reset` | Does an episode keep ONE identity when the operator closes the alert? | the smallest that shows it | violated, see 5 |

Why the bounds are enough. A relay is recomputed from the demands of its own channel,
so one channel of each rest polarity, audible and not, is every case; a batch that
names all and a batch that names one cover the orders that matter, and the proofs of
section 4 cover the rest. Two late callbacks of one timer do what one does twice. An
episode meets at most its own identity, the next one, and one more after a restart:
three identities; with two, both threads still race over a first and a second
earthquake. A queue of three names holds a record in flight, one that was queued behind
it and one published meanwhile; a cap of one makes every second measure evict. Three
processes are an owner, a successor, and a third that would find the lock between
them. In the pin link a
second alert is what the only remembered identity can be confused with, and two messages
on their way are what can be out of order; a third input leaves room for a reconnection
after them. Two drills are an old timer and a new drill; each set of `MCInputs` joins the
inputs that touch the same lock or the player, and their union is every pair of callers.
Two cabinets are one that plays and one that has cut its drill short. Two documents (the
valid one goes out as active or as retired, besides the invalid one) and two writers share a
version if anything does, and four versions leave one to recover
with. One measure left uncounted is what a refused drop does to a queue of cap one. Two channels are a first and a last voice; two attempts are a retry and giving up; a
second cut repeats what the first does to another pass. Bounds are `MaxLate`, `MaxIds`, `MaxCrashes`, `MaxNames`, `MaxLost`, `MaxRises`, `MaxInputs`,
`MaxQueue`, `Inputs`, `MaxRestarts`, `MaxFaults`, `MaxEdits`, `MaxVersion`,
`MaxAttempts`, `MaxAsks`, `MaxSlips`; each is a guard
of the action that would exceed it.

The properties, in words. In `GpioRelays`: `CabinetIsCoherent` (`BookkeepingIsCurrent`,
the bookkeeping is what the demands call for, and `PinsFollowBookkeeping`, a pin departs from
it only for a pulse, towards protection, never in the safe state), `LiveAlertIsProtected` (no test, timer or second
order lowers what a live alert needs), `SafeStateIsDark`,
`TestHasAnEnd` (a sounding test has a timer or a fired callback), `HeldContactIsLatched`
(no closure falls between two boot steps); `SirenHasReason`, which the first implies, is
proved and has no run. In `Episode`: `OneIdentity`, `TrackerIsFollowed` (engine and cloud
follow the tracker), `OneEpisodePerQuake` (a new episode is a new event, and the latch holds
the old one open), `HeldUntilSilence` (the tier only rises, and only continuous silence or the
cap closes), `ClosingIsNotLost`, and the liveness `ClosingReachesCloud`. In `CloudSpool`:
`NoLoss`, `OwedIsHeld` (while the process runs, the file of an event that has not arrived
is held in memory), `OneCopyInOrder`, `TelemetryBounded`, `OutboxSpec`, `NothingIsStuck`.
In `PinOwnership`: `OneGovernor`, `DoorIsTheOwners`, `SuccessorFindsDoor`. In `PinLink`:
`AnnouncedUnlessTorn` (what the client takes for delivered it announced), `OncePerAlert`,
`AlertIsAnnounced` (when everything sent has been read, an alert that is up has been
announced), `CacheIsRefreshed`. In `Drill`: `RealWins`, `EndsAsTold` (a drill ends in its own
window, and the cloud is told of an abort, once, and of no other end), `DrillIsSettled`, `VoiceYields`. In
`Commands`: `OnceAndAckedMeansRan`, `RecordIsTrue` (an order that was carried out is not left
waiting, nor shown as rejected unless its cabinet said so), `DrillIsShownAsItIs`, `NeverRevives`. In
`SignedDocs`: `SharedOnlyByStray`, `InSyncIsTrue`, `NeverBack` (messages only take a cabinet
forward, and a restart keeps its mark), `ReachesTheCabinet`. In `Notify`:
`NoVoiceIsDropped` (a channel is skipped only if another told somebody, the next never waits
behind one that told nobody, and the last is tried to the end), `TwiceOnlyIfCut`,
`BlockedOnlyByRace`, and the liveness `EvacuationIsTold`. Type correctness is a conjunct of one
invariant of each module.

Several of these hold but for one interleaving that the code leaves open. A history
variable names that interleaving and nothing else, and the property excepts it: `torn`,
`behind`, `mute` in `PinLink`; `caught`, `haunted`, `mixed` in `Drill`; `early`, `restarted`, `denied` in
`Commands`; `stray`, `forgotten`, `unmarked` in `SignedDocs`; `lost` in `CloudSpool`; `raced`,
`slips` in `Notify`. Each of the exceptions is reachable, and
section 5 says what happens then.

`OneEpisodePerQuake`, `OneIdentity` and `TrackerIsFollowed` are checked with the SeedLink
thread alone: with the WR-1 thread, the operator or degraded sensors the code does not
keep them, and section 5 says where. The value of that run is what it does cover: a
power cut at any step, a disk that refuses any write, and any sequence of tiers.

Fairness. `episode_seedlink`: packets arrive every second, a thread that took one finishes
with it (no step blocks on the other thread), a WR-1 callback that began ends, and
time passes until the cap. Nothing forces the silence clock, the operator or the test
window; the properties assume the window is not armed for ever, since within it the
code publishes nothing on purpose. `cloud_live`: a flush or an upload that began ends,
because every wait in it has a timeout; the reconnect loop, each publish and the end of
each upload call `flush`, hence the strong fairness of `FlushStarts`, whose guard the
router withdraws and gives back; and a link that stays up acknowledges some retry,
hence that of `BrokerConfirms`. `pin_link`: the emitter turns at 20 Hz, the client
reads and reconnects, and the owner's other threads, a few steps each, are not all left
for ever. `drill`: the watcher turns at 20 Hz, timers fire, and a thread that began goes
on. `signed_docs`: the worker polls every 30 s and commits what it publishes, a
publication tried again and again goes through, and the broker delivers what it holds.
`notify`: the worker polls and its pass goes on, and a job that waits falls due however many
passes come before (strong fairness, because the model lets time pass only between them). Nobody
has to give an order, raise or close an alert, or edit a document. Failures are never
fair and never excluded.
Deadlock is checked but in `pin_link`, `drill`, `commands` and `signed_docs`, whose inputs
are used up: a cabinet with nothing left to do rests.

## 4. The proofs

For every set of channels and fail-safe modes, order batch, tester and bound on late
callbacks (`GpioRelaysProofs`):

* `Typing`: `TypeOK`, group by group.
* `Coherence`: `CabinetIsCoherent`. Its two parts, `BookkeepingIsCurrent` and
  `PinsFollowBookkeeping`, are inductive together, with `TypeOK` and `OffIsFresh` (a process that is off has no demand, timer,
  thread or relay left from its last life), without which the relays built at their
  rest levels need not be what the demands call for. The step has one lemma,
  `ApplyKeepsCoherence`: recomputing every channel whose level the step moves keeps both;
  each action then shows which channels it moves.
* `AlertKeepsProtection`, `SirenIsExplained`, `SafeStateHolds` follow from `Coherence`.
* `TestsAlwaysEnd`, `NoClosureIsMissed` are inductive with `Typing` and `OffIsFresh`.

For every set of processes and lines (the second part of `GpioRelaysProofs`, which extends `PinOwnership`
too: the two share no variable, and their names are kept apart): `OwnTyping`, where `OwnerTypeOK`
says how far each process has got; `NeverTwoGovernors`, whose strengthening is that
whoever has a line open holds the flock or could not close its devices;
`TheDoorIsTheOwners`, that the socket is bound only while its process holds the flock with
every line built; and `TheSuccessorCanServe` from these.

For every set of events and measures, cap, number of names and cuts, and a disk that may
refuse any write or removal (`CloudSpoolProofs`): `Typing`; `ZeroLoss`, an event whose file
was written is delivered or on disk; `NoFileIsForgotten`, while the process runs somebody
holds the file of an event that has not arrived (it says nothing of measures, whose
eviction may leave a file that nobody holds, section 5); `OrderIsKept`;
`TelemetryStaysBounded`, the cap plus one plus what refused drops left uncounted; and `ImplementsTheOutbox`, the refinement of `DurableOutbox`, one
lemma per kind of step (`PublishAccepts`, `ArrivalDelivers`, `RemovalReleases`,
`DropReleases`, `PowerCutCutsPower`, `BootOwesTheSame`). All rest on one inductive invariant. The properties do
not see what makes them true: that names only grow and are of one record each
(`NamesAreUnique`), that the deduplication knows every event there is (`EventsAreSeen`), that
what is in memory with a file has it on disk (`FilesAreReal`), that an event of a block in
flight is still in memory or arrived by the other route (`BatchIsKnown`), that the two places
that forget a record know that it arrived (`AckedIsDelivered`, `StoredIsDelivered`), that
the counter is the measures of the queue less what refused drops left uncounted
(`CountIsBehind`: it is never above them, so the resynchronisation of `_evict_over_cap` finds
nothing to do and is no part of the model), that a process that is down holds nothing
(`DownIsEmpty`), and that a measure in flight left room for its return
(`RoomForTheReturn`: the cap bounds queue and flight together, plus one).

For every set of commands and number of cabinets that restart (`CommandsProofs`):
`OrdersRunOnce`, that an order runs at most once per life of its cabinet and that a row
says it was carried out only if it was, and `FinalIsFinal`. `OnceAndAckedMeansRan` is not
inductive alone, because it sees neither the cabinet's memory nor the messages on their
way. Its strengthening `IInv` adds `RunsAreRemembered` (a run is paid for by the nonce held
now or by the restart that lost it), `WordsAreTrue` (what the dispatcher, the controller
or an acknowledgement in flight says was carried out, was), `CommitsTogether` (no order of a
drill is saved while another is still in the request) and `MarkedIsAcked`, on which the
abort mark of a site rests. A second invariant, `ToldInv`, follows the two answers of one life
of a cabinet from the dispatcher to the row (`AnswerIsComing`, with `AnswerTo` for which
answer it is, `AbortIsComing`, `ToldMeansStopped`, `OneVerdict`); from it come `RunOrdersAreAnswered` and
`DrillIsShownTruly`.

For any writers, documents, failed transactions, edits and restarts, and whatever the
network repeats or reorders (`SignedDocsProofs`): `CabinetNeverGoesBack`, whose invariant
says that the cabinet holds documents that left (`Taken`), that its mark is of the document
it holds unless a restart lost it (`MarkIsOfTheDoc`), that its file knows no more than it
knows or once knew (`FileIsBehind`), that the mark is not below what was forgotten unless it was itself lost
(`MarkHolds`), and that the cabinet is past every message that no longer travels or refuses it
for ever (`Consumed`). Under `Serialised`, that every writer holds the advisory lock,
as the worker's passes do and `push_catalog` does not: `VersionsNameOneDoc` and
`InSyncTellsTheTruth`. Their invariant is what the lock gives: one transaction at a time,
which took the version after the recorded one, and every document that counts is
recorded or in its hands (`RecordedOrHeld`). `InSyncTellsTheTruth` has three exceptions, each the name of one
thing that section 5 tells and that the next publication mends: a document the cabinet
refuses (`Refused`), one that arrived and that a restart lost (`Forgotten`), and a version
spent on another document in a failed transaction (`Spent`). `Serialised` is also the
hypothesis under which the run checks them; without it they are false, as section 5 says.

For any threads, tiers, cuts and identities (`EpisodeProofs`): `Typing`;
`ClosingsArriveOrAreOwed`, until a power cut (a cut does lose closings, section 5), whose
invariant follows an opening through the transition a thread holds (`OpeningsAreOwed`,
`TransitionsAreFresh`); `ProtectionIsHeld`, by a disk that takes its writes or without power
cuts, for an escalation that the disk refused is undone by the cut that follows. Then for
`Alone`, one SeedLink thread and no close from the panel, with power cuts and a disk that
may refuse: `AnnouncedIsTheEpisode` and `AllFollowTheTracker` (`OneName`: the identity in
the decision, in the engine and in the tracker are one), and, where no sensor degrades to
`manual_only`, `QuakesAreEpisodes` (identities grow and none that closed is the engine's).
`Alone` and the missing `manual_only` are hypotheses because the code does not keep these
three without them (section 5).

For any bounds on attempts, slips and requests for the demonstration, and every cascade
(`NotifyProofs`): `CascadeSpeaks`, `TwiceIsASlip`, `DemoBlocksInARace`. A pass works on `tx`
while `db` is what a cut leaves, so the invariant is said of both (`Sound`), with what links
them: between passes they agree (`Agree`), with jobs the demonstration is on its way out or
was granted in a race (`DemoIsOver`), and every text that left is in the guard of the pass or
was a slip (`TextsAreGuarded`).

For any number of alerts, connections, requests and messages on their way
(`PinLinkProofs`): `Typing`, `DeliveredWasAnnounced`, `AlertsAreAnnouncedOnce`,
`AlertsSurviveTheLink`. The invariant speaks of messages not yet read: nothing brings the
identity of an alert ahead of a message that tells it (`ToldFirst`); for a subscriber an
alert is known, told by a message on its way, or about to be pushed by the reader
(`TellingIsOwed`); a state without the latch in the hand of a thread is of before the alert
(`HandsAreOld`), and until one is sent behind a newer identity, identities arrive in order
(`InOrder`). The queue of the connection must hold at least one message, which the code's does.

For every set of drills and alarms and every combination of inputs (`DrillProofs`):
`RealAlertWins` and `DrillEndsAsTold`. Neither property sees the agendas, and what makes them true
is there: an alert that is up has its abort still to run, or finds no drill but one it caught
between check and start (`AbortIsOwed`); a timer runs for the live drill only and its callback
is the whole agenda of its thread (`TimersAreTheirs`, `LapseIsFired`), so whatever waits is of the
live drill or haunts it (`OldTimersHaunt`); and an abort is told by the one thread that noted
it, next on its agenda but for the voice it quiets (`TellsComeFirst`, `TellsAreNoted`,
`ToldOnce`). `AfterAStep` says once what a step leaves of an agenda, and `CalmStep` that a step
which neither aborts, lapses nor tells keeps all of it. That a fresh generation of the voice exists
(`AGenerationIsFree`) is a count of the threads, which is why the drills are a finite set.

Assumptions are those named in the modules: distinct channels and disjoint message
classes, fail-safe modes drawn from the declared ones, bounds that are numbers, a
process that is not called `Nobody`, finitely many drills that do not bear the name of a thread. Every one is evaluated by a run. Each invariant was
checked with TLC on the instance of its run before it was proved.

Only model-checked: liveness, which is beyond the prover, that is `ClosingReachesCloud`,
`NothingIsStuck`, `CacheIsRefreshed`, `DrillIsSettled`, `VoiceYields`, `ReachesTheCabinet` and
`EvacuationIsTold`. Every other property of a passing run has its theorem.

## 5. Disagreements between code and its comments

One is a run that TLC finds violated; `PROJECT.json` quotes the lines.

* `episode_reset`: the operator's close resets pin owner and engine, not the tracker
  (`local_api/__init__.py:1875`): a later shaking is announced under an identity that
  nobody will close.

The others were met while modelling. Those with a configuration in parentheses are
counterexamples TLC gives when the named property is checked under it.

* The pin link's client notes an identity as delivered before it looks at what came
  with it (`pinlink/client.py:427` and `444`). If that is a state read before the latch
  (`pinlink/server.py:572` and `564`), or an opening or a test sealed with the identity of an
  alert that came while the socket was down (`server.py:647-652`), the alert is never
  announced, against «llega igual — una vez» (`client.py:409`). (`DeliveredIsAnnounced`,
  `PinLink.cfg`.)
* The demonstration mode and a live incident «no pueden coexistir» (`demo_mode.py:180` of
  `src/api`), but a request that looked before the incident opened writes its row after the
  pass turned the mode off, and real notices are blocked. (`BlockedOnlyByRace` without its
  exception, `Notify.cfg`.)
* A later event raises an incident that was closed (`ingest/handlers.py:285`), and no pass looks
  at closed incidents: nobody is told.
* An incident that got no job, because its site has no cascade and a lone cabinet in its
  first step sends no push, is looked at again only within the hour of `notify_lookback_s`; an
  order to evacuate after that is told to nobody, the day of `notify/orchestrator.py:130`
  notwithstanding, for it asks for a job.
* A `manual_only` decision mints an identity (`rules/__init__.py:329`) that no episode
  retires: the next earthquake is filed under it. (`OneEpisodePerQuake`, one thread,
  `GroundTiers` with `manual_only`.)
* A decision of the WR-1 callback crosses a closing of the SeedLink thread
  (`supervisor.py:735`) and reopens the retired identity. (`OneIdentity`, two threads.)
* The episode's file is removed before the closing is handed to the spool
  (`rules/episode.py:223`), and a discarded file leaves no closing. (`ClosingIsNotLost`,
  one thread, one power cut.)
* A record without a file, once old, keeps the S3 route on for ever
  (`cloud/__init__.py:430`). (`NothingIsStuck`, `CloudLive.cfg` with `DiskFails = TRUE`.)
* `publish` «NUNCA lanza» (`cloud/__init__.py:493`), but a file that its eviction cannot
  remove (583-584) does leave it by an exception, and that file is held by nobody until the
  next boot. (`OwedIsHeld` said of every record, `CloudSpool.cfg`.)
* `drop_spool` counts a record out before it removes its file, and replaces the queue only
  when all are removed (`cloud/__init__.py:434-441`). A refused removal leaves the counter low for the life of
  the process, and the queue outgrows its cap by as much, against «no debe crecer sin límite» (211-213).
  (`TelemetryBounded` without `lost`, `CloudSpool.cfg`.)
* A boot whose eviction cannot remove a file (`cloud/__init__.py:249`) raises in the
  constructor, which is what line 149 of the same file avoids for a file it cannot read:
  «deja al gabinete entero sin arrancar».
* The watcher, or an abort, reads that the voice is the drill's, the alert starts its own,
  and the player is then stopped: the voice of the earthquake is cut
  (`audio/__init__.py:477`), against «La voz de SISMO suena durante la alerta y no se toca» (452).
  (`SismoIsNotCut`, `Drill.cfg`.) Two voices started at once may also leave the mark of one on
  the sound of the other.
* An acknowledgement that overtakes the commit of its order is turned away for ever, and
  the row expires «sin ack dentro del TTL» (`commands/sync.py:114`) although one came.
  (`ExpiredMeansUnanswered`, `Commands.cfg`.)
* An order that was carried out may be answered as failed, for instance when the link to the
  pins breaks after the relays moved (`actuators/__init__.py:117-124`; `dispatch/__init__.py:365`
  knows it), and the console then says «COMANDO RECHAZADO POR EL GABINETE»
  (`features/building/SirenTestPanel.tsx:25` of `src/web/src`). (`RecordIsTrue` without `denied`, `Commands.cfg`.)
* A signed and fresh document that does not validate (`config/store.py:102`) is dropped with a
  line in the log. The cloud does not validate `edge` (`schemas/rule_sets.py`;
  `commands/sync.py:48-50` warns of it), records it as published and shows the gateway
  `in_sync` for as long as nothing else is published. (`InSyncIsTrue` without `Refused`, `SignedDocs.cfg`.)
* A cabinet that restarts with a file it cannot read (`config/store.py:171-173`), or whose
  key was rotated or whose contract changed (187-194), runs its defaults, version 0, while the cloud
  shows it in sync and publishes nothing, because nothing was edited. So does one whose disk
  refused the write. (`InSyncIsTrue` without `Forgotten`, `SignedDocs.cfg`.)
* Of two documents under one version the cabinet takes the first. It happens when a
  publication fails after the broker took it and the console is edited before the retry,
  against «la versión no se quema: aún no se publicó» (`commands/sync.py:163`), and with
  `push_catalog`, which takes no lock. (`OneDocPerVersion`, `SignedDocs.cfg`, also with
  `Serialised = FALSE`.)
* A drill ordered while an alert rises may start over it (`drill/__init__.py:154`), and the
  waiting callback of an old window may end a new drill (`drill/__init__.py:194`). The tier
  `restricted` energises no siren, so a drill may start under it, while it would have aborted
  a drill already active.
* `start_drill` of the API catches the refusal of one site's publication inside the
  transaction of all of them (`routers/drills.py`), so the row «pending fantasma» that
  `service.py:156` rolls back is committed, and expires. A drill closes in the cloud
  only on an abort, and a row that expired may belong to a cabinet that is sounding
  (`ingest/handlers.py:799-802`).
* Nonces live in memory (`security/__init__.py:44`): within its window a repeated order is
  carried out again after a restart.
* An emitter on its way out counts as alive (`pinlink/server.py:595`): who subscribes then
  gets no more states than those of requests and alerts. And a state sealed under the
  previous identity and sent behind the new event announces the new alert twice.
* The client also swallows the openings and tests that carry an identity it has already
  delivered (`pinlink/client.py:442`): after an alert its observers do not see it open.
* Two panic votes at once may each count one voter (`routers/commands.py`, `panic_vote`).
* `relay_states` of a stopped module may list relays, because late threads go through
  `_apply` (`gpio/__init__.py:1351`); and the latch is read before `observe` runs
  (`supervisor.py:732`), so an episode may close with the cabinet just latched.

## 6. Plan

1. Done: `GpioRelays`, `PinOwnership`, `Episode`, `CloudSpool` with `DurableOutbox`,
   `PinLink`, `Drill`, `Commands`, `SignedDocs`, `Notify`, and the proofs above.
2. An abstract specification of the pin link (every rise of the alert is seen once), which
   `PinLink` implements but for its exceptions.
3. In the cloud: `IncidentEngine` (quorum, idempotent ingest, closing), the panic
   incidents of `Notify`, the quorum actuation pass. In the cabinet: `EvidenceQueue` and two uploads at
   once, and `AuditDrain`, the watermark of the ledger.

## 7. Not modelled

* `ConfigStore.rollback()`: nothing in the code calls it.
* Update, canary and self-test orders of the dispatcher; their state lives in files that
  scripts outside the process write.
* Requests of the pin link with their deadlines, its codec and rate limits; the message
  `silence`, which carries no identity.
* Thresholds, filters, spectra and the ring buffer: numeric, and an input of `Episode`.
* Postgres itself: a transaction is its reads, its writes and its commit or rollback at
  READ COMMITTED, as the code uses it.
* Of the notices: panic incidents and their acknowledgement, mails and pushes of single
  actions, provider receipts that come later, the quarantine of templates.
* The web and mobile clients, reports (`dictamen/`, `informes/`), the LAN panel's pages,
  infrastructure and scripts: most of the repository's lines, and formatting, SQL reads and
  rendering rather than state that several actors change. The models cover the core that
  coordinates, which is a small part of the lines.
