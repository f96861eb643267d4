# claude-router in TLA+

claude-router is a local HTTP router between Claude clients and model providers.
It runs under launchd as two slots, blue and green, behind Caddy. A deploy moves
Caddy from one slot to the other while requests stream. Inside a slot, requests
are routed to Anthropic or to pools of local models and Codex subscriptions, with
failover, session affinity and an optional privacy layer. All state lives in small
files that both slots share.

This directory models the parts of that system whose correctness depends on order,
failure and concurrency. TLC checks the models on small instances; TLAPS proves
the results that hold for every value of the constants.

## 1. The system

| Component (source) | State | Operations | Meets |
|---|---|---|---|
| Deploy controller (`deploy_controller.go`, `deploy_ops.go`, `deploy_cmd.go`) | locals of one `deploy` call: old and new slot, PIDs, `started`/`quiesced`/`flipped`/`committed`; files: Caddyfile, active-slot marker | `deploy`, `retire`, `waitDrain`, `flip`, `save`, deferred rollback | slots over `/healthz` and `/admin/*`, Caddy over its admin API, launchctl |
| Slot lifecycle (`lifecycle.go`, `runtime.go`, `server.go`) | `mode`, requests in flight, `alone` | `guard`, `quiesce`, `activate`, `drain`, `allowCompaction`, snapshot, shutdown | every component that asks `writesSharedState` before a write |
| launchd agents (`internal/platform/launchd.go`, `service.go`) | loaded labels, KeepAlive processes | start, stop and wait, run | deploy, cutover, `internal/cli` |
| Cutover (`cutover.go`) | legacy service, blue, Caddy, `deploy.json` | stop legacy, start blue, start Caddy, commit, return to legacy | everything deploy meets, once |
| Codex credentials (`codex_auth.go`, `codex_oauth.go`, `codex_stores.go`, `codex_usage.go`) | per connection: credential in memory and on disk, `rejectedToken`, `authProblem`; flock | `credentialFor`, `refreshRejected`, `doWithReauth`, import, browser login, usage cache | OAuth issuer, the other slot (file), pool selection |
| Routing (`local.go`, `affinity.go`, `health.go`, `checker.go`) | session bindings, model statistics, inflight counts | bind, pick, failover loop, move session, note, checks | provider transports, config, history |
| Upstream watchdog (`upstream_watch.go`) | timer generation, last byte | arm, expire, read, close | failover |
| History (`internal/history`) | ring of entries, `history.jsonl` | add, finish, persist, compact, clear, restore | lifecycle's `alone`, UI |
| Limits (`limits.go`, `internal/limits`) | newest observations by source, file | observe, merge, delayed save, close | both slots share the file |
| Configuration store (`internal/config`) | env, providers, profiles in memory; the files; mtimes | poll, update, reload, profile switch, migrate | UI, router, deploy (candidate config) |
| Catalogs (`catalog.go`, `internal/catalogstartup`) | startup session, hourly refresh | start, collect, finish, persist | configuration store, slot shutdown |
| Privacy (`internal/privacy`) | policy snapshot, pseudonym session files, per-exchange lifecycle timers | prepare, rewrite, restore, prune, forget | every protected request |
| Anthropic proxy and request handling (`main.go`, `server.go`, `local.go`, `translate.go`, `trim.go`, `context.go`, `internal/providers`) | per request only; Codex replay snapshots | route, translate, stream | upstreams |
| UI (`ui*.go`, `internal/ui`, `internal/uisession`) | login flow, sessions names | pages, JSON API, forms | configuration store |
| CLI (`internal/cli`, `claude_proxy.go`, `cmd/`) | none of its own | install, service commands, checks | launchd, configuration |

What makes it hard:

- **Interleaving of processes.** Two slots, a deploy command, launchd and Caddy act
  on each other between any two calls; the shared files have one intended writer.
- **Failed and half-failed calls.** An admin call or a Caddy load can be carried out
  and its answer lost; the rollback starts from what the controller believes.
- **Crashes.** Any process can be killed between two steps; what it finds at the
  next start is what the disk says, not what memory said.
- **Timeouts.** Drains, probes, stream starts and stream gaps all end by a clock that
  races the event it waits for.
- **State read under one lock and used after it.** Session bindings, health ratings,
  token refreshes and history persistence read, release and write again.

What makes each component correct is listed with its module in sections 3 and 5.

## 2. Layout

| Module | Models | State and actions ↔ code |
|---|---|---|
| `Deploy` | deploy controller, slot lifecycle, launchd, Caddy, requests | `mode`, `pending`, `alone` are the fields of `lifecycle`; `load` what launchd holds; `caddy` Caddy's running route; `caddyfile`, `marker` the two files `save` writes; `pc`, `old`, `flags`, `seen` the locals of `deploy`. One action per call of `deploy`; `Rollback` is the deferred function; `Boot`, `Exit`, `Crash`, `CaddyRestart`, `Kill` the environment |
| `Handover` | what a deploy promises, abstractly | `phase`, `from`, `kept`, `route`, `recorded`; `Deploy` implements it |
| `DeployProofs` | theorems about `Deploy`: types, the commit, the refinement, clients and the history | |

| `CodexAuth` | credentials of one Codex connection | `disk` the credential file; `credential`, `loaded`, `rejected`, `problem` the fields of `codexAuthStore` in each process; `writes` the slot's role; `pc`, `sent` one worker between two locks. `CredentialFor` … `Refused` follow `credentialFor`, `refreshLocked`, `refresh`, `save`, `refreshRejected`, `doWithReauth`; `SignIn` a browser login, `Import` `importFromCLI`; `cli` what the CLI's file has held |
| `CodexAuthProofs` | theorems about `CodexAuth` | |
| `MCCodexAuth` | its instance | two workers in one slot, one in the other |
| `Routing` | pools, session affinity, failover | `bound`, `recent`, `aged` the map of bindings and its times; `until`, `inflight` the statistics of the members; `pc`, `list`, `seen`, `asked`, `out`, `session` one request in `handleLocal`. `Look`, `Sort`, `Ask`, `Bind`, `Acquire`, `Answer`, `Fail`, `Break`, `Finish`, `Leave`, `Move` are its steps |
| `Lists` | filtering, joining and summing of lists, as recursive functions | `Only`, `Flat`, `Total` |
| `ConversationProofs` | theorems about `Routing` and `CodexTurn` | |
| `MCRouting` | its instance | a pool of three members on two connections |
| `History` | the history file of two slots | `file` `history.jsonl`; `ring`, `lines` the fields of `Store`; `open`, `admin`, `clearing` the requests, compactions and clears under way. `Persist`, `Read`, `Replace`, `Count`, `Truncate`, `Restart` are the writes and reads of the file |
| `MCHistory` | its instance | the two slots are interchangeable |
| `ConfigStore` | the configuration of one slot and its files | `disk` the files, `partial` the temporary files in the folder of profiles, `config` `Store.c`, `stale` the files whose time differs from their stamp (`provMtime`, `profileMtime`, `envMtime`), `banner` `reloadErrs`, `job` the write that holds `Store.mu`, `watcher` where `Poll` is between two holds of it, `role` the slot's life |
| `ConfigStoreProofs` | theorems about `ConfigStore` and `Migration` | |
| `MCConfigStore` | Migration, then ConfigStore | first starts over an older setup, then two profiles, one model, two settings |
| `Migration` | the first starts over an older version's setup | `main`, `folder`, `pointer`, `backup` the files; `step`, `local` a start or an activation; `older` the version that still runs. One action per format brought forward, per backup and per write |
| `Limits` | the observed Anthropic limits of two processes | `memory`, `dirty` the fields of `Store`; `saver`, `asOf`, `draft` the goroutine inside `Save`; `disk` `limits.json`. `Observe`, `MaySave`, `Lock`, `MergeFile`, `Copy`, `Write` |
| `MCLimits` | its instance | `Limits` under names of its own |
| `SlotState` | statistics and bindings across saves, deploys and restarts | `known` `health.m` and `health.sessions`; `saver` a goroutine in `health.save`; `models`, `tmp`, `snapshot`, `slotFile` the files; `step` the deploy; `LeaveFile`, `TimesOut`, `SaveFails` the ends of a stop and a save |
| `MCSlotState` | its instance | `SlotState` under names of its own; outcomes and savers are interchangeable |
| `SharedFilesProofs` | theorems about `History`, `Limits`, `SlotState` | the files both slots write |
| `Streams` | stream start, silence watch, choice of the next member | `timer`, `watch`, `fired` of `bodyWatch`; `conn`, `call`, `begun` one call to an upstream; `told` what the client has been told |
| `StreamsProofs` | theorems about `Streams` | |
| `MCStreams` | its instance | three settings of the bounds |
| `CodexTurn` | decoding, projection and replay of Codex turns | `items`, `blocks` an answer as sent and as shown; `log` the conversation; `records` the replay store |
| `MCCodexTurn` | its instance | two accounts, interchangeable; `pc` is called `step` here |
| `Restore` | restoring the text of a streamed answer | operators only: `Admitted`, `RestoredStream`, the holding back of the end of a text |
| `Exchange` | a protected exchange and its three timers | `life`, `armed`, `fired` of `protectedLifecycle`; `dictionary`, `leases` the exchanges prepared; `body`, `frames`, `taken` the answer |
| `MCExchange` | its instance | `Exchange` under names of its own; pseudonyms that overlap, streams cut in every way |
| `Cutover` | the move from the legacy service, and the service commands | `plists`, `loaded`, `front`, `blue`, `marker`, `recorded` the machine; `pc`, `local` the command |
| `CutoverProofs` | theorems about `Cutover` | |
| `Sessions` | the dictionaries of the privacy sessions | `file` the session files, `lock` the transaction, `request` each request from its transaction to its restored answer |
| `MCSessions` | its instance | two processes, two sessions, one configured pseudonym |
| `PrivacyProofs` | theorems about `Sessions`, `Restore` and `Exchange` | |

## 3. Deploy

One behaviour is a sequence of deploys. The controller's call at `pc` either succeeds
or, while the fault budget lasts, fails in the way `FaultKinds` names. A call that
fails runs `Fail`, which is the Go `defer`: nothing if the deploy had not started a
slot or has committed, otherwise flip back (if `flipped`), activate the old slot (if
`quiesced`), stop the new one. A `kill` drops the locals and runs no rollback.

Abstractions, each chosen to keep every order of state changes:

- The digest comparison that turns a deploy of the same binary into a no-op is a free
  choice (`Compare`). The slot addresses, the plist and the binaries are data.
- The polls (`waitSlot`, `waitDrain`, `ready`) are one step that succeeds in a state
  where the poll's condition holds, or fails. A drain may time out at any moment: the
  only thing it changes is `expired`.
- Sending SIGTERM and the slot's `drain` on it are one step (`Unload`); launchd's
  60-second ExitTimeOut allows an unloading slot to exit with requests in flight.
- Caddy's `/load` and the two file writes of `save` are three steps, since a crash, a
  full disk or a restart of Caddy falls between them.
- PIDs are represented by `seen`, the slots whose process is still the one whose PID
  deploy recorded; `Boot` removes a slot from it.

Bounds. Two slots are all there are. `MaxDeploys = 3` allows an interrupted deploy, one
that resumes or fails on its leftovers, and one after that; `MaxFaults = 3` allows a
different fault in each, or a fault inside the recovery of a fault; `MaxPending = 1`
is enough for "some in flight" against "none", the only test the code makes.

Fairness. The controller is weakly fair: each of its waits has a deadline. `Boot` and
`Exit` are weakly fair: launchd restarts a KeepAlive agent and kills an unloading one
after 60 s. Requests, answers, the beginning of a deploy, crashes and kills are not
fair: nothing in the code makes them happen, and no liveness property relies on them.

The run `deploy` checks every property below over behaviours with any mix of faults.
`CHECK_DEADLOCK FALSE`: with the deploys used up the system may rest.

The ghost `struck` records which kinds of fault a behaviour has met, and a property names
the kinds it does not withstand; TLC checks it against all the others. Each exclusion was
found by leaving it out and reading the counterexample:

| Property | Does not withstand |
|---|---|
| `HandsOver`, `CommittedEverywhere` (and, proved only, `NeverUnloadsBoth`, `TypeOK`) | withstand every fault |
| `UpstreamServes`: Caddy routes to a slot that admits requests | `disk`, `lostload` (disagreement 2 below), a slot's `crash`, a restart of `caddy` with a stale Caddyfile |
| `CompactsAlone`: history is rewritten by a router that appends alone | `launchd`: `retire` ignores the failure to unload a slot that does not answer (`deploy_controller.go:233`), which may still finish its requests while the other compacts; `caddy` |
| `DrainedBeforeStop`: no stop after a drain drops a request | `caddy`, which can route to the slot being retired |
| `UpstreamRecovers`: after crashes Caddy ends up on a slot that admits requests | any fault beside `crash`, `launchd`, `state`, `public`: a crash of the new slot during the flip, then a refused rollback, leaves Caddy on a standby slot |
| `Resumes`: the deploy after an interrupted one succeeds | `crash`, `caddy` |

**The abstract hand-over.** `Handover` is what a deploy promises, in five variables: the
phase (`settled`, `switching`, `switched`), the slot the deploy began from, the slots
kept loaded, the route, and the slots the disk names. While switching, the slot the
deploy began from stays loaded, and only a loaded slot gets the route or is recorded;
the commit needs route and disk to agree on the other slot; only after it is the old one
unloaded; nothing leads back from it. `Deploy` implements it under every fault
(`HandsOver == H!Spec`): `Phase` is read off `pc` and `committed`, `Kept` off `load`,
`Recorded` off the Caddyfile and the marker. TLC checks it on the instance of the run,
and section 4 says how it is proved.

Where the code disagrees with its docs or itself, met while modelling; the properties
above exclude exactly these:

1. The rollback gives the old slot its role back before it stops the new one
   (`deploy_controller.go:161-166`), which may be active since line 186. Both write the
   shared files until the stop completes, where `docs/architecture.md:197` says "one
   writer, the active slot". The resume path takes the opposite order and says why
   (122-124).
2. `flip` reports an error when Caddy took the load but a file write failed
   (`deploy_ops.go:240-242`). `flipped` stays false, so the rollback does not flip back:
   it stops the slot Caddy routes to.
3. A kill between Caddy's load and the write of the marker (`deploy_ops.go:231-255`)
   leaves a marker naming the slot that the next deploy starts as its candidate; it comes
   up active.

## 4. What is proved

**Deploy.** `DeployProofs` proves for every `Faults`, `MaxFaults`, `MaxDeploys` and `MaxPending`
allowed by `FaultsAssumption` and `BoundsAssumption`:

- `TypeCorrect`: `Spec => []TypeOK`.
- `CommitIsDurable`: `Spec => []CommittedEverywhere`.
- `OneSlotStaysLoaded`: `Spec => []NeverUnloadsBoth`, launchd has a slot loaded at all
  times.
- `ImplementsHandover`: `Spec => HandsOver`, the refinement.

None of the safety properties is inductive. The invariant is
`IInv == TypeOK /\ CommitInv /\ SwitchInv /\ LoadInv`:

- `CommitInv` ties the flag `committed` to `pc`: it is set at exactly the labels after
  the commit, and every flag is clear between deploys. Without it a rollback step could
  be taken from a label the code cannot reach it from.
- `SwitchInv` says that once committed, `caddy`, `caddyfile` and `marker` are `New`, and
  which of the two files already are at the labels of the flip. `CommittedEverywhere`
  alone would not survive the step that sets `committed`.
- `LoadInv` says which slot is loaded at which label: the slot a stop aims at always
  has its partner loaded. `NeverUnloadsBoth` alone would not survive a stop.

Each action gets one step of the induction; `FailKeeps` covers the failing branch that
every call shares.

The refinement rests on the same invariant. `InitMaps` maps the initial states;
`StepMaps` shows that from a state with `IInv` every step maps to a step of `Handover` or
to a stutter: `QuietMaps` disposes of the steps that change none of what `Handover` sees,
and one lemma each maps the beginning of a deploy, the start and the stop of a slot,
Caddy's load, the two writes of the disk, the commit and the end. `LoadInv` is what makes a start or
a stop aim at the right slot, and `SwitchInv` what lets the commit find route and disk
agreed.

Under the faults each property spares it goes on from `IInv` to prove

- `DeploysServe`: `Spec => []UpstreamServes`. `ServeInv` says which slot Caddy routes to at
  every label before the switch and in the rollback, that the new slot is active from the
  check of it until Caddy is given it, and that the old one still admits requests for as
  long as a rollback may give Caddy back to it.
- `StopsAreDrained`: `Spec => DrainedBeforeStop`. `DrainInv` holds what the wait has
  found until the stop; it needs `RouteInv` (no new request reaches the slot, as Caddy
  routes to the other one) and `RestInv` (a slot in standby has never held one).
- `CompactsInPeace`: `Spec => []CompactsAlone`. `AloneInv` says that the slot which may
  compact is the one Caddy routes to, that the new slot of a deploy never has the
  permission, and that the old one has lost it before Caddy moves; `GoneInv` that the
  other process is gone whenever compacting begins.

**The files both slots write.** `SharedFilesProofs` holds the theorems about `History`,
`Limits` and `SlotState`. The last two are instances (`L!`, `St!`) made by `MCLimits` and
`MCSlotState`, which state their assumptions and properties and are what the runs check.

*History.* `NewestKept` and `ClearedStays`, for any ring size, number of records, clears and
restarts and for the two slots of `SlotAssumption`. A property of the end of a compaction
has to be carried through its three steps. `NewestOK` says that a newest line not exposed is as
near to the end of the file, and of the lines a compaction has read, as to the end of what
was appended. `CountOK` bounds the file by the slot's own count of its lines and what was
exposed. `OnceOK` (each line is written once) turns positions into lines, `LockOK` is the
lock file, `AloneOK` what the deploy promises, and `BackOK` what a compaction may bring
back. The number of lines a compaction missed is a cardinality: `exposed` only grows and
each late line adds one.

*Limits.* `SavesNeverGoBack` is `NeverOlder` for any set of processes, from
`ClockAssumption` alone. The write is safe for reasons settled
earlier, so the invariant says them: one saver at most is under the lock; unless the clock was set back, no clock is behind
the one the save began with; and from its merge to its write a saver that could read the file holds what it
does, or something newer that is not of the future (`SaveReadInv`, over `memory` before the copy
and over `draft` after it). `MergeCovers` and `ObserveCovers` are the facts about
`replaces` this needs. The attempt to prove the property without the exception for a clock
set back during the save failed, and TLC then found the behaviour with three
observations that the run now allows.

*Statistics and bindings.* `SwitchesKeep` and `OneSaverReadable` are `KeptAcrossSwitches` and
`ReadableUnlessOverlapped` for any sets of outcomes and savers. What must not be lost is
not always in memory, so `DueInv` says where the serving slot will have it from next: its
memory while it runs, the file it left when it stopped (if it left one), the snapshot between the quiesce
and the activation, the new slot's memory once that slot is active. `ModelsInv` says that
without an overlap the one save under way is alone with the temporary file, and what part
of the write it has done, which is what makes its rename harmless wherever it is cut off.

**Codex credentials.** `CodexAuthProofs` proves `RedeemedOnce`, `SignInSticks` and
`SignedOutForCause` for any processes, workers and accounts. The invariant is `IInv == TypeOK /\
LockInv /\ IssuedInv /\ BadInv /\ FileInv /\ ChainInv`. `LockInv` is the exclusion by the
two locks. `IssuedInv` bounds every known token by the last one issued: a grant is
therefore new to everybody. `BadInv` records why a worker is where it is: the token it met
is bad and, since no step makes a bad token good again, still is when the worker gets both
locks. `FileInv` says that the holder of the file lock works on what is in the file, and
`ChainInv` that the end of the chain of refresh tokens is in the file or in the hands of
the worker about to write it, unless the CLI shares the token. `SignedOutForCause` is a
step property of the same invariant: whoever fails holds a token `BadInv` knows to be bad.

**Privacy.** `PrivacyProofs` proves `Readable`, `SentStays` and `ComesBack` of `Sessions` for
any sessions, processes, requests, values and faults. They are proved together: what a
transaction issues is new because the index it read is readable, and the index stays
readable because nothing else was appended since. `MaskingOK` is the link: while a request
holds the lock, `valid` is the length of the file it read, and the index with what is
pending appended is readable. An append that ends early leaves a prefix of that, and
`LessIsReadable` says that fewer lines are still readable. `ComesBack` needs that the pairs
a request sent are among those it restores, which no later step of another request changes.

`AnswersReleasedWhole` is `ReleasedWhole` of `Exchange`, for any pool, limit and number of
frames and whatever restoring a stream comes to. The property speaks of an answer
already written, so `ExchangeInv` follows it back: `PreparedInv`, that the dictionary in
use is the one of the member being tried from its Prepare on, which on the direct route comes before
the exchange begins and on the local one after; and `ReplyInv`, that what is
checked, committed or written ended as its kind must. After a failed attempt neither holds,
and `NoAnswer` is the one lemma for all steps that lead there.

`RestoresWhole` is `RestoredAsWhole`, for any pseudonyms (none of them empty) and any
admitted streams in any cut into deltas: of no stream that comes through `Restore` without
an error is the outcome `torn`. The argument goes from the text to the stream:

- The scan of a text is a function of where it stands (`From`, `Scan`); `Walk` says that
  such a function, defined from the end backwards, exists.
- `HoldFacts` says where a text is cut: before all that could go on, a pseudonym or an
  address, and inside of none that is complete. `CutAnywhere` follows: however the text goes
  on, what is let go of and the rest, each restored alone, make what the whole text is
  restored to, unless the whole is `Glued`. Before the cut no pseudonym of the whole text
  runs on (`HeadLongest`, `HeadFrom`); behind it the same are found, and one is restored
  otherwise only where it touches a word at the cut (`TailFrom`), which `TornIsGlued`
  shows to be the excused case.
- `Follows(t, o, kept)` is what holds in the middle of a block: whatever comes after, `t`
  will be restored as `o` and what becomes of `kept`. It is an invariant of adding a
  delta (`FollowsMore`) and of letting go of a part (`FollowsCut`), and at the end of the
  block it gives `Complete` (`FollowsEnd`).
- `Sound` says it of a whole stream, for each block, beside that the frames written mirror
  those that came (`Mirrors`). `StepSound` shows that each frame keeps it, one case per
  event, and `ComesOutWhole` reads `Faithful` off at the end.

The lists, the scan and the joining of texts are recursive functions. The library's
induction theorems cannot be used, so `NumberInduction`, `ListInduction`, `Downward` and
`Walk` state induction over sets that are given as sets; they rest on the order of the
finite sets. An earlier form of `Glued` was too narrow: `CutWord` failed for a pseudonym
of several words that begins later in the word at the cut.

**Cutover.** `CutoverProofs` proves `OneWriter` and `LoginKeepsIt` for any number of
cutovers, commands and faults. What holds depends on what has been left undone, so the
invariant is said by the value of `left`: `PortsOK` and `PhaseOK` always (who holds a port
runs, and what a command has done by each of its calls), `CleanOK` where nothing is left, by
who is to serve, `PendingOK` where only the record of a switch is missing. What a `router
start` does beside any step is one lemma, `StartCallDoes`. The attempt at
`LoginKeepsIt` failed at a step TLC had not reached with two cutovers; section 5.10 tells
what it found.

**Routing and Codex turns.** `ConversationProofs` holds the theorems about both; `MCCodexTurn`
instantiates `CodexTurn` as `Talk!`, with a variable name of its own, for the runs and the proofs.

*Induction over data.* `Only`, `Flat`, `Total`, `Echo`, `Completed` and `Restore` are recursive
functions. The induction theorem of the library cannot be instantiated by these provers; instead
the set of the numbers up to which a fact holds is defined, and `NumberInduction`
says that a set with 0 and the successor of each of its members has all of `Nat`. It rests on `Least`:
a non-empty set of numbers has a least member, by cardinality. `Recursion` uses it to show that
a function such as `Echo`'s exists and satisfies its equation; `ListInduction` lifts it to lists.

*Routing.* `CountsExact` and `MovesExplained` hold for any pool, table and finite set of
requests. `InflightExact` is inductive with the shape of the state alone;
each step acquires, releases or leaves a request's member, and one lemma for each does the
counting. `MovesOnFailure` needs `OrderInv`, that a bound session has its place in the order
of the table: without it a session might be rebound although its binding is young.
`PlacedTogether` and `CoolingAvoided` go through the lists: `PlaceInv` adds `ListsOK`, that a list has
members of the pool only and is not empty; `SortedInv`, that nobody on a sorted list is back later, by its
snapshot, than one after it, which stays so as time goes on (`TickPlaces`) although who is cooling does not;
and `CalmInv`, what nothing gone wrong means for the lists. Dropping the signed-out members leaves the first
of the others in front (`HeadOfOnly`), so by any clock a cooling one leads only if all are cooling: sorting and
balancing agree. `BalanceFirst` then takes a connection with the fewest sessions, so one
more there leaves no difference of two.

*An answer.* `TurnInvariant` is `TurnInv == TurnAnswer /\ TurnLog`. `StateOK` follows an answer
item by item, for the set of items already done: what the client's echo would be (`Echo` of the blocks
against the decoder's tools and text, less line breaks), which ids have a block, that text counted is text told in
items or still untold, and that every block but the open one is stopped. `OneBlockAtATime`
(`BlocksInOrder`) is part of it; so is, at the end, the first half of `EchoMatches` (`EchoFits`): the projection
in `Start` puts a line break exactly where the reader of the blocks will. `Completed` does several items in
one step, which is an induction over `StateOK`. `TurnLog` is about the conversation: it alternates, every answer in
it has its record, and while there are no more records than answers they are theirs in order.

*The replay.* `ReplayedAsItWas` is `ReplayExact` without a bound on the conversation. That native output
comes of a record that fits is an induction over the positions of `Restore`. That the upstream
gets its conversation whole is an induction upward over the answers: a record begins where the answer before
ended (`At`), so at the position of an answer of this account exactly its record matches (`Answered`),
between answers none does (`Passing`), and an answer of another account is passed over item by item.
`EntryShown` and `KnownGrows` say where an entry stands in what is shown and in what is sent.
The attempt showed that the property may say more than it did: it needs no exception for continuations,
and the run now checks it without.

**Streams.** `StreamsProofs` proves `EndIsTold`, `LiveNotCut` and `NotRepeated` for any
number of members, calls and items. `FiredInv` is the heart of `LiveNotCut`: a fired
timer whose generation is the current one fired in the silence that still lasts
(`reads` has not moved since), as every read changes the generation. `DialInv` says that
before an answer's headers there is no watch and no timer of one. `CancelInv` says who can
have cancelled the attempt of a client that stays; `EndIsTold` fails to be inductive
without it, since a cancelled context decides which branch a failure takes. `MoreInv`
keeps further calls to the Codex route. `TheEndIsTold` has two exceptions, both named in the property: a Codex call
whose watch expires after its last event was read, and a pool's translated stream that a
chunk nobody can read ends after it has begun (`BadStep`).

**Configuration.** `ConfigStoreProofs` proves `NothingMissed`, `LoadsUnlessExposed` and the
type invariant for any profiles, models, settings and number of events, and `SetupKept` of
`Migration` for any number of changes, starts and deaths.

- `NothingMissed` speaks of moments without a write under way; `SetupInv` says the same
  at every step, with one exception: between the removal of a profile's file and the new
  snapshot. It must also hold for the stamps `Stamp` is about to set, not only for
  those that stand, or `Stamp` could not be shown to keep it: while the watcher stands
  there, a file that differs has moved since the watcher looked at the times.
  `EnvInv` follows the watcher through the steps of a rejected or accepted env file.
  `JobInv` says that a change never touches the content of a file that its commit does not
  stamp, and that only a slot which is or was active holds the lock.
- `LoadsUnlessExposed` needs more than a valid disk: `ProvidersInv`, `PointerInv` and
  `DeleteInv` say how far each kind of write has come. The profiles already written are
  those of the change, the ones to come resolve against the catalog on disk as well as
  against the one about to be written, and the pointer names a profile that is there. All of
  it holds only while no edit and no exposed change has happened. `StraysInv` holds
  always: a write has at most one temporary file, between its two steps of a profile, and
  every other one in the folder belongs to a write that a death or a failure ended there.
- The type proof needs `ActiveInv`: without an existing active profile, an update of its
  routing would not be an update of a function at a point of its domain.
- `SetupKept` (`SetupSurvives`) says nothing of a start that is not over. `MigrationInv`
  says where the operator's rules are meanwhile. `RulesInv`: in `providers.json`, or in the
  profiles once it says they are there, or, between the write of the ids and that of the
  pools, in memory only (`Between`), which is where a death sets `cut`. `BackupInv`: no
  write replaces `providers.json` before the backup of its step equals it, unless that
  backup was there before (`outdated`). `OlderInv`: the older version writes alone. The
  empty backup that a write has just created must not hide the last copy of the rules: it
  says 0, and where the latest change is 0 `providers.json` says 0 as well.

The proofs rest on nothing but the assumptions on the constants. What stays with TLC:

- liveness, which depends on fairness and `ENABLED`: `UpstreamRecovers`, `Resumes`,
  `SilentUpstreamEnds`, `EditsApply`, `ObservedIsSaved`, `ServedAgain`, `EveryExchangeEnds`.
  Every other property of the runs is stated by a theorem.

## 5. Other components

### 5.1 CodexAuth

One connection, the processes that use it and the file they share. A worker runs
`authorize` → send → (401) `refreshRejected` → send again; it stops between two steps
wherever the code lets go of the mutex, waits for the file lock, or calls the issuer.
Inside one process the mutex is held from `credentialFor` or `refreshRejected` to the
end of the refresh; across processes only `refreshLocked` and a sign-in hold the file
lock, which the model reads off `pc`.

Abstractions. Tokens are numbers in order of issue; `fresh` is the JWT's expiry,
`accepted` what the upstream says. The issuer rotates the refresh token or keeps it.
`rejectedToken` and `rejectedAt` are one variable, emptied by `MinutePasses`. The file
is readable whenever it is read; a browser login is one step (the browser's part of it
changes nothing here). An import (`Import`) copies whatever the CLI's own file holds or held
when the import read it, before it waited for the locks: `cli` is the set of those
credentials, which the CLI's logins and refreshes extend (`CliSignsIn`, `CliRefreshes`). `Handover` is any deploy: it takes or gives the writer's role at
any moment, to both or to neither.

Bounds. `MaxGrants = 2`: the token one starts with and its successor, whichever of a
refresh, a login, the CLI or an import produces it; each process may hold either. Three
workers contend for both locks. One fault of any kind. The
last token does not expire and its revocation is a fault, so a behaviour does not end
with every token bad at no cost. No fairness: no liveness is claimed.

| Run | Shows |
|---|---|
| `codex_auth` | `RedeemedOnce` no rotated refresh token is presented twice but one whose successor a fault lost or the CLI redeems too, and only a token that went bad is refreshed; `SignInSticks` a refresh never overwrites a sign-in; `SignedOutForCause` a 401 that comes late never signs out the credential that replaced the refused one (all three proved in `CodexAuthProofs`) |

Known, and excused or outside these properties: an import makes the router and the CLI
redeem the same refresh token, so either may present one the other has rotated, and an
import can bring back a token the router has rotated itself (`codex_auth.go:223-244`);
`RedeemedOnce` excuses exactly the tokens of `cli`. After a failed write of the file the next
refresh returns to the older credential and presents a refresh token that has been used
up (`codex_auth.go:114-120`, `184`); `authProblem` outlives the failure it records until
the next credential is loaded (`codex_auth.go:346-348`), and `local.go:44` keeps the
connection out of the choice meanwhile.

### 5.2 Routing

The requests of one pool in one slot. `pick` takes the snapshot of one member after
another, each under its own hold of `h.mu` (`Look`), and sorts them by the clock (`Sort`);
`withoutSignedOut` asks one Codex member after another (`Ask`); `bindCandidates` takes the
lock again and reads the clock again (`Bind`, where `Candidates` is what those two leave
and `Cooled` who is cooling by then). Anything may happen between two of these steps, and
time may pass (`Tick`). A failure is `Fail` (record, release, cool) and, as a further
critical section, `Move` (`moveSession`).

Abstractions. Time is kept as what is left of each `CoolUntil`, in the table (`until`) and
in the snapshots a request holds (`seen`); `Tick` takes one from all of them, and one that
is 0 is past, which is all `Cooling()` asks. A cooldown set by a failure lasts any number
of ticks up to `MaxCool`, whatever failed before. `sort.SliceStable` and the loop of
`balanceFirst` call `Cooling()` once or more per member; each is taken to read the clock
once. Of the rating nothing else matters to a pool. A Codex member whose store lock another
request holds counts as signed in (`signedIn` uses `TryLock`), which for a signed-out
one counts as trouble. Releasing a member and recording the outcome are one step. Token counts read bindings and write none. Routes
without a pool, which sort by rating, are left out, and so are the cooldowns that
`models.json` brings back at a start. `Age`, `Recover`, `ProbeFails`,
`SignInOrOut` and `ClearSessions` are time, the background checks, the credentials and
profile switches.

Bounds. Two requests of three sessions with room for two bindings (`Cap` stands for
4096): concurrent requests of one session, of two, and a third session that evicts one.
Three members, two on one connection: a failure leaves two to go on with, and balancing
has to count connections, not members. `MaxCool = 2`: of two cooling members one is back
sooner, and a cooldown can end before the sort, between sort and bind, or after both. `MaxTrouble = 2` bounds failures and everything
else that disturbs the picture; `SessionsPlaced` is about behaviours with none, where the
code promises it. No fairness.

| Run | Shows |
|---|---|
| `routing` | `InflightExact` the counts survive every way out of the failover loop; `SessionsPlaced` concurrent requests of a session share a member, and the sessions of a balance pool differ by one per connection at most; `MovesOnFailure` a session moves only from a member that failed it; `NewSessionAvoidsCooling` a new session is bound to a cooling member only if every candidate is cooling, by what its request saw and the clock at the bind. All four are proved in `ConversationProofs` |

### 5.3 History

Two slots, one file. A request that ends in a slot takes that slot's `fmu`, appends a
line and, when `lines` says the file is too long and the slot is alone, compacts under
the same mutex. `/admin/compact` compacts without it. The lock file keeps compactions
apart. A compaction is three steps: read, replace, count.

Abstractions. A record is its number and a line is written whole; `appended` (what was
appended since the file was last emptied) and `exposed` (what a compaction could not
see, or brought back) are ghosts. The deploy is what `Deploy`'s `CompactsAlone`
promises: it asks for a compaction when the other slot has nothing left to append, one
deploy at a time. Failed writes and unreadable lines are left out.

Bounds. `RingSize = 1`, so a third line is one too many; four records, two open at a
time; one clear or restart. No fairness.

| Run | Shows |
|---|---|
| `history` | `NewestKeptUnlessExposed` a compaction loses no line but those written while it runs, and a slot left alone takes over a file another slot filled and still keeps it short; `ClearedStaysCleared` what a clear removed returns only through a compaction it raced (both proved in `SharedFilesProofs`) |

Known: `CompactAfterDrain` runs without the file mutex (`runtime.go:70`,
`history.go:114-155`), so a request that ends during the compaction a deploy asks for is
lost from the history; `exposed` excuses exactly that line.

### 5.4 ConfigStore

One slot's store, the files, an operator who edits a file at any moment, and the other
slot, which writes while this one is not active. A change of the store is `Change`
(prepare, under the lock), one step per file in the order of `WriteProviders` (two for a
profile, whose temporary file stands in the folder of profiles until its rename), and
`Commit`; a crash or a failed write may come before any of them. The watcher's `Poll` is
eight steps, because it lets go of the lock between comparing, reading, stamping and
noting.

Abstractions. The catalog is a set of models, a profile the set of models it names; a
setup is valid when no profile names a lost model and the active profile exists. A file
is read at once, and every write gives it a new time, so a time is only equal to its stamp
or not. The temporary files of the catalog, the pointer and the settings lie where nobody
looks and are left out; those of the profiles (`partial`) are refused by every start,
activation and reload. `overlooked`, `exposed` and `torn` are ghosts: what was stamped with
content that is not in memory; whether some change was one the order of the writes cannot
cover — it names a model it adds itself, or was made from a snapshot behind the disk; and
the profiles whose replacement ended between the temporary file and its rename. The one-time migrations of old formats are `Migration`, below. Files are not created
or removed by hand. The other slot's change is one step, and comes when this slot's
store is not in the middle of one: in `Deploy` a slot is quiesced before the next writes.

Bounds. `MaxEvents = 3`: three edits, changes, failed writes or deaths of the process in
any mix; an edit between a read and its stamp during a write, or a death after a failed
write of a later change, take three. Two profiles, the active one and one it can switch
to or repair; one model, lost and found again. The first active profile and the first
setting are fixed, which loses nothing by symmetry.

Fairness. `Writer`: a write under the lock is file operations alone. `Watcher`: the
ticker, and the lock is free again and again. Nothing else has to happen.

| Run | Shows |
|---|---|
| `config_store` | (the first two proved in `ConfigStoreProofs`) `NothingMissed` content that memory lacks is due to be read (a rejected setup stays so), is an env file shown as rejected, or was stamped unread by a write, a start or an activation that crossed it; `LoadsUnlessExposed` every prefix of a covered write is a setup that validates, and the folder of profiles holds nothing a start refuses but the temporary file of a replacement under way or cut short; `EditsApply` an edit is applied or shown as rejected in a slot that stays active; `SetupKept` of `Migration` (proved) |

Met on the way: a death, or a failed rename, between `<name>.json.tmp` and its rename
(`providers.go:427-431`) leaves a file that every start, activation and reload refuses
(`providers.go:390-392`), until a later write that changes the profile replaces it
(`torn`, without which the property fails); `commit` stamps the newest time of all profile files, so a switch or
deletion of a profile marks another profile's unread edit as read, against
`docs/features.md:103`; a change that names a model it adds leaves files a
start refuses when the process dies between a profile and the catalog (`AlwaysLoads`
without the ghost fails); a slot made active again by a rollback writes from a snapshot
that may be behind what the other slot wrote; a `CreateProfile` that fails after its
profile file leaves a file that memory learns of only at the next reload; env text that
cannot be read ends no start, which takes its values from the process environment.

**Migration.** `MCConfigStore` puts the first starts of this version before the life of
the store: the run begins with `Migration` and goes over to `ConfigStore` once the router
is active, so that one run checks the whole life of a setup. `Migration` has the files an
older version left, in any of its formats, the steps that bring them forward one format
at a time, a backup before each first write, and a start that may die or fail before any
step. During a deploy the older version runs on and its operator changes the setup
(`MaxChanges = 2`) until the new slot is activated and reads the files again. What rules
and pools say is the number of the change they hold.

`SetupKept`: the router serves by the rules of the latest change or refuses to start, and
these rules are on disk at every step. Two ghosts excuse what the code does lose: `cut`, a
start that ends between the write of the Codex ids (`main.go:91`, `store.go:218`) and the
migration of the pools, after which the rules are in `.before-codex-ids` only and the next
start serves none; `outdated`, a death between creating and filling a backup
(`migration.go:117-129`), whose empty file later writes take for theirs. When ids are
assigned, `.before-pools` no longer holds the pools, contrary to `README.md:174`.

### 5.5 Limits

Two processes observe the answers they relay and save into one file. `Observe` merges into
memory and fills the one place of `dirty`; the saver is five steps (take the request, look
at the role, lock, merge what the file says, copy, write), and either process may do
anything between two of them. The clock may be set back.

Bounds. `MaxTime = 2`, an older and a newer observation; three observations, so that one
is made while another is being saved and a third while the file is read again; one change
of a role, failed read, failed save or set-back clock (a slot may also start active). `ClockSkew = 0` is
the tolerance for times from the future. Fairness: the saver goroutine. `Close` is left out:
no program calls it. `crossed` is a ghost: a clock set back during a save lets an
observation made after it replace the newer one the save has just read; `unread` another:
the savers that could not read the file.

| Run | Shows |
|---|---|
| `limits` | `NeverOlder` the file never returns to an older observation (proved in `SharedFilesProofs`); `ObservedIsSaved` what a slot that stays active observes reaches the file, unless a save fails or a newer observation replaces it |

Known, and excused by name in `NeverOlder`: `Save` merges only `if disk, err :=
readState(l.path); err == nil` (`internal/limits/limits.go:336`) and writes its memory in any case, so a save that cannot read
the file may put an older observation in the place of a newer one, which its comment
(325-327) rules out.

### 5.6 SlotState

What a slot has learnt (outcomes of models, bindings of sessions) and the four places that
keep it: memory, `models.json`, the snapshot `state.json` of a deploy, and the file
`state.<slot>.json` a stopping process leaves. A save of `models.json` is copy, open,
write, rename, by any request goroutine, all through one temporary name. The deploy is its
snapshot, quiesce, activate, rollback and switch; a process may stop or crash at any moment.

Abstractions. A picture is a set; merging is union. What a crash loses is not counted, nor
what the three failures under "Known" cost (`Lost`). `LeaveFile` is the snapshot at the end
of a drain and may fail, `TimesOut` a drain that ends without one, `SaveFails` a save cut by
an error, and a `Start` may fail to read its files.
Ghosts: `due`, what was recorded outside a switch, and `overlapped`, whether two saves did.
Bounds: two outcomes, one binding, two savers, two of deploys, failures, stops and crashes.
No fairness.

| Run | Shows |
|---|---|
| `slot_state` | `KeptAcrossSwitches` a deploy, rollback or restart loses nothing but what is recorded between snapshot and quiesce; `ReadableUnlessOverlapped` a lone save never leaves `models.json` unreadable, even if it is cut off (both proved in `SharedFilesProofs`) |

Known: `shutdown` returns before `life.shutdown` when `apiHTTP.Shutdown` meets the drain
timeout (`server.go:150-159`), so a restart under a long stream leaves no
`state.<slot>.json` and the next process starts without the bindings and statistics of this
one; a failed final snapshot is only printed (`runtime.go:94`), and a file that cannot be
read at the start only logged. Overlapping saves can leave `models.json` unreadable or older; a crashed serving
slot reads `models.json` and then, over it, the `state.<slot>.json` of its last graceful
stop, however old (`server.go:50-54`), where `health.go:20` has `models.json` survive a
restart.

### 5.7 Streams

One request, from the choice of the first member to the end of its answer, over a pool
(`tryModel`), Codex with its further calls (`tryCodexModel`), or the reverse proxy. The
handler, the read of the body, the watch's timer function, the bound on the first byte and
the client's context are separate actions; `fired` holds the timer functions that wait to
run, with the number of the read they were armed for.

Abstractions. Time is left out: an armed timer may fire at any moment. An upstream sends
beats, thoughts, output, an end and, to a pool, chunks that cannot be read (`bad`: malformed
JSON or usage; a stream's first event with malformed usage is a `begin` and then a `bad`);
the client leaves at any moment. Left out: the idle
bound while the router itself is blocked writing to a slow client.
Bounds: two members, two calls of a turn, two items per call; every bound on, one without
streaming, one without the first-byte bound. Fairness: the handler, the timers and the
functions they start; an upstream never has to say anything.

| Run | Shows |
|---|---|
| `streams` | `LiveNotCut` a stale timer does nothing; `EndIsTold` a client that stays hears how its answer ended; `NotRepeated` what began to generate is not repeated on another account (these three proved in `StreamsProofs`); `SilentUpstreamEnds` |

Known, and stated as exceptions in the properties: `codexAttemptError`
(`codex_transport.go:157`) takes the start-phase silence of a continuation for an attempt
that never started and lets it be retried, contrary to its comment at 154-155; a watch that
expires after the last event of a Codex call was read makes saving the turn fail with a
cancelled context, which the client is not told; `streamResponsePolicy` returns on a
malformed chunk or malformed usage after `message_start` without writing an error event
(`local.go:754-764`), so the client sees the stream stop with neither an error nor an end,
though every other end of a stream calls `failed`.

### 5.8 CodexTurn

A conversation: native events are decoded, projected into chat deltas, written as content
blocks, echoed by the client with its next request, and the native output is put back in
place of the echo. `log` is the conversation in both forms, `records` the replay store,
`items` what the upstream sent of a call, `blocks` what the client holds. A lost answer and
a client that goes back (`Fork`) leave records behind.

Abstractions. Texts are sequences of a letter and a line break, arguments counted
fragments; a prefix's hash is the prefix. Messages are assumed completed unless no message
of the answer completes. Left out: the turn-state header, usage, byte limits but the
store's (`MaxRecords` per scope), and the history's own `ProviderState` records, which
repeat the store's.
Bounds: two accounts, three requests, two calls, two items of two fragments, one fork:
two items overlap, a continuation follows a tool call, and a third request can hit a record
of an abandoned branch. No fairness.

| Run | Shows |
|---|---|
| `codex_turn` | `OneBlockAtATime`; `EchoMatches` the client gets all text and arguments once, and what it echoes fits the record saved for it; `ReplayExact` native output goes back only to its account and place, and without losses the upstream sees its own conversation exactly. All three are proved in `ConversationProofs` |

### 5.9 Exchange and Restore

A protected exchange: mask the request, read the whole answer, restore it, release it. The
handler, three timers, the client's context and the abort run concurrently; each critical
section of `protectedLifecycle.mu` is one action. On the local route `handleLocal` tries the
members of a pool, each with its own dictionary. `Restore` is what happens to the text of
a stream cut into deltas: admission of the stream, holding back what may still become a
pseudonym, and the flush at a block's end. `Exchange` takes the outcomes of a protected
stream as a constant; `MCExchange` gives it those `Restore` computes over `MCBodies`.

Abstractions. Texts over five symbols and five pseudonyms that begin, contain and end one
another, two of them with a blank inside; the masked request is valid or refused. As on the production path
(`runtime.go:96`) only supported content passes; the stricter checks of `transport.go`
that no traffic uses are left out, as are network addresses, letter case, encoding and byte
limits other than `Limit`.
Bounds: two members, `Limit = 2` and up to three frames, one past the limit; texts up to
four symbols in every cut, two interleaved blocks, damaged streams. Fairness: the handler,
timers and the abort; not the upstream, not the client.

| Run | Shows |
|---|---|
| `exchange` | `ReleasedWhole` only a whole answer, restored with the dictionary of the member that gave it, is released; `RestoredAsWhole` the cut into deltas does not change the text (both proved in `PrivacyProofs`); `EveryExchangeEnds` and leaves no body, timer, dictionary or request behind |

Known: a pseudonym that is part of a longer word is restored or not depending on the cut
where a letter outside ASCII touches it, or where a pseudonym of several words begins before
the end of the same word: only what such a key continues is kept back, not the word it
begins in. `Glued` excuses exactly these.

### 5.10 Cutover

The legacy router, blue and Caddy under launchd, the cutover command with its rollback and
its rerun, and the service commands before and after it. `plists` and `loaded` are what is
installed and what launchd has; `front` who holds the public ports; `marker` and
`recorded` the files. A crash, a login, a failed or endless call and a killed command may
come anywhere, in the service commands too. `router start` takes no lock and `claude-local`
runs it by itself when `/healthz` does not answer (`claude-local:19-21`), so it looks and
starts beside any step of any command (`starting`); a Stop that waits while a start loads
its agent again fails (`told`).

Abstractions. Both public ports are taken and freed together. Requests in flight, the
text of the Caddyfile and the green slot, which comes with the first deploy, are left out.
One operator gives the other commands one at a time; one start is under way at a time, and
one that is killed ends like one that failed. After a failed start or install the router
may be down until the command is repeated: `wanted` holds only after one that ended well.
Bounds: three faults, three cutovers, two commands. Fairness: the command, launchd and the
programs it runs.

| Run | Shows |
|---|---|
| `cutover` | `OneWriter` the legacy router and an active blue never write at once; `LoginKeepsIt` the next login starts what serves (both proved in `CutoverProofs`); `ServedAgain` after whatever failed the public address is served again |

The ghost `left` names what a behaviour has left undone and the properties excuse: a
killed command; a blue that could not be stopped or its marker not taken back, against
the comment `cutover.go:216`; a switch not recorded, after which `router start`, `install`
or a login loads the legacy agent and the rerun that records does not unload it; and a
`router start` that loads the still installed legacy agent between its stop
(`cutover.go:165`) and the end of the switch, beside an active blue, which nothing in the
code prevents (`"beside"`: without it the run finds both routers writing). `start` over an
agent still unloading takes it for started.

Found by the proof of `LoginKeepsIt`, which needs three cutovers and so was out of sight of
the run with two: a switch is done but `deploy.json` is not written, and the router is
started by hand; a second `cutover` takes the marker back (`cutover.go:119`) and fails to
stop blue; the router is stopped and Caddy binds again; a third `cutover` finds the switch
done and only records it. Then `deploy.json` exists while the marker names no slot, and
the next login starts blue in standby and nobody serves. `left` names this `"unmarked"`.

### 5.11 Sessions

The dictionaries of the privacy sessions: one file per session, its key and a line per
pair. A masked request is one transaction under a mutex and a file lock: read the files
of all sessions, issue what is missing, append; then it is sent, answered and restored. An
append may end early, tear its last line, or end with the process; `Prune` and `Forget`
remove files.

Abstractions. A text is a set of real values and pseudonyms; issuing picks any pseudonym
that collides with nothing. One profile and one set of rules (the namespace). Secrets and
network addresses, which no file keeps, pseudonyms made of parts and letter case are left
out. Prune spares only the sessions of requests of its own process; the model assumes no
request of another lasts `RetainDays`.
Bounds: two sessions, two processes, three requests, two at a time, texts of two tokens,
two faults. No fairness.

| Run | Shows |
|---|---|
| `sessions` | `Readable` no failed append, crash or second process leaves an index that is refused or gives two values one pseudonym; `SentStays` what upstream saw stays on file; `ComesBack` every pseudonym sent comes back as the value the client wrote (all proved in `PrivacyProofs`) |

## 6. Not modelled

- Translation between the Anthropic, OpenAI and Codex wire formats beyond what
  `CodexTurn` needs (`translate.go`, `internal/providers`), trimming and context assembly:
  functions of one request, covered by unit tests and golden files.
- The order by rating of routes without a pool (`health.go` `pick`): arithmetic over
  latencies and failure rates, with no state of its own to keep consistent.
- The Codex usage cache (`codex_usage.go`): one answer kept for display; its
  authorization is what `CodexAuth` models.
- UI pages, the JSON API and the CLI's output: views and forms over the state of the
  other components. What they change is an action of the module that owns the state
  (profile edits in `ConfigStore`, a browser login in `CodexAuth`, a clear in `History`,
  a forget in `Sessions`).
- Parsing and validation of the configuration files: functions of their text; the models
  have "valid" and "refused" as data. The migrations of old formats are `Migration`.
- Detectors, rules and the algorithms that make pseudonyms (`detect.go`, `rules.go`,
  `pseudo.go`, `cryptopan`): pure functions over strings whose alphabet is the point.
  How a pseudonym finds its way back is `Sessions` and `Restore`.
- The startup session of the catalogs (`internal/catalogstartup`): its requests run to
  completion before the router serves; the refresh that later runs beside the UI's
  changes is in `ConfigStore`.
- Two hazards of the code that no property covers: a request whose record has left the
  ring before it ends is not written to the history (`capture.go:297`); a Codex scope
  whose replay store has reached 64 MiB fails every further answer, since no record is
  ever removed (`store.go:143`; `CodexTurn` has the limit, and no property denies it).
- Caddy, launchd, the OAuth issuer and the providers are external; their behaviour is
  what the code in `src/` expects of them plus the faults named in each module.

## 7. Plan

Order: what two processes or two goroutines share comes first.

What is left, in order:

1. `DeployHistory`: Deploy and History composed, so that the promise History assumes of
   the deploy is the one `CompactsAlone` states. It would also cover `/admin/compact`
   overtaken by a quiesce (`runtime.go:73`).
2. The order by rating of routes without a pool, checked against a reference order.
3. The startup session of the catalogs, with its cancellation.
