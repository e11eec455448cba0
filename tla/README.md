# A TLA+ model of the Claude bridge

Claude on the web reaches a developer's machine through a *daemon*: an MCP
server behind a public tunnel, guarded by OAuth, which runs delegated jobs with
the Claude Agent SDK and asks the operator, in a VS Code window, for consent and
approval. This directory models the control logic of the daemon, of the window's
extension and of the two commands that start and stop the daemon: what a handler
does between two awaits, and everything that may happen at an await.

- TLC checks each component on a small instance (`MC*.cfg`; `PROJECT.json` lists
  the runs);
- TLAPS proves, for every value of the constants, every invariant and every action
  property that these runs check and that holds (`*_proofs`); liveness stays with
  TLC.

## 1. The system

| Component (under `src/packages`) | State it keeps | Operations | Modelled in |
|---|---|---|---|
| Job queue `daemon/src/jobs/queue.ts` | records, FIFO, the running id | enqueue, claimNext, cancel, mark*, updatePartial, sweep | `JobQueue`, `JobLifecycle` |
| SDK runner `jobs/sdk-runner.ts` | busy, currentJobId, currentAbort | tickle, dispatchNext, cancel, failJob, finishCycle | `Delegation` |
| Tools `mcp/tools/{delegate,poll,cancel}.ts` | the parked handlers | delegate, poll (long), cancel | `Delegation`, `ApprovalGate` |
| Report, diff, snapshot, transcript `jobs/*` | two snapshots, the transcript file | take, append, close, compare, assemble, scan | `JobReport`; status and moment in `Delegation` |
| IPC server `ipc/server.ts` | connection states, active registry | hello, register, confirm_trust, deregister, close | `IpcRegistry` |
| Workspace store `workspace/store.ts` | entries, workspaces.json | addTrustedEntry, setMode, load | `StoreFile`, `WorkspaceStore` |
| Approval gate `approval/*` | pending requests, session bypass | request, resolve, cancel, timeout, stop | `ApprovalGate` |
| OAuth consent `oauth/{consent,authorize,status}.ts` | consents, codes, timers, waiting polls | begin, ack, decide, poll, redeem, stop | `AuthCodes`, `Consent` |
| OAuth tokens `oauth/{token-endpoint,token-store}.ts` | bindings, tokens.json | mint, takeover, unbind (one, all), set mode, load | `AuthCodes`, `StoreFile`, `OAuthTokens` |
| Tunnel `tunnel/{manager,cloudflared,drop-recovery}.ts` | child, budget, flags, pending URL | start, exit, timeout, url, restart, stop, decide | `Tunnel` |
| Extension tool router `mcp/tools/extension-router.ts` | pending inspection requests | send, response, timeout, cancelAll, stop | `ExtensionToolRouter` |
| MCP server `mcp/{server,dispatch,auth}.ts` | requests in progress | route, authenticate, dispatch, audit, answer, stop | `McpAudit` |
| Audit log `audit/log.ts`, `log/*` | a promise chain, the open file, its date | append, rotate, prune, stop | `AuditLog`, `McpAudit` |
| Startup, shutdown `main.ts`, `workspace/{advert,resources}.ts`, `pidfile.ts`, `tunnel/reclaim.ts` | pid file, tunnel.pid, socket, advert | boot, reclaim, bind, sweep, stop layers, watchdog | `DaemonLifecycle` |
| CLI `cli/src` | none | start, stop; unbind, tunnel restart; status, tail-log | `DaemonLifecycle`; `OAuthTokens`, `Tunnel`; not modelled |
| Extension `extension/src/{ipc/client,registration,discovery,extension}.ts` | link, pending request, registration | pair, connect, reconnect, register, confirm, menu, stop | `ExtensionLink` |
| Extension prompts `extension/src/{approval,oauth-consent,tunnel-drop,trust}*.ts` | the modals on screen | show, click, dismiss, notice | `ApprovalGate`, `Consent`, `Tunnel`, `ExtensionLink` |
| Shared `shared/src` | none | schemas, path normalisation | the kinds of messages, the order of granularities |

How they interact. A `delegate` call first goes through the approval gate, which
sends an `approval_request` to the window that the active registry names and
waits for `approval_response`; then it enqueues the job and *tickles* the
runner. The runner claims jobs one at a time, awaits a snapshot, streams the SDK
query, assembles a report and marks the job, which wakes the long polls. `cancel`
goes to the queue (queued job) or to the queue and the runner (running job).
The OAuth endpoints ask the windows for consent over the same IPC connection,
hand out a code, and exchange it for a token bound to a workspace; `unbind` and
the mode switch change that binding. A tool call makes an audit entry before it
is answered; a request without a valid token gets its 401 first. A window finds
the daemon of its folder by the advert, says hello and registers the folder,
with the operator's trust the first time. The tunnel makes the MCP server
reachable; when it drops, its new URL is only published after the operator
confirms. Each process runs on one event loop: there is no parallelism in it, but
every `await`, timer and event lets the other handlers in.

What is hard: handlers interleaved at awaits (cancel during the snapshot,
confirm_trust during its write, takeover during mint), answers that race their
timers (approvals, consents, start timeouts), requests and answers matched by
order only (the window's IPC client), unordered and non-atomic file writes with
crashes in between, a rotation at midnight among appends, cancellation that must
reach exactly one job, wakeups that must not be lost, and what a daemon that died
leaves to the next one. `PROJECT.json` "hazards" lists them line by line with the
properties that watch them.

What makes each part correct: jobs run one at a time, in order, each with one
final verdict that its waiting callers learn; a cancel hits its job and no
other; nothing runs without an approval that goes back to the operator; a consent
has one outcome, which a click decided, and at most one token; a workspace with a
binding keeps one during a takeover and loses it for good with an unbind; the
file on disk is what the store is; an answered call is in the audit log and an
entry stays there for its retention; a window gets the answer to its own question and only a
click trusts its folder; one tunnel child, and no URL nobody agreed to; a daemon
that serves can be found and stopped, and what crashes leave behind is cleaned up.

## 2. Modules

A module's actions are named after the code. One action is the code from one
await (or event) to the next, with every call it makes; its comment says where it
stands. `PROJECT.json` "map" gives the lines of each definition. Operators headed
*Fault* are plausible bugs of the definition that follows them; nothing uses them
in a run. Each property is known to fail when its fault is put in place.

- **JobLifecycle** — what the queue promises: a job is queued, may run (one at a
  time), ends with a verdict, is removed. Abstract specification of `JobQueue`.
- **JobQueue** — every method of the queue; any caller, any time. Time counts
  retention periods. `VerdictIsAnnounced` relates status, report and resolved
  promise; `NoOvertaking` is the FIFO promise; `LifecycleSpec` is the refinement.
  TLC checks them with the callers of `Delegation`; the proofs cover any caller.
- **Delegation** — extends `JobQueue` with the runner, its position in
  `dispatchNext` (`pc`), its abort controller, its queued microtasks (`ticks`) and
  the callers parked in poll and cancel. `WorkIsWoken` checks that no wakeup is
  lost: a tickle of a busy runner does nothing; `PollFindsItsJob` that a poll whose
  job has ended still finds the record when it wakes, although a sweep may run in
  between.
- **JobReport** — one job from its first snapshot to its report: each snapshot cut
  at its awaits, by `git ls-files` or by the walk, its cap and its failures; the
  transcript, its cap and its marker; the comparison and the reasons for
  truncation; the next daemon's scan of old transcripts. Any file may change at any
  await. `was` and `now` remember what was there when a snapshot began.
- **IpcRegistry** — connections, trusted entries, the active registry and the
  awaited write of confirm_trust, here without the file it writes.
- **ApprovalGate** — extends `IpcRegistry`: the delegate call from validation to
  enqueue, over the windows that come, deregister and go, and the choices of the
  operator's prompt.
- **ExtensionToolRouter** — extends `IpcRegistry`: an inspection call from its
  request to its answer, with the write and the response awaited one after the
  other, the timer, the disconnect of either window and the shutdown.
- **ExtensionLink** — extends `IpcRegistry` with the other end: the window's
  link, its one pending request, `WorkspaceRegistration` and the trust prompt, and
  one channel each way per connection. Windows open, close and reload, the daemon
  dies and starts, and each end learns of it when it has read what the other sent.
- **AuthCodes** — the authorization codes, used by **Consent** (the record, its
  two timers, the polls that wait, the modals of the windows that were asked) and
  by **OAuthTokens**.
- **StoreFile** — a JSON file replaced by truncating writes that nothing orders;
  used by **OAuthTokens** (tokens.json) and **WorkspaceStore** (workspaces.json).
- **OAuthTokens** — redemption with its takeover, unbind of one workspace or of
  all of them one after the other, the mode switch, failing writes, restarts.
- **WorkspaceStore** — composes `IpcRegistry` with `StoreFile`: a confirm_trust
  or a mode switch changes the entries, awaits the write and then registers the
  folder or answers; the daemon may die at any point and load the file again.
- **AuditLog** — the promise chain of appends and rotations, the midnight timer,
  the archives and their pruning, failing file operations, `stop()`.
- **McpAudit** — extends `AuditLog` with the requests of the MCP server: refused,
  unknown, served elsewhere, or handled, audited and answered; the order in which
  the shutdown stops the server and the log, and a shutdown entered again, which
  does not wait for the server (`StopLogAgain`, `overtaken`); crashes and a second
  daemon.
- **Tunnel** — children, handlers and the two awaiting calls of TunnelManager,
  DropRecovery, and the modals of the windows that it asks.
- **DaemonLifecycle** — the daemons of one workspace, each at a point of `main()`
  and, up to `MaxEntries` times, of `shutdown()`; the files they share; the CLI
  commands start and stop, cut at their checks, their question to the daemon,
  their spawn or stop request and their wait; the sweep of another workspace's
  daemon. `pidChange` is what became of the tunnel manager's reports, which
  `main.ts` turns into writes and removals of tunnel.pid that nobody awaits:
  `naming` and `removing` are under way, `named` has settled; `mixed` when a report
  came before the last had settled, or said that there is no child when a restart
  had spawned one, and then each write may be the last (`unsure`). A `stop()` of
  the manager waits for its child (`declining`, the layer `tunnel_wait`) and reports
  afterwards. A process that ends takes what it had under way with it (`End`).

The theorems are in modules of their own. `ApprovalGate_proofs`, `JobReport_proofs`,
`ExtensionToolRouter_proofs` and `McpAudit_proofs` are about the module they are
named after; `Delegation_proofs` about `JobQueue` and `Delegation`; `OAuth_proofs`
about `Consent` and `OAuthTokens`; `Registration_proofs` about `WorkspaceStore` and
`ExtensionLink`; `Daemon_proofs` about `DaemonLifecycle` and `Tunnel`.
`MCApprovalGate`, `MCJobReport`, `MCOAuthTokens`, `MCWorkspaceStore` and `MCTunnel`
only add symmetry sets.

## 3. Runs

| Run | Bounds | What it shows |
|---|---|---|
| delegation | 2 jobs, 2 callers, 3 clock values | one job streaming while another waits, two calls parked, a sweep between; the FIFO, the verdicts, the refinement of the lifecycle, and liveness |
| job_report | 2 files, 3 contents, file caps 1 and 3, 2 edits, transcript of 2 bytes | the cap on files is below or above their number; the transcript's is met with room for the whole marker, a part of it or nothing; a file changes during a snapshot or between the two |
| approval_gate | 1 window, 2 folders, 2 sessions, 2 requests | a bypass can be mis-keyed by session or by folder |
| extension_router | 2 windows, 2 folders, 2 calls | one window goes while the other is asked; each call meets its write, answer, timer, disconnect and shutdown in any order; safety and liveness |
| consent | 1 consent, 2 windows, 3 polls | both windows show the modal and only one may decide; a reload replaces a waiting poll twice; safety and liveness |
| oauth_tokens | 3 consents, 2 workspaces, 2 requests at a time | two takeovers at once of an existing binding; `unbind --all` between two workspaces, beside a redemption |
| workspace_store | 2 windows, 2 folders, 2 modes, 2 writes at a time | two windows compete for a folder while another write overlaps, fails or is cut off by a restart |
| extension_link | 1 window, 1 folder, 3 connections | a reload or a reconnect while the previous connection is still being closed; safety and liveness |
| mcp_audit | 2 calls, 3 days, retention 2, 2 daemons | an entry waits in the chain across two midnights; a shutdown is entered again while a client waits; a second daemon goes on with the file; safety and liveness |
| tunnel | 4 children, budget 2, 2 calls, 1 window | the budget is used up while a restart and a decline overlap and a modal stays open |
| daemon_lifecycle | 2 daemons, shutdown entered twice, 1 stop, 1 start | a daemon takes over what another one left at any point of its boot or its shutdown; safety and liveness |
| respawn_is_unexpected | 3 children | violated, see section 6 |

The bounds are the smallest in which each hazard happens; the faults show that it
does. Jobs, requests, consents, calls and audit entries are used once, so a run
is finite without cutting anything short. The only counters that are capped are
`MaxSpawns`, `MaxTurns`, `MaxEdits`, `MaxClock`, `MaxDay`, `MaxStarts`, `MaxDaemons` and
`MaxEntries`; `MaxWrites` limits the writes of workspaces.json
that are awaited at once: two already overlap in every order. Deadlock is not
checked: all ids may be used up, and a daemon with nothing to do waits.

Fairness. `Delegation`: microtasks run, and each await of `dispatchNext` settles;
the snapshot and the report are local work, and `max_turns` ends the query.
Nothing is assumed of callers, of Assistant turns, or of an abort being obeyed.
`Consent`: the two timers fire. `ExtensionToolRouter`: the timers fire, and an
awaited write settles once its response is in or its connection is gone. No window
is assumed to answer, ever. `ExtensionLink`: both event loops go on: what has
arrived is read, a lost link is retried, a write settles. The user's clicks and
menu requests, windows opening and closing and the life of the daemon are left to
chance; `LinkRecovers` speaks of a daemon that in the end stays up.
`McpAudit`: the promise chain of the log moves while the process lives, and a
handler whose entry is dealt with answers. No tool handler is assumed to end.
`DaemonLifecycle`: `shutdown()` goes on and its watchdog fires; no client need
ever leave.

In `DaemonLifecycle` three pairs of commands meet in a way that the code does not
order: a start with a start or a stop before the pid file is written, a stop with
a daemon that lives and does not listen, a boot with the sweep of another daemon.
The history variable `contended` records it, and from then on `Findable`,
`OrphanIsReclaimable` and `ReportIsTrue` promise nothing: they fail there
(section 6). The constraint `Orderly` keeps TLC from following these behaviours
into a shutdown, a start command beside a stop command or beside a shutdown
other than that of its own daemon while it is asked, and overlapping reports of
pids beside either command; the proofs have no such limit.
Everything else may interleave: crashes and signals at every step, windows that
never leave, restarts and declines of the tunnel, a stop beside a signal.

History variables (`contended`, `cut`, `confirmed`, `disturbed`, `promised`, `unheld`,
`granted`, `was`, `now`, `lost`, and the fields `told`, `alone` and `compared`) only
remember; no guard reads
them except the one of another history variable.

## 4. Proofs

Each assumption is named in the module that declares the constants; they say that
`None` and the like are outside the sets they are compared with, that bounds are
natural numbers, and that there is a folder to speak of. The theorems are about
any number of jobs, callers, windows, connections, files, consents, daemons and
children, and about the whole specification: a constraint of a run (`Orderly`) does
not limit them.

All follow one argument. The property is not inductive, because it is true for a
reason that lies in another variable; the invariant of the module (`IInv`, `DInv`,
`TokensInv`, `LinkInv`, `LInv`, `TInv`) adds those reasons, each action has a lemma
that it keeps the invariant, and the action properties are read off one step. TLC
has checked each invariant on the run's instance.

**Delegation_proofs, the queue**: the type invariant, `PendingIsQueued`,
`RunningIsClaimed`, `NoOvertaking`, `VerdictIsAnnounced`, `VerdictIsFinal`, and
`QueueImplementsLifecycle`: `QueueSpec => LifecycleSpec`. Claiming keeps
`RunningIsClaimed` only because the head of the FIFO is a queued job
(`PendingIsQueued`); `PendingIsQueued` survives a cancel only because no id is in the
FIFO twice; `NoOvertaking` survives a claim because tickets in the FIFO increase, and
an enqueue because every known job's ticket is below the next one, a fact
(`IssuedBefore`) that no single method states.

**Delegation_proofs, the runner**: every step of the composition is one of the queue
or leaves it alone (`StepsAreOfQueue`), so that `IInv` carries over and
`DelegationImplementsLifecycle` follows. `DInv` adds what relates the two: the
runner's `pc` and job against the queue's running id (`RunnerOwnsRunning`), the
verdict an ended query may have (`OutcomeIsAsked`), and which jobs an abort or a
parked cancel may name (`CancelHitsItsJob`). `PollFindsItsJob` rests on the sweep: a
job whose poll has not woken yet was finished in the present retention period
(`PollIsFresh`). `WorkIsWoken` says that no wakeup is lost: an idle runner beside a
waiting job has been tickled. `CancelStands` is the half of `CancelWins` that needs
no fairness: a job that was cancelled while its query ran gets no other verdict
(`Doomed`).

**JobReport_proofs**: `ReportTellsChanges` and `ReportTellsWhatIsMissing`. What a
snapshot has recorded of a file tells what was there when it began, if the file kept
still: this holds of the files it has looked at so far (`SnapTells`), of the one it
is about to read after its `stat` (`LookIsTrue`), and of the two snapshots once they
are taken (`BeforeTells`, `AfterTells`); a cap leaves files out only of a snapshot
marked truncated. `AllWritten` says that a transcript its writer does not call
truncated has every message, so a lost marker cannot hide one.

**ApprovalGate_proofs**: `ApprovedByOperator` and `PendingIsUnanswered`. An approved
request got there by a click or by a bypass, and a bypass exists only for a session
and folder that the operator approved for the session (`BypassIsEarned`,
`ApprovalIsEarned`).

**Registration_proofs, the store**: `HolderIsTrusted`, `OnlyConfirmIntrudes` and
`PromiseIsKept`. The last is about the file: overlapping writes may land in any
order, so it promises nothing after a write that met another one or failed
(`disturbed`). The invariant says that a write which has been alone so far carries
what is in memory (`AloneInv`), and that after an undisturbed write a whole file has
what was promised of every folder that no write is about (`DiskKnows`);
`PromisesSurviveRestart` then reads the file back.

**Registration_proofs, the window's side**: `AnswerIsItsOwn` and `TrustIsGranted`.
A connection is one window's (`OneOwner`), and until that window sends `stop`, its
one open request is in one place: under way, in the daemon's hands, answered, or
lost with the connection (`Conversations`). So the line that arrives is the answer
to it. A `confirm_trust` under way has been clicked (`ConfirmIsGranted`). The
registry's invariant (`RegistryInv`) is proved once and used for both modules.

**OAuth_proofs, the tokens**: `CodeMintsOnce`, `OneTakeoverYields`, `DiskIsCurrent`,
`TakeoverNeverUnbinds` and `UnbindIsComplete`. A token exists only for a code that
was redeemed, and one operation mints for it (`Minted`, `MintsOnce`); of two
takeovers of one workspace one knows every living token that the other knows
(`Nested`), so the one that has something left to revoke spares another
(`Spared`); a write that has been alone so far carries what is in memory
(`AloneInv`); and what an unbind has cut is dead or redeemed (`CutInv`).

**OAuth_proofs, the consent**: `FirstDecisionStands` and `ClickDecides`: a code, an
approval or a denial goes back to a click in a modal that this consent put up
(`ModalInv`, `CodeInv`), and a poll's answer is the state of the record (`PollInv`).
`NewestIsTimed`: the poll that waits last always has a timer running for its
consent, its own or that of a poll before it.

**ExtensionToolRouter_proofs**: `PendingIsWaiting` and `PendingHasWindow`, from the
facts that the window a pending call is asked holds its folder and that a new
call has left nothing behind (`HolderIsAsked`, `NewIsUnsettled`).

**McpAudit_proofs**: `AcknowledgedIsKept` and `AnsweredIsLogged`. `LogInv` says that
only appended entries are in the chain or in a file (`Appended`), that the chain's
dates only go forward and the name of the next archive is free, so that a rename
replaces nothing (`Dated`), and that no entry is, or will be, in a file named for a
day before its stamp, so that pruning takes none too early (`Stamped`). `ServerInv`
is the order of the shutdown: the log is closed only when no connected client has a
call in progress, or by a shutdown that was entered again. `ChainIsAwaited`: the promise chain has exactly the entries that
somebody awaits, each once.

**Daemon_proofs, the lifecycle**: `Findable`, `OrphanIsReclaimable` and
`ReportIsTrue`, for any number of daemons, stop commands and entries into
`shutdown()`. As long as no two commands have contended (`Order`), at most one daemon
is alive (`OneAlive`), the pid file is its own from its write on (`PidFileNames`), and
a stop command that is under way has read its pid, and cleans up only when it is
gone (`StopSees`). Then nobody but the daemon itself removes what it is found by
(`Found`), and after its reclaim every cloudflared that it did not spawn is one
whose pid was never written, or whose daemon's reports had come to overlap
(`OrphanInv`).

**Daemon_proofs, the tunnel**: `OneTunnel`, `NeverSilentAdopt` and
`NoUnwantedRespawn`. `OneTunnel` is inductive with the types, in which every
handler's process is one that was spawned; that no respawn is left to come once
the budget is used up needs `Budget`: a count beyond it has suspended the tunnel.

Only model-checked: liveness (`EveryJobEnds`, `CancelWins`, `NewestPollReturns`,
`EveryCallReturns`, `EveryCallIsAnswered`, `ShutdownEnds`, `LinkRecovers`), whose
fairness is out of the prover's reach. `WorkIsWoken`, `CancelStands`, `NewestIsTimed`
and `ChainIsAwaited` are the safety that the first three and `EveryCallIsAnswered`
rest on: that what must still happen is always under way.

## 5. Not modelled, and why

- Schemas, path normalisation, the floor rules, configuration and identity are
  functions of their input; HTML pages and metadata are stateless.
- One folder is one path here. On Windows the active registry is keyed by the path
  as the window spells it (`ipc/server.ts:950`) while the store normalises it, so two
  spellings of a folder can have a holder each; the models do not see that.
- The text of the diff with its own cap, the summary and the shell commands of a
  report are display data; the patterns of `.gitignore` are a library's.
- The store of registered OAuth clients only grows; its file is written like
  tokens.json, without what makes tokens.json hard (bindings that are removed).
- Token expiry is a month away; pids are not reused; the start of a tunnel that
  fails at boot ends the daemon.
- The logger has a promise chain like the one of the audit log and drops errors.
- `status` and `tail-log` change nothing.
- `makeDaemonNotRunningHandler` in `extension/src/daemon-lifecycle.ts` is not wired
  by `extension.ts`. *Start daemon* in a window runs the CLI's start.

## 6. Where code and documentation disagree

Checked by a run that TLC finds violated:

1. *respawn_is_unexpected*: the exit handler of a tunnel child does not know that
   `restart()` (or the start timeout, or kill-before-respawn) stopped it. It
   respawns, `restart()` spawns too, and the two kill each other's children until
   the restart fails as degraded or the budget is used up.

Met while modelling, described here without a run of their own.

Jobs and approvals:

- acceptance criterion 8 of `docs/design/02-p1-delegation.md` (line 492) says that
  a cancel of a running job starts its termination. While the before-snapshot is
  taken there is no abort controller (`jobs/sdk-runner.ts:223`): `runner.cancel`
  returns, and the query then runs to its own end (the verdict is still
  `cancelled`; `CancelWins` shows the rest);
- the report is assembled while the job is still `running`, so it carries
  `failed` whatever the verdict (`jobs/report.ts:296-303`), against criterion 5
  (line 486), which asks for `status: "complete"`;
- a cancel accepted after `wasCancelled` was read, or during `failJob`, has no
  effect although its caller is told `cancelled`;
- `docs/runbook.md:389` says that the session bypass is cleared when the extension
  disconnects "deliberately". `deregister_workspace` does not clear it, and the
  socket that closes later holds no registration any more, so nothing does;
- `deregister_workspace` leaves pending approvals waiting for their timer, while
  the comment at `approval/pending.ts:75` names it as a case that cancels them.

Reports (criterion 5, `docs/design/02-p1-delegation.md:486`, asks for accurate
lists of files; `ReportTellsChanges` says when the code has them):

- a file that cannot be opened, or that vanishes between its `stat` and its `open`,
  loses the whole snapshot (`jobs/snapshot.ts:299`, where the `stat` just before
  does skip it). The report then lists no changes, and nothing in it says so
  (`compared` marks these reports);
- a directory that cannot be read counts as empty (`jobs/snapshot.ts:184`): its files
  are reported as deleted, or as created. So is a file that becomes ignored;
- binaries are compared by size only (`jobs/diff.ts:82`); a changed one of the same
  size is not in `files_modified`, against line 437 of the same document;
- `jobs/transcript.ts:11-12` says that a marker line is appended when the cap is
  reached. It is cut off, or missing, when there is no room; the report still knows,
  because the writer is asked too (`ReportTellsWhatIsMissing` fails without that).

OAuth:

- `docs/design/p3-prime-build-plan.md:105` says that after an unbind the client can
  no longer act on the workspace. An unbind that finds nothing in memory is
  answered with success while the write that removes the token is still on its way
  (`oauth/token-store.ts:163`); a crash then brings the token back;
- `unbind --all` goes through the workspaces that have tokens; an authorization
  code that is still to be redeemed for another workspace is not revoked
  (`main.ts:931`);
- an `ack_timeout` leaves the consent pending, against `consent.ts:61-63`, and a
  later approval still issues a code;
- a second status request for a consent makes the first one hang, against
  `status.ts:91-93` (`NewestPollReturns` says which one is safe).

Windows and the registry:

- a window that closes, or loses a race, while its confirm_trust is written still
  gets the registration (`OnlyConfirmIntrudes` says that this write is the only
  way). The folder is then held by a connection that is gone, so the window that
  comes back is refused as a duplicate, for which it does not try again; the
  comment at `registration.ts:151-152` says that the registry drops what a
  connection held;
- after a confirm_trust that is refused or fails, the window stays at
  `needs_trust`, where the comments have it "stay in `registering` so the next
  connect retries" (`registration.ts:334-337`): nothing retries while the
  connection lasts;
- `extension.ts:188-191` says that no reply to `stop` is awaited. The daemon sends
  one, and the client gives it to whatever request is pending by then;
- the window's `currentBinding` is not cleared when the connection drops, so the
  status bar can name a binding that a new daemon does not have;
- `workspace/store.ts:3-4` says that the daemon serialises writes; two requests
  write at the same time.

Tunnel and router:

- a tunnel drop nobody was there to see is to be surfaced when a window connects
  (`ipc/server.ts:584-587`, `tunnel/drop-recovery.ts:44-45`, `main.ts:811-813`,
  `tunnel-drop.ts:47-48`). The question is broadcast to registered windows only,
  and the hello that triggers it comes before the registration;
- `restart()` does not clear the pending URL of an earlier drop: confirming it
  later adopts a URL that no child serves;
- a `restart()` whose child exits after a `stop()` came in between is never
  settled, and its caller waits for ever;
- the pid that `pid_change` reports is written or removed without an await
  (`main.ts:786-795`), against the comment above it: when an exit and a restart
  spawn two children back to back, either pid may end up in tunnel.pid; and
  `stop()` reports null after its await (`tunnel/manager.ts:244-248`), when a
  `restart()` may have spawned a new child. A daemon that dies then leaves a
  cloudflared that no boot reclaims; `OrphanIsReclaimable` speaks of the others;
- a response promise of the tool router that is rejected (timer, error answer,
  disconnect of any window, shutdown) while the write of its request is still
  awaited has no handler yet, and nothing handles an unhandled rejection: the
  daemon ends (`daemon = "dead"` in `ExtensionToolRouter`). The approval gate
  attaches a handler first (`approval/gate.ts:83-88`);
- a window that deregisters and then closes leaves its inspection calls to their
  timer, against `extension-router.ts:182-183` (`unheld` marks these calls).

Audit log:

- rotation happens at midnight (`docs/design/01-p0-bus.md:277`,
  `docs/runbook.md:246`), and an archive holds one day (`docs/runbook.md:611`). A
  daemon that does not run at midnight goes on with the file it finds, and one
  archive then holds several days;
- an archive is pruned `retention_days` after the start of the day it is named
  for, not after its last entry (`docs/runbook.md:207` and 618); `AcknowledgedIsKept`
  states the retention that the code does keep;
- a failed open of the active file is cached: every entry until the next rotation
  is lost, and its caller is answered all the same;
- the interaction log is the same class without the timer (`main.ts:615` adds the
  audit log's only), and only the timer prunes: its archives are kept for ever;
- the shutdown gives up on handlers that do not end, and their calls have no entry;
- a second signal or `stop`, while the first shutdown waits for the connections of
  the MCP server, finds it closed (`mcp/server.ts:420`) and goes on to close the
  audit log. `append()` then drops the entries of the calls that still run
  (`audit/log.ts:117`), and their clients are answered all the same, if the process
  lives that long (`StopLogAgain`).

Start and stop:

- the shutdown waits for every connected window (`server.close`), so a `stop` with
  a window attached runs into the watchdog, and the approval, MCP, tunnel and pid
  file layers are skipped, against `docs/design/01-p0-bus.md:274`;
- `stop` takes a refused connection for a daemon that "died between PID-check and
  IPC" (`docs/runbook.md:89`) and removes the pid file. A daemon is alive and refuses
  during the seconds in which its tunnel starts, and while it drains. One that was
  booting goes on to serve, and `stop` then says "Daemon not running"; beside one
  that drains a second one can start, whose files the first removes when it ends;
- a window is told "already running — connected" (`daemon-lifecycle.ts:381`) although
  the incumbent it met may be draining;
- two overlapping starts of one workspace both get past the probe. The later boot
  kills the cloudflared of the earlier one; the loser exits with `IpcSocketBusyError`
  and leaves its own cloudflared and its pid in the pid file, so the winner cannot
  be stopped by `stop`;
- `writeAdvert` may follow the `removeAdvert` of a stop that came over the new
  socket, and leave a stale advert after a clean exit (the next boot replaces it).

## 7. Plan

Next, in this order:

1. The client store and registration endpoint with `StoreFile`: a client that was
   told its id is known after a restart.
2. `ExtensionLink` with two windows of one folder and the write of workspaces.json,
   which `Registration_proofs` treats apart.
3. Proofs: an abstract specification of the registry (a folder, its trust and its
   holder) that `WorkspaceStore` and `ExtensionLink` both implement.
