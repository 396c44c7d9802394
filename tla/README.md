# Goosar in TLA+

Goosar runs coding agents on people's machines. A Go server (`server/`) keeps
issues, comments, chats and a queue of agent tasks in Postgres; daemons
(`server/internal/daemon`) on the users' machines poll the queue, run an agent
for each task and report back; web, desktop and mobile clients (`packages/`,
`apps/`) show the result, and the desktop application keeps the daemon's packages.
Several server replicas may run at once, and every replica runs the same
sweepers. The project models what those parts do to shared state, checks it with
TLC on small instances and proves the most important results with TLAPS for all
instances.

## Inventory

| Component | State | Operations | What is hard | What makes it correct |
|---|---|---|---|---|
| Agent task queue (`service/task.go`, `agent.sql`) | `agent_task_queue` | enqueue, promote, reclaim, claim, requeue, start, wait, complete, fail, retry, cancel, rerun | every operation is a statement or a short transaction; requests of all replicas interleave | one active row per lane, capacity per agent, one holder per claim, terminal rows final, one retry per failure |
| Claim and lifecycle endpoints (`handler/daemon.go`, `handler/comment.go`) | none of their own | claim batches, build responses, store tokens, report endpoints, comment triggers | a request does many statements; the response can be lost after the commit | a failed delivery takes back only its own claim |
| Runtime sweeper (`cmd/server/runtime_sweeper.go`) | none of its own | marks runtimes offline, fails rows past their deadlines, retries them | runs in every replica and races with reports; bulk UPDATE and retries are separate | everything a vanished machine held is released in the end |
| Daemon execution (`internal/daemon`) | tasks in hand, slots, directory locks | poll, prepare, wait for a directory, start, report | crashes, lost responses, retried reports, reclaimed rows | a daemon never undoes what the server has decided since |
| Empty-claim cache (`service/empty_claim_cache.go`) | Redis: version and verdict per runtime | read verdict, read version, store verdict, bump | the verdict is stored long after the read it rests on | a verdict hides no row that was enqueued after its read |
| Scheduler (`internal/scheduler`) | `sys_cron_executions` | claim a plan, heartbeat, finish, steal, retry | replicas race, leases expire under a live runner | one runner per (job, scope, plan), late results are ignored |
| Leader lock (`internal/leader`) | Postgres advisory lock | try, run, release | the connection dies while the work goes on | one replica per tick |
| Runtime liveness (`handler/heartbeat_scheduler.go`, `runtime_liveness_store.go`) | Redis keys, batched flushes | touch, flush, sweep | Redis and Postgres disagree | a live runtime is not marked offline |
| Comment delivery (`handler/comment.go`, `reconcileCommentsOnCompletion`) | trigger, coalesced and delivered ids of a row | coalesce, deliver, reconcile | a comment arrives while its row is being claimed or finished | no comment is lost, none delivered twice |
| Channel engine (`integrations/channel/engine`) | installation leases, inbound ledger | supervise, route, batch | two replicas hold a socket; deliveries repeat | one socket per installation, a message handled once |
| Realtime connection (`packages/core/api/ws-client.ts`, `realtime/provider.tsx`) | the current socket, a timer, flags about the handshake | connect, authenticate, refuse, close, retry, disconnect | one set of flags for every socket ever opened; callbacks of old sockets; timers overwritten | one connection, always on its way back, and nothing missed in an outage |
| Issue queries (`packages/core/issues`, `use-realtime-sync.ts`) | the query cache | fetch, patch by event, optimistic edit, rollback, invalidate | nothing grows stale by age, so events, answers and rollbacks in any order must come to the server's value | at rest the screen shows the database |
| Package provisioning (`apps/desktop/src/main/provisioning.ts`) | package directories, markers, links, the pass under way, strikes | sync, retry, bind, install, switch, prune, remove | passes overlap and outlive their workspace; crashes between renames; a daemon uses the files | a pass ends in sync, user content is kept, a running daemon keeps its runtime |
| Desktop daemon manager (`daemon-manager.ts`) | the token and user of the profile, the guard, pending restarts, the process | start, stop, restart, sync and clear the token, restart when idle, stop for a removal | every call awaits between its steps and only the interface's hold the guard; a daemon is invisible between its start and its port | the daemon serves the user who is logged in, no restart is forgotten, nothing is removed under a daemon |
| Realtime relay (`internal/realtime`, `internal/daemonws`) | subscriptions, streams | subscribe, publish, relay, disconnect | best effort across replicas | clients refetch after a gap |
| Autopilot (`service/autopilot.go`) | runs | admit, start, settle | a run and its task settle separately | a run ends with its task |
| Daemon workspaces (`internal/daemon/gc.go`, `local_directory.go`) | environment roots, locks | reserve, collect, lock | collection races with reuse | nothing in use is deleted |

The parts interact through the database. A comment or an assignment inserts a
row; `notifyRuntimeMayHaveWork` bumps the empty-claim version and wakes the
daemon; its claim request promotes due deferred rows, reclaims its stale
dispatched rows, lists candidates, and claims one row per agent under the agent's
row lock; each claimed row is answered with a token or requeued; the daemon
starts the row, which cancels the row's fallbacks, and finally reports; reports
and sweeps insert retries. Heartbeats, or their absence, decide which sweeps
apply.

Events go from the handlers through the hub to the clients' sockets. `WSClient`
keeps a socket up; on every connection but the first it runs the reconnect callbacks, and
`useRealtimeSync` answers them by invalidating all queries. In between it
patches the query cache from the events; the user's own edits patch it ahead of
the server. The desktop application fetches the manifest of the bound workspace,
installs packages where the daemon finds them, and asks the daemon manager to
restart the daemon once it is idle.

## Modules

| Module | What it is |
|---|---|
| `TaskRows` | rows, statuses and the pure rules: who competes with whom (`Serialized`, `Claimable`), the pending index (`PendingUnique`), retry eligibility, ceilings and delays |
| `TaskQueue` | the state machine: handlers, sweeper, users, daemons and the environment over the rows |
| `TaskLifecycle` | the abstract specification: statuses move along fixed transitions, an agent starts one row at a time within its capacity on a free lane |
| `TaskQueueProofs` | theorems about `TaskQueue` and their proofs: lanes, capacity, the refinement, who holds a claimed row |
| `RetryProofs` | theorems about ended rows, their retries and fallbacks, on top of `TaskQueueProofs` |
| `EmptyClaimCache` | the verdicts in Redis that spare a claim request the database, and the bumps that outdate them |
| `EmptyClaimCacheProofs` | theorems about `EmptyClaimCache` |
| `Scheduler` | the managers of all replicas over `sys_cron_executions` |
| `ExecutionLedger` | the abstract specification: attempts are counted and bounded, a success is final |
| `SchedulerProofs` | theorems about `Scheduler` |
| `WSClient` | the client's realtime connection, its provider and the server's end of the handshake |
| `WSClientProofs` | theorems about `WSClient` |
| `IssueCache` | the issue queries of one client under events, edits, refetches and reconnects |
| `IssueCacheProofs` | theorems about `IssueCache` |
| `Provisioning` | passes over the packages of two workspaces, and the daemon that uses them |
| `ProvisioningProofs` | theorems about `Provisioning` |
| `DaemonManager` | the daemon manager, the command line tool it runs and the life of the daemon process |
| `DaemonManagerProofs` | theorems about `DaemonManager` |
| `MCTaskQueue`, `MCEmptyClaimCache`, `MCScheduler`, `MCWSClient`, `MCIssueCache`, `MCProvisioning`, `MCDaemonManager` | constants, symmetry and action constraints of the runs |

### How TaskQueue corresponds to the code

One action is one statement or one transaction, since requests of other replicas,
the sweeper and a crash may come between two of them.

| Variable | Code |
|---|---|
| `queue` | the rows of `agent_task_queue` |
| `runtime` | `agent_runtime.status`, and `last_seen_at` as `silence` (0 fresh, 1 past the stale threshold, 2 past the reconnect grace) |
| `claim` | the progress of a claim request: `pc`, the agents still to try, the agent whose row it locked (`holds`), rows claimed and not yet answered, rows ready to be answered, and whether the daemon that asked still listens |
| `recovering` | rows a bulk UPDATE failed and `HandleFailedTasks` has yet to retry |
| `acknowledging` | rows whose `StartAgentTask` committed and whose fallbacks are still to be cancelled |
| `rerunning` | reruns between their cancel and their enqueue |
| `linking` | quick-create rows whose `CompleteTask` committed and which `notifyQuickCreateCompleted` has yet to link to their issue |
| `unread` | history: rows `FailTask` failed although `GetAgentTask` had failed, so that it could not decide about a retry |
| `workers` | what the daemons hold, each with the claim it was handed |
| `rebooted` | runtimes whose daemon restarted and has yet to recover orphans |

| Actions | Code |
|---|---|
| `Enqueue`, `EnqueueFallback`, `AgentComments`, `Cancel`, `Rerun`, `RerunEnqueue` | the enqueue and cancel functions of `TaskService`, called by the comment, issue and chat handlers |
| `Poll`, `ReclaimStale`, `ListCandidates`, `LockAgent`, `ClaimRow`, `ClaimError` | `ClaimTasksForRuntimes` and `ClaimTask`, in that order |
| `Deliver`, `Withhold`, `Requeue`, `CancelClaimed`, `Respond`, `AbortClaim` | the loop of `ClaimTasksByRuntime` over the claimed rows |
| `ExtendLease`, `MarkWaiting`, `Start`, `Complete`, `ReportFailure`, `GiveUp`, `DaemonCrash` | `handleTask` of the daemon with the endpoints it calls; `Failed` is the transaction of `FailTask` |
| `Acknowledge`, `AcknowledgeFails` | the second statement of `StartTask`, which cancels the fallbacks; its error is only logged |
| `FailUnread` | `FailTask` when `GetAgentTask` failed: it warns and fails the row without a retry |
| `LinkTaskToIssue`, `LinkNothing` | `notifyQuickCreateCompleted` after the commit of `CompleteTask`: the row becomes one of the issue the agent made, or no issue is found or a statement fails |
| `ReassignTasksToRuntime` | `reclaimStaleOwnerRuntimes` and `mergeLegacyRuntimes`: the registration of a daemon takes over the rows of a runtime of another daemon |
| `RecoverOrphans`, `MarkOffline`, `SweepOffline`, `SweepReconnect`, `SweepStale`, `SweepQueued`, `RetryFailed` | orphan recovery and the branches of `sweepTick` |
| `DeadlinePasses`, `LeaseExpires`, `RuntimeSilent`, `Deregister`, `Heartbeat`, `ServerCrash` | time, heartbeats and failures |

### How EmptyClaimCache corresponds to the code

One action is one call to Redis or one statement. `TaskQueue` lets a request find
nothing at any time; this module asks whether it may do so for long.

| Variable | Code |
|---|---|
| `queued` | rows with status `queued`; `TaskQueue` has the rest of a row |
| `bumping` | rows whose insert, promotion or requeue has committed and whose `notifyTaskAvailable` has yet to run |
| `unannounced` | queued rows whose bump failed or died with its server |
| `version`, `verdict` | the two Redis keys of a runtime; a missing version reads as 0 |
| `request` | the loop of `ClaimTasksForRuntimes` over its runtimes: `todo`, the runtime between `IsEmpty` and `CurrentVersion` (`asking`), the versions read (`observed`), the runtimes to mark (`empty`) and the rows listed (`found`) |

`VersionExpires` has a guard about verdicts and requests: a version key lives for
24 hours after its last read or bump and a verdict for 3 minutes after the
request that wrote it, so a version does not expire under a verdict or a request
that saw it. `RedisLosesData` ignores both; `lost` remembers that it happened.

### How Scheduler corresponds to the code

| Variable | Code |
|---|---|
| `clock` | the database's `now()` |
| `execution` | rows of `sys_cron_executions` by scope and plan time; `lease` stands for `lease_token`, counting the claims of the row instead of drawing a uuid |
| `runner` | a `Manager`: the time of its tick (`now`), the scopes and plans to go, and, while a claim runs, its row, lease, attempt and heartbeat |

| Actions | Code |
|---|---|
| `RunOnce`, `MarkStale`, `PlanScope`, `ScopeDone`, `TickDone` | `RunOnce` and `runJob`; `MarkStale` is `markStaleAsFailed` |
| `PlansForTick` with `EveryPlan`, `AutopilotPlans` | `plansForTick`, `autopilotPlansForScope` |
| `Claim`, `SkipPlan` | `tryClaim` and `processPlan`, also when the statement fails or commits without an answer |
| `Heartbeat` | `runHeartbeats` |
| `HandlerEnds`, `FinishSuccess`, `FinishFailure`, `ReportIgnored` | `runClaimed` from the handler's return on |
| `Crash`, `PassTime` | a replica dies; time |

### How WSClient corresponds to the code

| Variable | Code |
|---|---|
| `ws`, `token`, `awaiting`, `suppress`, `attempt`, `state`, `before` | the fields of `WSClient`; `attempt` stops at `DEGRADED_AFTER_ATTEMPTS`, beyond which nothing depends on it |
| `timer`, `leaked` | the timeout `reconnectTimer` names, and armed ones it named before |
| `phase`, `attached`, `presented` | of every socket: how far its two ends are, whether `onclose` is still set, the token it carried |
| `mounted`, `retried` | the effect of `WSProvider` and `unauthorizedRetriedRef` |
| `stored`, `revoked` | `goosar_token` in storage, tokens the server refuses |
| `missed` | history: events may have passed by since the queries were invalidated |

| Actions | Code |
|---|---|
| `Mount`, `Unmount` | the effect of `WSProvider` and its clean-up, `disconnect()` |
| `Opened`, `AckArrives`, `RefusalDropped`, `Closed` (`ServerCloses`, `Dropped`) | `onopen`, `onmessage`, `onclose`; `Authenticated` is `onAuthenticated()`, `ScheduleReconnect` is `scheduleReconnect()` |
| `Rejected`, `RejectedRetry` | `handleAuthError()` without and with the provider's answer |
| `TimerFires` | the callback of the timeout: `connect()` |
| `ServerAccepts`, `ServerRefuses` | `firstMessageAuth` and `HandleWebSocket` |
| `StoreToken`, `Revoke` | a login or renewal; a revoked session |

### How IssueCache corresponds to the code

| Variable | Code |
|---|---|
| `query` | of each key what the query client keeps: `data`, `invalid`, whether its last fetch failed (`failed`, TanStack's status error), whether a component watches it, the fetch under way with its answer, and what the fetch started from (`kept`, restored by `cancelQueries`) |
| `server`, `publishing` | issue rows; `issue:updated` events of requests that have committed |
| `wire`, `heard`, `registered`, `before` | the socket: events under way, the client's `auth_ack`, the hub's room, `hasConnectedBefore` |
| `own`, `snapshot` | `useUpdateIssue` from `onMutate` to `onSettled`, and the context its `onError` restores |
| `missed` | history: keys an event passed by |

| Actions | Code |
|---|---|
| `Receive` | `onIssueUpdated`: `applyIssueChange`, then the invalidations |
| `Mutate`, `MutationSucceeds`, `MutationFails` | `onMutate`, `onSuccess` or `onError`, `onSettled` |
| `Hear` | the ack, and on a reconnect `invalidateWorkspaceScopedQueries` |
| `Publish`, `Register`, `Drop` | the hub; `HandleWebSocket` writes the ack before it registers |
| `Watch`, `Unwatch`, `FetchRead`, `FetchDone`, `FetchFails` | TanStack Query, external: what `useQuery`, `invalidateQueries`, `cancelQueries` and `setQueryData` do under the options of `query-client.ts`; a table in error status is not fetched on mount (`FetchedOnMount`: `issueTableRowPageOptions`) |
| `Refetch` | the retry button of the table view |

### How Provisioning corresponds to the code

| Variable | Code |
|---|---|
| `home`, `aside` | the directory of a plain package by its marker; unmarked content moved to a name of its own |
| `versions`, `current`, `torn` | the version directories of a runtime and its link; as history, whether a removal ended before it removed the link |
| `pass` | `runSync` or `runWorkspaceAccessRevokedCleanup`: the workspace it was started for, what is left to install and to remove, the package in hand, what it read of it, the versions a removal has yet to delete and whether a deletion failed |
| `inflight`, `bound`, `strikes`, `aged` | `syncInFlight`, `authState.workspaceId`, `accessRevokedStrikeCount`, whether the first strike is ten minutes old |
| `catalog`, `delivered` | what the server serves to a workspace and remembers to have served |
| `daemon`, `pending` | busy or not, the runtimes it was started with; `pendingProvisioningRestart` |

| Actions | Code |
|---|---|
| `Sync`, `Retry`, `Bind`, `Cleanup` | the timer, `retryProvisioning`, `bindProvisioningWorkspace`, `runWorkspaceAccessRevokedCleanup` |
| `ManifestServed`, `ManifestFails`, `ManifestDenied`, `EndPass` | `runSync` and `installManifestPass` |
| `AlreadyInstalled`, `Fetch`, `FetchFails` | `syncOnePackage` |
| `InstallFresh`, `InstallSkipped`, `AskDaemon`, `Displace`, `MoveIn`, `MoveInFails` | `atomicSwapInstall`, one file operation at a time |
| `SwitchCurrent`, `Prune` | `switchRuntimeCurrentAndPrune` |
| `AskRemoval`, `Remove`, `RemoveFails` | `removeOneRevokedPackage`, of a plain package |
| `ListVersions`, `RemoveVersion`, `RemoveVersionFails`, `Unlink`, `UnlinkFails` | `removeRevokedRuntimePackage`: one awaited `fs.rm` per version, then the link, whose failure is swallowed |
| `DaemonRestarts`, `TaskBegins`, `TaskEnds`, `Crash`, `CatalogChanges` | the daemon manager's idle restart, the daemon, the end of the application, an administrator |

### How DaemonManager corresponds to the code

One action is what a call does between two awaits, or what another process does
between two of its own observable steps.

| Variable | Code |
|---|---|
| `session` | the user of the renderer |
| `profile` | the token in the profile's `config.json` and the file `.desktop-user-id` |
| `guard`, `pending` | `operationInProgress`, `pendingProvisioningRestart` |
| `calls` | of each caller: the step its promise chain is at, what it is for, the environment it hands to the command line tool; `Buttons` and `Logouts` come through `withGuard`, `Logins` are the effects of `App.tsx`, `Switches` the restarts that `syncToken` does not await, `Changes` come from `restartDaemonIfAlive`, and `"packages"` is `provisioningRestartInFlight` |
| `syncing` | of each login, what `syncToken` read before it waits for the server: whether another user was recorded, and the cached token |
| `packages`, `announced` | the generation of the packages on disk, and of the last `notifyProvisioningPackagesChanged` |
| `children`, `port` | daemon processes that do not listen yet; the one that holds the health port, with the token and the environment it read |
| `forgotten`, `stray` | history: restarts that were dropped while a start was under way, daemons whose stop was refused or lost, whose token was torn from its user, or under which an overtaken login recorded another user |

| Actions | Code |
|---|---|
| `startDaemon`, `stopDaemon`, `StopFails`, `AfterStop`, `restartDaemonIfAlive` | the functions of these names and `restartDaemon`; `StopFails` is the timeout of `execFile` |
| `runDaemonBackground`, `StartReturns`, `stopDaemon`, `StopReturns` | `goosar daemon start` and `goosar daemon stop` |
| `listenHealth`, `resolveAuth`, `Ready`, `Exit`, `TaskBegins`, `TaskEnds` | `Run` of the daemon |
| `Press`, `ReportStopped`, `ReportNotStopped` | the handlers of the interface, `stopDaemonForRemoval` |
| `Install`, `notifyProvisioningPackagesChanged`, `requestProvisioningRestartNow`, `pollOnce`, `ensureProvisioningRestartIfNeeded` | the hook of the provisioning and the pending restart |
| `Login`, `syncToken`, `mintPat`, `writeProfileConfig`, `writeProfileUserId`, `RestartOnUserSwitch`, `autoStart` | the effect of the login in `App.tsx`, step by step; nothing keeps one login from overlapping the next |
| `Logout`, `clearToken`, `withGuard`, `Relaunch` | `handleDaemonLogout`; the end of the application and what `AuthInitializer` does at the next launch |

`Provisioning` uses of this only that the daemon is restarted when it is idle
(`DaemonRestarts`); `DaemonManager` uses of it only that packages change and are announced.

### Abstractions

* A token stands for its owner: a token of the same user minted later opens
  nothing else. A health check and the decision it leads to are one step.
* The daemon of the model is native and of the version the application brings;
  auto-start is on and auto-stop off. Errors of the disk end neither a sync nor a
  logout in the middle of its writes.

* An edit replaces the whole value of an issue; edits of different fields would only
  differ less. Keys differ in three respects that decide what can go wrong: which
  issues they hold, whether an event refetches them, whether an optimistic edit
  cancels their fetch.
* A version of a package stands for its content, so a new digest is a new version. The
  download, the digest and the unpacking succeed or fail as one step, since they
  touch a staging directory only; credentials change as the workspace does.

* One job is modelled. A second job of the same tick delays the claims of the
  first one exactly as a further scope does.
* Times are whole units of the database's clock; the backoff of retries is one
  `RetryDelay`, where the code has a list of delays.
* The replay window of the autopilot's planner (24 hours) is longer than its
  `Lateness` (5 minutes) and never decides. A trigger's plans all lie after its
  creation. Old rows are purged after 30 days, long after their plans are claimed.
* A lane stands for the issue or chat session of a row; `Bare` for quick-create
  rows, which serialize with each other, and `Free` for autopilot rows without
  an issue, which do not. The three branches of the `NOT EXISTS` of
  `ClaimAgentTask` are one equality of lanes.
* Clocks are the deadlines a row has passed in its status (`age`), so every
  order of deadlines and steps is explored and no duration matters.
* `dispatched_at` is a claim number (`stamp`): the code compares it for equality
  only.
* A claim request and a lease extension name the runtime they were made for
  (`runtime_id` in the UPDATEs of the requeue and of the lease). A take-over moves rows
  between runtimes of different daemons only, so `OnRuntimeOf` compares the daemon.
* Priorities and creation order are dropped: where the code takes the first row,
  any candidate may be taken.
* Coalescing a comment into a pending row changes no status and is left to a
  module of its own; so is the chat message a cancelled row leaves behind.
* The empty-claim cache only hides candidates for a while; `ListCandidates` and
  `ClaimError` already allow a request to find nothing.

## Runs

The runs of the queue use module `MCTaskQueue`. Action constraints switch off parts of the
environment that the run does not ask about, to afford a larger instance of the
rest.

| Run | Instance | Checks | Shows |
|---|---|---|---|
| `HandOver` | 2 handlers, 2 rows of an agent with capacity 1, one of an issue and one quick create, 2 claims each, clocks run | `CapacityRespected`, `QueuedIsUnheld`, `ClaimHandedOnce`, `ImplementsLifecycle` | the agent row lock keeps the count true between counting and claiming; a requeue never takes back a row that was handed over since; every step is a lifecycle step, also the link of a completed quick create to its issue |
| `Retry` | 1 root, of an issue or a quick create, and its 2 retries, full environment | `TypeOK`, `ReportedFailureRetried`, `RetryChain`, `TerminalIsFinal` | no crash loses the retry of a reported failure, only a row that `FailTask` could not read goes without; report and sweep together retry a row once, no late step revives a row |
| `Escalation` | 2 rows of 2 agents with capacity 2 on one issue, the second possibly a fallback, 2 runtimes of which one may take over the other, the steps of `TimelySpec` | `LaneExclusive`, `TerminalIsFinal`, `FallbackStaysDown`, `ImplementsLifecycle` | two rows of an agent never work on a lane at once, which here the lifecycle alone forbids, since there is room; the fallback stands down when the row has started, wherever its promotion and claim had come; no late cancel touches a row that has ended |
| `GoneRuntime` | 1 root and its retry, full environment, fairness | `GoneRuntimeReleasesRows`, `QueuedRowMoves` | a machine that never returns holds neither lanes nor queue slots for ever |

The others use the `MC` module of their component.

| Run | Instance | Checks | Shows |
|---|---|---|---|
| `EmptyClaims` | 2 requests, 1 runtime with a row, 2 bumps, Redis may lose everything, fairness | `CacheTypeOK`, `VisibleUntilLoss`, `QueuedRowSeen` | a verdict that overlaps with an enqueue never matches while Redis keeps its data; lost bumps and a lost Redis delay a row, they do not hide it for ever |
| `Leases` | 2 replicas, an autopilot trigger with 2 plans, 2 attempts each, clock to 4 | `SchedulerTypeOK`, `LeaseUnique`, `SuccessIsFinal`, `LostOnlyWhenStale`, `ImplementsLedger` | late results are told apart, nothing is taken too early, attempts are bounded |
| `TimelyRuns` | 2 replicas, an every-plan job with 2 plans, clock to 5, `TimelySpec` | `OneInstance` | when the timeouts are met, one replica runs a plan |
| `Overrun` | 2 replicas, 3 scopes, `OverrunSpec` | `OneInstance` is violated | see Findings |
| `Connection` | 3 sockets, 2 tokens, 2 losses, with a cookie or a token, fairness | `ClientTypeOK`, `OneSocketUntilRetry`, `SilentAfterUnmount`, `NeverStranded`, `OutageHealed`, `RenewedTokenConnects` | whatever callbacks of old sockets come late, there is one socket or timer until a rejection is answered, always a way back, no outage that is not refetched; a renewed token gets the client connected |
| `LiveQueries` | 1 issue on its own page and in a table, an edit of the user and one of somebody else, a lost connection, a failing fetch | `IssueCacheTypeOK`, `TablesSettle`, `RefusedEditsVanish` | the order of events, answers and rollbacks does not matter once everything has come to rest; a table that an event passed by or that stands in error status is excepted |
| `Packages` | 2 passes, 2 workspaces, a plain package and a runtime with 3 versions, 2 denials to a removal, one failure, change or crash | `ProvisioningTypeOK`, `CurrentResolves`, `LegacyKept`, `UndisturbedPassSyncs`, `RuntimeInUseKept` | a pass nobody disturbs mends whatever others left; unmarked content survives; a link is good but for removals under way, cut short or unable to remove it; a busy daemon keeps its runtime through one switch |
| `Daemons` | 2 users and 2 logins at a time with 3 calls (2 when both logins are under way), or 1 user with 2 package changes and 2 calls at a time; 1 process without a port at a time; relaunches | `DaemonManagerTypeOK`, `SwitchReachesDaemon`, `PackagesRemembered` | a daemon of the user before does not survive a switch, also one that is just starting: it binds its port before it reads the token, and the login asks for it after it wrote the token; overlapping logins leave no other way out than the marks stated with the property; a notification that joins a restart in flight is not answered by it alone, the pending flag outlives it |

Bounds. `Chat` is empty in the runs (`Chat = {}`): a chat's lane excludes and retries
as an issue's does, and like a quick-create lane it may hold several queued rows,
so both of its features are met.
`Task` bounds the rows, `MaxRoots` those that are not retries; with
`MaxChain` rows per root (an assumption TLC checks) a retry always finds a slot,
so no retry is lost to the bound. `MaxClaims` bounds the claims of one row: two
are needed for a claim, its reclaim and the requeue of the first. Two handlers
are enough for the races because the lock and every condition of an UPDATE relate
one request to another one; three rows on one agent are enough for two that
compete and one that does not. In `Escalation` the second
runtime is of a daemon that does not poll: what the run asks of it is the take-over of
rows in every status. The other runs have one runtime, so no take-over. Symmetry is used on handlers only, in runs without liveness.

In `EmptyClaims` `MaxVersion` bounds the bumps of a runtime: one is enough for
a request to have read the version before it and to mark after it, the second is for a
row that is taken and queued again; more rows, runtimes and requests are the
theorems' part. In the scheduler runs
`MaxTime` bounds the clock: with `StaleTimeout` 2 a lease can be taken, expire, be
stolen and expire again, and a tick can be older than both. Two replicas suffice
for a thief and a victim; `MaxAttempts` 2 for a retry and its end. Symmetry is used
on requests and replicas in runs of safety properties.

`TimelySpec` adds two assumptions to the steps: `HeartbeatsTimely`, a running claim
sends its heartbeat before another `HeartbeatInterval` is over, which is what
`runHeartbeats` tries, and `ClaimsPrompt`, a plan is claimed with a time that is
not older than `StaleTimeout - HeartbeatInterval`. The code has nothing that
ensures the second; `Overrun` shows what happens without it, even
if only handlers take time and each of them keeps to its `RunTimeout`
(`OverrunSpec`). The heartbeats of `Leases` may be late or missing.

In `Connection` three sockets are enough for a rejected one, its replacement and the
one its close asks for; `Socket` identities are used again, so the number of
connections is not bounded, only how many are alive, and `MaxTimers` likewise bounds
only the timers armed at once. The theorems about
`LiveQueries` know no bound; their invariant was also checked, outside the listed runs,
with two issues that one table holds and an own edit of each (3.3 million states). In `Packages` `MaxEvents` is spent on any one of a failure, a change
of the catalog or a crash; rebinding, retries, denials and tasks are not
counted. A catalog serves one package at a time, so that moving from one
to another installs and removes; two passes overlap once in a behaviour (`OneOverlap`,
an action constraint: the specification and the theorems know no such bound).

In `Daemons` there are two slots for logins and one for each other kind of call;
`MaxCalls` bounds how many are busy together. Three are a login, its restart after a switch and one
more that starts or stops a daemon; two are a slow login and all of the login after it, or
the pending restart and a start. Users
and packages meet in no guard, so the run lets them vary one at a time. `MaxChildren`
bounds the processes that have yet to bind, of which a second only loses the port; the
theorems know neither bound. A health request to a port that is bound and not served
yet waits for the answer (it takes less than the 2 seconds of the request), and no
application ends while the command line tool is about to start a daemon.

`TimelySpec` of the queue, whose steps `Escalation` runs, assumes `FallbackInTime` and
`StartFinishes`: the comment handler gets its fallback in before `StartTask` of the
row it backs up has returned, and the second statement of `StartTask` runs: the server
does not die before it, and it does not fail, an error that `StartTask` logs and does not
return (`AcknowledgeFails`). All are windows in the code and are listed as hazards; without
the assumptions `FallbackStandsDown` fails at once. `Escalation` has them as action
constraints of `Spec`, and checks `FallbackStaysDown`, which states that invariant for
the steps that meet them, since TLC evaluates a property on rejected steps too.

Fairness. `FairSpec` of the queue assumes weak fairness of the four sweeps, of marking
runtimes offline and of retrying (the sweeper's ticker repeats all of them, see
`runRuntimeSweeper` and `sweepTick`), of time, and of the statements of a
request that has begun. Nothing is assumed of users, daemons, workers or
heartbeats: a machine may be switched off for good. `ServerCrash` may happen
again and again, which is why the code's sweeps must start from the table alone.

`Fairness` of the cache assumes that daemons keep polling, that keys expire and that
a request which is tried again and again gets through (strong fairness of its
steps, since any attempt may be aborted); of bumps it assumes nothing. Liveness of
the scheduler is not stated: its clock is bounded, and a plan may be dropped on
purpose (lateness, catch-up window, attempts).

`FairSpec` of the connection assumes that timers fire and that an open socket makes
progress at both ends; that a socket is lost is not assumed and at most `MaxDrops`
times possible. `IssueCache` states what holds at rest instead of a liveness property:
its properties need no fairness. `UndisturbedPassSyncs` does the same for passes: a
pass that ends has done its work, and the timer starts one every 15 minutes.

## Theorems

`TaskQueueProofs` proves for every choice of the constants:

* `TypeCorrect`: `Spec => []TypeOK`;
* `LanesExclusive`: `Spec => []LaneExclusive`;
* `CapacityHolds`: `Spec => []CapacityRespected`;
* `Refinement`: `Spec => ImplementsLifecycle`.

Assumptions: `TaskAssumption` (finitely many rows, `None`, `Free` and
`Bare` are distinct from what they stand beside, capacities and attempts are positive) and `QueueAssumption` (types of
the parameters). `RoomAssumption` (the table has a row for every retry of every
root, as a table without a bound has) is used by `ReportedFailuresRetried` alone.

The argument. Nearly every action is *orderly*: it inserts rows, or moves rows
along the lifecycle without dispatching one and leaves them their agent, lane and
runtime, or leaves their status alone and files them elsewhere: under another runtime or,
if they are completed quick creates, under an issue (`Orderly`, proved action by action in the `...Step` lemmas and
summed up in `OtherSteps`). Under an orderly step the active rows of every agent
only shrink (`OrderlyShrinks`), so whatever bounds them survives. What is left is
`ClaimRow`. Lane exclusion is inductive on its own: the row is claimable in the
state in which it is claimed. Capacity is not: the room was counted in an earlier
step, `LockAgent`. The inductive invariant `IInv` adds `LockKeepsRoom`: as long
as a handler holds an agent, nobody else holds it and the agent has room. It also
needs `Placed` (a row that exists has an agent, a lane and a runtime), because a
retry copies them from the row it continues, and `LinkingEnded` (a row that waits for its
link has completed), because a lane that changed on an active row could meet another one.
The refinement follows from the same
two lemmas: an orderly step starts nothing, and `ClaimRow` starts one row that
`IInv` allows to start.

`RetryProofs` proves, under the same assumptions:

* `RetriesFormChain`: `Spec => []RetryChain`;
* `EndedRowsStay`: `Spec => TerminalIsFinal`;
* `ReportedFailuresRetried`: `Spec => []ReportedFailureRetried`.

Two statements write a row without asking for its status: `ReassignTasksToRuntime` and
`LinkTaskToIssue`. `TerminalIsFinal` therefore says that an ended row is at most `Refiled`:
its runtime may change, and the lane of a completed quick create from `Bare` to an issue,
once. `ReportedFailureRetried` excepts the rows in `unread`, which `FailTask` failed
without having read them.

Every step but one kind is `Plain`: each row stays, or is filed elsewhere (`Moved`), or was
live and moves on (`Steady`), or a single root enters the table (`Entered`). The other kind continues a
failed row (`Continued`). `StepPlain` sorts the actions, and the rest of the module
speaks of these kinds only. `RetryChain` is not inductive: a server that failed rows
in bulk retries them later, one by one, so `RecoveringAlone` says that a row waiting for
that has no retry yet, and `LeasedIsLive` that no lease can be extended on an ended
row. That a failure has its retry also needs a free row for it. `RoomInv` keeps a map
from rows to the root each was reached from; rows of one root differ in their
attempt, attempts are bounded by the ceiling, so the table holds fewer rows than
`RoomAssumption` gives it whenever one more may be tried.

The same module proves `FallbacksStandDown`: `TimelySpec => []FallbackStandsDown`, and
`FallbackStaysDown`, the form of it that TLC checks. A
fallback that stands after a step stood before it or is new (`StandingBefore`), because
no step takes a row back from running or from its end (`Onward`). A row comes to run
only by the start of a worker, which marks it for the second statement
(`BeginsAcknowledged`); that statement ends every fallback that stands
(`AcknowledgeEnds`), and `TimelySpec` leaves no other way to lose the mark: no server death
and no error of that statement.

`TaskQueueProofs` also has who was handed a row:

* `QueuedRowsUnheld`: `Spec => []QueuedIsUnheld`;
* `ClaimsHandedOnce`: `Spec => []ClaimHandedOnce`.

A claim is a row and the `dispatched_at` it was given. `HandInv` says that nobody holds
a claim the table has not dispatched yet (`AllStamped`), that no claim is held twice
(`HeldOnce`) and that the present claim of an untaken row is held by nobody
(`UntakenUnheld`). A claim or a reclaim stamps the row anew, so what others still
hold of it is an earlier claim; a response passes claims on; a requeue is done by
the holder and compares the stamp. All other steps keep the stamps and let
holders only shrink.

`EmptyClaimCacheProofs` proves, for any rows, runtimes and requests:

* `CacheTypeCorrect`: `Spec => []CacheTypeOK`;
* `CacheSafe`: `Spec => []VisibleUntilLoss`.

A version is `Sound` for a runtime if it is behind the runtime's version, or equal to
it while no row of the runtime is announced. Until Redis loses its data, the inductive
invariant says, every verdict is sound and every version a request is about to store; versions
that were read and not yet listed for are merely not ahead. They become sound when
the list comes back empty, and a bump makes every version fall behind: that is
what the order of the code buys, version before list and commit before bump.

`SchedulerProofs` proves, for any number of replicas, scopes and plans and any
timeouts that `validate` accepts (`SchedulerAssumption`):

* `SchedulerTypeCorrect`: `Spec => []SchedulerTypeOK`;
* `LeaseSafe`: `Spec => []LeaseUnique`;
* `SuccessStands`: `Spec => SuccessIsFinal`;
* `LossIsLate`: `Spec => LostOnlyWhenStale`;
* `OneInstanceRuns`: `TimelySpec => []OneInstance`;
* `LedgerRefinement`: `Spec => ImplementsLedger`.

Each action is summed up by what it may do to a row (`RowFollows`: nothing, a claim,
the sweep, a heartbeat or a result of its runner) and to a runner
(`RunnerFollows`); `StepShape` proves the summary once, and the theorems use only
the summary. `LeaseUnique` needs `LeasesGiven`: nobody holds a lease that its row
has not come to, so a new lease is new to everybody. For `OneInstanceRuns` the
invariant `TimelyInv` adds that a runner holds its lease and that the lease
outlives its next heartbeat: then no replica, however old its tick, finds the row
stale.

`WSClientProofs` proves, for any number of sockets, tokens, timers and losses:

* `ClientTypeCorrect`: `Spec => []ClientTypeOK`;
* `OneSocket`: `Spec => []OneSocketUntilRetry`;
* `SilentOnceUnmounted`: `Spec => []SilentAfterUnmount`;
* `ClientNotStranded`: `Spec => []NeverStranded`;
* `OutagesHealed`: `Spec => []OutageHealed`.

The inductive invariant `ClientInv` adds what the flags say about the sockets:
until a rejection is answered `this.ws` and the timer tell the whole truth and no
close is suppressed (`Truthful`); a provider that has not mounted has a fresh client
(`Fresh`); a suppression is there only while the close it is meant for is to come and
the client is unauthorized or has got another live socket (`SuppressionMeant`), which is
why no suppressed close can strand it; and a client with a live socket, or with an
outage behind it, remembers that it was connected (`Remembered`), so that its next
connection runs the callbacks.

`ProvisioningProofs` proves, for any number of workspaces, packages, versions and
concurrent passes, any catalogs and any number of failures and crashes:

* `ProvisioningTypeCorrect`: `Spec => []ProvisioningTypeOK`;
* `LinksResolve`: `Spec => []CurrentResolves`;
* `LegacySafe`: `Spec => LegacyKept`;
* `RuntimesKept`: `Spec => RuntimeInUseKept`;
* `PassesSync`: `Spec => UndisturbedPassSyncs`.

The inductive invariant `PackagesInv` says of each pass under way what it may
rely on, in four parts. Two hold whatever other passes do: `Placed`, what kind of
package it has in hand, and `Wary`, that a directory it read as unmarked is
remembered as such, and one it is about to remove is not unmarked; the latter
survives other passes because no step ever puts unmarked content into a
directory that had none. The other two hold of a pass that nobody else disputes:
`Linked`, that the version to be linked is there and that pruning spares the
version the daemon uses, and `Thorough`, that whatever a pass no longer lists is
as the catalog wants it, what it was to remove is listed or gone, and a removal of a
runtime has on its list every version that is there. `LinksLeft` says of a step of one
pass that it leaves no link behind that points nowhere, except in a removal under way
or cut short. `OnePass` makes the second
kind inductive: an undisputed pass is the only one under way, so no other
pass can take a step, and one that starts marks it as disputed.
`OneMoves` is this argument, once for all steps; each action is left with its own
pass. `LegacyKept`, `RuntimeInUseKept` and `UndisturbedPassSyncs` then are facts
about single steps from `PackagesInv`, by the few steps that touch files (`FileSteps`).

`DaemonManagerProofs` proves, for any number of users, package changes and slots for calls of each
kind, with any calls and processes under way at once:

* `DaemonManagerTypeCorrect`: `Spec => []DaemonManagerTypeOK`;
* `SwitchSafe`: `Spec => []SwitchReachesDaemon`;
* `PackagesSafe`: `Spec => []PackagesRemembered`.

`SwitchReachesDaemon` is not inductive: it says nothing while nobody is recorded.
`OwnerInv` does: unless the daemon is marked, its token is that of the recorded user or
something is due (`Due`), a stop or a login that is `Mending`, that has its check ahead
or is about to record the daemon's own user. `DueStays` is the lemma most steps need: a
call that is neither leaves whatever is due. The marks are part of the statement and
worth reading: with logins that overlap, the user recorded when `syncToken` began is not
the one its write replaces, so `writeProfileUserId` of a login that found no other user
may leave a daemon of the user between them behind, without a check (`userChanged` is
read before the wait for the server).
`EnvironmentInv` follows an old environment on its way from a call (`exec`) through a
process without a port to a daemon that serves; at each of these places the manager
has the restart pending or has decided about it while it could not see the daemon.
Most steps leave alone what these invariants are about; `OwnerFrame` and
`EnvironmentFrame` say once what is enough for that.

`IssueCacheProofs` proves, for any issues, edits and queries and any number of lost
connections and failed fetches:

* `IssueCacheTypeCorrect`: `Spec => []IssueCacheTypeOK`;
* `TablesComeToRest`: `Spec => []TablesSettle`;
* `RefusalsLeaveNoTrace`: `Spec => []RefusedEditsVanish`.

`TablesSettle` speaks of rest only; `TablesCurrent` says what holds before. For each
table that no event passed by, an answer that was read is `UpToDate` but for issues of
which an event is still `Coming`, committed and not published or on the wire. So is
what an idle table shows, unless an own edit is in flight, whose end refetches it, or
the table is marked stale and will be fetched when somebody views it, or it is in error
status, shows the error and waits for somebody to refetch it. An event that
arrives late does no harm: it restarts the fetch, or the query is `Deaf` and is
remembered as missed; and a rollback, which puts back a snapshot of any age, is
followed by an invalidation in the same step.

`RefusedEditsVanish` needs `EditInv`: the server, the wire and every answer hold
accepted edits only (`OnlyAccepted`); without overlaps an issue has at most one own edit
in flight (`Alone`), edits keep snapshots of queries that hold their issue
(`SnapshotsFit`), and an issue's own page shows an accepted value or that of an edit
in flight which kept an accepted one to put back (`PagesRecover`). Tables do not need
the rollback: they follow from `TablesCurrent`. Between the two are lists that hold several
issues and are not refetched: there the property is false even without overlaps, since
a snapshot is of the whole list and the rollback of one issue's edit brings back the
refused value of another one's. They are not part of the property.

Only model-checked: liveness, which is out of the prover's reach (`QueuedRowSeen`,
`RenewedTokenConnects`, `GoneRuntimeReleasesRows`, `QueuedRowMoves`).

## Findings

*A plan can run on two replicas at once although every heartbeat is in time*
(`Overrun`). `scheduler/spec.go:2` promises one instance. A tick reads the
time once and works through its scopes one after the other; `tryClaim` counts
the lease from the time of the tick. Three autopilot triggers that use most of
their `RunTimeout` of two minutes exceed the `StaleTimeout` of five, the last
lease is expired when it is taken, and another replica fails the row and runs
the plan again before the first heartbeat. The run shows the shape with a small
clock; with the registered values (a heartbeat every 30 seconds, 2 minutes a run, stale
after 5) the third trigger's lease still has a minute left, so that it takes a fourth
trigger, or an earlier job in the same tick such as a rollup. The unique index on
`autopilot_run (trigger_id, planned_at)` limits what the autopilot's
handler can do twice. `TimelyRuns` and the theorem `OneInstanceRuns` say what is
missing: claims with a fresh time.

Further disagreements are in the models, listed as hazards and not as runs.

* A rejected token leads to two connections. `ws-client.test.ts:479` says that the client
  does not reconnect when the server closes after refusing its token. `handleAuthError`
  asks for the suppression of that close, but the provider's callback connects again
  at once, and `connect()` clears the flag. The close of the rejected socket then schedules
  another connection beside the one that is under way; every event is handled
  twice, and `disconnect()` knows of one socket only. `OneSocketUntilRetry` says that
  this is the only way to a second socket.
* A daemon that is starting misses new packages. `SELF_HOSTING.md:1910` says that the
  daemon restarts by itself after a package was installed. The pending restart is
  dropped when the daemon does not report running, although one that is about to
  run, or is starting, took its environment before. `PackagesRemembered` says that this
  is the only way to lose it.
* A logout can be overtaken by the login before it. `handleDaemonLogout` clears the
  token and stops the daemon, "which also hardens state" (`App.tsx:296`). A `syncToken`
  that waits for the server at that time writes the token afterwards and `autoStart`
  starts a daemon: it runs with nobody logged in. If somebody else logged in meanwhile,
  the late `syncToken` records its own user over theirs and leaves their daemon
  running, since whether the user changed was decided before the wait.
* A removal does not see an automatic start. `stopDaemonForRemoval` refuses while the
  application may be starting the daemon, as its message says and
  `daemon-stop-for-removal.test.ts:91` checks for the button. The start of a login does not
  hold the guard, so the files are deleted under the daemon that comes up.
* A recovery retry that was promoted when its runtime came back stays queued for
  ever if the runtime then disappears for good, although `SELF_HOSTING.md:890`
  gives the tasks of an offline runtime the reconnect grace: `ExpireStaleQueuedTasks`
  exempts recovery retries and `FailExpiredRuntimeReconnectRetries` looks at deferred
  rows only.
* A promoted fallback can be claimed between the two statements of `StartTask`, although
  `comment_trigger_preview_test.go:748` says that it is cancelled before; `Escalation`
  shows what holds once `StartTask` has returned.

## Not modelled

* Leader lock, retention, export, upload collection: idempotent deletions by age under
  an advisory lock that the database keeps.
* Channel engine: its order of steps depends on the Slack API, of which the repository
  has mocks only.
* Liveness store and batched heartbeats: they delay what `Heartbeat` and
  `RuntimeSilent` of `TaskQueue` already do at any time.
* Rows of chats that wait for the media of a channel message (`chat.sql:174-250`): they
  are deferred within the transaction that inserts them, and promoted when it is there or
  their `fire_at` has come.
* Deletions: rows that retention drops, or that go with their issue or agent, the runtime that a take-over has emptied, and
  whatever a concurrent request enqueued on it in between, which goes with it.
* Comment coalescing and delivery receipts: bookkeeping on rows whose life the queue
  model has; the text of comments plays no part in it.
* Authentication, attribution, analytics, audit, catalogs, API client, schemas: rules
  within one request.
* Daemon manager: foreign daemons, the bootstrap of the command line tool and its version
  restart, the probe of an expired token and `reauthenticate`, which clears, syncs and
  restarts in one call.
* Workspaces on disk: files of one machine, except for those of packages. Of packages:
  a directory that the end of the application leaves half deleted, and directories that
  cannot be read or pruned. A link that a removal cut short has left goes with the next
  removal of a version of that runtime, or is replaced by the next installation; until
  then `resolveProvisionedRuntimeDir` takes the runtime for absent.
* Views of the clients, and stores that repeat the optimistic edit of the issue queries.

## Order of the modules, and what is open

The queue came first, with its abstract lifecycle; then the cache that hides queued
rows and the scheduler that creates them; then the connection that carries events to
the clients, the queries that the events keep up to date, the packages the
daemon runs on, and the manager that starts and stops it. `WSClient` and `IssueCache` meet at the reconnect: `OutageHealed`
promises the invalidation that `Hear` performs. Worth doing next: list membership and
counts in `IssueCache`; comment delivery.
