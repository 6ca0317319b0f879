# k8s-ai: models, checks and proofs

TLA+ models of the parts of k8s-ai whose correctness depends on the order in
which several actors act, the TLC runs that check them on small instances, and
theorems proved with TLAPS for every size. Everything is translated from the Go
code under `src/`; paths below are relative to `src/`, and Go paths to
`src/internal/`. `PROJECT.json` maps every definition to the lines it models.

The system and what is hard about it (1), the models (2, 3 and 5), what the code
does not keep (4), the runs (6), the proofs (7), what is not modelled (8) and
what could come next (9).

## 1. The system

k8s-ai is one Go binary. `k8s-ai server` serves an HTTP API (scans, reports,
chat sessions, users) and the web interface; `k8s-ai chat` and `k8s-ai scan` are
the same services on a terminal; `k8s-ai blobs ...` are operator tools that run
as processes of their own beside the server. All share one platform database
(SQLite or MySQL) and one object storage backend (`db`, `dir` or `s3`).

| Component | State | Operations | What is hard |
|---|---|---|---|
| Object registry, `store/objects.go`, `store/tx.go`, `store/objectcontent.go` | `objects` rows: state, `ref_count`, `deleted_at`, driver; on db the payload too | register, acquire, release, mark missing, claim, forget, adopt | every statement is its own step unless `WithTx` groups it; five kinds of actors write the rows |
| Storage backends, `objectstore/` | content by key; the dir backend's root lock | Put, Get, Stat, Delete, List, Ensure, Close | content and rows are two stores that no transaction spans |
| Blob gateway, `service/blobs.go` | ready flag, last error, single flight of the readiness check | EnsureReady, guard, markNotReady, calls passed on | checks overlapping marks; retry throttle |
| Report platform, `service/report_archive.go`, `service/reports.go` | `reports` rows | archive, delete, clean up, download, list | check outside the transaction; content put before the citation |
| Blob tools, `service/blobgc.go`, `blobverify.go`, `blobmigrate.go`, `cli/blobs_cmd.go` | progress of one run | gc, verify, migrate, put, get, stat | lists read earlier; crash at any point; beside a serving server |
| Session API, `sessionapi/server.go` | maps `pending` (respond channel) and `runs` (cancel function) per session, broadcasters | create, send, approve, cancel, rename, pin, delete, stream | handlers release the mutex between their steps |
| Chat service, `service/chat.go` | a copy of the session held for a whole turn | Chat, runChat, confirm, persist, rename, pin | minutes pass between read and whole-row write |
| Stores of sessions, turns, steps, `session/`, `store/sqlite.go`, `store/agentsession.go` | session document, turn and step rows | create, get, update, delete | update replaces the row; inserts do not ask for the session |
| Agent loop and approvals, `agent/loop.go`, `approval/` | turn, step, session approvals, grants, declines, failed calls | ask the LLM, batch or single approval, execute | memory of consent in several places, keyed in several ways |
| Scan jobs, `server/scans.go`, `scan_cancel.go`, `scan_progress.go` | current job, its stages, the running flag, its cancel function | start, progress callback, cancel, finish | cancel, callback and end of job race |
| Inspection, `service/service.go`, `scanner/`, `rule/`, `incident/`, `deterministic/`, `report/` | the snapshot, findings, incidents and report of one scan | list, evaluate, fetch logs, group, diagnose, conclude | a cluster that changes between lists; lists that fail; a deadline; findings that stand for others |
| Scan and diagnosis, `service/service.go`, `diagnosis/` | the account of one scan's LLM calls | fan out, ask, validate, fill, merge | one goroutine per incident, a deadline, two lines of findings |
| Create proposals, `tools/proposal.go`, `tools/create.go` | proposals by id, their expiry | dry run stores one, apply consumes it | prompt, expiry, policy and cluster change in between |
| Schema migration, bootstrap, `store/migrate.go`, `auth/service.go`, `cli/server.go` | `schema_migrations`, the schema, roles, the first administrator | migrate, bootstrap, reconcile, serve | several processes, MySQL commits every statement, deaths |
| Settings, `settings/`, `service/service.go` | rows by key, the environment's overrides | save a group, show a group, load a configuration | batches key by key against reads group by group |
| Legacy import, `service/migrate.go` | markers, imported rows | import, again after a failure | what a marker says of what was lost |
| Users and logins, `auth/`, `permission/`, `server/users.go` | users, tokens of the process | login, gate, create, update, delete | whole-row writes after slow reads; gate before handler |
| Grants, `authz/` | grants | make, change, revoke, gather a scope | two reads for one scope; the end of a grant |
| Skills, clusters, audit, LLM client, SSE, rendering, executor, CLI, web | see `PROJECT.json` | | |

How they interact:

- The archive of a scan puts the content into the backend, then inserts the
  report row and acquires the object in one transaction. A delete looks the row
  up, asks the object row whether there is a reference, then deletes and
  releases in one transaction. A download that finds no content marks the row.
- GC lists expired rows, claims each with a compare-and-set, forgets the row,
  deletes the content; afterwards it compares a listing of the backend with a
  listing of the registry and deletes content without a row. Verify does the
  opposite comparison. Migrate moves content and flips the row's driver.
  Over `dir` a non-waiting lock on the root keeps these away from the server;
  over `db` and `s3` nothing does.
- A message to a session registers a run under the server's mutex and starts a
  goroutine that reads the session, drives the agent, asks for approvals through
  a channel of capacity one, and writes the whole session back at the end.
  Cancel, delete, approve, rename and create are other requests that meet it
  halfway.

What makes the modelled components correct, in short: counts equal citations;
nothing cited is collected and nothing uncited stays for ever; content is there
or reported lost; one run per session, never left registered; a delete is final;
a turn is never lost; a write happens only on its own approval. `PROJECT.json`
lists the hazards behind these at the lines where they bite.

## 2. The object subsystem

    CitedObjects            what the registry promises (abstract)
        ^ ImplementsPromise (refinement)
    BlobSystem              one server and the tools over one database
        EXTENDS ReportPlatform  archive, delete, download, start and stop
                BlobGC          blobs gc
                BlobVerify      blobs verify
                BlobMigrate     blobs migrate, blobs put
                    EXTEND ObjectRegistry   rows, report rows, content, lock, clock
    MCBlobSystem            instances for TLC

### State and actions

| Variable | In the code |
|---|---|
| `rows[k]` | the `objects` row of key `k`: `state`, `ref_count`, `deleted_at`, `driver`; state `"absent"` when there is no row |
| `reports[k]` | the ids of the report rows whose `blob_key` is `k`; `issued`: ids drawn so far (`newReportID` is random, so never drawn twice) |
| `content[d]` | the keys whose content backend `d` holds; for `db` it is `objects.payload` and lives and dies with the row |
| `driver` | `platform.blobs.driver` of the server and the tools |
| `lock` | holder of the dir backend's `flock`ed root |
| `inflight`, `deletes`, `downloads` | requests between two of their steps |
| `gc`, `verify`, `migrate`, `putting` | the local variables of one run of each tool |

A step is one SQL statement, one `WithTx` transaction or one backend call, so
everything may come between two of them. `ArchivePut`/`ArchiveCommit`/`ArchiveAbort`
are `ReportArchiveWriter.Archive`; `DeleteLookup`/`DeleteProbe`/`DeleteCommit`/
`DeleteGiveUp` are `ReportPlatform.Delete`; `DownloadResolve`/`Get`/`Mark` are
`OpenContent`. `GCStart` ... `GCFinish` follow `BlobGC.Run`, `GCFail` is its
every error return and the death of the process, at any point. The Verify and
Migrate actions follow `BlobVerifier.Run` and `moveOne`. `ServerStop` is a crash
as well as a shutdown: requests in flight vanish with what they have done so far.

Simplifications, and why they are safe for the properties checked:

- A key is a content address (its sha256), so one key is one content. Size or
  hash mismatches, and the deep verify that looks for them, have nothing to find.
- `Put` is one step. On `s3` it is a Stat and a PUT, on `db` a lookup and an
  UPDATE or INSERT; the step between "is it there" and "it is there" only adds
  more orders in which the same two outcomes occur.
- A transaction is one step: SQLite has one connection, and on MySQL the
  rows a transaction writes are locked until it commits, each by a conditional
  UPDATE or a unique INSERT that decides by itself.
- The dry runs of the tools write nothing. `--older-than` replaces the grace
  period, which the theorems take as an arbitrary positive constant. Listings
  are sets: no order of rows is relied on.
- `blobs stat` and `blobs get` only read.
- The clock is a counter, and `Tick` may happen at any time.

### Properties

| Property | Meaning |
|---|---|
| `RefCountMatches` | `ref_count` is the number of report rows that cite the key |
| `SkippedReleaseIsGone` | a delete that decided, outside the transaction, that there is nothing to release is right about it when the transaction runs |
| `ClaimedIsExpired` | a row in state `deleting` is uncited and was released more than a grace period ago |
| `ImplementsPromise` | the registry refines `CitedObjects`: only an uncited key is claimed, a claimed key cannot be cited, only a claimed key is dropped |
| `DirExclusive` | while a tool holds the dir root no archive or download of the server is halfway |
| `NoDangling` | the content of a cited key is in the backend its row names, or the row says `missing` |
| `OrphanIsCollected`, `StrayContentIsSwept`, `LossIsReported` | an expired orphan is claimed or cited again; content without a row goes or gets a row; lost content of a cited object is marked |
| `MissingIsReal`, `ClaimedIsForgotten`, `UncitedIsCollectable` | not kept; see section 4 |

`SkippedReleaseIsGone` and `ClaimedIsExpired` are conjuncts of the inductive
invariant and proved (section 7); the runs check what follows from them.

`CitedObjects` is short on purpose: it says nothing of counts, dates, states or
backends, so the refinement shows that the counts and dates are enough.

## 3. The chat subsystem

    SessionRuns     handlers, runs, the approval channel
        EXTENDS SessionRows     the session's row, its turn and step rows, renames

Sessions share nothing but code, so one session id is modelled, which may be
deleted and created again (`handleCreateSession` accepts an id) up to `Lives`
times.

| Variable | In the code |
|---|---|
| `row` | the session's row: name and conversation (`talks`: the messages whose turn it holds); `gone` when there is none |
| `trace` | the sends that have turn or step rows |
| `edit[e]` | a rename between its read and its write; pin is the same function on another field |
| `slot` | the run whose entries are in `pending[id]` and `runs[id]`, which are set and deleted together under `s.mu` |
| `deleting` | delete requests that have removed the rows and not yet the entries |
| `run[r]` | a message: where it is, whether its context is done, its respond channel (`box`), prompts raised, writes executed, its copy of the row |
| `post[a]` | an approve request: the prompt its user saw, the choice, the run whose channel it got |

`SendOwned`, `SendRefused`, `Admit` are `handleSendMessage` up to the
registration; `ChatOpened`/`ChatFailed` are `Chat`; `TurnStart`, `Ask`,
`TakeAnswer`, `GiveUp`, `Finish` are the loop as far as it touches the context,
the channel and the trace; `SaveTurn`/`SaveFailed` are `persistTurnSession`;
`Unwind` is the end of the handler's goroutine. `DeleteRow` then `DeleteRuns`
are `handleDeleteSession`, two steps because the rows go before the mutex is
taken. `PostOwned`, `PostLookup`, `PostSend` are `handleApprove`, whose send
happens after the unlock. `Expire` is `agent.timeout`.

Cancel is one step although the handler calls the function after the unlock: the
function is bound to the run it was read for, and calling it late has the effect
of `Expire`, which may happen at any time. `ClearSession` is left out: only the
terminal chat calls it, with nothing beside it. Event broadcasting is left out;
it drops messages for slow readers by design, and no decision reads it.

| Property | Meaning |
|---|---|
| `SlotIsHeld` | a registration always belongs to a run that will remove it |
| `OneRunAtATime` | two runs never hold the session's row together, while the id has not been taken again |
| `DeletedRunIsStopped` | when a delete is over, what still runs in the session has been cancelled |
| `TurnsAreKept` | no write takes away the turn of another message, as long as nobody renames |
| `DeletedStaysDeleted` | late writes do not bring a deleted session back (proved, section 7) |
| `RunEnds` | every admitted message ends and frees the session, answered or not |
| `WriteWasApproved`, `OnlyEditsRename`, `DeleteLeavesNothing` | not kept; see section 4 |

The two qualifications are real. After a delete and a second creation of an id
the old run's goroutine removes the entries of the id, that is, those of a new
run, and a third message is admitted beside it. And a rename that overlaps the
end of a turn may write back the row without that turn.

## 4. What the code does not keep

Some statements that a document, a comment or common sense makes of the program
are false of it. They stay in the modules as definitions, with the remark "The
code does not keep this"; each fails on an instance that is quickly set up.

| Statement | What happens | Instance |
|---|---|---|
| `WriteWasApproved` | a second answer to an answered prompt stays in the channel and approves the next one | `chat_session` with 1 send, 2 approves, 2 prompts |
| `NoDangling` over s3 | an archive finds its content present, gc deletes it (sweep, or delete after forget), the archive commits a citation of content that is gone | `blob_collect` on `s3` alone, downloads off, `Spec` |
| `UncitedIsCollectable` | a row marked missing and then released to zero gets no `deleted_at` and is never listed by gc; so does, on db, the row of an archive whose transaction failed | s3, `Active` with verify |
| `ClaimedIsForgotten` | a gc killed between claim and forget leaves a `deleting` row that no later run takes up; its content cannot be archived again | s3, one writer, under `CollectSpec` |
| `MissingIsReal` | a row migrated between verify's listing and its mark is marked missing though its content is on the target | s3 to dir, verify beside migrate |
| `OnlyEditsRename` | the write at the end of a turn takes back a rename stored during the turn | `chat_session` with one send, one edit |
| `DeleteLeavesNothing` | a run inserts steps between the delete's transaction and its cancellation, and nothing removes them | `chat_session` with one send alone |
| `ConfirmedIsNeverLowered` | an accepted answer without evidence lowers a cause the program itself confirmed | `scan_jobs` |
| `GoneCallerIsNoOutage` | a client that leaves during the readiness check makes the gateway report an outage | `scan_archive` with another request for the prober |
| `BlockedAfterTwoNoes` | one batch declined counts once for every call in it: two calls of one operation in one prompt block it after one no | `agent_turn` |
| `ResultsFollowCalls` | after the switch to written-out calls the next turn is sent results of native calls without the calls | `agent_turn` |
| `DeniedIsNotCreated` | a proposal is submitted although the policy, changed since its dry run, forbids its kind | `create_channel` |
| `ShownIsLoaded` | a key that is not set is shown with the catalogue's default (`settings/service.go:550`, `hasValue` false) and loaded from `config.yaml`, which may say something else | `config_import` |
| `CipherlessSavesNothing` | a batch with a sensitive key and no cipher saves the keys before it in the order of names | `config_import` |
| `DeletedIsFinal` | an import repeated because a session file does not parse, or with `--force`, brings sessions back that users have deleted | `config_import` |
| `TargetIsMissing` | an autoscaler of an existing object of a kind that is not listed, such as a Rollout, is reported as pointing at a target that does not exist (`rule/hpa_scale_target_missing.go:26`, against the comment at :12) | `inspection` with `Worlds <- RolloutWorlds` |

Met while reading, beside these:

- `reports.available` is never set to false, though 15-方案 :598 and
  `store/migrate.go:412` say that verify maintains it.
- The replay of buffered events on reconnecting to a running turn cannot happen:
  `handleStream` asks for a stored state that is only written at the end of a
  turn (`sessionapi/server.go:508`; 03-API接口文档 :410 promises it).
- Turn and step rows of a cancelled or timed-out turn stay `running`, because
  they are updated on the dead context (`agent/loop.go:46-51`).
- A key of high risk gets a session approval through a batch's do-not-ask-again,
  though `approval/grant.go:11-13` says that high risk always needs an approver;
  a grant without a name, given later, runs a blocked operation;
  `RemoveGrantMatching` and the removal in `AddDeclined` find nothing to remove,
  because nothing remembered speaks for a call that had to be asked about; an
  `autoApprove` answers yes without a user (`chat.go:947`); a round that ends
  early leaves its later native calls unanswered.
- A create's look at existing objects races the apply after it (and never sees
  Secrets); an apply whose reply is lost is reported as "所有对象都未创建成功".
- A bootstrap cut short among its roles makes every later first start fail,
  though the comments say "方法可重复执行" (`HalfBootstrapped` names that state).
  The mirror columns of V7 are filled once while an old server may still be
  saving rows without them.
- `KindDuration` ignores its minimum: `agent_timeout` "0s" is saved, then refused
  by `config.Validate` at every chat (`settings/catalog.go:57`). A failed batch
  leaves the changes it made without their audit record. A load reads group by
  group and may mix two saves.
- The audit file of an import that stops within it is imported from its first
  line again; one that cannot be opened or holds a line too long is marked as
  imported, and its report is lost if a later source fails. Each import run
  overwrites settings saved by pages since.
- A user who is granted a namespace throughout may be given a scope without it:
  of two grants of it, one to his name and one to his id, the first may go and
  the second come between the list by id and the list by name, against "合并用户
  当前有效的 namespace grants" (`authz/service.go:126`). `ScopeIsGranted` is
  therefore about what one grant gave throughout.
- Whole-row writes of users lose updates: a late password change takes back a
  demotion or a disabling. The first administrator is protected only under the
  name `admin` (`AdministratorIsNamed`): under another `platform.auth.admin_username`
  (`auth/service.go:184`) two administrators may demote each other. API tokens are stored and listed but no request is authenticated
  by one. The verb `destroy` is granted for all a user's namespaces at once. A
  user created again under an old name inherits the grants to that name.
- Inspection. A node with `NodePIDPressure` alone takes its pods' findings out of
  the level as correlated, and is itself taken out as a member of their incident,
  for `pickRootByDomain` does not know the rule: the report says "healthy",
  against "故障链的根因必须计入" (`report/inspection.go:88`).
- A report of which a list failed may still say "healthy" if the list is not of a
  critical kind, though `service/service.go:183` says "采集不完整时不允许报「集群健康」".
  A failed list of services, configuration, classes or scale targets makes rules
  fire and diagnosers confirm that things do not exist (only the RBAC rule asks
  whether its lists failed); the report does name the list.
- With no namespace known, `list_events` is never called and counts as a call
  that succeeded; the comment at `scanner/quality.go:128` says it counts as failed.
- A deadline that passes between two rules, with no logs to fetch, leaves a
  report of the rules that ran, without marks and without saying so.
- `ConfigRefNotFound` and `StorageClassNoProvisioner` are suggestions but may
  become roots, so the level speaks of no fault while their members, which are
  faults, are left out. `PVCPending` as a root hides a critical `NodeNotReady`.
- Pods on one node share a key of the grouping and are two edges apart: one pod's
  `OOMKilled` may be drawn as the cause of another's `CrashLoopBackOff`.
- `causalCauses` has entries for HPA, PDB and volume attachments that never
  apply, for no grouping key joins them to a pod; `resKey` drops the kind of a
  namespaced resource; the edge from a volume to its claim may point at the root.
- References to owners, claims and configuration are edges of the relation graph
  whether or not their target was collected, against the comment of
  `relations/build.go`. The DaemonSet diagnoser never counts a node as not ready.
- A score of 100 cannot be had by a cluster without faults: with no log target,
  logs count as skipped, and the cap is 99.
- Skills: two changes of one skill at a time may publish the older one last;
  `RecordHit` and `SetValidation` write the whole record they read and so undo a
  disabling in between; `SeedBuiltins` enables the built-in ones at each start.

## 5. The other models

### One turn of the agent: `AgentTurn`

A session's turns never overlap (`SlotIsHeld`, `OneRunAtATime`), so one turn at
a time is modelled, and what a session remembers between them.

| Variable | In the code |
|---|---|
| `pc`, `turn`, `round` | the locals of `Agent.Chat` and of one iteration: rounds and calls used, failed calls, whether calls are native, the context; the round's calls, the ones a batch prompt named, passed and barred |
| `mem`, `saved` | the session object: approvals, grants, declines, results; and its stored row, which a crash or a failed save leaves as it was |
| `row`, `open` | the stored status of the turn and its open steps |
| `told` | what the user has answered, as the user knows it |

A call is reduced to what decides about it: a normalized key, what a grant names,
its risk, whether it is shell text, read-only, within scope. `ModelCalls` takes
one answer of the model with its batch prompt; `AgreeToAll`, `RefuseAll`,
`AskUser`, `Agree`, `Refuse` are the answers, with or without do-not-ask-again;
`Executed` is a call's end, with the fuse for one that failed before; `Ends`,
`SaveSession`, `Crash` are the ways a turn is over. Left out: texts, compression,
the extraction of written-out calls. The ids of the calls of a round are taken
to be distinct, by which the code keys the answers of a batch.

| Property | Meaning |
|---|---|
| `WritesAreConsented` | what changes something runs only under the user's word, given in the round or for good and not taken back |
| `NeverAskedThrice` | no prompt, single or batch, names an operation refused in two prompts |
| `RefusalEndsTheRound` | after a no, or a failed write, nothing more of the round is asked or run |
| `EndedTurnIsRecorded` | a turn that ends while its context is alive leaves its row final and no step open |
| `TurnEnds` | every turn ends, whatever the model asks for and though no user answers |

### The creation of resources: `CreateChannel`

A dry run stores a proposal; a later call resolves it by id, by manifest or both,
asks the user, asks for the values of Secrets, and submits object by object. The
clock, other people's changes of the cluster, further dry runs and a change of
the policy between turns come between any two steps. A call may be applied
without a card (`ApplyUnasked`): under a grant, approved before, or where the
deployment asks for nothing; the prompt for Secret values comes all the same.
Fingerprints are taken to be free of collisions; the parser and the checks of a
manifest are its outcome.

| Property | Meaning |
|---|---|
| `AppliedWasRehearsed` | what is submitted passed one dry run, all its documents together, less than `TTL` before it was resolved |
| `AgreedIsSubmitted` | it is what the prompt showed, although the proposal may have expired or been pushed out meanwhile |
| `NoValueIsMissing` | no batch stops half-way for want of a Secret's value (proved, section 7) |
| `StoreIsRecent` | the store holds the latest dry runs that passed, up to its limit, and nothing that expired before the last of them |

### Scans: `ScanJobs`, `IncidentDiagnosis`

`IncidentDiagnosis` is the fan-out of the incidents, at most `MaxConcurrent`
calls at a time, the second call after a useless answer, the account, the
deadline, and the merge of both lines of conclusions. `ScanJobs` extends it with
the handlers, the pipeline of thirteen stages, its snapshots, and the ends of a
job in the critical sections they have (`JobEnds`, `JobNotes`, `JobClears`).
`CancelScan` and `StopContext` are the cancel up to its unlock and the call after
it. A stage of one goroutine is one step; a snapshot read outside the lock
(`scanJobSnapshot`) changes nothing and is left out.

| Property | Meaning |
|---|---|
| `OneScanAtATime` | the running flag is set exactly while a job is in the cluster, and there is one |
| `NothingRunsForEver` | a job that is over shows no stage as running |
| `DiagnosisIsAccounted` | the counts of calls, successes and degraded incidents add up when the stage is over |
| `ReportIsHonest` | a cause is called confirmed only if the program confirmed it and evidence is cited; one the program confirmed on evidence is lowered only by an accepted answer |
| `EveryJobEnds` | every job ends |

### The gateway and the archive of a scan: `BlobGateway`, `ScanArchive`

`BlobGateway` is `EnsureReady` with its single flight and retry window, and the
marks of requests that met a broken backend. `ScanArchive` composes it with
`ScanJobs`: the archive stage of a scan is a request to the gateway with the
scan's context, beside other requests whose clients may leave. That it refines
`ScanJobs` is proved. Checked: `ReadyAgain`, a backend that stays up makes the
gateway ready in the end; `OutageIsNoticed`, one that stays down is noticed.

### The start of the platform: `SchemaMigration`, `PlatformStart`

Every version is its list of statements, with what each dialect commits,
tolerates and refuses; several servers and upgrade Jobs run them, die at any
statement and are started again. After it a server bootstraps the administrator
or reconciles the roles with this release's. Statements of one kind that follow
one another are one statement: running them again after some is running that one
again. Checked: `ReadyIsWhole`, the highest recorded version speaks for all;
`ServingIsComplete`, a server that listens has the schema, the roles and an
administrator; `ServerServes`, every server serves in the end unless a first
bootstrap was cut short (section 4).

### Settings and the legacy import: `Settings`, `LegacyImport`

Rows by key, the environment's seed tier (which the page outranks) and secret
tier (which outranks the page), batches saved key by key in the order of names,
loads made group by group. `LegacyImport` extends it with the run of `k8s-ai
migrate`: configuration, sessions, audit files line by line, skills, and the
markers that later runs go by. A value is known by the hand that set it. What a
page shows of a key (`GetGroup`, `Shown`) is whether it is set and its value, the
catalogue's default for want of a row; it never shows what `config.yaml` says, so
a load agrees with the page about the keys that are set and no others
(`ShownIsLoaded` does not hold, section 4). `Sourced` are the keys that have a
place in `config.yaml`; the rows of the others are shown but not loaded. The
import passes over those, over the default and over a value that no rule accepts.

| Property | Meaning |
|---|---|
| `SetIsLoaded` | a configuration loaded takes each key that has a place in it from what a page showed as set at a moment of the load, a row or a variable; where at such a moment it was shown as not set, from `config.yaml` |
| `CompletedIsWhole` | the marker of the sessions is only set when nothing that can be read is missing |
| `AuditOnce` | no audit line is twice in the store unless a run was cut short in its file |
| `DeletedStaysGone` | after a run without loss, a deleted session stays deleted unless the operator forces the import |

### One inspection of a cluster: `Inspection` and below

    Inspection      scanService.Run: the stages, the lists, the account, the level
        EXTENDS Diagnosers  deterministic/: twenty-four diagnosers and their engine
            EXTENDS Incidents   incident/: groups, roots, causal trees
                EXTENDS Rules       rule/: thirty-five rules and their engine
                    EXTENDS Snapshot    scanner/normalize.go, correlation/, relations/
    MCInspection    a healthy cluster, forty-five faults, and the worlds made of them

| Variable | In the code |
|---|---|
| `world`, `now` | the cluster: the states it goes through and where it is; which operations may fail, whether the deadline may pass, the options `CollectLogs` and `CollectEvents` |
| `ctx`, `pc`, `todo` | the context, the stage of `Run`, and the lists or pods still to be asked for |
| `snap` | `ClusterSnapshot`: objects by resource, events, pods with logs, collection errors |
| `findings`, `targets`, `incidents`, `report` | the results of the stages |

`Connect`, `ListNamespaces`, `List(op)`, `Evaluate`, `Logs(p)`, `DiagnoseAll` and
`Conclude` are the stages in their order; `GiveUp` is the error of a context that
is done. `ListNamespaces` and each `List` take the objects of one kind as the
cluster is at that moment, or record a failure; `ClusterChanges` and `Deadline`
come between any two of them. What follows the lists is a function of the
snapshot, written as one: each rule an operator that yields its set of findings,
each diagnoser one that yields a status, a confidence, its evidence and its
causal edges. An object has the attributes that some rule, index or diagnoser
reads; a message is the class that `strings.Contains` puts it in, a log whether
it says that a name was not resolved; ages are whole minutes. Titles, texts,
commands, roles and the list of impacts are left out. Findings are a set; where
the code takes the first of a slice the order is that of the rules, then of the
names. One ordinary namespace and scans of the whole cluster are modelled; scans
of one namespace or one pod filter what is here. What
the model adds to a conclusion is in `IncidentDiagnosis`.

| Property | Meaning |
|---|---|
| `AbsenceIsAccounted` | what a finding or a diagnosis says does not exist was missing at a moment of the inspection, or the report names its group among those not collected |
| `HealthyIsEarned` | a report that says "healthy", with nothing missing and all rules run, is of a cluster on which no rule holds |
| `TreeIsSound` | the causal edges of an incident join its own findings, give each at most one cause and run in no circle, after every diagnoser has added its own |
| `RootIsUnexplained` | no finding of an incident is a possible cause of its root |

`HealthyIsEarned` leaves out one case that the code gets wrong: a node that lacks
process ids and nothing else (section 4). `AbsenceIsAccounted` is about the kinds
that the inspection lists; `TargetIsMissing` shows that of other kinds it is
false, for no list that could fail stands behind them.

What the Kubernetes API guarantees of a cluster is `ClusterTyped`, which
`WorldsAssumption` asks of every state of every world: finitely many objects, the
namespace, and that a reference which the API types (a pod's node, claim,
ConfigMaps and Secrets, a claim's volume and class, an ingress' services) names
that kind. An owner and the target of an autoscaler may be of any kind.

### Accounts and access: `Accounts`, `Access`

Users, logins and the gate of the API; grants and the scope gathered from them.
A user has one user name for good. Reads and writes of a row are separate steps
of requests that overlap.

| Property | Meaning |
|---|---|
| `AdminRemains` | there is always an active user of the role admin, however updates overlap, if the first one is named `admin` |
| `ActsWithAuthority` | a request past the gate was, at a moment since it began, made with a live login of a role that may make it |
| `ScopeIsGranted` | a scope holds what any one grant gave throughout and nothing that no grant gave while it was gathered |

`sure` and `maybe` are histories for `ScopeIsGranted`: per request and grant what
the grant gave from the gate on, and per request what any grant gave at a moment
of it. The id of a grant is a fresh uuid; `issued` keeps the model from giving
one out twice.

## 6. The runs

| Run | Question | Instance | Distinct states |
|---|---|---|---|
| `blob_collect` | with no lock between them, do archives, a delete, a download, gc and put keep counts exact, and does gc claim only what it may? | s3 and db, 1 key, 2 reports, 2 writers | 140 075 |
| `blob_dir` | does the root lock keep the tools and the server from disturbing each other, and is content where rows say, through migrations between any two drivers? | all drivers and tools; gc, verify and put while the driver is dir | 222 996 |
| `blob_live` | is everything collected, swept and reported in the end, however often a tool is interrupted? | s3, 1 report, gc and verify, content loss | 16 800 |
| `chat_session` | do sends, an approval, a rename, cancel, delete and a second creation keep one run, lose no turn and end? | 2 sends, 1 approve, 1 rename, 2 lives, 1 prompt | 459 283 |
| `scan_jobs` | do creates, cancels, deadlines, snapshots and ends of jobs leave one job, an honest report and an end? | 2 scans, 2 incidents, 1 call at a time | 29 476 |
| `scan_archive` | does the gateway recover and notice outages with a scan and a health probe as its callers? | 1 scan, 1 prober, 2 outages, 1 client that leaves | 128 624 |
| `agent_turn` | is the user's word kept over turns, prompts, lost saves and crashes, and does every turn end? | 6 calls, 4 kinds of rounds, 2 turns | 389 974 |
| `create_channel` | is what is created what was rehearsed and agreed to? | 3 objects, 2 manifests, 3 dry runs | 657 778 |
| `platform_start` | is a database that is called ready whole, and a server that listens complete? | 2 servers, or 1 and a Job; versions 3, 6, 8; 2 deaths | 371 653 |
| `config_import` | do pages, loads and repeated imports agree on what is in force and what is done? | 4 keys (one without a place in `config.yaml`), 2 groups, 1 save, 1 load, 2 session files, 1 audit file, 3 runs, 2 faults | 694 166 |
| `access` | do overlapping requests of administrators keep one of them, and the gate and the scopes their meaning? | 2 users, 2 callers, 2 tokens, 2 grants, 3 requests | 810 795 |
| `inspection` | is a report true of the cluster it was made of, whatever was not listed, changed meanwhile or stands for something else? | 30 objects of all kinds; 45 faults alone, in pairs, in chosen threes and more; lists that fail, a changing cluster, a deadline | 126 898 |

Bounds. In `inspection` each fault is one thing that can be wrong with one object
of a well cluster of every kind; every pair of faults, the triples of those that
the causal table or a diagnoser links, and a dozen longer stories are inspected;
every one of the rules and diagnosers fires in some of them. (All triples of the
forty-five faults, half a million states, have been checked once.) Each fault is
inspected with each of eight lists failing, and some with several; in eight
worlds one fault gives way to another while the lists of five kinds are answered
in any order (the others in a fixed one, `MCMayAnswer`); the deadline may stop the rules
after 0, 1, 11 or 23 of them. One key is enough for the objects: the operations of the registry never
relate two keys, except through a tool's lists, whose elements are handled one by
one; the proofs cover any number. Two reports and two writers give the cases that
matter: a key cited twice, two archives of one content, a delete beside an
archive. `Grace` = 1 and `MaxTime` = 3 let a row expire strictly (released at 0,
cut off after 1), be cited and released anew, and expire again. In `blob_dir` gc,
verify and put run while the driver is dir only (`LockedTools`): beside a server
over s3 they break `NoDangling` (section 4). Writers and reports are
interchangeable (`MCSymmetry`), as are callers and grants in `access`; no run
with liveness uses a symmetry. In `access` requests that manage users or log in
come before the first grant (`Beside` in `MCAccess`): what they change is not
read by what gathers a scope, which goes by the row read at the gate. In the chat, two sends give a refused message, one
after another and one that meets a deleted predecessor; two lives give the reuse
of the id. Two scans give a job beside the end of a cancelled one; two incidents
under one call at a time give a queue; scans start in the order of their ids
(`InTurn`). Two turns of three calls give every order
of prompt, remembered answer, decline and block. Two proposals of three dry runs
give expiry and overflow; whether a Secret is there already is never read, and the
states that differ in that alone are one (`SecretsUnread`). In `platform_start` the versions 3, 6 and 8 leave
nothing, a few statements or all of them to do. In `config_import` a save, a load
and a fault do not run beside every step of the import but beside those that
touch what they touch (`Beside` in `MCLegacyImport`); there the file holds
defaults or other values, and values that no rule accepts only where nothing is
loaded; the key without a place in the file is saved by itself.

Deadlock is checked in the blob runs and `create_channel`: some part can always
start, go on or give up. It is off where all requests of an instance may be done, or the inspection is.

Fairness. Blob: the clock advances; gc and verify are run again and again (weak
fairness on their steps together); and while any run may be interrupted, not
every run is interrupted at the same point (strong fairness on the single steps).
A database or a backend that fails for ever would refute that, and would refute
the properties. Nothing is assumed of archives, deletes and downloads. Chat and
agent: goroutines are scheduled and `agent.timeout` expires (`config.go:553`
refuses one that is not positive); nobody has to answer, cancel or delete. Scans:
some goroutine of a job that can go on does (weak fairness on `JobStep` alone),
and calls take the job's context, which ends; nobody has to cancel. Gateway:
besides, the clock ticks and requests keep coming. Start: each server's next step
is taken, and Kubernetes starts again what has died.

Each property is known to be able to fail: `PROJECT.json` names, for each, an
operator next to the original that changes the code the way a plausible bug
would, and the run finds the property violated with it.

## 7. The proofs

Type correctness is proved in every proof module (`TypeCorrect`, `Typed`).

`BlobSystem_proofs`, from `RegistryAssumption` (finite report ids, known drivers,
positive grace), `PlatformAssumption` and `ActiveAssumption`: `Spec =>
[]Inductive`, and from it `RefCountCorrect`, `SkippedReleaseCorrect`,
`ClaimCorrect`. The counts alone are not inductive. A release may only be decided
on a count that equals the citations of a row that is there, so an absent row
must be a row of defaults; a commit adds one to the cardinality only if the id is
new, so ids are issued before use; the claim is right because the cutoff lies at
least a grace period back however long the run has lasted; and payload of the db
backend exists only under a row, which the migration's separate write step must
not break (`migrate.pc = "write" => migrate.to # "db"`).

In the same module, `RegistryImplementsPromise`: `Spec => Promise!Spec` under the
mapping `cites <- reports`, `held <-` keys with a row, `claimed <-` keys in state
`deleting`. A commit is a `Cite`, a claim a `Claim` because it happens at count 0
and counts are citations, a forget a `Drop`, a put on db or by hand a `Hold`; all
else stutters.

`DirExclusiveCorrect` adds to the invariant who holds the root lock of the dir
backend (`Locked`): a writer past its put, a download past the backend's answer
and a tool past its start each hold it in their mode. `NoDanglingCorrect` needs
more than the property says. That content is there wherever the row does not say
"missing" is not inductive, for an archive may find such a row and cite it again;
the invariant `Sound` says that the content of every row, whatever its state, is in
the backend it names, as is that of an archive on its way to its row (`Backed`),
that what gc deletes or sweeps has no row (`CollectsUnnamed`), and that a migration
past its copy has the content in the backend it is about to name, and prunes what
no row names any more (`MigratesCopied`). It is proved under two hypotheses,
both of which the code needs: that nothing destroys content behind the system's
back (`"loss" \notin Active`) and that gc, verify and put are used only while the
driver is dir (`[]LockedTools`); without the second the run of section 4 refutes
it. Migrations and changes of driver between any two drivers are not restricted.

`ScanArchive_proofs`: `OneAtATime`, `StagesEnd`, `FinalStays`, `Honest`. `Lifecycle`
ties the flag, the registered cancel, the status and the shown stages to the
place of the job's goroutine; `Founded` says what an answer and a conclusion may
be at each stage. `DiagnosisAccounted` rests on `Accounted`: the books equal the
cardinalities of the answers and of those that are not the model's (`Books`); a
goroutine that waits may make two more calls and one that has asked one more,
which bounds the calls by twice the incidents, and a call under way has not failed
yet (`CallsLeft`); a place is empty exactly when its goroutine left the queue, so
that filling the empty ones books each incident once (`AnsweredWhenDone`). The
composition with the gateway implements `ScanJobs` (`ArchiveImplementsJobs`), so
all of this holds of it; and `OneCheck`, one readiness check at a time whose flag
is always given back.

`AgentTurn_proofs`: `Consented`, `AskedTwice`, `Halts`, `Recorded`. What the
session remembers speaks for something the user said (`Agreed`, `Rooted`), which
survives a lost save because the stored memory is an older one; counts of
declines never run behind the prompts refused (`Counted`).

`CreateChannel_proofs`: `Rehearsed`, `Agreed`, `ValuesFirst`. Proposals are
rehearsals (`Stored`), their ids distinct, and a call, once resolved, holds its
documents and no longer depends on the store (`Fixed`). `StoreRecent` is a theorem
about numbers: ids grow with time, the live proposals are those of the latest
rehearsals (`Recent`), and a sweep that drops the oldest leaves the latest
`MaxPerSession` (lemmas `LaterIsLatest`, `OneMore`).

The same module holds the proofs of `SessionRuns`, the session in whose turns that
tool is called, from `RowsAssumption` and `RunsAssumption`: `RunsTyped`, the
inductive invariant `RunsSafe`, the corollaries `SlotHeld`, `OneRun`,
`DeletedStopped`, and the two action properties `TurnsKept` and `StaysDeleted`.
"One run at a time" needs more than the map: a delete empties the map under a run
that goes on. It is saved by the row being gone first (`OneDelete`), so that until
the map is emptied every active run is the registered one (`ActiveIsRegistered`),
and afterwards none can start. The action properties need what a copy may contain
(`CopiesAreLive`, `CopiesAreCurrent`).

`Access_proofs`, from `AccountsAssumption` and `AccessAssumption`.
`AdministratorRemains` has a hypothesis of its own, `AdministratorIsNamed`, which
holds of the default configuration and not of every one (section 4); for it the
rule about the name `admin` must also hold of what a request carries between its
read and its write of a row. `Authority` follows what
a request has seen past the gate. `ScopeGranted` needs what half a scope means
(`HalfGathered`): between the two lists it holds what the grants to the id gave
throughout. A grant that has given something throughout still gives it
(`Witnessed`), so the list by name finds it, and one that has lapsed since the
clock was read but still counts (`timely`) gave what it gives at a moment before.

`LegacyImport_proofs`, from `SettingsAssumption` and `LegacyAssumption`. Of the
import, `ImportSound`: a marker speaks for every file it covers, an audit line in
the store came with its file's, a run that has lost nothing says so; `Whole`,
`Once` and the action property `GoneStaysGone` follow. Of the loads, `LoadsSound`:
for each key with a place in `config.yaml` the value the load will give, from the
groups it has read and the variables that then count, is one the page showed as
set at some moment since it began, or the file's where it showed none as set;
saves and imports between two reads only add moments.

`PlatformStart_proofs`: `Whole_when_ready`, `Complete_when_serving`. The recorded
versions are a prefix, everything recorded has been executed, and a process's
place within a version says what it has seen executed since (`Standing`); roles
that a bootstrap or a reconciliation has passed stay as it left them (`Progress`).

`Inspection_proofs`, from `WorldsAssumption` and `CutsAssumption`:
`AbsenceAccounted`, `HealthyEarned`, `TreesAreSound`, `RootsUnexplained`, for
every cluster of the API's types, however it changes between the lists, whichever
lists fail, in every order of the answers and with the deadline at any point. The
invariant `Inspects` has three parts. `Collection`: every object in the snapshot
was in the cluster, as it is there, at some moment since the start (`Seen`); of
each list, once it is no longer to be made, either the failure is recorded or
everything of its kind that has been in the cluster throughout is in the snapshot
(`Answered`). `Stage`: from the evaluation on, the findings are those of rules
evaluated on this snapshot, before logs were attached (`Evaluation`); if the
context has lived, of all the rules, changed in nothing but marks and added
evidence (`Faithful`); the incidents are a function of findings and snapshot, the
report of all these. `Known` keeps the snapshot a snapshot and its errors those of
known operations. From it:

- Absence. Each of the three rules and every diagnoser that denies an object
  denies one that the snapshot does not hold (`Denies`, `EachFits`). If the object
  was in the cluster throughout, the list of its kind was not answered, hence
  failed, hence its group is among those the report names, for whatever else of
  the group succeeded.
- Health. The snapshot of a cluster that did not change, with no list failed, is
  the cluster (`SeenWhole`); so a rule that holds of it has its finding, the finding
  a group, and the group a root, which is a member of its incident that counts. It
  could only be left out as the victim of a node at fault. But such a node touches
  its pods (`NodeTouchesPod`), so its finding is in the same group, and then the
  root is of a node, a claim or a class, which are nobody's victims
  (`NodeTakesRoot`) - unless the rule is `NodePIDPressure`, which `DomainOrder`
  does not have, and which is why the property excepts it.
- Roots. The search takes `MaxCausalHops + 1` hops down the table of causes, which
  has longer chains than that. But it starts at the first rule of `DomainOrder`
  that the group has, so the rules before it are not there to be causes. For each
  part of that order a table of heights falls along every entry of the table of
  causes that is left (`Falls`), and the start has a height of at most three; each
  hop goes down by one at least or has nowhere to go (`Descent`, `RootSettles`).
- Trees. `GrowCausalTree` gives a finding a cause only once, and merging keeps one
  edge for each target (`MergeFact`), of those offered one that none is surer than
  (`MergeKeepsBest`, by the least place among the surest). That there is no circle does not follow from
  how the tree grows, for each diagnoser adds edges of its own; but all of them,
  those of the causal table and those drawn by diagnosers, go up one fixed order
  of the rules (`Order`, `EdgeFits`), which each of the twenty-four diagnosers is
  proved to respect (`DiagnosesFit`). Of any set of such edges one starts where
  none of them ends (`NoCircle`).

Induction over data cannot be stated with an operator as a parameter; in its place
stands the least counterexample: a set of numbers without a least element is empty
(`Smallest`, from `NatLessThanWellFounded` and `WFMin`), so a set of numbers that
holds 0 and with each its successor holds all (`Induct`). Union-find, the passes
of the causal tree and the hops to the root are recursive functions over numbers,
and are proved about in this way.

Only model-checked: the liveness properties, whose fairness is stated with
ENABLED, which the prover does not handle (`OrphanIsCollected`,
`StrayContentIsSwept`, `LossIsReported`, `RunEnds`, `EveryJobEnds`, `ReadyAgain`,
`OutageIsNoticed`, `TurnEnds`, `ServerServes`). Every invariant and every action
property of the runs is a theorem. `ImplementsPromise` is one as well; of the
gateway's composition the refinement of `ScanJobs` is proved for its safety part.

## 8. What is not modelled

`PROJECT.json` lists every component with its status and reason. In short:
functions without a history and without a say in what is concluded (rendering,
parsing, redaction) are better served by table tests; clients (LLM, Kubernetes,
web) are inputs. Within the modelled components: scans of one namespace or one pod, deep
verification,
event logs and broadcasters, tool assembly, the audit file, grants to one
cluster, two imports at a time.

## 9. What could come next

1. `NoDangling` with content losses, where a row says so in the end.
2. Skills (publication against storage) and clusters (create, inspect, delete).
3. A refinement of the chat to "one conversation, appended to", and of
   `SessionRuns`' `Ask` and `TakeAnswer` by `AgentTurn`.
4. `HealthyIsEarned` for a cluster that changes while it is listed: there the
   snapshot is of no single moment, and what the report is true of has to be said
   first.
