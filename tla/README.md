# Verification of bidlobot

TLA+ models of the bot in `src/`, the TLC runs that check them on small
instances, and theorems about them checked by TLAPS. Paths below are relative to
`src/internal/` unless they start with `src/`.

Contents: 1 the system, 2 the modules, 3 the runs, 4 bounds, 5 fairness,
6 proofs, 7 where code and documentation disagree, 8 what is not modelled,
9 the plan.

## 1. The system

bidlobot is one Go process beside one bbolt file. It long-polls Telegram for
updates, starts a goroutine for every update, and runs a number of background
goroutines (statistics flushers, captcha sweeper, cleanup and birthday
schedulers, collectors of expired entries). All state that outlives the process
is in the bbolt file; a bbolt read-write transaction is atomic and there is one
at a time. Everything the bot says goes through one client wrapper.

| Component | State it keeps | Operations | Talks to |
|---|---|---|---|
| Update loop and lifecycle `bot/app.go` | poll offset, update channel, contexts | poll, dispatch, start, stop | Telegram, every handler |
| Rate limiter `shared/ratelimit` | a bucket per chat with a bounded queue and a goroutine | Wait, Close, the worker, the reaper | called by the client |
| Retry ladder `shared/retry` | counters of one call | Do | called by the client |
| Telegram client `shared/tgclient` | none of its own | one wrapper per Bot API method | limiter, ladder, migration, admin cache |
| Chat migration `storage/migrate.go` | every bucket of the database | MigrateChatID | client, service messages |
| Admin cache `shared/admin` | who administers a chat, for 60 s | IsAdmin, invalidation | handlers, client |
| Message counters `domain/stats`, `storage/stats_repo.go` | two pending maps; lifetime and daily counts | Increment, Flush, Run, merged reads, FlushAtomic | handlers, scheduler, Stop |
| Monthly statistics `domain/monthstats`, `storage/monthstats_repo.go` | pending rows; rows, boundary and summaries by month | Add, Flush, the eager boundary, reports | handlers, scheduler |
| Captcha `domain/captcha`, `storage/captcha_repo.go` | challenges and an index by user | OnJoin, OnAnswer, Sweep | Telegram, scheduler |
| Membership `domain/membership`, `storage/membership_repo.go` | a record of each member's last acts and status | Record*, UpsertMember | handlers |
| Admission and owner's chats `bot/membership.go`, `bot/owner_chats.go` | attempts of strangers; a record of each chat | admit, leave, notify; list, verify, leave | the owner, Telegram |
| Inactive cleanup `domain/cleanup` | a lock per chat | preview, execute, kickOne | activity, Telegram |
| Grace-kick campaign `domain/gracekick` | campaign, deadlines, tagged members | Seed, Cancel, RunDaily | the cleanup's lock, scheduler |
| Deferred queue and reposts `bot/deferred.go`, `bot/repost_common.go` | queued jobs | enqueue, flush, collect, repost tail | Telegram, stores |
| Link reposters `bot/tiktok*.go`, `bot/instagram.go`, `bot/xpost.go` | slots, an index of posted videos | share, fetch, send, record | the repost tail |
| Summaries `bot/summarize.go`, `domain/summarize` | windows of messages, cache, slots, a rolling allowance | Record, TryAcquire, Complete, retry | Telegram, the model, the queue |
| Reputation `bot/rep_reaction.go`, `bot/reputation.go`, `storage/reputation_repo.go` | author index, balances, pending announcements | reaction, command, apply, announce | handlers |
| Referral catalogue `bot/referral.go`, `storage/referral_repo.go` | services, names, referrals; dialogues in memory | every button and reply | handlers |
| Birthdays `domain/birthday`, `storage/birthday_repo.go` | markers of who was greeted on which day | daily run, catch-up | scheduler |
| Games `games/*`, `bot/games_*.go` | rounds, boards, records, leaderboards; questions and battles in memory | commands, taps, reactions | handlers |
| Cooldown `bot/cooldown.go` | last run and last notice of each person and command | the gate | handlers |

What makes the behaviour hard:

* **Concurrency.** A goroutine per update, a goroutine per rate-limited chat,
  and schedulers, over shared maps and the database. Several handlers read,
  release a lock or finish a transaction, call Telegram, and write afterwards.
* **Failure.** A Bot API call can be refused, throttled, redirected, time out,
  or be carried out while its answer is lost. A transaction can fail. The
  process can be killed between any two steps and Telegram redelivers what was
  not acknowledged.
* **Ordering.** Shutdown has to settle handlers, flush and close in the right
  order; a migration must be in the database before a message goes to the new
  chat; a bucket must not be forgotten while its pause lasts; records of acts
  arrive in any order.
* **Time.** Idle timers, expiries and deadlines race with the work they guard.

What makes each modelled component correct:

* *Limiter*: no waiting caller is forgotten; a request is queued or held once
  and answered once; the pause of a bucket, and of a chat, is kept; every Wait
  and Close return.
* *Client and ladder*: "success" means Telegram did it; the number of attempts
  and of visible copies is bounded whatever fails; an upload starts from the
  beginning of its body; a replay after a migration finds the records moved.
* *Migration*: no link of a catalogue is lost and the merged one is whole; of the
  records only those are lost that another one of the old id is put over, however
  often redirects repeat it (the code overwrites; section 3 says exactly what).
* *Counters*: every message added is exactly once in memory or in the database
  until the process dies; lifetime and daily counts agree; a read counts
  nothing twice. *Months*: the total of a month is the sum of its authors',
  in every place and every report.
* *Lifecycle*: Telegram is told to forget an update only once a process owns
  it; shutdown closes the database after handlers and the last flush.
* *Captcha*: a newcomer who has not answered always has an open challenge or
  somebody at work on it; a kick is not a ban; the user index is never dangling.
* *Campaign and cleanup*: nobody is kicked without a public warning and the
  whole grace period, nor when an answer had been recorded in time; a stop stops.
* *Admission*: the bot stays only where its owner put it; the owner is not
  flooded; the record of a chat ends up true.
* *Reposts*: an original is deleted only when the chat has its copy; every link
  ends in a post, a note or the queue.
* *Summaries*: what the cache would give is made from the current window; a slot
  is held just as long as a command works.
* *Reputation*: every change of a balance is reported once, as it happened.
* *Referrals*: names, services and referrals refer to each other; a confirmed
  deletion removes what was shown.
* *Birthdays*: one greeting a year, and none lost without a failure.
* *Games*: one winner of a question, one end of a round, a board that can be
  played, votes of the window only, the best roll kept where handlers do not overlap.
* *Cooldown*: one run per window and one notice.
* *Admin cache*: an answer has every change in it that the bot had handled when it
  was asked.

`PROJECT.json` lists every hazard found, at its line, with the property that
covers it or the reason why none does.

## 2. The modules

    RateLimiter            shared/ratelimit                 RateLimiter_proofs
    Retry  <- TgClient     shared/retry, shared/tgclient    TgClient_proofs
    Ledger <= StatsBuffer  domain/stats + its store         StatsBuffer_proofs
        StatsBuffer <- Lifecycle    bot/app.go, cmd/bidlobot   StatsBuffer_proofs
    Captcha                domain/captcha + its store       Captcha_proofs
    Members <- Campaign    membership, cleanup, gracekick   Campaign_proofs
    Features               the fifteen of the second group  Records_proofs
      Quiz Guess Hangman Battle Dice                        Once_proofs
      Birthdays MonthStats                                  Once_proofs
      Admission, Cooldown, AdminCache <- Gates              Once_proofs
      Referral Reputation Rekey                             Records_proofs
      Repost Summaries                                      Records_proofs
    Sums_proofs            sums and extremes over finite sets

`<-` is EXTENDS, `<=` is refinement (`StatsBuffer` implements `Ledger` through
`INSTANCE Ledger WITH durable <- db, volatile <- Uncommitted`). `MC*` modules add
symmetry sets and constant functions for TLC. A definition named as a mutation
and placed before the one it imitates (`PopPeeks`, `EraseKeepsIndex`, ...) is a
plausible bug in that code; `PROJECT.json` says which property catches it. It
takes no part in any specification.

The second group shares nothing but the database file, whose transactions are
atomic, and the Telegram client. `Features` puts the fifteen side by side: it chooses
one at the start and runs it (`MCFeatures` gives the constants), so that one run checks them all without multiplying their
states. The names of a module's variables are distinct from the others' for that
reason.

Throughout, a step ends where another goroutine can get in: at a call of
Telegram or of a site, at a transaction, and where a lock is given back. A
handler is a place (`at`, `stage`, `phase`, ...) and what it carries from one
step to the next.

### RateLimiter

One action per critical section or `select` of `ratelimit.go`.

| Model | Code |
|---|---|
| `closed`, `bucketOf`, `reaping` | `Limiter.closed`, `Limiter.buckets`, the reaper goroutine |
| `queue`, `signal`, `chatOf`, `worker`, `hand` | fields of `chatBucket`; `worker = "none"` is `!workerRunning`, `hand` the popped request |
| `leaving` | a worker between `tryExitIfEmpty`, which released `b.mu`, and `deleteBucket` |
| `hold`, `quiet`, `idleFor` | `nextAllowedAt`, `lastSeenAt` and the idle timer as distances from now |
| `waiting`, `ready`, `canceled` | a caller in the `select` of `Wait`, the one-slot channel, the atomic flag |
| `WaitKnown`, `WaitNew`, `Return`, `CtxDone` | `Wait` up to the unlock (with `enqueueLocked`, `ensureWorkerLocked`, `getOrCreateLocked`), and its `select` |
| `Pop` ... `Grant`, `Stopped`, `DeleteBucket` | `run`, `popNext`, `tryExitIfEmpty`, `markStopped`, `deleteBucket` |
| `SweepIdle`, `ReaperStop`, `Close` | the reaper and `Close` with `shutdown` |

A time stamp is kept as a distance from now, saturating where nothing
can tell larger values apart, so time needs no bound. Requests and buckets are
pools: an object nobody refers to can be allocated again. That makes three
requests stand for any sequence of calls, three at a time.

### Retry and TgClient

`Retry` has the classification and budgets of `retry.Do` as operators; `TgClient`
has the calls in flight. One action per step a goroutine takes between two
points where others can act: slot, attempt, the wire, back-off, redirect.
Telegram is external: `Process` answers with success, refusal, 429, 5xx or a
redirect; `Unanswered` is a lost answer or a timeout, after which the request may
still be carried out; `Move` turns a group into a supergroup at any moment.
`Receive` and `Handle` are the handlers that write records and fill the admin
cache for a chat whose update was sent before it moved. The limiter appears as
its promise, that `Wait` returns with a slot or an error, which is what the
runs of `RateLimiter` establish. `MigrateChatID` is one step, as it is one
bbolt transaction, and `TgClient` has of its effect no more than that a chat's
records are under the new id when the replay goes out; `Rekey` says what it does
to each bucket.

### Ledger, StatsBuffer and Lifecycle

`Ledger` says what a write-behind counter promises: units move from memory to
the database, none is lost or doubled by that, and only the end of the process
loses memory. `StatsBuffer` has `Increment`, the swap, commit, failure and
restore of `flush`, for the two goroutines that flush (`Buffer.Run` and
`App.Stop`), `FlushAtomic` as one transaction, and the two kinds of merged
read. `GetMerged` reads the entry it found after releasing the mutex: what a
concurrent Increment or restore adds to it may or may not be seen (`Racing`).

`Lifecycle` wraps these steps in the process: `Check`, `Fetch` and `Forward`
are `pollUpdates` with its offset, `Dispatch` the update handler,
`Count` the `statsCountHandler` of one goroutine, `Signal` to `Exit` the path
from the signal through `Stop` to the closing of the database, `Crash` the end at
any moment, `Restart` a new process. Telegram keeps an update until a getUpdates
call carries a larger offset.

### Captcha

One person, one chat, any number of join handlers, button taps and one sweeper.
Each Bot API call and each transaction is a step. `CaptchaRepo.Delete` is two
steps (`Find`, `Erase`), because the code looks the challenge up in one
transaction and deletes in another. Telegram keeps the restriction of a member
who leaves (`"mutedOut"`). Any challenge that is stored may expire at any moment
and any mute may end; Bot API errors may hide a call that was carried out.

### Members and Campaign

`Members` is one member's record: `UpsertMember` merges a message, a reaction or
a change of status into it (times only move forward, a message makes a
"member" of whoever wrote it), and the judgements of `domain/cleanup`
(`IsInactive`, `IsCandidate`) and `domain/gracekick` (`ActiveSince`) read it.

`Campaign` is one chat's campaign:

| Model | Code |
|---|---|
| `chat`, `inbox`, `memb` | Telegram's view, updates whose handler has not written yet (any order, any delay), bucket `members` |
| `tickets`, `preview` | bucket `gracekick`, the candidates an admin was shown |
| `at`, `doomed`, `due`, `target`, `batch` | the goroutine of RunDaily: what phase A decided, what ExecuteCleanup has not come to, whom kickOne works on, whom the announcement named |
| `Seed`, `Cancel` | the two, under the chat lock, each with failing Puts or Deletes |
| phase A, kicks, phases B and C | RunDaily: the lock is held in A, given up for the kicks, taken again |
| `Clock`, `nextRun` | `runDailyCleanup`: the timer, and the daily slot |
| shutdown, crash, restart | the context ends between calls; everything in memory is forgotten |

The announcement is public before its members are marked tagged (`announce`,
then `tag` one at a time), which is where a crash bites.

### Repost

Each link somebody shares has a goroutine: a slot for Instagram and X, `Fetch`,
the sends of its kind of post with its fallbacks (video, photos, document), the
deletion of the original, the record in the index of videos, or a note that it
did not work, or a job in the queue. `HandleFlush`, `NextJob` and `DropJob` are
`/flush` by several people at once; `GarbageCollect` drops jobs that are too old.
A send can be carried out with its answer lost (`SendFaults`), a deletion can
fail, and the process can die anywhere. A comment
link looks for the bot's post of its video in the index, and otherwise posts the
video first or stands alone. While the slot is taken, a second Instagram link is
queued and a second X link declined.

### Referral

Every button (`CbSelect`, `CbNew`, `CbMatch`, `CbCreate`, `CbDelete`, `CbCancel`) and
every reply (`HandleURLReply`, `HandleNewReply`) of the dialogues, the table of
interactions with its index by person, its lapses and tokens, and the store:
`Store` and `DeleteReferral` are its two writing transactions. A reply that
looks the name up and one that commits are two transactions of one goroutine
(`hand`). `CbNew` and `Asked` set the chosen service to none; the code
leaves the old number where nothing reads it again.

### Reputation

`React` and `Command` are the two ways to give, `LookUpAdmins` the lookups before
the transaction, `Apply` the transaction on two balances, `Add` and `TimerFires`
the batcher under its lock, `SendBatch` its message. `repDelta` computes the
amount reported apart from the amount stored, as the code does.
`RecordAuthor` is the index with its eviction of the oldest entry.

### Summaries

`Record` is the window with both evictions; `Ask`, `TryCache`, `Reserve`,
`Placeholder`, `TakeWindow`, `Complete`, `Edit` are `/summarize` step by step; `Panic`
is the recovered panic that gives the slot back; `Retry` is `/flush`, which asks for
neither slot nor allowance. The model's child process is one call.

### Birthdays

`List`, `TakeChunk`, `MarkGreeted`, `Send`, `ClearGreeted` are one run; `Start` is the
catch-up, `Daily` the slot at ten, `Stop` an end anywhere. The calendar is the
end of February in an ordinary and a leap year; somebody is born on the 28th and two on the 29th.
Old markers are pruned with the listing.

### Rekey

`MigrateChatID` in one action, composed of what it does to each kind of bucket:
`migrateRows` and `migrateMonthIdx` (records that change their key, and the index of
months), `migrateChats` (the earlier installation wins), `migrateReferrals`
(services merged by name, numbers changed, duplicate links dropped). The
other actions are what writes under either id before and between the redirects.

A record of a table is the set of writes it holds; all that was written under
one id between two redirects is one share of it. A flush adds to the record that is
there (`WriteRow`), the migration puts the record of the old id over the one of the
new. Tables whose keys are collected before they move (`Collected`) are told from
those moved under the cursor that walks them (`Walked`, and `stats_month`, which is
walked month by month): there any record but the first of a walk may be passed
over (`MayPass`).

### The games

`Guess` and `Hangman` keep a round in the database, read in one transaction
and written or deleted in another. Concurrent commands may hold one round at
once; the history variables `crossed` and `mixed` record those, as the
promises ("first correct guess wins") hold only for the others. `Dice` reads and
writes the record in two transactions as well; `best` is what it should be, and
begins anew when a record is put over one its handler had not read. `Quiz` has both button games with their tables and
their shared leaderboard: `Look`, `MarkSolved`, `IncrementCorrect`, `Forget`,
`ShowWinner` are a tap; a message's id stands for the question, as every message
has an id of its own (the tables are keyed by it without the chat). `Battle` has
the command that posts three messages and wires them to the registry, the
reactions that look up, check the window and vote in three steps, and the timer.

### MonthStats

`AddSample` adds to the author's row and the month's, `EagerStart` is the goroutine
that writes the boundary of tracking at the first message, `TakePending`,
`StoreBatch` and `PersistStart` a flush, by the ticker or by `Stop`, with failures
and their restores. `MonthReport`, `GetSummary`, `GetMergedMonth` and `PutSummary`
are a report: the summary kept, the rows in the database, those in memory.

### Gates: Admission, Cooldown and AdminCache

`ChangeStatus` is a person who adds, restricts, promotes or removes the bot; each change is an
update with a goroutine (`CountAttempt`, `LeaveChat`, `Notify` for a stranger,
`RecordMyChatMember` for an admitted change). `ListChats`, `VerifyChat`, `AskLeave`,
`ConfirmLeave`, `OwnerLeaves`, `MarkBotLeft` are the owner's commands. `Cooldown` is
the gate with its sweep; a call decides under the lock, so it is one step.
`AdminCache` has a call of `IsAdmin` up to its first unlock, `LookAgain` under the other lock,
which is kept for the request (`ServeList`, then `StoreList` or `FetchFails`), and `Invalidate` by the
handler of a membership update, which comes any time after the change. A list
of administrators is known by the number of changes in it.

## 3. The runs

| Run | Question | Result |
|---|---|---|
| `rl_safety` | Are requests kept, answered once and spaced per bucket, and is a chat's pause remembered when buckets are dropped? | holds: `NoLostRequest`, `HeldOnce`, `PauseRemembered`, `BucketSpacing` |
| `rl_liveness` | Does every Wait and every Close return? | holds under fairness: `EveryWaitReturns`, `CloseReturns` |
| `rl_spacing` | Is a *chat* granted at most one slot per Rate? | violated, see section 7 |
| `tgclient` | What may a caller rely on while calls fail, time out and are redirected? | holds: `SentWhole`, `BudgetKept`, `ReplayAfterRewrite` |
| `tgclient_transport` | Has a call that failed in transport never reached Telegram? | violated |
| `lifecycle` | Are messages counted, kept and read correctly through flushes, failures, shutdown, crash and restart? Do the counters implement the ledger? | holds: `Conserved`, `DailyAgrees`, `ReadsSound`, `TakenOnce`, `DrainedBeforeClose`, `LedgerSpec` |
| `lifecycle_shutdown` | Does a clean shutdown keep everything? | violated |
| `lifecycle_redelivery` | Is every message added once if no process crashed? | violated |
| `captcha` | Is nobody left muted or unanswered, no ban left behind, no index entry dangling? | holds: `NobodyForgotten`, `Rejoinable`, `IndexLive` |
| `captcha_sweep` | Does the sweep kick only people who did not answer? | violated |
| `campaign` | Is nobody kicked too early, without a warning, after an answer or after a stop? | holds: `StopHonoured`, `KickedAfterGrace`, `KickedWereSilent` |
| `features` | What do the fifteen smaller parts promise while handlers overlap, calls and transactions fail and the process restarts? | holds: see below |

Every run that passes checks the module's type invariant as well (`TypeOK`; in `features`
`FeaturesTypeOK`).

The properties of `features`:

| Property | Part | Says |
|---|---|---|
| `OriginalKept` | Repost | a member's message is gone only if the bot's copy is in the chat |
| `NobodyLeftInSilence` | Repost | a link whose goroutine ended is posted, declined or queued, and leaves the queue answered or too old |
| `CatalogueSound` | Referral | names, services and referrals lead to each other, no link is there twice |
| `DeletedAsShown` | Referral | a confirmed deletion removes the referral it showed |
| `CreditsReported` | Reputation | a change of a balance is in one place on its way to the chat, with the amount that was stored; a waiting batch has its timer |
| `CacheFresh` | Summaries | an answer that would be given again was made from the messages of the present window |
| `GreetedOnce` | Birthdays | one greeting a year; marked and not greeted only after a failure |
| `LinksSurvive` | Rekey | no link is lost by migrations, both catalogues stay whole |
| `RowsAccounted` | Rekey | where each write to a record is found after any redirects, and which records may replace, pass over or hide which |
| `OneWinner` | Quiz | one winner, the same in the leaderboard and on the screen |
| `GamesFair` | Guess, Hangman, Battle, Dice | `FirstGuessWins`, `BoardPlayable`, `BattleFair`, `BestKept` |
| `MonthsCounted` | MonthStats | `MonthsAddUp`: conservation, sums, reports and the boundary |
| `GatesKept` | Admission, Cooldown, AdminCache | `AdmissionKept`, `CooldownKept`, `RightsCurrent` |

How to read the less obvious ones:

* `HeldOnce` joins `OnePlace`, a request is in one queue or hand only, and
  `PendingUnanswered`, none of those has been answered.
* `PauseRemembered` says why dropping buckets is mostly harmless: within Rate of
  a grant the bucket that granted is still in the map or has a worker. It holds
  because IdleTimeout is longer than Rate (5 min against 4 s, the defaults, which
  is what main uses). It does *not* say that no second bucket serves the chat
  meanwhile; `ChatSpacing` does, and fails.
* `SentWhole` joins `SuccessShown` and `WholeBody`; `BudgetKept` joins `TriesBounded`
  and `CopiesBounded`. These two are exact: the worst behaviour reaches the
  bound, `TriesBounded` in each round. A round costs at most the sum of the
  server and the transport budget: the first attempt, a retry for each kind
  within its budget, and one for a 429. A message may be shown once for every
  transport failure that is retried, in each round, and once more at the end.
* `ReplayAfterRewrite` has the exceptions it needs. A handler that got its
  update before the chat moved may write under the old id afterwards. And two
  calls may follow two moves of one chat in the wrong order: the later move is
  rewritten first, and the records then arrive at the id in the middle, where
  the next redirect finds them. `late` records both, until a rewrite.
* `TakenOnce` joins `ForgottenTaken` and `CountedOncePerProcess`: what Telegram
  is told to forget was taken, and a process counts nothing twice.
* `ReadsSound` allows a merged read to miss a batch that is being written, which
  the code accepts; it never allows counting a unit twice.
* `NobodyForgotten` and `Rejoinable` except what the code gives up on: a failed
  post or store, a failed unban, a process that died. The history variable
  `failed` records those and nothing else. A kick whose ban failed is not
  among the exceptions: the challenge stays and the next sweep tries again.
* `KickedWereSilent` compares with what had been *recorded* when phase A decided.
  An answer that a slow handler writes afterwards does not save its author; the
  kick is not repeated because the member is gone, and no property says otherwise.
* `KickedAfterGrace` counts from the run that posted the warning. A crash between
  the announcement and the mark makes the next run announce again, which only
  lengthens the period.
* `CacheFresh` speaks of answers a later command could be given: those whose key
  names the last message of the window as it is now. An answer filed
  late, after the window moved on or was pushed out and refilled, is harmless
  because its key has the last message of its own window.
* `RowsAccounted` does not say that records are kept, as they are not. A write to a
  collected table is under the old id until the next redirect and under the new one
  from then on, or from the start if it was made there, up to a redirect that finds
  the record under the old id once more: then it is gone, whether it was
  counted under the new id or came with an earlier redirect (`CollectedMoved`, an
  equivalence). In the walked tables it may be passed over as well and stay where it
  was (`WalkedMoved`). A row of `stats_month` that its chat's index does not lead to was
  passed over, and nothing was added to it since (`OnlyPassedOverHidden`).
* The exceptions of the game properties are histories of two commands that held
  one round at once. They are the code's own: the transactions of a read
  and of its write are separate. `BestKept` has none of its kind: it says of the record
  that it is the best roll stored since one was last put over a record its handler had not
  read, so that what such a roll replaces may have been higher.
* `AdmissionKept` speaks of a quiet moment: every update is dealt with, and of a bot
  that was not last put into the chat as a restricted member (`entered`): the code does not
  reject that. `mishap`
  records failed calls and lost updates, `disordered` updates recorded in another
  order than they were sent.

Deadlock is checked in the runs of `RateLimiter`, `TgClient` and `Captcha`. It is not
in those of `Lifecycle`, `Campaign` and `MCFeatures`, where the modelled history ends: the
process is gone with no restart left, the clock or the counter of inputs is at
its bound, the calendar is over.

## 4. Bounds

* **RateLimiter**: one chat, three requests, two buckets, queue capacity 1,
  Rate 2, IdleTimeout 2. Chats share nothing but the map and `closed`, so one
  chat shows all interactions. Two buckets are what the race between a leaving
  worker and a new one needs; three requests fill a hand, the queue and cause an
  eviction. Rate 2 makes "in the middle of the pause" a state. The liveness run
  has one bucket and delays of 1, because it may not use symmetry. The safety
  theorems of section 6 hold without these bounds.
* **TgClient**: two calls, three chats, a server budget of 2 (the code's is 4),
  the transport budget 2 of media uploads, two rounds as in the code. Each
  ladder passes through retry and exhaustion. Three chats let a chat move
  twice. The state constraint `FewTogether` keeps one call idle or each of the
  two within `MaxJointTries` (1) attempts: one call runs to the end of all its
  ladders alone, and two meet in every pair of early places, which is where
  redirects of the same chat meet, also when they are followed in the wrong order.
  The theorems of section 6 hold without these bounds.
* **Lifecycle**: one key, two days, one merged read (the constraint
  `ReadsNotEnded` does not go on behind its end, which changes nothing for
  anyone), two updates (`MaxUpdate`), one
  restart (`MaxRestarts`), channel capacity 1. Keys are added up pointwise and do
  not interact. Two updates are a batch that can be half forwarded and a channel
  that can be full; one restart is a redelivery.
* **Captcha**: two challenges, two join handlers, one tap, one sweeper: a
  rejoin while the first join is still handled, with a tap and a sweep at the
  same time. Challenges, joins and taps are interchangeable.
* **Campaign**: two people, a grace of 2 with a run at every tick, so that runs
  happen within it, at its end and after it; announcements of two, so that one
  can be half marked; four instants (`MaxTime`) and two inputs (`MaxInputs`: acts of
  members, campaigns and faults together): an answer and a fault, two faults,
  a stop and a new campaign. The theorems hold without these bounds.
* **Features**, by part:
  * Repost: two links of a kind, or a video and a comment on one, with two flushers. `TTL`
    is 0 and the clock has one tick: a job is fresh or too old.
  * Referral: two people, names, links and dialogues, one goroutine between two
    transactions. The constraint `Narrow` stops where two people *and* two names or
    links are involved; two people meet over one name and link, and one person has
    two of each.
  * Reputation: two people, two updates, an index of one entry, so that every second
    message evicts.
  * Summaries: two chats with a window of one message and room for one chat; sizes 1
    and 2, an allowance of 1, which runs out and is renewed while a command is still at work, two
    commands and one retry.
  * Birthdays: three people, two to a message, an ordinary and a leap February.
  * Rekey: three records in two months, two redirects and three shares; one owner, two
    names and addresses, sequences to 2: a service on both sides under one name or two,
    with clashing numbers. The constraint `OneTable` has one table, the catalogue
    or the record of the chat written to in a behaviour: the migration turns to one after
    the other and no step of it looks at two. Two redirects are what it takes to put a late
    record over one that has moved; three records, to pass over two of a walk or one of each month.
  * Guess, Hangman: two commands, two rounds, an hour that makes a round stale; six misses are two.
  * Quiz: a question of each game, two people, two taps.
  * Battle: one battle, two voters, two reactions, a clock that passes the window. Dice: two throws, values 1 and 2.
  * MonthStats: two messages of January by two people, the later one perhaps first, two
    months, two flushers.
  * Admission: two strangers, three changes, one owner's command at a time, one notice (the code
    allows 2); the constraint `OwnerPromotes` leaves changes of a bot that is in to the owner, as no
    handler looks at who makes them. Cooldown: two gates, a window of 2 ticks, a sweep every 3, forgetting
    after 4, 9 ticks in all; the code has 30 s to minutes, 5 min and 10 min. AdminCache: two
    chats, one change of each, two callers, a list too old after one tick.

  The theorems hold without these bounds for all fifteen.

  Model values are shared between parts (`{x1, x2}` and `{y1, y2}`), so that four
  permutations serve all of them.

Symmetry is used by runs without liveness properties only. `DeletedAsShown`,
`KickedAfterGrace` and `KickedWereSilent` are properties of single steps, which
permutations of model values respect.

## 5. Fairness

Only `rl_liveness` assumes any. `FairSpec` has weak fairness of each bucket's
goroutine (`WorkerStep`), of the `deleteBucket` a leaving goroutine still has to
do, of `Return` (a caller whose outcome is in the channel takes it), of the
reaper's stop, and of time. Go's scheduler runs every goroutine that can run,
and none of these steps waits for anything but a mutex held for a bounded time;
weak fairness is therefore justified. Nothing forces a caller to call, a
context to end or Close to be called: `EveryWaitReturns` does not rest on
timeouts of the callers. No strong fairness is assumed.

## 6. Proofs

The theorems hold for every value of the constants that satisfies the named
assumptions of the modules (pools of any size, positive capacities, distinguished
values outside their pools, a calendar of the end of February). Where something is
counted or summed, the set it is counted over is finite: days, questions, guesses and
guessers, letters, messages, writers, months and flushes of `MonthStats`. Each theorem
follows the same argument: the initial states satisfy an inductive invariant, each action
preserves it (one step per action), and it implies the property. What has to be
added to a property to make it inductive is what the code relies on without
saying so:

* `RateLimiter_proofs`. `WorkerShape`: a worker holds a request exactly in the
  places `slot` and `grant`, and is at `grant` only with its pause over; without it
  nothing is known about the request a stopped worker answers, nor about the pause
  when the slot is granted (`BucketSpacingCorrect`). `CanceledGone`: a canceled
  request is not one a caller waits for; without it the worker could skip a live
  caller's request (`NoLostRequestCorrect`). `HeldOnceCorrect` joins
  `OnePlaceCorrect` and `PendingCorrect`. `PauseRememberedCorrect` has the
  hypothesis `IdleTimeout >= Rate`: it rests on an idle worker whose pause ends
  before its timer fires (`IdlePause`), so that who leaves has none to remember
  (`GonePause`), and on the pause of a granted chat being counted down by a worker
  that is there (`LivePause`).
* `TgClient_proofs`. `SentWholeCorrect`, `BudgetKeptCorrect`,
  and `ReplayAfterRewriteCorrect`, for any calls, chats, budgets
  and rounds. The counters of a ladder count the attempts of its round
  (`TriesCounted`). A copy is there for each transport failure that was tried again, or
  for the answer that is on its way (`CopiesCounted`). The answer a call has in hand is
  one to what it sent (`AnswerFits`), and no two chats share a new id (`MovedOnce`). A
  chat rewritten under that id has records under the old one only if somebody came
  late with an older update, which `late` remembers.
* `StatsBuffer_proofs`. `TypeCorrect`, `ConservedCorrect` and
  `ImplementsLedger`: every step of the buffer is a step or a stutter of `Ledger`.
  `NothingLeftBehind` says that a flusher which is not flushing carries nothing;
  without it a swap would overwrite a batch. `DailyAgreesCorrect`: the sum over the days
  follows each increment, batch and restore. `ReadsSoundCorrect`: a merged read that has the
  database's half has no more than is there (`HalfRead`), and when it is whole, it and what
  a batch put back behind it may still bring (`Expects`) come to no more than was added
  (`FullyRead`); no flush overlapping it, it misses nothing.
  Of the process, `ProcessUsesCounters` says that each of its behaviours is one of the
  counters, so that what is proved of them holds within it (`CountersInProcess`).
  `TakenOnceCorrect`: what a poll loop is past, or Telegram forgot, was taken (`Passed`), a
  batch is a run of numbers (`InOrder`), and an update that is not passed yet, or is queued or
  with a handler, was counted at most once by each process before (`OnceEach`).
  `DrainedBeforeCloseCorrect`: what is behind `Stop` at each of its steps (`ShutsDown`).
* `Captcha_proofs`. `TypeCorrect`, `RejoinableCorrect`, `IndexLiveCorrect`,
  `NobodyForgottenCorrect`. The
  two transactions of Delete leave a window. `Fresh` says that a challenge being
  posted is neither stored nor on a sweep's list, and known only to its join
  handler and to taps that have not looked it up yet. `Blind` says that a Delete
  whose first transaction did not see the challenge finds none to remove in its
  second one either. So whoever removes a challenge also clears the index.
  A challenge counts for a person until somebody is done with it but for its removal
  (`Doomed`): then the person has answered, or was gone and can only be back by a join that
  brings a challenge of its own. So who has not answered is asked still (`Asked`), and who has and
  is muted is asked again or about to be heard (`HeardOf`).
* `Campaign_proofs`. `CampaignStops`, `KicksAreLate` and `KicksAreDeserved`, for any
  people, grace, batch and number of faults. `Recorded`: what a handler has written of a
  member's acts stays in the record, whatever arrives later. `TaggedWereWarned`:
  a ticket's deadline is the grace after the last public warning.
  `DoomedWereWarned` carries both over to the list that is kicked outside the lock,
  and `ListsInPlace` says that each list lives only where the run uses it, and
  that the tickets of a batch stay queued while the lock is held.
* `Sums_proofs`: what `SumFunctionOnSet` is worth. The community modules define it by a
  fold that takes the elements as they come, and the library's induction theorems cannot be
  used (below). `SubsetInduction` replaces them: it speaks of a *set* of subsets instead of a
  predicate and rests on strict inclusion being well-founded. From it follow that sums of
  naturals are natural, add up, grow, and change with one summand (`SumPlus`, `SumOfOne`, `SumMore`),
  and that a finite set of numbers has a least and a greatest one (`Extremes`).
* `Once_proofs`: what is to happen once, or not at all.
  * `OneWinnerCorrect`, for any questions, people and taps. A win has one tap that
    carries it to the leaderboard and the message (`ClaimsHeld`), what was told agrees with
    the table as long as the question is in it (`ToldAgree`), and the leaderboard
    does not have it before (`NotYetCredited`); the count itself is that of the set
    of wins (`Tallied`).
  * `GreetedOnceCorrect`, for any people and any stretch of such a calendar. Between
    runs nothing is in hand (`BirthdayInHand`), who is to be greeted has not been (`Deserved`), a
    marker is of a day gone by or of what is in hand (`MarkersKnown`), and who was greeted
    had a birthday and, on that very day, has the marker still (`Remembered`); nobody has
    two birthdays in a year (`OneBirthday`), the 28th of February standing in for the
    29th in ordinary years only.
  * `AdmissionKeptCorrect`, `CooldownKeptCorrect`, `RightsCurrentCorrect` and, from the three,
    `GatesKeptCorrect`, for any
    strangers, windows and commands. A notice is counted before it is sent
    (`NoticesBacked`); where the bot does not belong, a handler is about to take it out
    (`ExpulsionDue`); the latest change of its status is still with a handler or is
    what the record says (`RecordFollows`). The cooldown remembers the run its
    window counts from (`Remembers`), has sent one notice of it at most (`HeardOnce`), and its
    sweep forgets only what refuses nobody any more (`SweepKeeps`). What the admin cache would
    answer from has every handled change (`Current`), because a request keeps the lock that
    `Invalidate` needs (`Guarded`).
  * The games, for any players and goroutines. `BattleFairCorrect`: no late vote is kept,
    because the window, once set, stays and the clock only goes on (`WindowKept`), and
    what is announced is over (`Announced`). `BestKeptCorrect`: a roll is written only
    because it improves on the record its handler read (`WritesImprove`), which is the one it
    is put over or starts the count of the best anew. `BoardPlayableCorrect` and
    `FirstGuessWinsCorrect`: a round that no two goroutines held at once has one holder at most and
    is nowhere once its word or number was announced (`EndsOnce`, `NamedOnce`), and
    the wins on the leaderboard with those on their way are no more than the numbers
    named (`WinsNamed`, a comparison of sums).
  * `MonthsAddUpCorrect`, for any messages, writers, months and flushes. The rows of the
    database, of the buffer, of the batches and those that died count each
    message once (`CountedOnce`); a row says nothing but what one of its messages is
    (`RowsGood`), and every message is covered by the extremes of a row it went into
    (`Covered`), so that the least and the greatest of all rows are those of
    the messages. The totals add up in every place (`Totals`), as laying
    rows over each other adds sums (`SumsMerge`). The boundary a flush has taken
    with its rows is below them, and that of the process is below
    those of its flushes (`Below`), which is why putting a batch back and taking it
    again with another boundary is right; it is written, or a flush is
    about to (`Written`). A report has nothing from the database that was
    not there (`ReadSoFar`), so the buffer laid over it counts nothing twice.
* `Records_proofs`: what a chat keeps.
  * `CatalogueSoundCorrect` and `DeletedAsShownCorrect`, for any people, links, dialogues and
    goroutines. Numbers are drawn once (`Numbered`), so that what a button was made
    for is in the catalogue still or its number is nobody's (`Stands`), also while
    the dialogue is only in the hands of a goroutine (`Known`).
  * `CreditsReportedCorrect`, for any people, messages, updates and balances. An
    announcement is with the update that made it, in the batch, in a batch that is
    being sent, told, or lost to a recorded fault, and in one of them only (`InOnePlace`), and says what
    was done to the balance (`Truthful`).
  * `RowsAccountedCorrect`, for any tables, records, months and number of redirects. Besides
    what the property says, a share is only where it can have got (`SharesPlaced`): none is from
    after its time, none is under the old id that was written under the new one, and what has moved
    was written before the last redirect; no share is under
    both ids (`Apart`). `LinksSurviveCorrect`, for any owners, names and addresses:
    merging two catalogues rests on the sequences that all chats share,
    no two chats have the number of a service or a referral in common (`Drawn`), so that
    what keeps its number collides with nothing.
  * `OriginalKeptCorrect` and `NobodyLeftInSilenceCorrect`, for any
    links and flushers. Who deletes has posted (`DeletesShown`) and who drops a job has
    answered it (`DropsAnswered`), which is per goroutine; that posts and notes are
    never taken back makes it hold with several flushers on one job.
  * `CacheFreshCorrect`, for any chats, commands, windows and
    allowances. `Fits`: as long as the chat's last message is the last of a copy, the
    copy is the window still, as no message comes twice. It holds of the copies in
    flight (`CopiesFit`) and of what is filed (`FiledFit`). `SlotsHeldCorrect`: a
    chat's slot is taken just as long as one command works for it, through panics
    and cancellations.
  * Types. Those of `Summaries` bound the windows and the list by which chats are evicted,
    in which no chat stands twice (`Bounded`); those of `Reputation` keep balances natural, because a
    roast is refused where there is nothing to take.
  * The composition: to every feature but the one that runs a step is a stutter, so a
    behaviour of `Features` is one of each (`EachAlone`). `FeaturesKeep` is then all that the run
    `features` checks, for any constants.

So every safety property the passing runs check is a theorem, and the refinement
`LedgerSpec` too. Only model-checked are the two liveness properties of `rl_liveness`: the
prover does not do `ENABLED`, and so no fairness. Out of its reach are also induction
theorems with an operator parameter, and with them what a recursive definition computes;
the models have sums, least and greatest elements instead of recursive operators, which
`Sums_proofs` can speak of.

## 7. Where code and documentation disagree

Each has a run whose counterexample shows it; `PROJECT.json` quotes the lines.

1. **`rl_spacing`**: a chat can be granted two slots within Rate. A worker that
   gives up its bucket releases the bucket's lock before `deleteBucket` removes
   it from the map; a caller may revive it in between, and the revived, live
   bucket is then removed. The next caller gets a new bucket without a pause.
2. **`tgclient_transport`**: "a transport fault never reached Telegram" is not
   true of a timeout or a lost answer, so replaying such a repost can post it twice.
3. **`lifecycle_shutdown`**: `Stop` does not wait for the goroutine of
   `Buffer.Run`. If that one has swapped the maps out, `Stop`'s own flush finds
   nothing, the database is closed, and the batch is lost.
4. **`lifecycle_redelivery`**: the offset that acknowledges a batch travels with
   the next getUpdates call. Stopped before it, the process has counted messages
   that the next one receives and counts again.
5. **`captcha_sweep`**: the sweep works off a list it read earlier. A person who
   answers after the list was read, and leaves no challenge behind, is still
   kicked.

Noticed while modelling, without a run of their own:

* `retry.go:10` speaks of "max four attempts total"; the budgets of the kinds
  of failure are separate and add up. `TriesBounded` states the real bound.
* After a second redirect `runWritePolicy` rewrites the database and then returns
  an error without sending to the chat it has just learnt.
* `FlushAtomic` never lowers a stored FirstSeen while `GetMerged` does so in what it
  returns, so the two can disagree.
* The comment at `src/cmd/bidlobot/main.go:266-269` says the captcha service reuses the rate-limited
  client; line 272 hands it the raw bot.
* `storage/migrate.go:38` says "rewrites every record keyed by oldAbs". Rows of the
  destination are overwritten, not merged (lines 136, 187, 294, 307 and the like), so what handlers
  counted under the new id before the redirect is lost, and what moved with an earlier redirect
  is lost to a late flush under the old id. `migrateMonthStats` and the four after it put and delete
  in the bucket their cursor walks, which bbolt leaves undefined; records may stay
  behind, and those of `stats_month` without the index entry that leads to them (317-327), though the
  comment at 242-246 expects it the other way, index keys without rows. Reputation,
  captchas, campaigns, jobs and posted videos are not rekeyed (the roadmap says so).
* A link may be posted twice: by two flushers that list the same job, by a flush
  whose deletion of the job failed, by a lost answer, and by two quotes of one
  video that both miss the index.
* The handlers of TikTok and Instagram links end in silence when their temporary
  directory cannot be made.
* `/flush` of a summary asks for neither the chat's slot nor the global allowance
  (`bot/deferred.go:116-118`), and the job is queued before the placeholder is edited.
* `games/hangman/words.go:15-16` says "The seventh wrong letter ends the round"; with
  `MaxWrong = 6` and `>=` the sixth does.
* `games/dice/service.go:47-52` takes a stale announcement for the worst outcome of two
  overlapping rolls; the later, lower one also replaces the higher record.
* An add of the bot that yields "restricted" is no add to `bot/membership.go:227-228` and not
  rejected, while `bot/owner_chats.go:121-128` takes such a chat for a current one.
* In `/guess` and `/hangman` two commands handled at once may both win a round, and
  a late write may bring back one that has ended.
* `/quiz`, `/trivia` and battles are keyed by the message id without the chat.
* Votes of a battle that arrive before `SetMessageIDs`, and those a slow handler
  records after the tally, are not counted.
* A monthly boundary that could not be written is retried only by a flush that has
  rows; a message of a past month that arrives late, or a flush between
  the two reads of a report, leaves a kept summary that undercounts, though
  `domain/monthstats/service.go:18-20` says that a later write invalidates it.
* `UpsertChat` does not look at the time of the update, so two updates about the bot
  that overlap can leave the older status; `LeaveChat` for a rejected admission may
  arrive after the owner has put the bot there.
* `shared/tgclient/client.go:641-642` says "the cache amortizes calls to once per
  minute per chat": each membership update makes the next command ask again, and a failure is not
  remembered. The lock of all chats is held through the request with its retries
  (`shared/admin.go:63-73`), so a slow answer for one chat holds up every chat.
* In the referral dialogues an index of a match is resolved when the button is
  tapped, against a list that may have changed.

## 8. What is not modelled, and why

* Fetching of links: scraping of pages, downloads, conversion, captions and the
  rewriting of YouTube links. They end in success or failure, which is what the
  models have; the texts are data.
* Health, routing, help, inline answers, statistics views, duels, polls and the
  8-ball: they answer one update from what it says or what a read returns and
  keep nothing whose order matters. The opening of the database, keys and JSON
  encoding, configuration and wiring: done once, or hidden behind a transaction.
* The delays of the retry ladder and their jitter; only that the caller's context
  interrupts them is visible to a caller. Read wrappers of the client change no
  state of the bot.
* First and last seen instants in the counters, texts, formats and logging; in the
  captcha, edits of the announcement and the welcome message.
* More than one chat where chats share only the file: captcha, campaign, games,
  reposts.
* `Seed`, `Cancel` and the preview of a campaign have no caller in the program
  outside its tests at this commit; they are modelled, as they are its interface,
  and so is what `RunDaily` does without them.

## 9. The plan

Done, in this order: the limiter; the ladder and the client; the counters and the
life of the process; the captcha; membership, cleanup and campaigns; reposts and the
queue; migrations; summaries, referrals, reputation, birthdays, games, months,
admission and cooldowns; and the proofs of section 6.

Left, should the code make it worth while:

* Liveness beyond the limiter: the code promises none for reposts, kicks or
  greetings, as nobody waits for their goroutines; the sweeper of the captcha is
  the one that retries for ever, and its model leaves time open.
* One database under several features at once. Transactions are atomic and each
  feature has its own buckets, so the composition adds only what `Rekey` shows.
* An abstract at-least-once queue for the deferred jobs, which `Repost` would
  implement; `NobodyLeftInSilence` states the part of it that is a safety property.
