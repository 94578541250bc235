# Verification project for learnSpace

learnSpace is a collection of programs. Most of its files are demos, copies of
frameworks and vendored code; a few programs have logic of their own that is hard
to test, because it runs in several threads or processes over a server that may
fail. This project models those, checks the models with TLC and proves the
properties that matter most with TLAPS.

    tlc -config ZkLock.cfg MCZkLock.tla         # one run; PROJECT.json lists them all
    tlapm ZkLockProofs.tla                      # the proofs of one module

## 1. The system's components

| component | state it keeps | operations | what is hard | what makes it correct |
|---|---|---|---|---|
| **ZooKeeper lock** (DistributeLearning, `lock/zookeeper`) | a znode per waiter; `currentLockPath`, a latch and a watch per client | `lock()`, `lock(time, unit)`, `unLock()`, `tryLock()`, retries in `attemptLock` | the server's list is stale when used; one-shot watches; a lost reply after which `create` is repeated; an expired session | one holder; order of arrival; nothing left behind; timed calls return |
| **Redis lock** (DistributeLearning, `lock/redis`) | one key whose value is an expiry time | `tryLock()`, `tryLock(time, unit)`, `unlock()`, `isLocked()` | the lease runs out while its holder works; losers of the GETSET write too; a holder dies | one holder if clients are quick; the lock does not get stuck |
| **Seckill with the Redis lock** (`PessimisticLockTest`) | `prdNum`, `clientList` | check, lock, read, DECR, SADD, unlock | three requests held together by the lock alone; a buyer dies between two | no unit sold twice; no unit unaccounted for; the sale ends |
| **Seckill with WATCH** (`OptimisticLockTest`) | the same keys | WATCH, GET, MULTI/EXEC, SADD, UNWATCH | EXEC applied without a reply; refusals without bound | no unit sold twice; losses come from faults; the sale ends |
| **Simple queue** (DistributeLearning, `queue/DistributedSimpleQueue`) | a znode per element | `offer`, `poll`, `size`, `isEmpty` | polls that overlap read and delete the same node | nothing lost; order; duplicates from overlap only |
| **Bounded queue** (`queue/DistributedQueue`) | elements and a start marker | `offer`, `poll`, blocking | test and watch are two requests; the size bound is read, then used | nobody waits for ever; the bound |
| **AMTU feed dispatch** (`amtu`, `DispatcherService`, `FeedDispatcherTask`) | files in OUTGOING, TEMP, SENT, FAILED; the database; `underDispatch` and `DISPATCH_LOCK` | list, move, identify, submit with retries, file, record | a scheduler thread and a pool of tasks; moves, commits and answers that fail; restarts | each feed accepted as its file says; order; nothing strays; every feed gets filed |
| **AMTU submission quota** (`MerchantFeedQueue`, `MerchantSubmissionQueue`) | a queue of request times in memory and in Derby, `lastCheckTime` | `offer`, `poll`, `pruneQueue`, `save`, `loadQueueForAccount` | two records of a quota that Amazon keeps; database errors that are ignored; restarts; a reload under a running dispatcher | AMTU never believes in more quota than it has; the queue stays small; it drains |
| AMTU status updates, report retrieval | feeds in the database, `_DONE_` states, reports | poll MWS, save, download, acknowledge | retries, a second quota, two services on one database | a state never goes back; every report is fetched once |
| AMTU scheduler, accounts, database, GUI | settings, thread pools, Derby rows | start, schedule, load, save | an exception in a scheduled service ends its series | - |
| **SSO tokens** (`smart-sso-server/common`) | token to user and expiry, in memory or in Redis; `tokenSet` | `addToken`, `validate`, `remove`, the timer's `verifyExpired` | check-then-act between request threads and the timer; time at its boundaries | a removed token stays removed; one in use lives on; an idle one ends |
| **SSO permission cache** (`smart-sso-client`, and the server's transactions) | `isChanged`, `tokenSet`, the application's permissions, user and permissions per session | `doFilter`, `onMessage`, login and logout, `allocate`, `save`, `deletePermission` | fetch and mark-as-fresh are two steps; the message can overtake the commit or be lost; requests of one session overlap | a session's permissions are its user's; one that is out of date is found out |
| **SSO user accounts** (`UserServiceImpl`, `UserController`) | rows of SYS_USER | `login`, `save`, `updatePassword`, `validateAccount`, `enable`, `resetPassword`, `deleteById` | whole rows are read, then written back; the account is checked by one request and saved by another | a decision stands; accounts are unique |
| **Table of the administration pages** (`jquery.table.min.js`, `user.jsp`) | page, list, checked rows, dialog, requests on their way | turn pages, check, operate, confirm | answers that reload the table while the user goes on; failed answers; `2 + 1 = 21` | what is posted was asked for; the table stays in its pages |
| SSO login pages, roles and applications | cookies, redirects; MyBatis rows | the browser's way through a login; the same statements on other tables | - | - |
| Spin lock (`smart-mvc/locks/ZookeeperLock`) | a znode per waiter | `lock`, `tryLock`, `unlock` | a failed `tryLock` leaves its node; errors are printed and ignored | one holder |
| Boolean mutex, LRU (`structures-algorithm`) | AQS state; map and linked list | `get`, `set`; `get`, `put`, `remove` | `setState` after a compare-and-set; links in both directions | a waiter sees the last `set`; list and map agree |

The rest is left aside: the textbook data structures of M. A. Weiss,
`java-8-demo`, `benchmarkdemo` (JMH samples), `cglib_demo`, `designing_patterns`,
`hystrixdemo` (copies of Hystrix), `OpenSourceModify` (Dubbo), `smart-static`
(JavaScript and CSS), `servlet3-showcase`, notes in `linuxShell`, `python` and
`accumulation`, IDE metadata. They are demos, third-party or generated, and keep no
state of interest. The JavaScript of `smart-static` is, but for its directory `custom`,
made of vendored libraries; so nearly all of the repository's JavaScript is not its own.
`zookeeper/demo/configmanager/lock/DistributedLock.java` is
commented out from its first line to its last.

How the parts interact. Both seckill programs use Redis; the pessimistic one calls
the Redis lock. The AMTU dispatch asks the submission quota for a slot before each
feed and enters every request into it; the status updater works on the feeds the
dispatch recorded. In SSO an application's filter calls the server by RPC for
tokens and permissions, and the server calls back by JMS. The pages of the administrators
work on the rows that logins write, too. The hazards are listed
with their lines under `hazards` in PROJECT.json.

## 2. Modules

| module | models | built on |
|---|---|---|
| `Mutex` | the promise of a lock: nobody enters while somebody is inside | - |
| `ZkLock` | `ZookeeperDistributeLock`, `BaseDistributedLock` | implements `Mutex` |
| `RedisLock` | `RedisBasedDistributedLock`, `AbstractLock` | implements `Mutex` for quick clients |
| `PessimisticSeckill` | `PessimisticLockTest` | EXTENDS `RedisLock`: its steps are steps of the buyers |
| `OptimisticSeckill` | `OptimisticLockTest` | - |
| `SimpleQueue` | `DistributedSimpleQueue` | - |
| `SubmissionQueue` | `MerchantFeedQueue`, `MerchantSubmissionQueue` and their use by the dispatcher | - |
| `FeedDispatch` | `DispatcherService`, `FeedDispatcherTask`, the moves of `TransportUtil` | leaves open what `SubmissionQueue` decides |
| `TokenStore` | the promise of a token: issued once, alive, then ended for good | - |
| `SsoTokens` | `TokenManager`, `LocalTokenManager`, `RedisTokenManager` | implements `TokenStore` |
| `PermissionCache` | `PermissionFilter`, `PermissionJmsListener`, `PermissionJmsMonitor`, `SsoFilter`, `LogoutFilter`, and the services that change permissions | INSTANCE of `TokenStore`: its tokens end as the store's do |
| `UserAccounts` | `UserServiceImpl`, `UserController.save` | - |
| `AdminTable` | `jquery.table.min.js` as `user.jsp` uses it | EXTENDS `UserAccounts`: its requests are operations on the rows |
| `...Proofs` | theorems about the module they are named after; `RedisLockProofs` also those of `PessimisticSeckill` | EXTENDS it |
| `SmartProofs` | theorems about `SsoTokens`, `UserAccounts` and `AdminTable` | EXTENDS them |
| `MC...` | instances for TLC, with the symmetry of the runs that use it | EXTENDS it |

In all of them one action is one request to the server, or one step of a thread
that other threads can see, together with the local code that follows it. Servers
are external and are modelled by what the code uses of them.

**ZkLock.** `eph[c]` is the set of nodes the server keeps for c's session, a node
being its sequence number; `path[c]` is `currentLockPath`. `CreateLockNode`,
`GetChildren`, `WatchPredecessor`, `AwaitReturns`, `LeaveWaitToLock` follow
`waitToLock`; each `...Fails` action is the exception path of a request, on which
the request may have been applied (a lost reply) or not, or the session be gone.
`CatchInAttemptLock` is the retry. A watch fires as an event that `DeliverEvent`
hands over later. `latch.await(timeToWait, MICROSECONDS)` of a timed call returns
at any time, which is what a wait a thousand times too short amounts to, and the
loop looks again; `Tick` lowers `timeToWait`.

**RedisLock.** Times are kept as distances from now. `MaxStall` is the longest time
from computing `lockExpireTime` to the last request that uses it, `MaxHold` the
longest from getting the lock to the end of `unlock`; `Tick` cannot pass a client
that would exceed them. `lock()` and `lockInterruptibly()` are absent: they pass a
null `TimeUnit` to line 38 and throw a NullPointerException before their first
request. Client clocks agree.

**PessimisticSeckill** puts the code of `PessClientThread.run` around the actions of
`RedisLock`. `unlock` is not in a `finally` block, so a crash leaves the key.

**OptimisticSeckill.** `watching[c]` is what Redis knows of the connection's WATCH.
`RequestFails` is a request that throws, applied or not, after which the loop starts
over, or the thread ends because UNWATCH throws as well.

**SimpleQueue.** `poll` is a list, then for each name in order a read and a delete;
reading a node that is gone goes on to the next one, the delete says in a result
that nobody looks at whether it deleted.

**SubmissionQueue.** `queue` is what is in memory, `rows` what is in the database; they
differ where an insert or a delete failed, or a reload came between. `age` has the date of
each entry; the order of the queue is that of the ages, entries of one tick leave in any
order. `check` is the age of `lastCheckTime`, up to the point where it no longer matters.
`used` and `drain` are the bucket of Amazon MWS (external): a request that arrives counts,
one is forgotten every `MwsRestore`. `Restart` may happen anywhere, and deletes what it
vacates while it loads, which may fail. The cancel of the account editor is two steps on a
thread of its own: `ReloadReads` is the SELECT (`MerchantFeedQueue.java:45`),
`ReloadAssigns` the assignment (`AMTUAccount.java:956`); what the dispatcher or the service
does between the two goes to the old queue and to the database. An entry offered then is a
row that nobody has in memory, one pruned then comes back: `lost` counts the former among
the requests AMTU forgot, and a check that goes back in time; `raced` counts both. A call
that got hold of the old queue before the assignment and uses it after is taken to end
before it, which leaves the same queue and rows; a save between the two steps waits, since
both are synchronized on the account. A reload whose SELECT fails is one that never
assigns. The service looks for slots only while feeds wait and no task has the account
(`ServiceLooks`, lines 47 and 52 of `DispatcherService`), or did when it asked
(`ServiceLooksLate`); its prune and its look are one step, since nobody but the scheduler
uses the answer. The task looks in two (`FindSlot`, `TakeSlot`): a reload may come between.
How a task gets `DISPATCH_LOCK` is left to `FeedDispatch`.

**FeedDispatch.** `place` is the directory of a file, `accepted` how often MWS took it.
`ServiceLists`, `ServiceSkips` and `ServiceSubmits` are the run of the service,
`Enter` to `Leave` the synchronized block of the task, `MoveToTemp` to `Record` its
`submitFeed`. A `Fault` is a failed move, commit or reading of a file for its request, a
directory that is none, or a lost answer. A restart loses all threads and keeps files and
rows. The history variables `unanswered` and `interrupted` say to which feeds something
happened, `thrown` which feeds were in hand when an exception ended a task. Two things throw
what nobody catches: `getFileType`, of a file that cannot be read, whose gzip is corrupt, or
that has less than ten bytes (`FeedContentIdentifier.java:49`, `:159`; `ThrowUnreadable`), and
`getDirectory` (`TransportUtil.java:37`), when the task lists OUTGOING (`EnterThrows`) or needs
TEMP, SENT or FAILED for a feed (`DirectoryMissing`). In the service the latter ends the
series of its runs, until AMTU restarts (`ServiceThrows`). All feeds of an account that is
modelled are of one group of sites, so that listing throws before it moves a file. Other
unchecked exceptions, say of the MWS client, would do what these do, and are not modelled.

**SsoTokens.** `manager` is chosen at the start; the configuration of the server names
the one in memory. `left[t]` are the ticks a token has to live. A call takes less than a
tick, and may see one (`late`). `SweepBegins`, `SweepLooks`, `SweepSpares` and
`SweepRemoves` are the timer's pass over the map, which tests a token, and tests it again
before it removes it; `expired` is a plain field that both threads use, so that the second
test may see the old value, and the removal may follow either way. `CheckContained`,
`CheckMissing`, `AddToSet`, `Set` and `SetFails` are `validate` on Redis: asking whether the
set contains the token and adding it are two steps, so two threads may both add. A SET that
throws may have been applied, its reply lost (`RedisCache.java:60`); then the token has its
time again although the call failed, and counts as used. A login whose SET fails leaves no
token that anybody knows. A token is a UUID and is issued
once. `RedisTokenManager` passes `tokenTimeout * 1000` where `RedisCache.set` (line 57)
takes minutes, hence two timeouts; that the timer's period is shorter than the one of Redis
is an assumption, which the numbers in the code satisfy by far. `raced` and `unextended`
are history: tokens that were swept or logged out under a validate, or that a failed SET did
not extend.

**PermissionCache.** One application and one session of it, whose requests may overlap,
log in and out, and so change its user. Permissions are abstracted to whose they are and
how many of the administrators' changes they have seen (`db` counts the committed ones; changes are
made one at a time). `allocate` sends its message inside its transaction, `save` after its
row, `deletePermission` not at all; the broker may drop a message, or the sender may swallow
an exception. `SetChanged`, `ClearTokens` and the three `Listener` actions are `onMessage`,
the `Filter` ones the first load of the application's own set, which runs on another thread.
`Permit`, `FetchPermissions`, `SetSessionPermission` and `MarkToken` are `doFilter`, step by
step; the call that fetches may throw, which ends the request. What `doFilter` looks up in the
application's own set (lines 89-93) is drawing data for the page and is left out: that set is
never null there, and is replaced as a whole. Tokens belong to distinct users. The container's sessions are in memory: the filter for
shared sessions is commented out in `web.xml`. The history variables name what may go wrong:
`lost` (no message after the commit), `raced` (a request fetched before the set of tokens was
cleared and marks itself after that), `overlapped` (requests of one session overlapped
while they changed its user or permissions), `startRaced`.

**UserAccounts.** `task[th]` is what a thread of the server has read and is going to write.
A login writes back the whole row it has read, of which it changes only two fields that the
UPDATE statement does not list; a submitted form asks first whether the account is taken
(`CheckAccount`), and the form takes a check whose request failed as passed. `dirty` and
`overwritten` are history: threads whose row has changed since they read it, and users such
a thread has written.

**AdminTable.** The settings, boxes and dialog of the table. A list is fetched
synchronously, an operation posted asynchronously; `Handle` is the server's part, `After`
the answer, which reloads the table whatever the user is doing; the confirmation dialog is
modal. The ids are collected when the dialog is confirmed, `asked` remembers those shown
when it was opened. A page number read from a button is text: `NextPage` then appends a
digit, and the buttons are drawn from ten times the number on (`NextNumber`). There is one table; the search form is empty; a page and the number of rows are
read at once; which of the buttons a row shows, and what is drawn, is abstracted.

## 3. Runs

| run | constants | checks |
|---|---|---|
| `zklock` | 2 clients, `lock()` and `lock(time, unit)`, 2 lost replies, 1 expired session, `MAX_RETRY_COUNT` 1 | exclusion, the holder's node stays first, grants in node order, orphans from lost replies only, `Mutex`, timed calls return |
| `zklock_lost_wakeup` | 2 clients, no fault | *violation*, see section 6 |
| `redislock` | 2 clients, expiry 1, delays up to 3, 1 crash | timed `tryLock` returns; the lock is granted again and again |
| `redislock_foreign_delete` | 3 clients, expiry 1, stall up to 3 | *violation* |
| `pessimistic_seckill` | 3 buyers, 2 units, expiry 2, stall 1, hold 2, 1 crash | exclusion and `Mutex` of the lock, no overselling, accounting, the sale ends |
| `optimistic_seckill` | 3 buyers, 2 units, 2 failed requests | no overselling, losses from faults, the sale ends |
| `simple_queue` | 2 producers with 2 elements, 3 consumers with 2 polls | nothing lost, order, duplicates from overlap only |
| `submission_queue` | queue of 1, 2 attempts, restore 2, vacate 6, 1 database error, 1 restart or reload | quota mirrored, overrun bounded, a full queue drains while feeds wait |
| `feed_dispatch` | a good feed, one of unknown extension, one that is unrecognized and perhaps unreadable; 2 tasks, 2 attempts, 1 fault, 1 restart | accepted as filed, nothing strays, oldest first, what stops an account, every feed is filed |
| `sso_tokens` | 2 tokens, 2 threads, timeouts 2 and 4, period 2, 1 failed SET; both managers | logout is final, a token in use stays, an idle one ends, `TokenStore` |
| `permission_cache` | 2 tokens, 2 requests, 2 changes | own permissions, stale ones are found out, the application's set is fresh |
| `admin_table` | up to 3 users, 2 accounts, 2 threads, pages of 1 or 2, 3 events | posts what was asked, decisions stand, accounts unique, stays in its pages |

**Why the bounds are enough.** ZkLock: what can go wrong needs a node in front, a node
behind and a node without an owner; with two lost replies two clients make a queue of
four nodes, in which waiters wait for orphans. More clients are covered by the proofs.
RedisLock: `pessimistic_seckill` has `MaxStall + MaxHold = LockExpires + 1`, the largest
delays the lock bears: one more tick and TLC finds two holders. Three buyers make one
holder, one loser of the GETSET and one newcomer. `redislock` goes far beyond that limit,
so that holders overstay, foreign keys are deleted and `unlock` throws. SimpleQueue: three
consumers are a poll that is overtaken twice. SubmissionQueue: two attempts overrun a queue of
one, a failed insert or delete and a reload come on top; `Vacate` is the least that
`QuotaMirrored` bears, the time that what a dispatcher may have sent takes to drain; a
`Restore` of two lets a check, an offer and a request of MWS fall on different ticks. Longer
queues are covered by the proofs. FeedDispatch: two tasks are what the service can have handed
over while `underDispatch` is still false (a third only queues up behind); one fault and
one restart are combined in every order; the order of two good feeds is left to the theorem
`SentInOrder`. SsoTokens: one thread in the middle of a validate
and one that logs the token out, or the timer, are what the races need; the second token
makes a sweep of more than one. PermissionCache: two changes make a message that
overtakes the commit of its own change and one that repairs what the first missed; two
requests make every race the history variables name. AdminTable: three events are an
operation under way, one that is posted meanwhile, and a login or form between the two
(they count calls of threads, posts and failed requests together, a failed account check
as two, so that it meets one other call); three users fill pages of one or two rows so
that the last page can empty. PageSizes and MaxPage let every button be pressed.
`MaxFaults`, `MaxExpiries`, `MaxRounds`,
`MaxCrashes`, `MaxOffers`, `MaxPolls`, `MaxDbErrors`, `MaxLoads`, `MaxChanges`, `MaxUsers`,
`MaxEvents` and `MaxPage` bound counters in guards and stand for nothing in the code.

Deadlock is not checked where threads come to an end (CHECK_DEADLOCK FALSE); the
submission queue never does, and there it is.

**Fairness.** A thread that can make a step makes it in the end (weak fairness per
thread): the code runs on JVM threads that nothing suspends for ever. Clocks tick;
watch events arrive. Requests need not fail, sessions need not expire, processes need
not crash, feeds need not be dropped. The SSO modules state no liveness: a browser owes
the server no next request, so what matters is stated of the state a next request would
find (`StaleIsRefetched`), and time bounds (`IdleExpires`, `ActiveStays`) are invariants.
Beyond that:

- `BusySpec` of RedisLock and the fair specification of the seckill have strong fairness
  for `BeginRound`: a call is not overtaken by its own timeout before its first round, for
  ever. The timeouts in use are seconds, the way from the call to the loop a few
  instructions. `BusySpec` also has callers that come back, as the loop of
  `PessClientThread.run` does.
- `FairSpec` of SubmissionQueue has weak fairness for `ServiceLooks`, the scheduler's call of
  the service every 15 seconds, which prunes the queue as a side effect, and for `Proceed`, the
  steps of a task at work, whose requests have a timeout. The service prunes nothing for an
  account without feeds (`DispatcherService.java:47`) or under dispatch (line 52), and no task
  comes to an account that an exception has left under dispatch. So `FullQueueDrains` promises
  a free spot only while feeds wait and the account is not stopped: then the service prunes
  until it hands out a task, and a task prunes each time it looks for a spot.
- `FairSpec` of FeedDispatch has strong fairness for `ServiceSubmits` and `NextFeed`, the
  two steps that ask for a slot: while feeds wait, slots become free again and again, which is
  `FullQueueDrains` of SubmissionQueue, and nobody else takes them for ever, since the
  account has one dispatcher.

Type invariants are theorems (`TypeCorrect`, `SaleTypeCorrect`, `TableTypeCorrect`). The runs
of `SubmissionQueue` and `AdminTable` check theirs as well, since there they say something
of the code: how far the counters go, and that a page is a list of users.

Every property has a mutant, a plausible bug in the code it is about (a dropped guard,
a missing reset, a comparison off by one) under which TLC finds it violated; they stand
in the modules next to the definitions they change.

## 4. Proofs

All for every set of clients, feeds, tasks, tokens or requests, and for every bound.

| module | theorem | says |
|---|---|---|
| `ZkLockProofs` | `TypeCorrect`, `HolderFirst`, `Exclusion`, `Refinement`, `FirstComeFirstServed` | the lock excludes, grants in node order and implements `Mutex`, whatever is lost or expires |
| | `OrphansBounded` | a node without an owner comes from a lost reply |
| `RedisLockProofs` | `TypeCorrect`, `QuickExclusion`, `QuickMutex` | exclusion, and `Mutex`, if `MaxStall + MaxHold <= LockExpires + 1` |
| | `SaleUsesLock`, `SaleTypeCorrect`, `SaleExclusion`, `SaleNeverOversells` | the sale is a use of the lock, so with quick clients no unit is sold twice |
| | `AlwaysAccounted` | every unit is accounted for, however slow the clients |
| `OptimisticSeckillProofs` | `NeverOversold`, `LossesExplained` | no unit is sold twice; a unit without a buyer comes from a fault |
| `SimpleQueueProofs` | `ElementsKept`, `OverlapOnly`, `FirstInFirstOut` | the three promises of the queue |
| `FeedDispatchProofs` | `TypeCorrect`, `NoSecondSubmission`, `NoStrays`, `SentInOrder`, `OnlyExceptionsStop` | the safety of the dispatch |
| `SubmissionQueueProofs` | `TypeCorrect`, `OverrunsBounded` | queue and rows are never larger than the retries of one feed, the failed deletes and the entries a reload crossed make them |
| | `QuotaKept` | if `VacateSuffices`, AMTU's count is at most one request behind that of MWS |
| `SmartProofs` | `TypeCorrect`, `LogoutFinal`, `IdleEnds`, `InUseStays`, `Refinement` | all that is promised of tokens, for all timeouts and periods |
| | `DecisionsKept`, `AccountsKeptUnique` | which overlaps and failures undo a decision or make two users of one account |
| | `TableTypeCorrect`, `PostsAsAsked`, `RangeKept` | what the table posts was asked for; when it leaves its pages |
| `PermissionCacheProofs` | `TypeCorrect`, `PermissionsOfUser`, `StaleFoundOut`, `ApplicationFresh` | all that is promised of the cache, for any number of changes, messages and requests |

The arguments, each an invariant `IInv` with `Init => IInv` and
`IInv /\ [Next]_vars => IInv'`:

- *ZkLock.* `HolderStaysFirst` alone is not inductive: a new node could be smaller, and
  the node of the holder could belong to another. So `IInv` adds that the counter is above
  every node, that no node belongs to two sessions, and that a client past `create` has
  its node while its session lives. Exclusion follows since two nodes cannot both be the
  smallest.
- *RedisLock.* Exclusion alone is not inductive since the key may hold the value of a
  loser. `KeyCoversHolder` says that while somebody is inside the key is there with at
  least `LockExpires + 1 - MaxStall` less the holder's age to run, whoever wrote it;
  `ValueIsFresh` gives the same of every value not yet written; `AgesBounded` is what
  `Tick` enforces. The hypothesis then says that the key cannot have expired. It is the
  only assumption besides the types of the constants, and the code has it nowhere:
  `lockExpires` is a parameter of the constructor that its caller has to choose.
  The refinement of `Mutex` follows from exclusion, step by step.
- *PessimisticSeckill.* A step of the sale is a step of the lock, so everything proved of the
  lock holds of it. For the accounting, sets of buyers who have paid and are not listed yet
  are counted; for overselling, `StockSeen`: who has read the stock under the lock and not
  yet taken a unit still sees it, since nobody else is under the lock.
- *OptimisticSeckill.* `WatchIsSound`: a transaction Redis will not refuse is based on the
  present stock. For the losses, buyers on the list who still buy, because the reply to their
  SADD was lost, are counted against the faults.
- *SimpleQueue.* Every element is in the queue or returned and never both; a poll's list
  has no gap that was not returned; what is about to be deleted has nothing before it.
- *FeedDispatch.* Only the owner of `DISPATCH_LOCK` has a feed; the file of that feed is
  where the task's next step expects it, with as many acceptances as answers; what the
  snapshot still holds waits in OUTGOING. For the order, a second invariant says that
  whatever is older than a feed in the snapshot is in it too or is done with.

- *SsoTokens.* What is promised of time needs to know where the timer is: `SweepInv` says
  that a sweep under way began at most a tick ago. With it `NotTooOld` (idle time and what
  is left add up to no more than the timeout) and `NotOverdue` (a token stays past its time
  only until the timer has looked) bound the idle time from above. The other way round,
  `LocalInv` and `RedisInv` say that the two add up to no less, unless the user logged out,
  a race removed the token, or its extension failed or is under way. The refinement counts
  a token that a validate has read from Redis as alive until that call returns.
- *PermissionCache.* `SessionInv`: while no requests overlapped, a request under way is
  about the session's user, and permissions without a user are about to be dropped.
  `MessageInv`: a committed change that is not lost is in the topic, or the set of tokens
  was cleared since. `MarkInv`: permissions from before the last clear are marked as new
  only by a token that is raced. `LoadInv` says what the loads of the application's own set
  have fetched.
- *SubmissionQueue.* What is hard here is time. The queue's entries leave by the code's clock,
  one `Restore` after the last check or `Vacate` after they were made; requests leave the
  bucket of MWS by its own clock. A comparison of the two numbers is not inductive, for it does
  not say when either goes down. `Delay(u, n, d)` is the time MWS takes until only `n` of `u`
  requests count; `Covers` says, for each age, that MWS will have forgotten the requests which
  the entries younger than that do not stand for by the time an entry of that age vacates, but
  for the time to the next check (`Slack`). A tick lowers both sides; a prune takes an entry
  off when a `Restore` has passed; a new entry adds one `MwsRestore` to the delay, which must
  not be more than the entry's life. A restart or a reload takes over another set of entries:
  at no age does it lack more than is counted as lost, and a check that goes back in time costs
  one request. `DueBounded` says how much a task may have sent, from the spot it found and its
  attempts, so that the delay at an offer is at most what `VacateSuffices` allows,
  `(MaxQueue + MaxAttempts) * MwsRestore <= Vacate`. It is an assumption the numbers in the
  code satisfy, with 10 entries, 3 attempts, 2 minutes and 30 minutes
  (`MerchantFeedQueue.java:34-36`, `FeedDispatcherTask.java:52`); the run has equality. The
  other two theorems need none: `Overrun` counts the rows that are not in memory against the
  errors and the races, and what is in either against the attempts.
- *UserAccounts.* `DecisionsStand` needs to know of every thread that what it will write, and
  was not asked to change, is still in the row (`TasksFresh`), unless the thread is `dirty`;
  `AccountsUnique`, that the name in every form is nobody else's, or known not to have been
  verified (`TasksVerified`). Each read has to establish these, each write to keep those of
  the others: the statements on sets of rows do so by one lemma (`Writes`), since they name
  nobody anew.
- *AdminTable.* `PostsWhatWasAsked` needs `DialogInv`: the rows checked behind a dialog are
  those it asks about, or none. For the types, that `Page` finds a user for each of its rows:
  the places of the users are the numbers up to their number, without a gap (`PlaceOnto`), and
  a page is an interval of them. For `StaysInRange`, that a longer list has no fewer pages
  (`PagesGrow`).
- *FeedDispatch*, `OnlyExceptionsStop`: `underDispatch` is set and reset with the lock;
  only an exception makes a task give up the lock without resetting it, with a feed in hand
  that cannot be read or for a directory that counts as a fault.

The parts of `SmartProofs` share nothing but their file. In `RedisLockProofs` a theorem about
the lock rests on `TimeAssumption` alone, one about the sale on the assumptions of
`PessimisticSeckill` too.

**Only model-checked:** all liveness (`BusySpec` and the fair specifications; out of the
prover's reach), among it `FullQueueDrains`, the counterpart of `QuotaKept`. Every invariant
and every action property of the runs is a theorem.

## 5. What is not modelled

- *AMTU report retrieval and status updates.* Both services list what is to be done, hand a
  task to a pool, and fetch one document after another. A task works under a lock of the
  account; the one for processing reports lists its feeds anew from the database, so that
  one that was handed over twice finds nothing left to do. Scheduled reports are moved,
  acknowledged and recorded in three steps, the first of which makes later attempts fail
  (the hazard at `ReportRetrieverTask.java:90`). Their quota of requests is `SubmissionQueue`
  with other constants, except that a request that fails is not entered.
- *The bounded queue* (`DistributedQueue`). Nothing calls it, and it does not work as a queue:
  every element is created as the same node `root/n_`, so a second `offer` fails; `offer`
  deletes a start marker that may be missing; `poll` then waits for it for ever. A model would
  state that and nothing else.
- *The spin lock* of `smart-mvc` and *the mutex and the LRU* of `structures-algorithm`: no
  other code uses them. `ZookeeperLock.java:72` prints an exception and returns as if it had
  the lock, `tryLock` (line 150) leaves its node behind when it fails.
- *Roles and applications* of the SSO server (the same statements as for users, on other
  tables), its login pages, cookies and captcha.
- *Third-party code*: nearly all of the JavaScript of the repository. Of its own,
  `jquery.table.min.js` is modelled; the rules for input fields, the boxes and the permission
  tags are presentation, but for the one check of a form that `CheckAccount` contains.
- Clock skew between Redis clients; interrupts; the deletion of an AMTU account
  (`MerchantFeedQueue.delete`);
  several AMTU accounts, which share the pool of tasks and nothing else; file names, parsing,
  XML, logging and views; the pauses between retries in the dispatch; several applications
  or sessions in `PermissionCache`, which share the messages and the set of tokens and
  nothing else.

Of these, two more observations: `TransportScheduler.java:116` removes nothing, so that a
rescheduled service runs in two series; `StatusUpdaterService.java:143` takes it that every
id in the answer is one it asked for.

## 6. Findings

- **A lost wakeup in the ZooKeeper lock** (`zklock_lost_wakeup`).
  `ZookeeperDistributeLock.java:164` drops the result of `exists`. If the predecessor's
  node is deleted after `getChildren`, the watch is set on a missing node, `NodeDeleted`
  never comes, and `lock()` waits for ever. The comment above the call expects an
  exception. A timed call survives by polling.
- **The Redis lock deletes a foreign lease** (`redislock_foreign_delete`). `unlock0` reads
  the present value of the key and deletes it unless expired; a holder that overstayed
  deletes its successor's key, and a third client enters.

Met on the way:

- `isLocked()` of the Redis lock is true for ever after the first lock, because `locked` is
  never reset; `lock()` always throws.
- A feed that cannot be read stops its account until a restart: `setUnderDispatch(false)` is
  not in a `finally` block, and nobody catches what `FeedContentIdentifier` throws, at line 49
  for want of a header, at 159 for a file of less than ten bytes. A directory that is missing
  does the same (`TransportUtil.java:37`), and ends the service for all accounts if the service
  finds it so (`StoppedByException`). A feed whose answer is lost
  is submitted again; a file in TEMP when AMTU stops stays there.
- `vacateOldQueueEntries` leaves `lastCheckTime` alone, so an entry can be pruned one period
  early (`QuotaMirrored` has one to spare for it).
- An entry offered while the account is reloaded is in the database only, one pruned meanwhile
  comes back without a row (`AMTUAccount.java:956`).
- `RedisTokenManager.java:27` passes milliseconds where `RedisCache.java:57` takes minutes:
  an idle token lives a thousand times longer than configured, or so. A failed SET leaves a
  token marked as extended (`RedisTokenManager.java:34`), and it runs out under its user.
- A session whose request fetches permissions before a message clears the set, and marks
  itself fresh after it, keeps the old ones until the next change (`PermissionFilter.java:100`);
  so does one that fetches before the commit its message announces. `tokenSet` is pruned by
  the next change only.
- A login writes its user's row back: it enables a user disabled since it read the row, and
  undoes a reset of the password (`UserServiceImpl.java:66`), for the sake of a counter that
  the UPDATE statement does not contain.
- No index makes accounts unique; with two users of one account neither can log in.
- After a failed answer the next page of the table behind page 2 is 21, and a failed change of
  the page size leaves the number of pages of the old size.

## 7. Plan

*Done:* the locks, both sales, the simple queue, the submission quota, the dispatch, the
tokens and the permission cache of the SSO, its users and their table; the theorems of
section 4, which leave no safety property of a run without a proof.

*Left:* AMTU report retrieval, with a file that is there and an acknowledgement that is
not, and the status of feeds behind the dispatch; the dispatch with its slots taken from
`SubmissionQueue` in place of the open choice, which needs smaller instances of both, and a
proof that each slot it takes is one the queue offers.
