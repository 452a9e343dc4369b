# Port-Sentinel (Vigilant): TLA+ specifications and proofs

Vigilant watches the network ports of one host and can block them. This
directory holds TLA+ models of the parts of it where the order of steps, a
failure or the end of a process matters, the TLC configurations that check them
on small instances, and proofs that TLAPS checks for every instance.

Paths below are relative to `src/backend/` unless they say otherwise.

    tlc -workers 2 -config Capture.cfg MCCapturePlane      # one run
    tlapm CapturePlaneProofs.tla                           # the proofs of a module, likewise
                                                           # the other modules *Proofs

`PROJECT.json` lists the runs, a mutant of the code for each property (a
plausible bug that the property catches), the source lines each definition
stands for, the hazards the properties were written for, and the findings.

## 1. The system

Three kinds of actors run at the same time:

* the **event loop** of the web process: all HTTP and WebSocket handlers are
  coroutines on it, and so is the dispatcher. A handler that does not `await`
  is never interrupted by another one; the calls of `subprocess` in the OS
  bridges block the whole loop;
* the **scheduler thread** of the same process, plus five threads that fetch
  threat metadata. The interpreter lock makes single dict and deque operations
  atomic, and nothing else;
* the **sniffer process**, which shares one shared-memory segment with the web
  process.

| component | code | state it keeps | operations |
|---|---|---|---|
| Packet capture | `core/sniffer.py`, `SnifferProcess` | `_accum`: counters and last-seen time per port; the segment: one signed 64-byte slot per port, a bitmap | a packet, a turn of the loop (synthetic traffic, flush, pruning), exit |
| Shared-memory reader | `core/sniffer.py`, `read_*` | the copy it takes of a slot | scan of the bitmap, read of a slot |
| Dispatcher | `infrastructure/network/dispatcher.py` | the attached segment, the running flag | a pass per `emit_interval`; start, stop |
| Traffic accumulator | `application/services/metrics_service.py` | last counters, sliding window of snapshots per port | process a reading, build the table, evict |
| Firewall commands | `application/commands/firewall.py`, `presentation/api/control.py` | none | block, unblock |
| OS bridges | `os_adapters/*.py` | the host firewall; on macOS a dict and a rules file | `block_port`, `unblock_port`, `cleanup_all_rules` |
| Event bus and handlers | `application/events/*.py` | handler lists | publish; audit and policy handlers |
| Policy engine | `domain/policies/engine.py` | policies, last trigger times | evaluate a reading |
| Approvals | `application/commands/approvals.py`, `presentation/api/approvals.py` | table `analyst_approvals` | request, resolve as approved or rejected |
| Database | `core/db.py` | engine and session factory; `blocked_ports`, `audit_logs`, `analyst_approvals`, traffic history | lazy connect, reads, writes, pruning |
| Background jobs | `application/jobs/scheduler.py` | jobs with their last run, thread, stop event | start, stop, tick |
| Threat intelligence | `core/threat_intel.py` | LRU cache with time stamps | look up, fetch in the background |
| Rate limiter | `presentation/middleware/security.py` | request times per client | admit or refuse |
| Lifecycle | `app.py`, `container.py` | which components were started | start, graceful shutdown |
| Frontend client | `src/frontend/src/hooks/useSocket.ts`, `services/apiService.ts` | live table, connection state | event, reconnect, request with fallback |

How they interact. Packets reach `_accum` inside `sniff()`; every 0.1 s a flush
takes the multiprocessing lock and writes every tracked port to the segment. The
dispatcher reads the segment **without** the lock, relying on the HMAC of each
slot, turns counters into rates, stores snapshots in the sliding window, builds
the port table from it and emits it. The scheduler thread builds the same table
for the history and evicts old snapshots, on the same unlocked dict. A block
goes from a route through the command to the bridge, the `blocked_ports` table
and, over the event bus, the audit log; a triggered policy goes the same way
through an event handler, which may also open an approval; analysts ask for and
decide on approvals through the REST API, whose client sends a request again on
a second route when the network fails. At the end of the process the bridge
removes its rules, the sniffer is told to stop, and a browser that stays open
keeps its table until the next start sends it another one.

What is hard in it:

* two processes on one segment, neither copy of a slot being atomic; a writer
  that may be killed in the middle of one;
* two threads on one dict of deques, with tests and uses in separate steps;
* three stores that should agree (firewall, table, audit log) and no transaction
  over them; commands that fail, time out or half succeed, or whose result nobody
  looks at; a kill between two of them;
* a chain of firewall rules other programs edit too, addressed by line numbers;
* counters that wrap, that restart when a port is forgotten, and a wall clock;
* a database connected on first use by whichever thread comes first;
* requests that are lost, late or sent again, and handlers that break off after
  they have stored something;
* policies that compete for a port, a cooldown that starts before the action has
  succeeded, and a wall clock it is measured with;
* a program that is killed and started again around a browser that stays open and
  a sniffer nobody stopped, or started a second time while it runs;
* things that must happen eventually: a quiet port leaves the live table, a due
  job runs, a placeholder is replaced, a matching policy acts, a shutdown ends.

What makes each part correct:

* capture: what a reader accepts is one whole entry that was current during the
  read; the bitmap marks only ports that are still tracked and cleared later;
* accumulator: a rate stands for the traffic since the last reading; recent
  snapshots are kept but in two races that can be named, old ones go;
* enforcement: the list of blocked ports, the rules in force, the answers and
  the audit log tell the same story, as far as each failure allows;
* Linux chain: exactly the bridge's own rules come and go;
* policies: the audit log claims no block that is not there, and no policy starves;
* approvals: one ticket per call, and the audit log tells the decision of the table;
* rate limiter: never more than the limit in a window;
* jobs: a failing job holds up no other, and none uses the database after it was
  closed; database: its connections have their pragmas, and no failing statement
  keeps the lock;
* threat cache: one fetch per address at a time, and no placeholder for good.

## 2. The modules

| module | models | extended by |
|---|---|---|
| `SnifferCore` | the sequential part of the sniffer, as operators: a packet, ageing, synthetic traffic, packing, activity, pruning | `CapturePlane`, `TrafficPipeline` |
| `PortRegister` | what the segment promises: one register per port, read and written at one instant | instantiated by `CaptureRefinement` |
| `CapturePlane` | sniffer and reader on the shared segment, word by word | `CaptureRefinement` |
| `CaptureRefinement` | the mapping from words to registers | `MCCapturePlane`, `CapturePlaneProofs` |
| `TrafficPipeline` | packet to port table to browser: flush, pass, deltas, snapshots, restarts | `MCTrafficPipeline`, `TrafficPipelineProofs` |
| `TrafficCache` | the sliding window between event loop and scheduler thread | `MCTrafficCache`, `TrafficCacheProofs` |
| `FirewallBridges` | the operations of the three bridges, step by step | `Enforcement` |
| `Enforcement` | block, unblock, policy block; table, audit log, process life | `BlockListRefinement` |
| `BlockList` | what blocking promises when nothing fails: a set of blocked ports and a list of them | instantiated by `BlockListRefinement` |
| `BlockListRefinement` | the mapping from rules and rows to the set and the list | `MCEnforcement`, `EnforcementProofs` |
| `IptablesChain` | the Linux bridge command by command on a shared chain | `MCIptablesChain`, `IptablesChainProofs` |
| `EventBus` | registration and what publishing reaches | `PolicyResponse`, `Approvals` |
| `PolicyEngine` | rules, first match, cooldown | `PolicyResponse` |
| `PolicyResponse` | the automated response from snapshot to audit entry | `MCPolicyResponse`, `DispatcherProofs` |
| `RateLimiter` | request times per address | `ApprovalDesk` |
| `Approvals` | routes, handlers, table and audit entries of approvals | `ApprovalDesk` |
| `ApprovalDesk` | dashboards, network and rate limiter around `Approvals` | `MCApprovalDesk`, `ApprovalDeskProofs` |
| `ThreatCache` | address metadata between the event loop and the fetching threads | `MCThreatCache`, `DispatcherProofs` |
| `Database` | operations of a thread on the database, with the lazy connect | `Lifecycle` |
| `Lifecycle` | event loop and scheduler thread, from start to the end of the process | `MCLifecycle`, `LifecycleProofs` |

The `MC` modules only name sets for the configurations; the `Proofs` modules hold the
theorems about the modules they extend (section 4).

### SnifferCore, CapturePlane and PortRegister

`accum` is `_accum`; a time stamp is an age, saturated one past `PruneAge`, since the
code compares ages with two thresholds only (30 s and 300 s). Counters count packets,
not bytes. `slots`, `bitmap` and `lock` are the segment and the multiprocessing lock.
A slot is three words: one counter, the rest of the data, the HMAC. Three suffice to
tell apart a copy that mixes two writes inside the data from one that mixes data and
HMAC. The writer (`StartWrite`, `CopyWord`, `UpdateBitmap`) and the reader
(`StartRead`, `ReadWord`, `FinishRead`) each copy the words one at a time in any
order: neither Python nor the memory orders the two slice copies. The HMAC is perfect:
the `mac` word is the set of the entries it authenticates. The reader goes through the
bitmap by bytes, in order, and decides on a copy of the byte, as
`read_all_active_ports` does; `ReaderLocks` says whether a scan may take the lock,
which its parameter offers and the dispatcher leaves out. The sniffer may end at any
step (`SnifferExit`); what it leaves in the segment stays. Inside a flush an exception
releases the lock on its way out, and a kill leaves it taken. Pids, protocol, risk
score and addresses ride along in an entry, decide nothing, and are left out.
`window`, the entries that were current at some instant of the read in progress, is a
history variable. `MaxCount` bounds the packets per port, `MaxOverlap` the entries of
a port written during one read of it.

`PortRegister` is the abstraction: `Publish` in one step, a read that takes what
is published at one instant between its begin and its end, and lists it if it is
active, or comes back with nothing. `CaptureRefinement` maps an entry to
"published" when its HMAC reaches the slot, and to "taken" when the HMAC is copied
from there. A copy that passes the check is then the entry of that instant,
whenever its other words were copied.

### TrafficPipeline

A flush and a scan are single steps here; that this is what a scan amounts to is what
`CapturePlane` and its refinement say, apart from ports a scan skips, which `MayMiss`
lets it. Private counters do not wrap in the code and published ones do; deltas see
only the published ones, so both are kept modulo `CounterMod`. `last` is
`PortMetrics._last_snapshot` and is written before a rate is computed, whether or not
one results. A rate is kept as the packets it reports, without the division.
`ClockSteps` lets two passes see a clock that stands still or steps back. `shown` is
the table of the browser (`useSocket.ts`), which each emission replaces; a pass that
reads no active port emits nothing. A pass may also end in an exception, which is
logged (`PassBreaksOff`): it has come to some of the ports, may have stored only the
counters of the last one, and emits nothing.

`Restart` ends the web process and starts the program again under a new key:
the new sniffer attaches to the segment it finds, whose entries no longer
authenticate. A killed web process may leave its sniffer running, `orphan`:
nobody sets its stop event. It writes on with the key of its own program, so
that what it overwrites is unreadable until the next flush (`OrphanFlush`). The
browser stays open. `due` and `captured` are history: the packets a rate should
stand for.

### TrafficCache

`cache` maps a port to a deque *object*, because a thread may hold a deque that
is no longer in the dict; `deques` has the contents of all objects. A snapshot
is its time stamp. Each action is one operation that the interpreter lock makes
atomic, so `add` is `Add`, `Create`, `Lookup`, `PutSnapshot`; `get_port_table`
is `StartTable`, `NextItem`, `Row`, `EndTable`; `evict_stale` is `StartEvict`,
`Evict`, `Oldest`, `PopOldest`, `TestEmpty`, `Delete`, `EndEvict`. `Raise` is
the `KeyError`, `RuntimeError` or `IndexError` that ends a pass or a job. The
clock never steps back here. `quiet`, the ports all of whose snapshots were stale
when the last eviction began, is history.

### FirewallBridges and Enforcement

`block_port` and `unblock_port` are two steps each, between which the process may be
killed: check and insertion, or the deletion of the TCP rule and of the UDP rule (Linux);
the outbound and the inbound rule (Windows, with rule names without the protocol); the
rules file and the `pfctl` that loads it (macOS, which has one rule per port in a dict,
and rewrites the whole file). A step is the set of its results: the firewall it leaves,
how the operation goes on, and whether the step did all it is there for. Where firewall
commands may fail, a command may fail without effect, or time out before or after it
took effect, as `subprocess.run` may; whether that raises is up to each bridge. The
rules file is emptied and then written, and an error or a kill in between leaves a part
of the dict in it (`PartlyWritten`). `cleanup_all_rules` is one step, whose results
include every part of the work (`PartlyCleaned`).

A call is these two steps, the row and the audit entry. The handlers never await, so
calls do not interleave, but the process may be killed between any two steps, and
each step may fail. A behaviour fixes `platform` and `faults`, the set of what
may go wrong in it: firewall commands, the database, or a second start.
`Shutdown` removes the rules; `Crash` removes nothing, and `CutOff` is what a kill within
the first step leaves; `Reboot` removes what a restart of the machine removes; `Start`
reads nothing back. `SecondInstance` is the program started while it runs: uvicorn runs
the start-up of the application before it binds its port, fails, and runs the shutdown,
which removes the rules the first instance relies on. The policy kind of call is what
`EventHandlers` does when a policy triggers. History variables: `session`, the rows of
this process; `trail`, what its audit entries say last of each port; `broken`, the ports
whose last call had a failed command, failed at the table, or was killed before its row;
`torn`, on macOS, whether the rules in force may not be those of the file.

`BlockList` is the abstraction for behaviours without faults: one platform, no
protocols, a set of blocked ports of which a call changes the one it names (`Grasp`, while
it works on it, then `Act`), and a list brought up to date before the call is over
(`Record`, `Answer`). Ports a killed process left blocked (`left`) may be opened by any
call, since macOS rewrites its rules from a dict that starts empty. A kill may leave ports
in the rules file that are not in force, or in force and not in the file (`torn`): the
first (`latent`) may be blocked by the next reload, the second an unblock may take to be
open (`NothingToDo`), and both are over with that reload. No other call adds to `left`.
`BlockListRefinement` maps a port to "blocked" when some rule drops its traffic, and to
"mine" when the running process asked for it; the port that is between two commands is in
none of the sets.

### IptablesChain

`chain` is the INPUT chain as a sequence; it starts with any foreign rules and any
leftovers of an earlier process. `block_port` looks a rule up and inserts it at the
top, `unblock_port` deletes by content under the present and the former name of the
program, `cleanup_all_rules` lists and then deletes by line number from the bottom.
`todo` is the rules `unblock_port` has still to delete, `lines` the line numbers the
cleanup has. `External` is any other program, at any time. Each command of `block_port`
and `unblock_port` may fail, and any exit code of `-C` but zero, of a check that failed
as well, leads to an insertion: `unsure` (history) is the own rules of the chain whose
check or deletion failed while they were there, of which there may be a second copy.

### EventBus, PolicyEngine and PolicyResponse

`EventBus` derives which handler an event reaches from what `register_all`
subscribes; the events of approvals reach nobody. `PolicyEngine` has `policies`
in their order and `sinceTrigger`, the time since `_last_trigger` per policy id
and port. Risk and traffic are compared with thresholds, so levels stand for
them. `evaluate` is `Triggered`: the first policy that matches and is not in its
cooldown. The clock may be set back (`ClockStepsBack`, at most `MaxSteps` times),
which makes a time since a trigger negative.

A pass of the dispatcher awaits nothing between the evaluation and the emission,
so `Pass` of `PolicyResponse` is one step: any snapshot for each port, the
cooldowns, and for each event any prefix of the handler's steps (`Effects`) if
something fails. `state` is what is known of a port: is it blocked, is it
listed, does the audit log say so, and has a failure the log does not tell of made
that doubtful (history). `faulty` is whether firewall and database fail at the moment;
both may fail and recover at any time. `bridge` is none, one that raises when a rule
cannot be added, or a silent one, that of macOS, which returns True whatever `pfctl`
says. `Command` is a block or unblock by hand, whole or broken off, which `Enforcement`
has in detail. `seen` and `acted` are history. The repository registers no policy:
policies come and go through the engine's own interface (`ChangePolicies`).

### RateLimiter, Approvals and ApprovalDesk

`requests` is `_clients`, with ages for times. The middleware notes a request
before it counts, and a rejected one stays noted. `admitted` is history.

`tickets` is the table; an id is an index. A handler is `Begin`, then
`CreateTicket` or `UpdateTicket`, up to their commit (or `StoreFails`, or `Refuse` for
what the route or the table turns away), then `WriteAudit` or `BreaksOff`: what follows
a commit may fail, the SELECT that reads the new id back (`db.py:307-308`) or the audit
entry, with the ticket in the table. The event loop runs one handler to its end, so
`Begin` waits for it. `trail` is the last decision the audit log has of a ticket;
`broken` is history: what was stored by a handler that broke off.

`ApprovalDesk` adds the dashboards and the network. `Click` sends a call on the
first route. `NetworkFails` is what the wrapper of `apiService.ts` sees as a
failure of the network: it sends the request again on the second route, or ends
the call with an error. The first request may be lost, handled already, or still
on its way in `inbox`, and its answer finds nobody waiting. An error of the
server ends the call. Status and process id are checked by the routes; statuses
and ids the user interface never sends may come from a script.

### ThreatCache

`order`, `meta` and `age` are `_metadata_cache` (an OrderedDict: the order of its
keys, and their values) and `_cache_timestamps`. `get_ip_metadata` takes the lock
twice, so it is two actions: `Hit` or `Miss`, then `Mark`, which also submits the
fetch. `queue` and `fetching` are the executor. `Store` is the second lock section
of `_fetch_background`, `FetchFails` any other end of it. Local and malformed
addresses never reach the cache and are left out. `renewed` is history: addresses
whose entry was dropped, by age or by the size limit, while a fetch for them was on
its way. `RemoveFirst` removes a key from `order`, which has each key once.
Its specification is named `CacheSpec`, since `DispatcherProofs` extends it beside
`PolicyResponse`.

### Database and Lifecycle

`engine` and `factory` are `self.engine` and `self.SessionLocal`; `connect` is one
step per assignment, because each of its lines reads `self.engine` anew. An
operation is `BeginOp`, for a write `AcquireLock`, then `GetSession`, the steps of
`connect` if there is no factory, and `UseSession` or `OpFails`: any statement of the
session or of `create_all` may fail. What operations read and write is not modelled
here, only whether the tables exist. `plain` is the engines that have a connection in
their pool that was opened before the listener for the pragmas was added; `overlap`
(history) says that two threads connected at the same time.

`Lifecycle` runs two threads over it. The scheduler's thread goes through the due jobs
in their order (`StartPass` to `EndPass`; `todo` is those still to run), waits for a
second (`Tick`) or the stop event, and `last_run` moves only when a job returns
(`JobReturns`, `JobRaises`). The event loop does one operation at a time, then `Stop`,
`Join` or `JoinTimesOut`, `Close`, `Exit`. `JoinTimesOut` may happen whatever the
thread is at. After a timeout the shutdown goes on and the daemon thread runs until
the process ends.

## 3. The runs

Runs that pass:

* **Capture**: two neighbouring ports on either side of a byte boundary of the
  bitmap, scans with and without the lock, counters modulo 3, one packet per
  counter, pruning with limit 1 (both ports tracked is past the limit). 327,000
  states. `RegularRead`: a lock-free read accepts an entry published as a whole
  for that port and current during the read. `NoOrphanedBit`: pruning, which
  comes after the flush, forgets no port whose bit is set; otherwise nobody would
  clear it again. `SegmentWholeAtRest`: between flushes slots authenticate and
  agree with their bits. `ImplementsRegister`: the refinement of `PortRegister`.
  `QuietPortIsCleared` (liveness): a quiet port loses its bit while the sniffer
  lives.
* **Pipeline**: two ports, a packet between them counting for both, wrap at 3,
  skipped ports, clock steps, passes that break off, an end of the sniffer, restarts
  with and without an orphan. At most `MaxBurst` packets of a port between two reports,
  both directions together: 2, which with a modulus of 3 is all that a single wrap can
  tell. 460,000 states. `RateIsTraffic`: a rate stands for exactly the packets
  published since the port was last read, but for a port at which a pass broke off.
  Liveness: `QuietPortLeavesTable`, while a sniffer lives, and `BrowserFollows`, while
  some port is active. Nothing is forgotten in this run: that case is PipelinePrune.
* **CacheShared**: two ports, deques of length 2, so that a full deque rotates
  while it is evicted; three deque objects, so that a port is created again
  after a deletion. 1.5 million states. `EvictionIsComplete`, and
  `RecentSnapshotsStay`: a step of the eviction takes a recent snapshot in two races
  only, from a full deque that rotated after its oldest was tested, and with a port all
  of whose snapshots were stale when this eviction began. A port in steady use whose
  deque is not full loses nothing, however many of its snapshots have become old.
* **Enforce**: three platforms, two ports, two protocols, three starts, behaviours
  in which nothing fails, firewall commands fail, the database fails, or the
  program is started a second time; kills in all of them. 1.6 million states. Two ports
  tell "this port" from "another port"; two protocols are all there are; a second start
  is what a leftover of the first meets, and a third what is left of that.
  `RecordedIsBlocked`: a row this process wrote stands for rules in force, also under
  failing commands where the bridge looks at their results. `RulesAreAccounted`: every
  rule belongs to a port of the table or to one whose last call failed or was killed part
  way, whatever fails. `TrailTellsRules`: what the audit trail says last of a port is
  what table and firewall say. `AnswersAreTrue`: what a call that answered success says
  is so. `ImplementsBlockList`: the refinement of `BlockList`, in the behaviours in which
  nothing fails. Each definition names the provisos it needs, and no more.
* **Chain**: two ports, a foreign rule of each protocol, chains of up to four
  rules, which leftovers and foreign rules may fill from the start; commands that
  fail. 752,000 states. Four is both protocols of a port, or a rule twice, with a foreign
  rule and one of the former name. `UnblockRemovesAll` whatever other programs do, but
  for rules whose check or deletion failed; `CleanupRemovesAll` and `OnlyOwnLinesGo` when
  nobody edits the chain meanwhile.
* **Policies**: three policies, one per action; two share an id, so that a
  cooldown may be another policy's; one port, a cooldown of two ticks, one
  backward step of the clock, without a bridge and with a silent one, which may do
  all that one that raises may. 296,000 states. Ports share nothing but the list of
  policies, so one suffices. `TrailIsTrue`: the audit log claims no block that is not
  there, but for two failures the program cannot tell: a rule a silent bridge did not
  load, and an unblock broken off before its entry. `MatchingPolicyActs`
  (liveness): a policy with an id of its own, on a port that goes on to match
  it, acts again and again.
* **Approvals**: two dashboards behind one address, two calls, which make up to
  four requests, one ticket of a policy, two requests per window of two ticks.
  4 million states. Two calls are what it takes for two decisions on one ticket,
  or a decision on a ticket that was opened twice. `OneTicketPerCall`: a call
  opens a second ticket only when the network failed it, and leaves none behind
  an error unless the network failed as well or its handler broke off after the commit.
  `TrailTellsDecision`: between handlers, table and audit log have the same decision.
  `AdmittedPerWindow`: the limit holds for an address others share.
* **Threats**: three addresses for a cache of one, two threads, an expiry, a
  failed fetch. 178,000 states. A cache of one makes every second answer evict
  something; three addresses let answers overtake each other. `SingleFlight`: the
  comment at `threat_intel.py:105` says the placeholder prevents a second fetch; it
  does, except for an address whose entry was dropped before the first fetch
  answered. `PlaceholderEnds`: no placeholder is left for good, unless a fetch
  failed.
* **Lifecycle**: three jobs, the flush at every tick, the others at every second
  one; tables that exist or not; any statement may fail. 21,000 states.
  `FactoryIsConfigured`: whoever replaced whose engine, in the end the factory's engine
  has its listener, and unless two threads connected at once all its connections have
  the pragmas. `CleanClose`: no job uses a database that is closed, unless `stop` gave up
  waiting. Liveness: `DueJobRuns`, `RequestIsAnswered`, `ShutdownEnds`, the last without
  the help of the timeout.

Runs that find a violation of what a document, comment or test says:

* **PipelinePrune**: a port forgotten after 300 s (with more than 5000 others;
  `PruneLimit = 0` stands for those) and heard of again starts at zero, the
  overflow guard adds 2^64, and the rate, that difference over the elapsed time, is
  absurd.
* **EnforceRestart**: shutdown removes the rules and keeps the rows, so after a
  restart `/api/blocked` lists open ports.
* **EnforceMac**: blocking UDP on a port opens its TCP.

`CHECK_DEADLOCK FALSE` stands where a process may be down for good (Enforcement,
bounded starts; Lifecycle, after the exit) and where bounds end a behaviour
(Threats).

### Seen and left without a run

Documents and code disagree in places, and the code has gaps, that need no model
to see:

* src/README.md:72 says a torn read is retried in the next millisecond, while the
  dispatcher reads once per pass; src/README.md:194 says every firewall
  modification is audited, while the rules removed at shutdown are not, nor are those of
  other ports that the first block on macOS after a kill and a restart drops, the dict
  being empty (`darwin_bridge.py:190-196`).
* A kill on macOS between the rules file and `pfctl` (`darwin_bridge.py:191-193`,
  `:225-226`) sets the two apart: a later unblock of a port that is gone from the file
  answers success and leaves its rule in force, and a later unblock takes a port over from
  the file whose rule was never loaded and blocks it (`torn` and `latent` in `BlockList`).
* A check of the Linux chain that fails for whatever reason (`linux_bridge.py:136-145`)
  lets a second copy of a rule in, of which `unblock_port` deletes one.
* A connection that `create_all` of one thread opens on the other's engine before its
  listener is added (`core/db.py:93-108`) stays in the pool and does not enforce foreign
  keys.
* `create_analyst_approval` reads the new id after its commit (`core/db.py:307-308`); a
  failure there reports an error and leaves the ticket.
* `presentation/api/approvals.py:54` and `application/commands/approvals.py:78`
  resolve "a pending approval", and `core/db.py:310-320` updates it whatever its
  status: a decision may be overwritten, with an audit entry for each.
* The network map (`NetworkMapPage.tsx:476`) asks for an approval for process 0,
  which the route answers with 400.
* Two steps of `evict_stale` (`metrics_service.py:155`, `:158`) may lose a fresh
  snapshot when one is added in between; the two users of the cache can make each
  other raise (`Raise` in `TrafficCache`).
* The dispatcher overwrites the risk score of a snapshot and hands no remote
  address to `process_port_data` (`dispatcher.py:86-95`), so the score that method
  derives from threat data (`metrics_service.py:214-231`) is lost.
* A cleanup of the Linux chain deletes by the line numbers of an earlier listing
  (`linux_bridge.py:202`); an edit in between makes it delete another rule.
* A database write that fails after the rule was added leaves a rule no row
  names; `unblock_port` on Linux and Windows and both operations on macOS return True
  whatever their commands returned. These are provisos of `Enforcement`.
* A key kept by `SENTINEL_HMAC_KEY` (`infrastructure/config/settings.py:71`) makes the entries of
  an earlier run authenticate: a new sniffer then has ports in its segment it
  does not track, and counters that go back. `Restart` models a new key.
* After the sniffer has ended, every pass stamps its dead entries anew, so they
  stay in the live table.
* Policies that share an id share its cooldown, and one may starve the other. So
  may, for a single policy, more others that match and come first than there are
  passes in a cooldown.
* The threat cache outgrows its limit: placeholders are inserted without looking at
  it, an answer evicts one entry, and an answer whose own entry was evicted puts it back,
  so that the excess stays (`threat_intel.py:93-107`). Placeholders of failed fetches
  stay for an hour.
* `core/db.py:54` calls the write lock reentrant, and it is a plain lock, which no
  operation enters twice. A `create_all` that fails is not tried again, so without
  tables every operation fails until the process restarts. A process that never
  used its database raises in `close`.

### Fairness

Packets, requests, changes of the policies, failures, restarts and the shutdown
are promised nowhere. What is:

* Capture plane and pipeline: weak fairness of the sniffer's and the
  dispatcher's steps: both are `while` loops that the operating system
  schedules, an exception in a pass is caught and the loop goes on, and not every pass
  ends in one. Strong
  fairness of `Tick` in `CapturePlane`: `sniff()` lasts `CAPTURE_INTERVAL`, so time
  passes while the sniffer captures, again and again. Strong fairness of
  `StartFlush`: it waits for a lock that a scan which takes it leaves free between
  two passes, for a second by default. In `TrafficPipeline` weak fairness of the
  clock too. A sniffer may end, so that the properties there speak of behaviours in
  which one runs from some time on, `<>[]running`.
* Policies: weak fairness of passes and of the clock, and at least one pass in a
  tick: the dispatcher sleeps for `emit_interval`, a second, and the cooldown is a
  minute. For policies to be served in turn there must not be more of them than
  passes in a cooldown; the run has three of each.
* Threat cache: the executor's threads take what is queued, and a fetch ends after
  the two seconds of its timeout at the latest.
* Web process: weak fairness of both threads and of the clock, since jobs catch
  their exceptions and every database operation ends. None of `JoinTimesOut`: nothing
  makes a thread slow. Strong fairness of taking
  the write lock: the scheduler sleeps a second between two passes, and a thread
  that waits for a lock is woken when it is released.

The other modules promise nothing and state no liveness. A call of a dashboard
ends only if the network lets it, and the commands of the firewall are straight
lines of code.

## 4. The proofs

`CapturePlaneProofs` proves, for any sets of ports, synthetic ports and packets,
any thresholds with `ActiveWindow <= PruneAge`, any modulus, and any bounds:

* `TypeCorrect`: `Spec => []TypeOK`;
* `ReadsAreRegular`: `Spec => []RegularRead`;
* `BitsAreOwned`: `Spec => []NoOrphanedBit`;
* `SegmentIsWhole`: `Spec => []SegmentWholeAtRest`.

The assumptions are `SnifferAssumption` and `CaptureAssumption`. The inductive
invariant (`Invariance`) is

    Inv == TypeOK /\ ControlOK /\ WindowOK /\ FlushOK /\ NoOrphanedBit

`RegularRead` is not inductive: it says nothing until the last word is copied.
`WindowOK` is what holds on the way: every HMAC in the slot being read, in the
entry being written to it and in the copy belongs to an entry of `window`; a
copied HMAC can then only vouch for such an entry. `ControlOK` ties the program
counters to the port in hand. `NoOrphanedBit` needs `FlushOK`: within a flush,
bits of ports already written agree with the ages the flush started from, since
time only passes outside of one; so at `EndFlush` every set bit is of a port
within `ActiveWindow`, which pruning keeps. `SegmentWholeAtRest` speaks of the
time between flushes; `SegmentOK`, its strengthening, says of every instant that
a living sniffer that every slot but the one it is writing is whole, and of that one
(`CopiedOK`) that only the words still to be copied may differ from the entry being
written. There is one lemma per action of the sniffer, one for the reader, and
lemmas for the operators of `SnifferCore`.

It also proves, from the same assumptions, that the plane implements `PortRegister`:

* `Refinement`: `Spec => ImplementsRegister`.

The proof adds `PendingOK` to the invariant: what a flush has still to write has wrapped
counters, so that it may be published. Copying the HMAC to a slot is `Publish`
(`CopyWordPublishes`), copying it from there is `Take`; `StartRead` is `BeginRead`,
`FinishRead` is `EndRead`, `EndScan` is `Deliver`, and every other step leaves HMACs and
reader alone and is a stutter.

`TrafficPipelineProofs` proves, for any ports, thresholds, modulus and bounds, from
`SnifferAssumption` and `PipelineAssumption`:

* `TypeCorrect`: `Spec => []TypeOK`, whatever is pruned;
* `NothingLostOrCountedTwice`: `Spec /\ NothingForgotten => []RateIsTraffic`;
* `FewPortsAreNotForgotten`: `Spec => []RateIsTraffic` for at most `PruneLimit` ports.

Without the proviso the property is false, which is the run PipelinePrune.
`NothingForgotten` says that no flush drops a tracked port. The invariant is

    Inv == TypeOK /\ CountersOK /\ TrailOK /\ RateIsTraffic

`RateIsTraffic` says nothing of the packets on their way. `TrailOK` does: the
counters in the buffer, in the segment and in the accumulator's baseline of a port
are apart by what was captured and not published, and by what was published and not
reported, up to one wrap (`Ahead`). `CountersOK` says why there is no second wrap:
counters are below the modulus, and by `PipelineAssumption` fewer packets
than the modulus (2^64 in the code) are outstanding at a time (`WithinBound`).
A whole pass and one that breaks off keep these alike. `SafeDeltaIsDistance` is the lemma
that the guard of the accumulator inverts such a wrap.

`TrafficCacheProofs` proves, for any ports, sizes, ages and clock, from
`CacheAssumption`:

* `TypeCorrect`: `Spec => []TypeOK`, with it that no deque exceeds `MaxEntries`;
* `EvictionLeavesNoStale`: `Spec => []EvictionIsComplete`;
* `EvictionsKeepRecent`: `Spec => RecentSnapshotsStay`, an action property.

    Inv == TypeOK /\ DequesOK /\ LoopOK(loop) /\ JobOK(job)

Neither property is inductive, because each thread acts on what it has looked up. An
eviction decides on the first snapshot only, so `DequesOK` says that deques are in the
order of time and that no two ports share one. `LoopOK` says that what the event loop
adds is not older than anything there is. `JobOK` says how far an eviction has come: the
ports it is done with have nothing stale; those that were not quiet when it began keep a
recent snapshot, even when a full deque rotates under it, since what is added is newer
than its cutoff; the deque it is about to pop had a stale snapshot and still has it, or is
full by now; and it deletes only ports that were quiet.

`EnforcementProofs` proves, for any ports, platforms, faults, ends and numbers of
starts, from `BridgeAssumption` and `EnforcementAssumption`:

* `TypeCorrect`: `Spec => []TypeOK`;
* `RowsAreInForce`: `Spec => []RecordedIsBlocked`;
* `NoRuleIsForgotten`: `Spec => []RulesAreAccounted`;
* `EntriesAreTrue`: `Spec => []TrailTellsRules`;
* `SuccessIsTrue`: `Spec => []AnswersAreTrue`;
* `Refinement`: `Spec => ImplementsBlockList`, which is `List!Spec` for the
  behaviours without faults.

The first lemmas say what each step of a bridge does and what a kill leaves of it, over
all platforms and results. The inductive invariant is

    Inv == TypeOK /\ CallOK /\ BridgeOK /\ ProgressOK /\ AnswersAreTrue
           /\ AccountsOK /\ SessionOK /\ TrailOK /\ TornOK

The properties speak of the time between calls. `ProgressOK` is what a call has
achieved between its steps (`HalfBlocked`, `HalfGone` between the two of the bridge), and
makes the answer true when it is given. `AccountsOK` carries `RulesAreAccounted` through a
call, `SessionOK` carries `RecordedIsBlocked`, with the port of an unblock excepted
between its bridge and its row, `TrailOK` carries `TrailTellsRules`. All need the
memory of macOS: a reload takes the rules of every port from the dict and the file, so
`AccountsOK` speaks of both as well as of the rules, `BridgeOK` says that the rules are
those of the file unless a reload is due or was cut off, and `SessionOK` asks of a port
this process blocked that it is still in the dict (`Tracked`), whatever happens to other
ports. `TornOK` says that a cut-off reload is over once this process has blocked a port.

`Refinement` follows from the same invariant. Without faults `SessionOK` and
`ProgressOK` give `InForce`: the ports of this process have rules before and after
every call, and the port of the call has rules or none, as was asked. `FileOK` says that a
file that is in force names the ports that are blocked, so that a bridge gives no other
port a rule it did not have. The first step of a bridge is `Grasp`, or `Act` if it
returns, or `NothingToDo`; the second is `Act`; `WriteRow` is `Record`, `WriteAudit` is
`Answer`, and the steps of the process map to those of the same name.

`IptablesChainProofs` proves, for any ports, rules of others and length of the chain,
from `ChainAssumption`:

* `TypeCorrect`: `Spec => []TypeOK`;
* `UnblockingRemovesAll`: `Spec => []UnblockRemovesAll`;
* `CleaningRemovesAll`: `Spec => []CleanupRemovesAll`;
* `CleaningSparesOthers`: `Spec => OnlyOwnLinesGo`, an action property.

    Inv == TypeOK /\ OwnOnce /\ BlockOK /\ UnblockOK /\ CleanupOK

One `-D` per name and protocol is enough only because no rule of the program is in the
chain twice (`OwnOnce`), and it is not because what is about to be inserted was looked
for, and nobody else adds it (`BlockOK`). `UnblockOK`: what is left of the port is
still to be deleted. All three except the rules of `unsure`. `CleanupOK`: the line
numbers to come are those of the own rules, as long as nobody else edits the chain;
deleting the greatest moves none of the others.

`DispatcherProofs` is about the two services the dispatcher asks for every snapshot;
they share no state. It proves of `ThreatCache`, for any addresses, finite pool of
threads, size, age limit and number of failures, from `ThreatAssumption`:

* `TypeCorrect`: `CacheSpec => []CacheTypeOK`;
* `FetchedOnce`: `CacheSpec => []SingleFlight`.

The inductive invariant is

    Inv == CacheTypeOK /\ FetchOK /\ AskingOK

`SingleFlight` alone is not inductive: that an entry keeps a second fetch away says
nothing while there is none. `FetchOK` adds that an address with a fetch on its way and
no entry has had its entry dropped, and `AskingOK` that this is still so between the
two sections of `get_ip_metadata`, when answers may come and go. `Flights` counts the
fetches in the queue and at the threads. `Submitted`, `TakenOut` and `ThreadChanges`
say how the two numbers change; a thread that takes a fetch moves it from one to the
other. `RemoveKey`, `AppendKey` and `TailKeys` keep `order` a list without repetition.

And of `PolicyResponse`, for any policies, ports and snapshots, from
`ResponseAssumption`:

* `TrailIsAlwaysTrue`: `Spec => []TrailIsTrue`;
* `ResponseTypeCorrect`: `Spec => []TypeOK`, for any cooldown, number of policies and
  number of backward steps of the clock, from `PolicyAssumption` too.

The invariant of the first adds only types. The work is in `BlockingTrue` and its like:
however many steps of a block or an unblock succeed, and whether or not a silent bridge
loaded the rule, the port they leave claims nothing wrong that is not in doubt, because
the audit entry comes last.

The types of the engine are not inductive as `TypeOK` states them: nothing in
`sinceTrigger[k] >= -MaxSteps` keeps another backward step from passing the bound.
`EngineOK` says that the time since a trigger is at least minus the backward steps so
far. `WithoutFacts` says what `remove_policy` leaves: a list of policies, no longer than
before, with exactly the policies of other ids. `Without` builds that list place by
place, and the argument is an induction over it: `LeastNumber` gives, from the
well-foundedness of the naturals, the shortest beginning of the list for which the fact
fails, and there is none (`KeepsExists` for the recursive function itself).

`ApprovalDeskProofs` proves, for any dashboards, addresses, limits and bounds, from
`LimiterAssumption`, `ApprovalAssumption` and `DeskAssumption`:

* `TrailAlwaysTells`: `Spec => []TrailTellsDecision`;
* `OneTicketEach`: `Spec => []OneTicketPerCall`;
* `LimitHolds`: `Spec => []AdmittedPerWindow`;
* `TypeCorrect`: `Spec => []TypeOK`, with it that no ticket has an id beyond the bound
  of the model and that a dashboard waits for one request at a time.

The inductive invariant of the first is

    Inv == RequestsOK /\ ServerOK
    ServerOK == TablesOK /\ HandlerOK /\ EntriesOK

`TrailTellsDecision` says nothing while a handler runs, so `EntriesOK` says what
holds then: table and log differ only in a ticket whose handler still owes the
entry, or whose entry was lost. `HandlerOK` is what makes the entry right when it
is written: there is one handler at a time, and the decision it has stored is the
one in the table. There is one lemma per step of a handler, and lemmas for what
the dashboards and the network do to the requests.

`OneTicketEach` needs `CallsOK` besides: of a call the network has never failed there
is one request, in `inbox` or with a handler, and while it is there the caller has no
answer, and no ticket of the call exists before its handler stores one
(`AttemptsOf`); afterwards there is one at most (`TicketsOf`). What a call that failed
sends a second time only concerns the exception the property makes.

`LimitHolds` needs `LimiterOK`: counted from the newest, every request let through is
at least as old as the one in the list of its address, and out of the window where the
list has none (`Matched`). A request that is turned away makes the list newer, so the
list alone would not do. When one is let through, its list has at most `MaxRequests`,
so of all let through only the newest so many can be in the window (`Limited`).

`TypeCorrect` needs `LimitsOK`, because nothing in the code counts tickets: their number
is bounded only by the attempts there can be, two of a call. `Booked` gives every ticket
a slot of its own, the attempt that opened it or a number of a policy's, and `Spent` says
that this attempt is over and is not made again. That asks for `AttemptsDistinct`: no
attempt is under way twice, and a call that waits for its first attempt has not made its
second. `SlotsCount` counts the slots. `LimitsOK` was checked on the instance of the run
`Approvals` before it was proved.

`LifecycleProofs` proves, for any jobs and intervals, whether or not the tables exist,
and whatever statements fail:

* `FactoryAlwaysConfigured`: `Spec => []FactoryIsConfigured`;
* `CloseIsSafe`: `Spec => []CleanClose`;
* `TypeCorrect`: `Spec => []TypeOK`, with a schedule (`ScheduleOK`) of its own.

The assumptions are `DatabaseAssumption` and `LifecycleAssumption`: there are
exactly two threads, the event loop and the scheduler's. The inductive invariant is

    Inv == DbInv /\ ControlOK /\ UsedOK /\ CloseFailsOnlyUnused
    DbInv == DbTypeOK /\ EngineOK /\ FactoryOK /\ PlainOK

`FactoryIsConfigured` is not inductive, because a thread that connects publishes
its engine before it adds the listener, and the other one may bind the factory to
it meanwhile. `FactoryOK` says that such a factory is bound to the current engine,
that its creator adds the listener next, and that the other thread is past
replacing either. The argument needs that there are two threads: a third could
replace the engine between the two steps. `PlainOK` says that as long as the two have
connected one after the other, whoever is past adding a listener finds one on the current
engine. `UsedOK` carries `CloseFailsOnlyUnused`: as long as
there is no engine, whoever used the database is still about to create one, so it
is not idle, and `ControlOK` says that both threads are idle at a close that was
not forced. `DbStepKeeps` and `DbStepLocal` are about one operation of either
thread; the other lemmas take the steps of the process in turn.

Only model-checked:

* liveness (`QuietPortIsCleared`, `QuietPortLeavesTable`, `BrowserFollows`,
  `MatchingPolicyActs`, `PlaceholderEnds`, `DueJobRuns`, `RequestIsAnswered`,
  `ShutdownEnds`), which is out of the prover's reach.

Every invariant and every action property that a run checks is a theorem.

## 5. The plan

What is left: the cache of application names (`metrics_service.py:237-264`), the wait
of the dispatcher for the segment, start and stop of plugins.

## 6. Not modelled

Read-only queries, encoding and delivery, data classes, configuration, logging,
migrations and the pages of the frontend change no state that others see. The
watchdog and the InfluxDB writer are written and never started. Plugins: the
repository ships none. `set_cooldown` and the `on_trigger` callbacks of the policy
engine are called and registered by nothing, nor are asynchronous handlers,
`unsubscribe` and `clear` of the event bus while the program runs; the approval
entity with its own `resolve` is used by nothing. In the frontend, sparklines and
the connection flag are left out. The traffic history is written and pruned by jobs,
of which `Lifecycle` has the schedule and the connection but not the rows. The rest
is in the plan, and `PROJECT.json` has a line for each component.
