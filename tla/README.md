# inference-track: models, checks and proofs

This directory is the verification development of the inference-track repository
(vLLM serving, load tests, gateway, autoscaler, disaggregation proxies and the
scripts that run them on spot GPUs). TLA+ modules model the parts that keep
state or run concurrently, TLC checks them on small instances, and TLAPS proves
their safety for every instance, except for the sums of the accounting.

    tlc  -config MCScaler.cfg MCScaler.tla          # one run, see "Runs"
    tlapm ScalerProofs.tla                          # one proof module

Paths below are relative to `src/`. PROJECT.json maps each definition to the lines
it models; its `hazards` list says what can go wrong where.

## 1. The system

The projects p01-p15 are separate programs that talk through HTTP, files and the
Docker/AWS command lines. Nothing shares memory across programs.

| part | state it keeps | operations | interacts with |
|---|---|---|---|
| Gateway `p13-ai-gateway/gateway.py` | class-level dict of token buckets; per request: attempt, clock, head; JSONL log | `TokenBucket.take`, `_bucket`, `do_POST`, `_serve`, `_relay_from`, `relay` | two backends over HTTP; its log line is for whoever reads it |
| Autoscaler `p11-autoscaler/scaler.py` | desired, two streaks, last action, JSONL log | `queue_depth`, `decide`, loop of `main`, `actuate` | vLLM `/metrics`, `docker compose` |
| Multi-turn proxy `p10-disagg/proxy-0.29.0.py` | `ConversationKVCache`, instance iterators | `get`, `put`, `evict_stale`, `_handle_request`, the two stream readers | prefill and decode instances |
| Minimal proxy `p10-disagg/mini_proxy.py` | none | `do_POST`: two sequential legs; `do_GET` | prefill, decode |
| Prefix proxy `p04-prefix-proxy/proxy.py` | `rr_counter`, JSONL log | `_route_key`, `_pick`, `do_POST` | backends |
| Load harness `p02-bench/bench.py`, `libs/metrics.py` | attempt and arrival times per task; rows, summary, CSV | `one_request`, `wave`, `amain` | any of the servers; used by p03, p04, p08, p09 |
| Chunked-prefill experiment `p08-chunked-prefill/experiment.py` | three samples of latencies; CSV per phase | base wave, mixed wave | the harness's `one_request` |
| Multi-turn workload `p04-prefix-proxy/workload.py` | history and rows per conversation, in memory until the end | `conversation`, groups of `amain` | the harness's `one_request`, the prefix proxy |
| Pressure drivers `p03-kvcalc/pressure.py`, `p09-paged-attn/pressure.py` | wave locals, a sampler task with its peak and stop flag, report | ramp, waves, sampler | vLLM, the harness's `one_request` |
| Matrix runners `p05`, `p06` `serve-matrix.sh`, `p08`, `p09` `run-matrix.sh` | override file, results directory | write, up, wait, measure, probe, down, compare | one container by name |
| GPU session `infra/aws/*.sh` | `.instance-id`, cron line, idle stamp file | launch, stop, boot, autostop | EC2 |
| Fault injection `p14-chaos/faults.sh` | none | kill-replica, throttle-gpu, spike | the same container |
| KV arithmetic `libs/kv_math.py` | none | `total_gb`, `fits`, `max_batch` | the ramp of p03 |
| Monitor `p03-kvcalc/monitor.py` | armed or not; append-only CSV | one poll | vLLM `/metrics`, next to a driver |
| Cost and SLO accounting `p12-cost-dash/accounting.py`, `p14-chaos/slo.py` | none | folds over result CSVs | files of the harness and its siblings |
| Quality and acceptance probes, kernel, tables, plots | none | one request or one formula | files |

What makes each of the modelled parts hard, and what being correct means for it:

* **Rate limiter.** Threads look a bucket up, build one and store it without a
  lock, and `take` refills lazily from the time of the last take. Correct: no
  bucket grants more than capacity plus refill in any window; tenants, which are
  names cut at 64 characters, never share a bucket; a bucket in use is not replaced.
* **Degradation chain.** Three attempts, two `except` clauses, three clocks, a
  client that may leave or stall, and a relay loop that raises into the same clauses as a
  failed connection. Correct: primary, retry, fallback, 503 in that order and only
  when due; one answer; a log line that is true, because it is the only record of
  what was served from where; a bound on the wait for backends; an end to every
  request whose client does not stall for ever.
* **Autoscaler.** State in one process that dies with a failing actuation;
  streaks, cooldown and blindness interact. Correct: commands follow unbroken
  streaks, never twice within a cooldown of one process; lasting pressure is
  answered by a loop that lives, whatever died before; lasting idleness by a loop
  that never died, because one that did does not know of its predecessor's replicas.
* **Multi-turn proxy.** Handlers interleave at every await; the cache's TTL and
  the decode instance's timeout run on different clocks. Correct: blocks are used
  once, by their own conversation, and not after they may be gone, as far as a
  TTL that starts with D's last chunk can tell.
* **Minimal proxy.** Everything after the parse is in one `try`, the two writes of
  an answer included. Correct: one whole answer, and no second one into a client
  that stays.
* **Prefix proxy.** An unlocked counter, and a relay that can fail before, between
  and after head and first chunk. Correct: turns are taken again after any race;
  one line and one answer per request.
* **Load harness and the scripts on it.** Retries, batched chunks, several ends of
  a stream, totals from a slice of a growing list, results told apart by their
  place in a gather, turns built on turns, Ctrl-C, chunks that are dropped for the
  usage in them. Correct: no token is counted that was not sent, nor one twice,
  totals and samples are of their own rows, histories extend histories, a file
  holds whole units, a script that begins ends with every row.
* **Accounting.** Division by totals that may be zero, rows that failed or served
  nothing, buckets cut from a sequence. Correct: parts add up to the whole.
* **Pressure drivers and monitor.** A sampler task next to each wave, a prediction
  that may be 0, an alert that polls a moving value. Correct: what is reported was
  seen in the wave it is reported of; no wave hangs on its sampler; alerts are
  apart, although usage moves between a fetch and its judgement.
* **Matrix runners.** `set -e`, Ctrl-C, one container for all, health polls without
  a time limit. Correct: every result is of the script and configuration it is filed
  under; a comparison has all of them; a runner hangs on nothing but such a poll.
* **GPU session.** Scripts that die between two commands, an instance no file
  names, a stamp file, a boot that finds no checkout. Correct: only idle samples
  switch a host off, and a host on which the autostop is installed does not idle for
  ever. One on which it is not installed does, and after a first boot that is the
  rule (section 5).

## 2. Modules

| module | models | state and actions |
|---|---|---|
| `EagerBucket` | what a token bucket promises | `level` topped up every tick; `TopUp`, `Grant`, `Refuse` |
| `RateLimiter` | `TokenBucket`, `Gateway._tenant`, `Gateway._bucket` | `Header` and `Cut` make a tenant of a request (`TenantOf`); `buckets`, `tokens`, `ts` as in the code, `step`/`b` the thread's position and local; `Lookup`, `Build`, `Publish` are the three steps of the unlocked check-then-set, `Take` is the locked `take()` |
| `DegradationChain` | what README and docstring of P13 promise of one request | `stage`, `result`: how far down the chain, and how it ended by its line in the log |
| `Gateway` | `do_POST`, `_serve`, `_relay_from`, `relay` | `pc`/`leg` the thread's place, `age`/`quiet` the attempt's clocks, `reason` = `last_err`, `out` the heads written, `log` the line; `gone` and `stuck` what the client does to the thread; one action per return, exception or write |
| `Scaler` | loop of `main()` beside `decide()` | `su`, `sd`, `desired`, `cool` the locals; `exec` the option; `actual` the replicas, `most` those the compose file can run; `Poll`, `Actuate`, `ActuateFails`, `Record`, `Die`, `Restart` |
| `GatewayDeadline` | `Gateway` with the client's clock beside it | `Operation` tells the socket waits of an attempt before its body apart (connect, sends, each recv of status line and headers), `made` counts them; `waited` counts where `punctual` threads run when they can |
| `ConversationProxy` | cache and handler of `proxy-0.29.0.py` | `store`, `kept` the cache and its age, `idle` the age of D's blocks, `late` how long D's last chunk took; an action per stretch between two awaits |
| `MiniProxy` | `mini_proxy.py` | `at` the thread, `reply` the answer it writes and `guarded` whether inside the `try`, `out` the heads and bodies written; an action per leg and way it fails, and per write |
| `DisaggProxies` | composition: either proxy in front | `front`, and the variables of both |
| `PrefixProxy` | P4 proxy | `counter`, `loaded`: `rr_counter += 1` is a load and a store; relay, 502 and `finally` are separate steps |
| `BenchHarness` | `one_request`, `wave`, the sweep of `amain` | `tokens`, `usage`, `attempt` per task, `rows`, `csv`; an action per event a task can meet; a `Chunk` carries tokens, a usage (or a null), or both |
| `Workloads` | composition: the three scripts on `one_request` | `driver` the script; `samples` of the experiment, `history`/`said` of the conversations, `Prompt` the text a turn sends; `Interrupt` is Ctrl-C |
| `Ledger` | `accounting.py`, `slo.py` | operators: `Groups`, `Burn`, `MttrProxy` over the rows `Workloads` files |
| `MemoryPressure` | `kv_math.py`, both drivers, sampler, server queue | `coming`/`running`/`waiting` the requests of the wave, `retries` those that are sent again, `peak`, `stop`, `sampler`; `RampWave` (p03), `NextWave` (p09) |
| `Monitor` | composition: `monitor.py` next to a driver | `usage` the gauge, `page` what was fetched, `alerted`; `Fetch`, `Judge`, `EndWatch` |
| `GpuHost` | the four runners and `kill-replica` | `pc` the command of the running `script`, `override` of each script, `config` whose and which configuration the container has, `health` |
| `GpuSession` | `spot-launch.sh`, `stop.sh`, `user-data.sh`, `idle-autostop.sh` | `state` of instances, `tracked` = `.instance-id`, `checkout` the operator's clone, `armed` what `UserData` made of it, `since` the age of the stamp |
| `...Proofs` | theorems, see section 4; `MonitorProofs` is about `MemoryPressure` too, `GatewayProofs` about `GatewayDeadline`, `DisaggProxiesProofs` about both proxies, `GpuHostProofs` about `GpuSession` | |
| `MC...` | instances for TLC and claims of the documents | |

`RateLimiter` implements `EagerBucket` with `level` = the refilled tokens; `Gateway`
implements `DegradationChain` with `stage`/`result` read off `pc`, `leg` and `log`;
a request that loses its 503 and its line is for the chain one that stays exhausted
and never ends, which is the promise it breaks (`EveryRequestLogged`, section 5).
The limiter's answer is a free choice in `Gateway`, so what holds there holds for
whatever `RateLimiter` answers. `Workloads` and `Monitor` extend the module they
compose with; `DisaggProxies` extends one proxy and instantiates the other. Where a
script, proxy or option is chosen once, at the start, the choice is a variable that
`Init` leaves open and no step changes.

Each module has one type invariant, and each of them is a theorem.

Two definitions are written so that they can be reasoned about as well as
evaluated: `MaxBatch` names the batch where the loop of `max_batch()` stops
(`StopsAt`; that there is one is `LoopStops`, that it is the largest that fits
`PredictionIsTight`), and the tasks of a wave are numbered up to `MostTasks`, a
bound on every wave, of which `Start` puts the first ones to work.

Operators named `Mut...` are plausible bugs: each property has one that replaces a
definition and makes TLC find the property violated.

Abstractions. Bodies, prompts and headers are model values or left out. Times are
ticks; counters that are only compared with a threshold stop one beyond it, so
the runs are not bounded in time. Tokens of a bucket are integers (`Unit` to a
request); rounding of floats is not modelled. HTTP servers behind the proxies,
EC2, Docker and vLLM are external: they may do at any time what the code has a
branch for. Latencies are kept only where something is decided by them: the time
of a row in `Ledger` is the number of tokens made for it, and which rows are slow
is left open. The cron job compares seconds of a clock that is read some way into a
run; the model counts runs, and lets the one that completes the grace period find it
a second short.

## 3. Runs

| run | instance | what it shows |
|---|---|---|
| `limiter` | 3 threads of one tenant under two names with the same cut, 1 of another, capacity 1.5 requests, half a request refilled per tick, 3 ticks | `WindowBound`, `Isolated`, `SettledForever` under every interleaving of the unlocked lookup; lazy refill implements the eager bucket |
| `gateway` | 1 request, SLO 2, 4 socket operations before the body, head of 2 chunks, body of 3, with fallback, threads punctual or not | chain kept (`ImplementsChain`, `NoHastyFailover`), log true, everyone who waits answered, no wait for the first head beyond `WorstWait` = 48 ticks, every request ends whose client does not stall for ever |
| `scaler` | 1..3 replicas, a compose file that runs 1, 2 or 3, dry run or `--exec`, streaks 2 and 3, cooldown 3 | streaks unbroken, cooldown kept in one life, `main` agrees with `decide`, pressure and idleness answered, each where it is |
| `conversation_proxy` | 2 conversations, 3 + 2 turns, TTL 1, abort 2, 1 P and 2 D; or 3 requests to the minimal proxy | single use, previous turn, blocks alive at handoff unless the last chunk was too late; one whole answer |
| `prefix_proxy` | 3 requests without prefix, 1 with, 1 malformed, 2 backends | turns resume after races, one line and one answer |
| `bench` | sweep: waves of 2, 2 repeats, chunk of up to 2 tokens, usages anywhere; mixed: 1 decode and the hog, 2 repeats; turns: 3 conversations in groups of 2, 2 turns; 2 attempts, Ctrl-C anywhere | counting, totals, samples apart, histories extend histories, whole units on file, ledger and budget of every file add up, every script ends |
| `memory_pressure` | memory 10, fixed 4, lengths 2, 7, 5: predictions 2, 0, 1, ramp one beyond; 2 waves of 3, 1 request of each sent again; 1 slot, queue limit 2; monitor on or off | ramp and first wait report what happened, alerts apart, drivers end |
| `gpu_host` | 3 scripts (p05 and p06 with their second tools, p09 without), 2 configurations, 2 polls | labels, completeness of the comparison, runners end |
| `gpu_session` | 2 instances, grace of 2 cron runs | autostop acts on idle samples, and lets no run of them last where it is installed |
| `limiter_race` | capacity 2, no refill, 3 first requests | *violated*: a tenant is granted more than its capacity |
| `gateway_one_head` | as `gateway` | *violated*: a second response head inside the first |
| `scaler_blind` | as `scaler` | *violated*: scaling on a page without the metric |

Section 5 lists ten more claims of the documents
that TLC refutes in these models, each with the configuration that does it; they are
kept next to the runs, to be run again when the code is changed.

Why the bounds are enough. Threads and handlers only meet through one dict entry,
one counter or one cache entry, so two of them show every overlap; three are there
where a third sees what two left (a bucket overwritten while in use, a counter read
after a lost update, a turn after an overwritten entry). In `Gateway` and
`DegradationChain` requests share nothing but the log file, whose writes are under a
lock, so one request is the general case for TLC; the proofs are for any number. In
`bench` one wave size with two repeats makes `rows` longer than a wave, three
conversations in groups of two fill one group and leave one half empty; every total time that
occurs divides the cost of 840, so that no share is rounded, and with buckets of 3
the last one is partial. In `memory_pressure` the three predictions are the cap,
nothing and the memory's limit, and one request sent again is enough for a wave that
goes on after it has failed once. In `gpu_host` three scripts show what each kind of
script leaves for another; the proofs are for any of the four. `Operations`, the
number of socket operations before the body, is an assumption on the backend: `connect`,
the sends of `conn.request` and a `recv` for each piece in which status line and headers
arrive. The code has no bound on it (`http.client` stops at 100 header lines of 64 KB),
so `WorstWait` is a bound per number of operations, not one number. `WorstWait` is reached: with a bound one tick lower,
TLC finds a client that waits that long. SLO, TTL, streaks and cooldown are the
smallest values that separate "before", "at" and "after" each comparison. An answer
longer than `MaxChunks` adds only more of the same loop; a backend that sends for
ever is excluded by that bound, and there the gateway indeed has no deadline.

Symmetry is used in `prefix_proxy` only, over the three interchangeable requests
without a prefix; no liveness is checked there. Deadlock checking is off where the
last state is a finished workload (requests all answered, instances all ended),
on for `scaler`, `conversation_proxy`, `bench`, `memory_pressure` and `gpu_host`,
which loop, end in an explicit final step or still answer `/health`.

Fairness is assumed of what the code, its scheduler or its timeouts do, and of the
commands and servers the scripts wait for where this list says so:

* `gateway` (`DeadlineSpec`, the fairness of `Gateway`): time passes, the limiter
  answers, and a thread that can run does. A thread that is `stuck` on its client cannot:
  the client's socket has no timeout. Neither backends nor clients are fair;
  `EveryRequestEnds` rests on the timeouts of the backend's socket and is stated for
  clients that do not stall for ever.
* `scaler`: the loop turns while its process lives. Nobody has to start it again, no
  reading and no docker command is fair; `PressureAnswered`, `IdlenessDrains` and the
  refuted `ExecScales`, `IdleShrinks` say in their premises what goes on.
* `bench`: the event loop runs the script's coroutine and ready tasks, and
  aiohttp's total timeout ends an attempt (weak fairness of `ConnectionLost`); a
  server may hang.
* `memory_pressure`: the event loop, the 5 s timeout of a scrape, and requests
  that end by answer or timeout. Nothing is assumed of the monitor.
* `gpu_host`: a command that has begun ends, which for docker commands and the
  measuring tools is an assumption. A health poll ends when its server answers, restarts
  or dies (strong fairness of `Wait`, since a server may hang and come back again and
  again), and hangs while the server does. The server need not become healthy.
* `gpu_session`: a boot ends and crond runs. Nothing is assumed of operator, EC2 and
  load.

## 4. Theorems

All for every value of the constants that the named assumptions allow, and from
no other assumption: `LimiterConstants` (capacity and refill natural numbers, a
positive unit), `GatewayConstants` (positive SLO and head size), `ScalerConstants`,
`ProxyConstants` (TTL and abort timeout are any numbers), `DeadlineConstants` (at least
one operation), `PrefixConstants`, `HostConstants`,
`SessionConstants`, `PressureConstants`, `BenchConstants` and `WorkloadConstants`
(numbers are positive, no wave has more requests than there are tasks).
`MiniProxy` has none.

`RateLimiterProofs`: `LimiterTyping`, `LimiterWindow`, `LimiterIsolation`,
`LimiterSettles`, `LimiterRefinement`. `WindowBound` is not inductive: whether the
next grant fits depends on what the bucket holds. `LimiterInv` adds `Budget`
(counted from any grant on, units granted and units left are within capacity and
refill so far), `Stamped` (stamps behind the clock, grants behind the stamp),
`Fresh` (an object nobody has built yet has granted nothing and nobody holds it)
and `OwnBucket` (who holds a bucket has one of its tenant). `TakeKeepsBudget` is the
step that matters; the arithmetic is in four lemmas because products of variables
are out of the solver's reach elsewhere. The refinement uses that topping up in
steps of one tick, each cut off at the capacity, is topping up at once
(`TickTopsUp`), and that a bucket just stamped has nothing to refill.

`GatewayProofs`: `GatewayTyping`, `GatewayLog`, `GatewayAnswers`, `GatewayFailover`,
`GatewayRefinement`. `GatewayInv` says of each request what its place in the code
implies: `Place` (leg and log by `pc`), `History` (which failures lead to which
leg, and that `last_err` is a breach exactly if one occurred), `Received` (what a
client still there has got), `Sent` (the last head is that of the leg being
served). That a client stalls changes nothing of it. `FailKeeps` treats the `except`
clauses once for all causes; steps of one request leave the others alone
(`UntouchedKeeps`).

In the same module, with the client's clock: `DeadlineBound`, `DeadlineKeepsTruth`. That a client has
waited at most `WorstWait` says nothing of the next tick; `Clock` counts the
rounds an attempt can still wait (each socket operation, each chunk of the head)
and says that the ticks waited are within the full timeouts of the rounds and legs
behind it plus the silence of the present one. It is over `GatewayInv`, which
`Operation` and the shared clock preserve as well.

`ScalerProofs`: `ScalerTyping`, `ScalerStreaks`, `ScalerSteady`, `ScalerDecides`.
`Streaks` says that the last `su` readings since the last command or restart were
above the threshold and the last `sd` idle, and that an action is due to a full
streak; `FirstLife` that a process that never died knows when it acted and how many
replicas run. The window of readings slides, so
`Pushed` says once where each reading is after the next.

`DisaggProxiesProofs`: `ProxyTyping`, `CacheSingleUse`, `CachePreviousTurn`,
`CacheAlive`, and with the minimal proxy `FrontAnswers`, `FrontHandsOver`. The
invariant says where a turn's blocks can be: `Cached` (what is in the cache was
captured from a served turn of that conversation), `HandedOut` (so was what a
prefill was given), `Aged` (blocks have been idle no longer than the entry was kept,
plus what their last chunk took, for any such lag), `InOrder` and `Latest` (turns of a client that waits come one by one,
and what is cached is of the last that came). The composition of the two proxies
implements each of them, so their theorems carry over.

In the same module, of the minimal proxy alone: `MiniAnswers`. `Wire` says by position
what is written for a request: nothing before an answer begins, or, before the second
one of a request whose write raised in the `try`, the head of the first. `Unbroken` adds
that no write raises while the client stays, so that the first answer comes to its end.

`PrefixProxyProofs`: `PrefixTyping`, `PrefixAnswers`, `PrefixTurns`. `Answered` says
by position how many heads and lines a request has. That a counter without a lock
resumes its turns rests on `Marked` (of two threads that pick at once both are
marked) and on `Counting` (after an unmarked pick the counter stands there, and only
the next pick moves it); `NextTurn`
with `MultiplesApart` and `OneRemainder` is the arithmetic of `% n` for every `n`.

`GpuHostProofs`: `HostTyping`, `HostLabelled`, `HostCompares`. `Own` follows the
runner's configuration from its override file to the container, which may be another
script's until then, to what is measured, command by command; `Done` says that the labels before the present one are complete.
Of the session that owns the host: `SessionTyping`, `SessionStopsIdle`. `StampInv`:
the stamp is as old as the row of idle samples is long.

`MonitorProofs`: `PressureTyping`, `PredictionIsTight`, `RampTellsTruth`,
`FirstWaitTellsTruth`, `AlertsAreApart`, and `MonitorOnlyReads`, by which what holds of
the drivers holds with a monitor beside them. That a report is true says nothing
of the waves that will be in the next one, so `PressureInv` follows the loops:
`Queues` (no scrape has read a queue the wave did not have), `Requests` (a request
is at one place), `Ramping` (the waves of this length so far are 1 to `wave` - 1,
none of them with distress), `Counting` (before the first wave noted nothing was
read). Of the monitor, `MonitorInv`: unless an alert is out, or while a page from below
the band waits to be judged, usage has been seen below. `NotesStay` and `WaveRecorded` separate the steps that touch what is on
record from the many that do not. A verdict of PASS compares percentages:
`PassIsClose`. `LoopStops` is an induction by the least counterexample (`WFMin`
of the library), for a loop that looks at no batch after a miss.

`WorkloadsProofs`: `WorkTyping`, `TokensCountedOnce`, `ThroughputOfOwnWave`,
`SamplesOfOwnPhase`, `FilesWholeUnits`, `TurnsAreCausal`. The
invariant `WorkInv` has one part all scripts share and one for each:

* `TaskInv`: an attempt has no more arrivals, and no higher usage, than tokens were sent
  in it (`Served`), so whatever `one_request` makes of the two is not above what was
  sent; it need not be all, because chunks with a usage are dropped. And a task that may
  still be retried has attempts left. `TaskStep` goes through every way a request moves
  or ends.
* `SweepInv`: the rows in memory are `rep` - 1 waves of the present key, those on
  file are of keys before it, all `Repeats` waves of each; no wave total is of a wave
  still to come. Together these make the slice `rows[-conc:]` the wave just gathered
  (`LastOfConcat`, `RowsOfWave`) and keep every earlier total true when rows are
  appended (`OneWaveMore`).
* `MixedInv`: which repeats and labels can be on file by phase, with the samples as
  counts of file rows. `CountAppend` is additivity; `OkRows`, `RowsOfRep` and
  `NoRowsOf` say what a gathered phase adds to each count.
* `TurnInv`: what a conversation has said so far extends itself turn by turn
  (`Speaks`), what is in memory is whole conversations in their order, the file is
  empty or complete. `TalksAreConversations` and `ConversationsJoin` are the
  concatenation in `gather()`; row n is turn (n - 1) mod `Turns` of conversation
  (n - 1) div `Turns` + 1, and `OneDivision`, `TurnArithmetic` and `TurnsInFront` are
  that arithmetic for every number of turns, `GroupArithmetic` that of groups of
  which the last may be small.

Of `slo.py`, on any file: `RecoveredRowsAreOk` (with `LastOne`, a second least
counterexample) and `FailuresBurnBudget`.

`WorkInv` was checked by TLC on the instance of `bench`, with the values of totals
left open (`Totals` is infinite), before it was proved.

Only model-checked:

* All liveness (`EveryRequestEnds`, `PressureAnswered`, `IdlenessDrains`, both
  `DriverEnds`, `RunnerEnds`, `ArmedSessionEnds`): it rests on fairness, and the
  prover knows no ENABLED.
* `AccountsAddUp`: its sums are folds over rows and groups, and what a fold computes
  for every input is an induction over data, for which the library's theorems take
  an operator the provers cannot instantiate; and shares of an integer cost only
  add up where the total time divides it, as in the run. For the first reason `WaveTotals` is
  proved for whatever `TokensOf` sums up: which rows go into a total is the theorem,
  that the sum is right is the run.

## 5. Where code and documents differ

Checked by a run that violates the claim:

* `gateway.py:75`: two first requests of a tenant each build a full bucket
  (`limiter_race`; `test_gateway.py:125` expects the third of three refused).
* `gateway.py:210`: a backend that stalls after its first 64 KB makes `_serve` write
  another response into the one begun (`gateway_one_head`; README and
  `test_gateway.py:110` say nothing is half-written).
* `scaler.py:44`: a page without the queue metric reads as zero and scales down
  (`scaler_blind`; "never scale on blindness").

Claims that TLC refutes in the models too, with the definition that states the claim
and the configuration that refutes it (`tlc -config <name>.cfg` on the `MC` module of the
component):

* `gateway.py:175`: the 503 is written before the line is logged, and a client that is
  gone leaves the request without one (`EveryRequestLogged`, `GatewayUnlogged.cfg`;
  `gateway.py:15` has "every request appended to --log", P13's README "every request →
  JSONL"). `DegradationChain` has no such end: the request stays exhausted in it.
* `scaler.py:118`: `main` has no `--wait-slo-s` and reads no waiting times
  (`FiresOnWait`, `ScalerFiresOnWait.cfg`; the docstring has scale-up fire immediately
  on a request that waited longer).
* `scaler.py:78`: the default compose file has a `container_name` and a fixed host port,
  so that `--exec` cannot get a second replica; the command fails and takes the loop
  with it (`ExecScales`, `ScalerExecScales.cfg`; P11's README expects 1→2, its log is of
  a dry run).
* `scaler.py:102`: a loop that is restarted takes `--min-n` for what runs, and never
  removes what its predecessor added (`IdleShrinks`, `ScalerIdleShrinks.cfg`;
  `scaler.py:7`).
* `proxy-0.29.0.py:329`: the TTL starts with D's last chunk, which nothing bounds: no
  timeout in the clients, and a streamed line waits for the client to take the one
  before. A hit may name blocks that D has dropped (`HitsAreReadable`,
  `DisaggHitsReadable.cfg`; lines 24 and 179). `AliveAtHandoff` holds as far as the
  chunk is no later than abort timeout minus TTL.
* `bench.py:92`: every chunk with `"usage"` in it, null included, is left out of the
  arrival times. A server that puts one on each chunk gets ok rows without tokens
  (`UsageIsAuthoritative`, `BenchUsageCounts.cfg`; "authoritative token count"), and a
  broken stream of such chunks is sent again although it was served (`RetriesUnserved`,
  `BenchRetriesUnserved.cfg`; "only while zero tokens arrived"). `CountsTokensOnce`
  therefore bounds every row from above, and from below only those with an arrival on
  record and a usage that closes the answer.
* `workload.py:70`: the history repeats a user's line without the `(conv n)` it was sent
  with, so prompts part at the first user line (`PromptsExtendPrompts`,
  `BenchPromptsExtend.cfg`; "exactly the shape that benefits from prefix caching"). What
  does extend, turn by turn, is the history.
* `user-data.sh:38`: on a first boot the checkout is not there and cron finds no script,
  unless the operator's clone is faster than the boot (`IdleHostEnds`,
  `GpuSessionIdleEnds.cfg`; `idle-autostop.sh:2`). `ArmedSessionEnds` is about the hosts
  that have it.
* `serve-matrix.sh:15` and its three siblings: the health poll is a curl without a time
  limit, and a server that accepts and never answers holds it for ever (`WaitEnds`,
  `GpuHostWaitEnds.cfg`; "server never became healthy"). `RunnerEnds` names the case.

Met while modelling, visible in the models, not a run of their own:

* `gateway.py:135`, `:96`, `:208`, `:214`: the client's socket has no timeout, and a client that
  stalls without closing keeps its thread for ever (`EveryRequestEnds` names the case).
* `gateway.py:71`: tenants whose names agree in the first 64 characters share a bucket,
  and so does one that is called `default` with those that send no header; "isolated per
  tenant" is meant up to the cut.
* `scaler.py:44` with `--min-n 0`, which the docstring supports: without a replica there
  is no metrics page, every poll is blind and holds, and nothing scales up again.
* `proxy.py:14` (p04): the docstring sends an empty key to the least-recent backend; the
  code takes turns and looks at no use (`TakesTurns`).
* `proxy-0.29.0.py:152`: of two overlapping turns of a conversation the one that
  ends last leaves its blocks; the next turn gets those. `PreviousTurn` is
  therefore stated for clients that wait.
* `bench.py:125`: a connection lost after tokens came is recorded without them and
  as "connect failed", against the comment "partial stream: record".
* `gateway.py:181`: each attempt has its own clock and each socket operation its own
  timeout, so `--slo-ms` is not what a client waits, nor any one number: `WorstWait` is,
  for as many socket operations (`Operations`) as the backend makes of an answer.
* `gateway.py:16`: the docstring has the log feed P12 accounting; `accounting.py`
  reads only result CSVs with an `ok` column.
* `proxy-0.29.0.py`: a prefill answer without KV parameters leaves the decode leg
  the parameters of the previous turn.
* `workload.py:94`: the file is written once, at the end; Ctrl-C loses every
  conversation (`WholeUnits` has nothing or everything).
* `experiment.py`: `starvation_x` is 0.0 when no base request succeeded, as if decodes
  next to the hog were infinitely fast.
* `accounting.py:100`: rows that are ok and took no time leave a positive cost that is
  given to no configuration (`AccountsAddUp` names the case).
* `slo.py`: `mttr_proxy` counts from the last failed row, while `bad` and the recovery
  curve also count slow ones.
* `monitor.py:92`: a page without the gauge reads as an empty cache and re-arms the
  alert (`AlertsApart` names it).
* `bench.py:116`: the last attempt sleeps its backoff before it gives up.
* `idle-autostop.sh`: a host that serves only between samples, or that is still
  downloading weights, is idle to it ("20 min of true idle"), and jitter of the cron run
  decides whether the sample at 20 minutes or the one after it ends a host (`Expired`).
* `proxy.py:111` (p04): a backend that breaks between head and first chunk puts a
  502 into the body (`OneLineOneAnswer` names the exception).
* `faults.sh:20`: an interrupted throttle is not restored, and `spike` takes its
  mode from the second argument, which is `--base-url` in its own usage line.
* `stop.sh`, `start.sh`: `start.sh` starts the tracked instance, which `stop.sh` has
  terminated.

## 6. Not modelled

* `p12-cost-dash/dashboard.py`, MFU and prices per million tokens in `accounting.py`:
  printing, and single formulas over constants.
* `p05-quant-lab/quality.py`, `p06-spec-decode/acceptance.py`: single requests whose
  result is a floating-point figure. `GpuHost` models whether they succeed.
* Latencies, percentiles and manifests of the harness and its siblings, swap and KV
  gauges of the pressure drivers: numbers nothing is decided by.
* `p07-triton-kernel`: GPU numerics.
* Tables, plots, prompts, compose files, `vllm_client.py`, `log-cost.sh`, `repro.sh`,
  `teardown.py`: no state, or a scaffold.
* `sg-refresh.sh`, `start.sh`, `throttle-gpu`, `spike`: short sequential scripts outside
  the state of any model (clock speeds, firewall rules); `spike` is a run of the
  harness.

## 7. What could come next

Beyond the models of section 2 and the theorems of section 4:

1. `GatewaySystem`: `RateLimiter` and `Gateway` composed over shared threads, so
   that the 429 path and the log line are about the same request; abstract
   specification: at most the budget of a tenant reaches a backend.
2. Clock speeds of the GPU as part of `GpuHost`, for `throttle-gpu` interrupted
   between lowering and restoring them.
3. Theorems: the sums of `Ledger`, with shares as fractions, by least
   counterexamples as in `LoopStops`, after a lemma that unfolds a fold once; and
   the abstract specification of item 1.
