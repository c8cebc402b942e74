# nvshare in TLA+

nvshare lets several CUDA applications share one GPU with the whole of its
memory. `nvshare-scheduler` hands out a GPU lock, first come first served, for a
time quantum (TQ); `libnvshare.so`, preloaded into every application, intercepts
the CUDA driver API and lets work reach the GPU only while its process owns the
lock. This directory models the lock protocol (scheduler, clients, sockets), the
byte streams and the command line of `nvsharectl`, the CUDA hooks (interposition,
start, memory accounting, kernel window) and the Kubernetes device plugin; it checks
them with TLC on small instances, shows that the scheduler implements an abstract
lock, and proves most of the safety properties, and that the scheduler implements the
abstract lock, with TLAPS for instances of any size.

`PROJECT.json` holds the details: components, runs, the source lines of every
definition, findings, hazards and theorems.

## The system

| Part | State | Operations | Talks to |
|---|---|---|---|
| `nvshare-scheduler` (`src/src/scheduler.c`) | `clients`, `requests`, `lock_held`, `scheduler_on`, `must_reset_timer`, `scheduling_round`; the timer thread's `drop_lock_sent`, `round_at_start`; the epoll batch | register, request, release, status on/off, set TQ, connect, disconnect, TQ elapsed | clients and nvsharectl over UNIX stream sockets |
| client in `libnvshare` (`src/src/client.c`) | `own_lock`, `need_lock`, `did_work`, `scheduler_on`, `nvml_ok`, `cuda_ctx` | client thread (LOCK_OK, DROP_LOCK, SCHED_ON, SCHED_OFF), early releaser, lock gate of the application threads | the scheduler; the GPU (synchronise); NVML |
| CUDA hooks (`src/src/hook.c`) | the `real_` pointers, two `pthread_once_t`, `nvml_ok`; allocation list and sum; kernel window | `dlsym`, `cuGetProcAddress`, `cuInit` (bootstrap, start of the client); gate + real CUDA call; memory accounting | the client's gate; the driver |
| communication (`src/src/comm.c`, `src/src/common.c`) | socket buffers | connect, accept, send, receive, end of file | – |
| `nvsharectl` (`src/src/cli.c`, `src/src/xopt.c`) | parser state, configuration | parse the command line, turn the scheduler on or off, set the TQ | the scheduler |
| device plugin (`src/kubernetes/device-plugin`) | current plugin, its gRPC server and goroutine, watchers' channels | restart loop, serve, register, stop, signals | kubelet |

What is hard here: two scheduler threads around one mutex and a timed wait; a
batch of epoll events handled one by one while peers live on; four kinds of
threads in every client, two of which wait for the GPU with the mutex held;
messages that cross each other in the two directions of a socket; peers that
crash, stop reading, or come back on the same descriptor; condition variables
whose time-out races a broadcast; writers that go on after a short count and a
scheduler that does not; a library that starts inside the first call of any
thread; a plugin whose goroutines outlive the object that main() works with.

What makes each part correct:

* scheduler: the request list holds live registered clients, once each; the lock
  goes to its head and to nobody else while a holder is listed; order is kept; a
  free lock and a waiting request never coexist; every holder is asked once, and
  only after its own quantum, to drop the lock;
* client: it never gives back what it does not own, never waits for something that
  is not coming, releases early only when it was idle, and synchronises only a
  context it knows;
* hooks: list and sum agree with the driver, a process stays within the GPU's
  memory, the kernels on the GPU are bounded and every hook returns;
* interposition: an application that links to a function, or looks it up by the name the
  headers give it, gets the hook, and nothing is called before it is there;
* communication and `nvsharectl`: a command line does what its usage text says, framing never
  slips, the TQ stays positive, clients follow the status;
* device plugin: whenever it waits, the devices are advertised to the kubelet that
  is up, and after any fault they are again;
* scheduler and clients together: one application owns the lock; whoever asks gets it in the end.

## Modules

| Module | Models |
|---|---|
| `Comm` | connections (a slot per connection: backlog, accepted, open or closed peer), FIFO channels of whole messages, full buffers, end of file. A slot whose two ends are gone may be used again: this is the reuse of descriptors and of freed `struct nvshare_client` chunks. |
| `Scheduler` | `scheduler.c`. Its functions (`try_schedule`, `delete_client`, `process_msg`, ...) are operators from a state record to a state record, composed as the code calls them; `EpollWait`, `Accept`, `AcceptFails`, `ReceiveMsg`, `Hangup`, `StaleEvent` are the main thread; `TimerStart` ... `TimerDrop` the timer thread. |
| `SchedulerPeers` | the scheduler among arbitrary peers: the specification the proofs are about. |
| `GpuLock` | what the scheduler promises, without connections, messages, threads or lists: who waits, who is ahead of whom, who holds the lock. |
| `Client` | `client.c` and the gate in front of the CUDA calls of `hook.c`. |
| `NvShare` | the composition: `Scheduler`, `Client` and `nvsharectl`. |
| `ByteStream` | the sockets byte by byte: `write_whole()`, `read_whole()`, the scheduler's single `read()` and `write()`, short counts. |
| `XOpt` | the option parser with `nvsharectl`'s options and flags, and what a command line means, said of positions instead of by a loop. |
| `Nvsharectl` | `cli.c` over `XOpt` and `ByteStream`, the scheduler's handling of its messages, and a registered client that reads the status and writes its own messages. |
| `MCSchedulerPeers`, `MCNvShare`, `MCNvShareLive`, `MCNvsharectl`, `MCHookBoot` | instances for TLC: starting states, command lines, platforms, history variables, fairness. |
| `HookMemory` | `cuMemAlloc`, `cuMemFree`, `cuMemGetInfo`, the allocation list and `sum_allocated` in one process. |
| `HookKernels` | the kernel window of `cuLaunchKernel` and its reset by `cuda_sync_context`, in one process. |
| `HookBoot` | symbol interposition, `bootstrap_cuda()`, the entry points with their two `pthread_once()`, the start of the client thread; composed with `HookKernels`. |
| `DevicePlugin` | `main.go`, `server.go`, `watchers.go` and the kubelet as they see it. |
| `SchedulerLemmas` | what each function of `scheduler.c` keeps, and the inductive invariant of the scheduler; used by the next three. |
| `SchedulerProofs` | theorems about `SchedulerPeers` and `MCSchedulerPeers`: types, the queue, exclusive grants, the refinement of `GpuLock`, when DROP_LOCK may be written. |
| `SchedulerEffects` | what a step of the scheduler does to each of its connections, as a relation between two records; what it does to the round of the timer thread; when its writes do not fail. |
| `NvShareProofs` | theorems about `NvShare` and `MCNvShare`, from `SchedulerEffects` and the client's actions. |
| `HookProofs` | theorems about `HookBoot` with `HookKernels`. |
| `HookMemoryProofs` | theorems about `HookMemory`. |
| `NvsharectlProofs` | theorems about `Nvsharectl`, `XOpt` and `ByteStream`: framing, the TQ, and what every command line means. |
| `DevicePluginProofs` | theorems about `DevicePlugin`. |

How state and steps correspond to the code:

* A step of the scheduler's main thread is the handling of one event. `main` is
  `"woken"` from the return of `epoll_wait()` to the first event and `"locked"`
  (mutex held) from the first to the last event of the batch. Peers run between two
  events, the timer thread does not.
* A step of the timer thread is one iteration from wake-up to the next wait.
  `TimerDeadline` separates the passing of the deadline from the moment the thread
  has the mutex again: a broadcast in between does not change its ETIMEDOUT.
* `round_changed` is `scheduling_round # round_at_start`. TQ has no state: a
  deadline may pass whenever the timer waits.
* `send_result` is what `write()` does: to a closed peer it raises SIGPIPE, whose
  disposition no code changes (`SigpipeFatal`); to a full buffer it is EAGAIN.
  `SigpipeFatal = FALSE` shows the error paths the code has for EPIPE.
* `StaleEvent` is the use of an event whose client was deleted earlier in the
  batch. The first word of the freed chunk, where `fd` was, is allocator data;
  `read()` fails with EBADF, which is fatal. The loop of `delete_client()`
  (scheduler.c:110-113) compares with the same word after the `free()`: it is the
  descriptor of no client, so the loop removes no other, and the model has no other outcome.
* In the client a critical section is one action, except where the mutex is held
  across a wait for the GPU (`handler = "drop"`, `releaser = "sync"`).
  `continue_with_lock` and `Submit` are two steps, as the mutex is released in
  between.
* NVML's utilisation is a past average over kernels, so it may be 0 or not
  whatever runs now.
* The memory hooks take no lock, so a step of `HookMemory` is one access to shared
  memory or one call of the driver. Data races are their possible outcomes: an
  addition is a load and a store, an append finds the last node and then links, cutting
  off what was linked there in between. `size_t` is arithmetic modulo `SizeMod`.
* In `HookKernels` the lock protocol is reduced to `own_lock` coming and going and to
  the holder of `global_mutex` in `cuda_sync_context`. The GPU completes kernels in
  order; `awaited` counts the kernels a `cuCtxSynchronize()` still waits for.
* `Comm` has whole messages; `ByteStream` shows when that is justified: peers finish
  what they write, and the scheduler drops a connection whose message it finds in part.
  A byte is its message and its place in it; a message of two bytes can be cut in one
  place, which is all that framing tells apart.
* A command-line argument is a token (what the leading dashes and `=` make of it), a
  value is a word or a number. A step of the parser is one argument, or one letter of a
  cluster (`-hT`). `int` and `long` have small widths; `strtol()` saturates,
  the conversion to `int` keeps the low bits.
* In `HookBoot` an address is `"null"`, `"hook"` or `"driver"`. A platform says how the
  CUDA runtime asks and which symbols the driver and NVML lack. One step of
  `bootstrap_cuda()` looks one symbol up, so that other threads run between two of them.
  Of the memory hooks it has the case that matters to it (`MemCall`): the pointer they test
  is set and another they call, possibly through `cuda_driver_check_error()`, is not.
* In `DevicePlugin` `path` is the plugin whose listener owns the socket file; a plugin
  object that main() has replaced keeps its goroutine, and closing its listener unlinks
  the path whoever it belongs to. gRPC's `Stop()` waits for `Serve()` to return; if the
  `os.Remove()` after it fails, there is no `cleanup()` and the stopped server stays in its
  field. Two assumptions are about time: a dial of 5 s is long enough for a goroutine to
  start and for a server that is there to answer (`DialFails`).
* Each module contains, before some definitions, a *wrong variant*: the definition
  with a plausible mistake. They are used to see that a property can fail
  (`mutants` in `PROJECT.json`), never by the specifications.

## Runs

| Run | Instance | Shows |
|---|---|---|
| `scheduler_peers` | 2 connections, every message, 1 message per buffer, batches of 2, failing `epoll_ctl`, EPIPE paths | `QueueSound`, `OneGrantAtATime`, `ImplementsLock` |
| `scheduler_fcfs` | 3 registered peers, no new connection | `ImplementsLock`, `DropOncePerQuantum` |
| `nvshare_on` | 2 applications with 1 thread, early releaser with and without NVML, crashes and restarts | `OneLock`, `NoStrandedRequest`, `NoLostRequest`, `NoLiveClientDropped`, `NoStaleEvent`, `IdleBeforeRelease` |
| `nvshare_toggle` | 2 applications, `nvsharectl` turns the scheduler off and on | `OneOwnerWhenSettled`, `NoStrandedRequest`, `NoLostRequest`, `ContextKnown`, `StatusFirst` |
| `nvshare_live` | 2 applications with 1 thread that never need go idle, fairness, no commands | `WaiterGetsLock` |
| `hook_memory` | 1 thread, 3 addresses, sizes 1, 2 and 15 modulo 16, failing driver calls | `ListComplete`, `SumExact`, `WithinLimit` |
| `hook` | 2 threads, largest window 4, 7 platforms, fairness | `Throttle`, `HooksReturn`, `Interposed`, `NoNullCall`, `EntryReturns` |
| `nvsharectl` | every command line of up to 3 arguments of a small alphabet, then a second invocation; 2 connections and a client; messages of 2 bytes, buffers of 3; fairness | `CommandLineMeaning`, `ExtrasInBounds`, `Framed`, `TqPositive`, `ConnectionsEnd`, `ClientFollows` |
| `device_plugin` | 5 plugin objects, 3 faults (kubelet restarts, signals, failing `listen()`, `accept()`, `os.Remove()` or `Register()`), fairness | `Advertised`, `ServerWhenStarted`, `Available`, `Terminates` |
| `scheduler_starved` | violation | `HolderIsTold` fails |
| `nvshare_gpu` | violation | `OneProcessOnGpu` fails |
| `nvshare_sigpipe` | violation | `SchedulerSurvives` fails |

Bounds. Two connections suffice for a holder and a waiter, for an event that
deletes the subject of the next one, and for a slot that is used again; order needs
three. `SockBuf` is 1 among arbitrary peers, so that full buffers happen; with
genuine clients it is large enough (3 with the scheduler on, one more per status
change) that it is never the reason of a failure, and `NoLiveClientDropped` says
so. `MaxEvents` covers the whole ready set, or cuts it (`scheduler_fcfs`). The
commands of `nvsharectl` are a script (`CtlScript`). Runs that start from
`SteadyInit` or `BootedInit` start from a reachable state in which everybody has
registered. `hook_memory` needs three addresses for a list with a middle, a size that
wraps around and a `DriverCap` above `Total`; one thread, because with two the
properties do not hold (known limits). `hook` needs a window that can grow twice
(1, 2, 4) and two threads, which with the client thread and the releaser are one that
synchronises and one that waits for the mutex, and two that enter the library at once;
the platforms are every way to ask, with and without the optional symbols, without NVML
and without a symbol that is needed. `nvsharectl` needs a buffer that is no multiple of
the message, so that a message fits in part; three arguments make an option with its
value after an extra, a cluster, `--` and a second value of the same option;
`ExtrasInit` is 1, so that the array grows with every argument. In `device_plugin` three faults are a
kubelet that restarts twice and a signal, say, and `Slots` is large enough that a free
object is always there. In the runs of the lock protocol deadlock is not checked:
after its bounds a run may stop, and a system whose scheduler has died has nothing left
to do; nor in `hook`, `nvsharectl` and `device_plugin`, whose processes may end.

Fairness. In `nvshare_live` every thread that can run runs (weak fairness for the
client threads and the GPU), and a thread that competes for the scheduler's mutex
gets it if it is free again and again (strong fairness; `epoll_wait()` sleeps
without the mutex). A deadline passes whatever happens. Applications are under no
obligation. Nothing is assumed about when the deadline passes, so the schedule of
`scheduler_starved` is among the behaviours, and under it a waiter does starve: the new
holder is never told and may compute for ever. `WaiterGetsLock` allows for this and for
nothing else. The history variable `missed` is set when the timer, too late for the last
binding, takes the new one for told (`Misses`), and cleared with the next binding; a waiter
gets the lock unless it is set for ever from some moment on. Without this last alternative
TLC finds the property violated. In `hook` threads inside the library and the GPU make progress,
a thread gets `kcount_mutex` if it is free again and again, and the scheduler answers a
REGISTER. In `nvsharectl` the scheduler serves every ready connection (`epoll_wait()`
returns all of them), `nvsharectl` goes on, and the client reads what it is sent and
finishes what it has begun to write; requests of the client and further invocations are
free. In `device_plugin` main() and the goroutines go on; Go's `select` chooses at random
among the ready channels, so a ready one is not passed over for ever (strong fairness of
`OnKubeletSocket` and `OnSignal`); the kubelet connects to a registered plugin and
Kubernetes restarts a container that died. A kubelet that is down may stay down.

## Findings

1. `nvshare_sigpipe`: a client that dies while a message is due to it takes the
   scheduler with it. `write()` on a socket whose peer has closed raises SIGPIPE;
   the EPIPE branch of `send_message()` is never reached.
2. `scheduler_starved`: `timer_thr_fn()` tests `drop_lock_sent` before the round
   numbers. If the deadline passes while the main thread moves the lock to the next
   client, the timer is re-armed for the new round with `drop_lock_sent` still set,
   and the new holder is never asked to drop the lock.
3. `nvshare_gpu`: the gate and the CUDA call are not atomic. A thread that has
   passed the gate submits after its process released the lock.

## Known limits

Places where a property holds within the bounds of its run and not beyond, and
behaviour the models show that a reader may not expect:

* Messages are not tied to an ON period, and a release does not say which grant it gives
  back. `OneOwnerWhenSettled` is proved for a script with at most one `SCHED_OFF`
  (`OneOwnerAgain`) and fails with two: a client whose request of before a first OFF/ON
  cycle is granted asks again before it reads the grant, and during a second cycle is
  granted a second time. It answers the DROP_LOCK of the first grant, `remove_req()`
  (scheduler.c:488) takes this LOCK_RELEASED for the second, and the next client is granted
  a lock that the first still owns. Both own it until the first goes idle or ends, as the
  scheduler sends it no DROP_LOCK any more. With `ToggledSpec` in place of `HSpec` in
  `nvshare_toggle.cfg` TLC finds this in 33 states, in a minute or two.
* The memory hooks take no lock. With two threads that allocate at the same time both
  pass the limit test with the old sum, an addition or a list node may be lost:
  `WithinLimit`, `SumExact` and `ListComplete` hold with one thread and fail with two.
* A TQ beyond `int` is cut to its low bits (xopt.c:556): `--set-tq=4294967297` sets a TQ of
  1 second, and `--set-tq=-4294967295` too, while the usage text says "Set the time quantum
  of the scheduler to TQ seconds. Only accepts positive integers." (cli.c:48-49, the same at
  src/README.md:275). `Meant` takes the usage text at its word, and `CommandLineMeaning`
  leaves well-formed lines whose TQ is no `int` out; without the exception (`TqIsInt`) TLC finds
  it violated.
* A TQ of 0 counts as not given; empty values (`--help=`, `-T ''`) are accepted and change
  nothing.
* `-S on --set-tq=-1` sends the status and then fails (`CommandLineMeaning` says so).
* `nvsharectl` reports success once its message is written; a scheduler that finds the
  message in part drops the connection without an answer.
* A SIGTERM that arrives at the device plugin while a SIGHUP waits in the channel of
  capacity 1 is dropped (`Terminates` is about the signal main() has got). A stream that
  starts after `cleanup()` leaves a goroutine behind; its connection is closed already.
* A CUDA call that overtakes another thread's `cuInit()` may find a mutex that
  `initialize_client()` has not initialised; an application launches after `cuInit()`
  returned, and the model too.
* A `cuMemAlloc()` or `cuMemGetInfo()` that overtakes every `cuInit()`, while another thread
  is in `bootstrap_cuda()`, may find the pointer it tests set (hook.c:159, 189) and
  `real_cuGetErrorString` not yet; the driver, not initialised, returns an error, or the
  hook `cuMemGetInfo()` does (hook.c:657-658), and `cuda_driver_check_error()` (hook.c:338)
  calls NULL, where the comment of the test says "Return immediately if not initialized".
  `MemCall` has this (`null_call = "early"`). `NoNullCall` leaves it out, as CUDA allows no
  such call before `cuInit()` has returned; after that it includes the memory hooks.
* The `Register` call of the device plugin has no deadline (server.go:175): a kubelet that
  accepts the connection and never answers would keep main() from its channels, signals
  included. The model's kubelet answers or fails, so `Available` and `Terminates` do not
  cover it.

## The abstract lock

`ImplementsLock` in `SchedulerPeers` is `GpuLock`'s specification under the mapping
`waiting` = the clients in `requests`, `ahead` = the pairs in list order, `holders` = the
head while `lock_held`. `GpuLock` allows, in one step, any clients to leave, one to join
behind everybody, and the lock to stay with a holder that has not left, to become free, or
to go to the one nobody is ahead of. Every step of the scheduler has to be such a step
or a stutter: a broadcast that deletes several clients, a release in the middle of a failing
grant, SCHED_OFF. `scheduler_peers` checks it with every message and every failure for two
connections, `scheduler_fcfs` for a queue with a middle; `LockIsImplemented` proves it for
any number of connections.

## Theorems

Each theorem holds for every value of the constants that the named assumptions of the
modules allow. An invariant that a run checks is seldom inductive; the proofs go through
a stronger one, which TLC has checked on the instance of the run before it was proved.

**Scheduler among arbitrary peers** (`SchedulerProofs`): every set `Conns`, every `SockBuf`,
every `MaxEvents`, every set of peer messages, either disposition of SIGPIPE.

* `TypeCorrect`: `Spec => []SchedTypeOK`;
* `QueueIsSound`: `Spec => []QueueSound`. `lock_held` implies that there is a
  request at the head (so `timer_thr_fn()` may follow `requests->client`), every
  request is of a live registered client and appears once (so `delete_client()`
  leaves no request that points to the struct it frees), and a scheduler that is
  off has no requests;
* `LockIsImplemented`: `Spec => ImplementsLock`, the refinement of `GpuLock`;
* `GrantsAreExclusive`: `Spec => OneGrantAtATime`;
* `DropsAreTimed`: `HSpec \/ SteadySpec => DropOncePerQuantum`, if no peer sends `SET_TQ`: a new
  TQ starts the timer again, and the holder may then be told twice (which is why the run that
  checks it has no `SET_TQ` either).

The argument: `Sound(s)` says of a state record that it is typed and its list is
sound, and `SchedulerLemmas` has one lemma per function of `scheduler.c` that the function
keeps it, and one about what it does to the order of the list, to the holder and to what
is written. The inductive invariant `IInv` adds the typing of the variables outside the
record and that the batch of events is not empty while the main thread walks through it,
without which `Head` and `Tail` of the batch would mean nothing. `QueueSound` alone is not
inductive: that a deletion leaves no request behind needs that a client is listed once, and
that SCHED_ON starts from a sound list needs that SCHED_OFF left an empty one. The refinement
maps each event, including the recursion between a failing grant and the deletion it causes,
to one step of `GpuLock`. `DropsAreTimed` rests on `BInv`, which relates what the timer thread
knows to the binding of the lock: a binding that the thread has not timed yet is a new round
(`round_changed`), and one it has spoken about is not, and is marked by `drop_lock_sent`.

**The composed system** (`NvShareProofs`): every set of applications and threads, every
script of `nvsharectl`, crashes and restarts.

* `RequestsAreServed`: `Spec => []NoStrandedRequest`;
* `ContextIsKnown`: `Spec => []ContextKnown`;
* `StatusComesFirst`: `Spec => []StatusFirst`;
* `RequestsAreNotLost`: `Spec => []NoLostRequest`, from `StatusInvariance`, `Spec => []SInv`;
* `LockIsUnique`: `Spec => []OneLock`, under the hypothesis that `CtlScript` has no
  `SCHED_OFF`. Without it `OneLock` is false: turned off, every application owns the lock;
* `OneOwnerAgain`: `Spec => []OneOwnerWhenSettled`, from `ToggleInvariance`, under the
  hypothesis that `CtlScript` has at most one `SCHED_OFF` (any number of other commands).
  With two it is false (known limits);
* `ReleasesAreIdle`: `HSpec => IdleBeforeRelease`, with no hypothesis;
* `HealthInvariance`, `EventsAreNotStale`: `Spec => []CInv` and `Spec => []NoStaleEvent`, under
  `SigpipeFatal`, `SockBuf >= 3` and a script of `SCHED_ON` only;
* `ClientsAreNotDropped`: `Spec => []NoLiveClientDropped`, if `epoll_ctl()` does not fail
  either.

`SchedulerEffects` reduces the scheduler to what the others can see: what is written to a
connection, when it leaves the list, when it holds the lock. `NInv` then says of a client
that it registers once and first, that a process which is not up has done nothing, that
whatever has to do with the lock (a thread in the gate, a request anywhere, its answer, the
lock) comes after the CUDA context, and that the first message to it is the status. `LInv`
says where the lock is (`Places`: a grant on its way, the owner, the handler that gives it
back, a release on its way; in one place, and its client is the head of the list) and that
a client that needs the lock has a request that no later release cancels (`Asked`).
`OneLock` alone is not inductive: that a grant does not meet an earlier release needs the
order of the messages in both channels.

`SInv` is what is left of this when the status changes at any time. The last status on its
way to a client, or the one it follows when there is none, is the scheduler's (`Announced`);
a client that is off owns the lock and nobody waits in it (`OffMode`); and the request that
a client needs is only promised to one that no SCHED_OFF is on its way to (`StillAsked`), as
the SCHED_OFF wakes the waiting threads. `OInv` follows one SCHED_OFF through the channels. A
grant ahead of it in the channel is taken back when it is read (`Stale`), one behind it or
without one stands and is the holder's (`Valid`, `UpToDate`). A client that has the lock of
before the SCHED_OFF, or is going to read that it has, has asked for nothing since and is given
nothing (`Outdated`). A release that comes too late has no request before it in the channel
or in the list that it could cancel (`GivenBack`). That this is so when SCHED_OFF is
handled needs the stronger `AsksOnce` up to then, which is where a second SCHED_OFF breaks it:
after the first, a client may ask while a grant for its earlier request is on its way.

`RInv` of `ReleasesAreIdle` says that an owner whose `did_work` is clear has rested, so that
whatever the early releaser finds under the mutex tells it of every grant and every CUDA call
since it began to wait, and that what it found still holds after `cuda_sync_context()`. `CInv`
counts what a client may leave unread: grants and drops alternate, and a client that reads
nothing does not answer the last DROP_LOCK, so there are three at most (DROP_LOCK, LOCK_OK,
DROP_LOCK). With `SockBuf >= 3` no write to a live client fails, only dead ones are deleted, and
no event of a batch belongs to a connection that the batch has closed. The hypotheses are tight
or the code's own: `SET_TQ` allows a further DROP_LOCK and `SCHED_OFF` a further status; and
`SigpipeFatal` is the disposition SIGPIPE has, without which a write to a dead client would
delete it with its event still in the batch.

**The CUDA hooks** (`HookProofs`): any number of threads, any largest window, every platform.

* `AlwaysInterposed`: `HookSpec => []Interposed`;
* `NullIsNeverCalled`: `HookSpec => []NoNullCall`;
* `WindowThrottles`: `HookSpec => []Throttle`;
* `KernTypeCorrect`: `HookSpec => []KernTypeOK`, in particular the window stays in
  `1 .. WindowMax`.

`IInv` says who has `kcount_mutex` (`HolderOK`), that the count is below the largest window
while the mutex is free (`CountOK`), that every kernel on the GPU is counted or its launcher
is about to count it (`PendingOK`), and that whatever is younger than a synchronisation in
progress is uncounted, because its launcher waits for the mutex (`SyncOK`): without the last
part the reset of the count after a synchronisation would not be justified. `BootInv` relates
the `real_` pointers to how far `bootstrap_cuda()` is in its fixed order of names
(`SymbolsOK`) and the threads to the two `pthread_once()` (`StagesOK`, and `UpOK` for a
`cuInit()` that has returned): a gated hook finds its own pointer set, and everything it and
the gate call comes earlier in that order; what `cuInit()`, the client thread and, later, the
memory hooks call is mandatory, and set in a process that survived its bootstrap.

**Memory hooks** (`HookMemoryProofs`): any addresses and list nodes, any sizes, any memory of
the GPU, any width of `size_t`.

* `MemTypeCorrect`: `MemSpec => []MemTypeOK`, for any number of threads;
* `ListIsComplete`, `SumIsExact`, `LimitIsKept`: `MemSpec => []ListComplete`, `[]SumExact`,
  `[]WithinLimit`, for `Threads = {t}`. The hooks take no lock, and with two threads all
  three are false (see the known limits), so the hypothesis is the code's own.

`MInv` adds to the types what the local variables of a thread hold between two steps. `SeqInv`
says it of the whole hook: the list has the live allocations without the one that is being
added and with the one that is being removed, no address and no node twice, and the node that
`LL_APPEND` found is still the last (`ListOK`); the sum is what is live before the addition
and the subtraction too (`SumOK`); the limit is known before the first allocation and the test
that was passed still holds when the driver is called (`LimitOK`). Sums over all addresses
have no induction to lean on here, so the live memory is counted as a set of bytes
(`BytesOf`), and `MoreBytes` and `LessBytes` say what an allocation and a free do to its
cardinality. The memory the driver gives is below `SizeMod`, so only a request the driver
refuses can wrap around.

**nvsharectl and the byte streams** (`NvsharectlProofs`): any widths of `int` and `long`, any
command lines, any `ExtrasInit`, any message length, any socket buffer that holds a message,
any number of connections.

* `FramingNeverSlips`: `Spec => []Framed`;
* `TqStaysPositive`: `Spec => []TqPositive`;
* `ExtrasStayInBounds`: `Spec => []ExtrasInBounds`;
* `CtlTypeCorrect`: `Spec => []CtlTypeOK`;
* `CommandLinesAreMeant`: `Spec => []CommandLineMeaning`. What `nvsharectl` sends is what the
  command line means by its positions, for command lines of any length, unless the line is
  well formed and its TQ no `int` (known limits).

`CInv` says that what a side has still to read, followed by what the other has still to write
of its message, is a whole number of messages as long as the scheduler has the connection
(`UpFramed`, `DownFramed`): `Framed` says this of the part that is in the socket and does not
see the rest of a half-written message. Every byte is of a status, a request or a positive TQ
(`StreamOK`), which is what keeps the TQ positive across the conversion to `int`; the extras
never exceed the array (`ParserOK`). The lemmas are about sequences: a prefix of aligned bytes
is aligned, a message behind whole messages keeps them aligned, taking one from the front too.
`CommandLinesAreMeant` has an invariant of the parser's loop instead of an induction over the
command line: the arguments behind `argi` (and the letters behind `letter`) are well formed and
`config` holds the last value given among them, or the parser has failed and the line is not
well formed (`RInv`). One lemma per branch of the loop says that the next argument keeps this.

**Device plugin** (`DevicePluginProofs`): any `MaxFaults`, and `Slots` at least two more.

* `PluginTypeCorrect`: `PluginSpec => []PluginTypeOK`;
* `ServerIsThere`: `PluginSpec => []ServerWhenStarted`;
* `DevicesAreAdvertised`: `PluginSpec => []Advertised`.

`PInv` says that the server of a plugin which main() has forgotten is nil or stopped, where main() is in `Start()` and how
far the goroutine may be then (`MainOK`), and that from the dial on the path is the current
plugin's unless a kubelet that restarts is going to say so (`PathOK`). `BudgetOK` counts the
goroutines that outlive their plugin: each has cost a fault or the wipe of a starting kubelet,
so a slot for the next plugin is always there, which the `CHOOSE` of
`NewNvshareDevicePlugin` needs.

**Only model-checked.** Liveness (`WaiterGetsLock`, `HooksReturn`, `EntryReturns`,
`ConnectionsEnd`, `ClientFollows`, `Available`, `Terminates`), which is outside the prover's
reach. Every safety property of the passing runs is proved, under the hypotheses given above.

## Not modelled

* a GPU with less memory than `MEMINFO_RESERVE_MIB` (`MemoryAssumption`), a node freed
  twice by racing `cuMemFree()` calls, which ends the process;
* a fatal `accept()` error (descriptor table full), failing initialisation, client
  identifiers, pod names, logging, the choice of the socket path;
* of `xopt.c` what `nvsharectl` does not use (callbacks, optional values, required
  options, other types) and the usage text; of `utlist.h` everything but the lists' uses;
  `snprintf.c`, which formats error texts;
* of the device plugin a kubelet that hangs in `Register` (known limits), and `Allocate` and
  the reading of the environment, which change no state;
* packaging, manifests, GPU workloads.

## Plan

1. Done: `Comm`, `Scheduler`, `SchedulerPeers`, `Client`, `NvShare`, their runs, the type
   and queue theorems; `HookMemory`, `HookKernels` and the window theorems.
2. Done: `GpuLock` and the refinement by `SchedulerPeers`; `ByteStream`, `XOpt` and
   `Nvsharectl`; `HookBoot`; `DevicePlugin`.
3. Done: the theorems above.
4. Done: `NoLostRequest` for any script and `OneOwnerWhenSettled` for one OFF/ON cycle.
