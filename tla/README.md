# TLA+ models of the dfms DROP core

This directory holds TLA+ models of `src/dfms/drop.py` and
`src/dfms/apps/dockerapp.py`, with the TLC configurations that check them.
`PROJECT.json` lists the components, runs, mutants, the map from every
definition to the lines it models, the findings and the hazards.

## 1. Inventory

### Components and their state

| Component | Source | State | Operations |
|---|---|---|---|
| Event broadcaster | not in this repository (`dfms.events`), spec 4.1 | subscribers per event kind | `subscribe`, `unsubscribe`, `fire` (synchronous, in order, callback exceptions swallowed) |
| AbstractDROP | drop.py 63-824 | `_status` (RLock), `_wio`, `_size`, `_checksum`, `_checksumType`, `_finishedProducers` (Lock), `_consumers`, `_producers`, `_streamingConsumers`, `_refCount` (Lock), `_rios`, `_parent`, `_expectedSize`, `_executionMode` | `write`, `setCompleted`, `producerFinished`, status setter, `open`/`read`/`close`, `addConsumer`, `addStreamingConsumer`, `addProducer`, parent setter, `checksum`/`checksumType`/`size` set-once setters, `delete`, `exists` |
| Storage DROPs | drop.py 826-909 | file name, buffer, server | `initialize`, `getIO`, `dataURL` |
| ContainerDROP, DirectoryContainer | drop.py 911-1005 | `_children`, `_path` | `addChild`, `delete`, `expirationDate`, `exists` |
| AppDROP | drop.py 1013-1137 | `_inputs`, `_outputs`, `_streamingInputs`, `_execStatus` | `addInput`, `addOutput` (subscribes `appFinished`), `addStreamingInput`, execStatus setter |
| BarrierAppDROP | drop.py 1139-1195 | `_completedInputs` (a list, no lock) | `dropCompleted` (starts `execute` on a daemon thread), `execute`, `run` |
| DockerApp | dockerapp.py 70-389 | `_command`, `_waiters`, `_containerIp`, `_containerId`, `_exitCode` | `initialize`, `handleInterest`, `run`, containerIp setter |
| ContainerIpWaiter | dockerapp.py 50-68 | `_evt`, `_containerIp` | `handleEvent`, `waitForIp` |
| dropdict, link tables | drop.py 1197-1260 | a dict | `_addSomething` |

### How they interact

* **Events.** The status setter fires `status` after releasing its lock; the
  execStatus setter fires `execStatus`; DockerApp fires `containerIp`. Delivery
  is a chain of calls on the firing thread.
* **Consumers.** `addConsumer` subscribes a closure that calls
  `consumer.dropCompleted(uid)` on a `status` event whose value is COMPLETED,
  unless the DROP's execution mode is EXTERNAL.
* **Producers.** `addOutput` subscribes a closure that calls
  `output.producerFinished(app.uid)` on `execStatus` FINISHED or ERROR; the
  last producer's call runs `setCompleted` on the output.
* **Barrier.** `dropCompleted` appends the UID and, when the list is as long as
  the inputs, starts `execute` on a new thread; `execute` sets RUNNING, calls
  `run`, sets FINISHED or ERROR and finally sets `status = COMPLETED`.
* **Interest.** `DockerApp.handleInterest(peer)` subscribes a
  `ContainerIpWaiter` to the peer's `containerIp`; `run` waits on every waiter
  before launching its own container.
* **Back-references.** `addConsumer`/`addInput`, `addStreamingConsumer`/
  `addStreamingInput`, `addProducer`/`addOutput` and parent setter/`addChild`
  call each other.

### What is hard

Many threads (the user's, plus one per barrier execution) run library code on
shared DROPs with only three locks, each guarding one field; check-then-act
sequences span the locks (`write`, `setCompleted`, `dropCompleted`). Exceptions
raised inside event callbacks are swallowed, so a failed step leaves no trace
to the caller. Wiring calls that raise half way leave one side of a
relationship recorded. DockerApps wait on each other's events without a
timeout. The hazards are listed, each at its line, in `PROJECT.json`.

### Properties that make each component correct

* DROP: status only moves forward; a write never undoes a completion; size and
  checksum cover the same bytes; a DROP with producers completes only after all
  of them finished; the reference count returns to 0 after matching
  open/close.
* Barrier: runs exactly once, only after all its inputs are COMPLETED; a
  failing run still completes its outputs.
* Graph: once the sources are complete every app ends and every DROP
  completes.
* Wiring: consumer/input and producer/output lists mirror each other; no DROP
  is both a normal and a streaming consumer; a barrier has no streaming input.
* Containers: each child is listed once; a container's delete deletes each
  existing child once.
* DockerApp: a command naming a peer's IP placeholder waits for that peer and
  gets its IP substituted; a graph of DockerApps whose interest follows the
  dataflow ends once its sources are complete, unless a peer fails before
  publishing its address.

## 2. Plan

1. **DropExecution** (done): the execution core — write, setCompleted, the
   status and execStatus events, barrier dropCompleted, execute threads,
   producerFinished, and the streaming fan-out of write and setCompleted.
   Wiring is given as constants.
2. **DropWiring** (done): the wiring calls with their back-references,
   refusals and partial effects, checking the exclusive consumer roles,
   idempotence, the producer/output correspondence, and (as a violation) the
   consumer/input correspondence, barrier refusal included.
3. **DropReading** (done): open/read/close and the reference count with the
   writer and setCompleted steps that change the status under the readers.
4. **DockerApp** (done): run's waiters, the containerIp event,
   create/start/inspect/wait/remove with docker errors and exit codes, the
   liveness of the waiting and the uid/oid placeholder. **DockerGraph**
   (done) composes it with the DROP graph: the apps are started by their
   inputs and complete their outputs.
5. **Containers** (done): addChild and the parent setter, delete and
   exists, with the recursion depth as a bounded constant.
6. **Abstract dataflow** (done): `Dataflow`, an abstract specification (each
   app runs once after its inputs, each DROP completes after its producers),
   and DropExecution shown to implement it under a refinement mapping
   (`DataflowRefined`) in the pipeline configuration, where the code is race
   free.
7. **Metadata setters** (done): the set-once size/checksum/checksumType
   setters of AbstractDROP in DropReading, racing a writer (`reading_setter_race`).

## 3. Modules and runs

### DropExecution

One module for the execution core. Each Python thread is a stack of frames
(`stack[t]`); an action is one step of the frame on top, i.e. one piece of
code between two accesses of shared state. Event delivery pushes a `fire`
frame whose callbacks are the frames they call (`dropCompleted`,
`producerFinished`), so a chain of callbacks runs on the firing thread exactly
as in the code. An exception unwinds the stack to the nearest handler
(`Raise`): the broadcaster (swallows, goes on with the next subscriber),
`execute` (catches run's exception, then re-raises after `finally`), or the
driver.

| Variable | Code |
|---|---|
| `status` | `AbstractDROP._status` of DROPs and apps |
| `execStatus` | `AppDROP._execStatus` |
| `wio` | `_wio`: none, open, or closed (closed but still set, as in the code) |
| `size`, `ckLen` | `_size`; the number of bytes passed to `_updateChecksum` (the CRC's input, abstracted to its length since it always contains the stored bytes) |
| `finishedProducers` | `_finishedProducers` |
| `completedInputs` | `BarrierAppDROP._completedInputs` |
| `spawned` | number of `execute` threads started per app |
| `streamLog` | the calls (`dataWritten`, `dropCompleted`) each streaming consumer received from each DROP, in order |
| `driverWrites` | bound on the driver's writes |

Actions: `WriteCheck`, `WriteIO`, `WriteStatus` (write, lines 337-380);
`SetCompletedCheck`, `SetCompletedSet`, `SetCompletedStream` (771-785); `FireNext` (broadcaster);
`DropCompletedAppend`, `DropCompletedCheck` (1157-1164); `ExecStart`,
`ExecFinished`, `ExecError`, `ExecFinal` (1176-1185); `RunStep` (application
code: writes to outputs, returns, or raises); `ProducerFinished` (711-724);
`DriveStep` (the user's thread: writes and completes sources, catches errors,
may stop).

Abstractions: data is a length from `ChunkSizes`; the I/O layer may accept
fewer bytes (`nb`) and fails a write on a closed writer (spec 4.2); status
events of other values than COMPLETED and execStatus events other than
FINISHED/ERROR have subscribers that return at once, so they are not pushed.

Fairness: weak fairness of every thread's library steps (`LibStep`). Python
runs every live thread; the user's decisions (`DriveStep`) have no fairness,
so a user may stop at any time but not in the middle of a library call.

Streaming consumers (`StreamApps`) are plain AppDROPs, whose `dataWritten`
and `dropCompleted` return at once; `streamLog` records the calls they get.

### DropWiring

The six wiring calls (`addConsumer`, `addStreamingConsumer`, `addProducer`
on a DROP, lines 617-762; `addInput`, `addOutput`, `addStreamingInput` on an
AppDROP, 1060-1102, and the barrier's refusal, 1154). Each call is one step
(`CallAddConsumer`, ...), computed by a RECURSIVE operator per method that
follows the code: membership checks, refusals, the append, the call to the
other side, and the closure subscription after it. An exception propagates
out of the nested calls with the effects made before it, and the builder
goes on. The lists are sets (each is guarded by a membership check); the
closures subscribed to `status` and `execStatus` are sequences
(`statusSubs`, `execSubs`), since a closure subscribed twice is called
twice. DropExecution's `Inputs`, `Outputs` and `StreamingConsumers` are a
wiring in which `ConsumerMirror` and `ProducerMirror` hold.

### Containers

`addChild` (934-944), the parent setter (595-606), `delete` (389-393,
946-952) and `exists` (964-969). `addChild` and the parent setter call each
other; each top-level call is one step computed by RECURSIVE operators, with
the Python call depth counted and an exception (`RecursionError`) when it
exceeds `RecursionLimit`. A DirectoryContainer refuses a child outside its
path; the setter restores the old parent when `addChild` raises. `children`
is a sequence, since the code's list keeps duplicates. `RecursionLimit = 4`
stands for Python's 1000: the recursion only stops at the limit, and the
limit's value changes only how many duplicates are appended. The builder
may call `k.addChild(k)` and set `k.parent = k`, as the code allows. The
first lists `k` among its own children: 937 compares the child with
`k.parent`, not with `k`, and the setter swallows the nested refusal. `TypeOK`
includes DirectoryContainer's type rule (994-1001): a directory's children are
files or directories, whichever of `addChild` and the parent setter added
them. The mutant without that check breaks it.

`exists` and `delete` carry the same call depth. `exists` asks every child
(the list is built before `reduce`), a childless container exists, and the
first exception propagates. `delete` builds the list of children that exist
once, then deletes each in order; a file's `delete` raises when its file is
gone. The history variable `lastDelete` records which container the last call
deleted and whether it raised; it exists only for `DeleteRemovesAll`.
`MC_Containers` has three plain containers, the fewest that close a cycle past
`addChild`'s direct-parent check (k1.addChild(k2), k2.addChild(k3),
k3.addChild(k1)), and a directory container `d` holding `f2`'s path. Through a
cycle `exists` and `delete` recurse to the limit and raise, as in Python. With
up to 3 wiring calls and `RecursionLimit = 4`, every acyclic chain (at most 3
levels) stays within the limit, so only a cycle hits it.

Since every `addChild` lists the child at least twice, a `delete` that
reaches a stored file raises on its second copy. `DeleteRemovesAll` says a
`delete` that returns normally has removed every file reachable from the
container. A filter that joins the children's answers with `and` (the
source's TODO asks whether it should) breaks it.

### DropReading

`open` (260-286), `read` (306-318), `close` (293-304) and the locked
`incrRefCount`/`decrRefCount` (246-258), with a writer (`write`'s check and
WRITING step) and `setCompleted` on other threads. `_refCount += 1` is a read
and a write while `_refLock` is held, so a missing lock would show as a lost
update. Readers run open-read-close; fairness is weak fairness of every
thread, as Python runs every live thread and the `open` docstring requires the
matching `close`.

The same module has the set-once setters of `size` (553-559), `checksum`
(430-436) and `checksumType` (452-458): each returns if the value is set or
the status is INITIALIZED or WRITING, and otherwise assigns, with no lock.
These are three steps: the unlocked read of the attribute (555,
`SetterCheckValue`), the read of the status (557, `SetterCheckStatus`) and the
assignment (559, `SetterSet`). The writer's I/O step (`WriteIO`, 352-364)
adds to `_size` and chains the checksum (`UpdateChecksum`, 409-414); a
checksum is a pair (start value, bytes covered) rather than a CRC.
`MetadataFixedOnceCompleted` says that once COMPLETED a value that is set
stays set. It does not hold. In `reading_setter_race` a size setter reads
`_size` as None, then `w1` writes and completes the DROP, then the setter reads
COMPLETED and overwrites the size `write()` counted.

### Dataflow and the refinement

`Dataflow` is what a DROP graph promises with no threads or events: `done`,
the COMPLETED DROPs, and `appState`, each app idle, running or ended.
`CompleteSource` is the user's step; `StartApp` (all inputs done), `EndApp`
and `CompleteOutput` (all producers ended) are the graph's (`GraphStep`).
DropExecution maps onto it by `done = {d : status[d] = "COMPLETED"}` and
`appState` from `execStatus` (NOT_RUN is idle, RUNNING is running, FINISHED
or ERROR is ended); every library step that changes neither is a stutter.
Fairness is one `WF_vars(GraphStep)`: each app starts and ends once and each
produced DROP completes once, so weak fairness of the disjunction forces
every graph step that stays enabled, as a conjunct per step would. The
refinement is checked in the pipeline run only; the race configurations
already violate `ExecOnce` or `RunsAfterInputs`.

### DockerApp

`handleInterest` (265-272) at deployment builds each app's waiter list;
`ExecStart` is `execute` setting RUNNING; `WaitForIp` is one iteration of
run's waiter loop (307-310), blocked until the waiter's event is set;
`Create`, `Start`, `Inspect`, `Wait` are the docker client calls, each of which
may raise (`DockerErrors`) and so end run with execStatus ERROR. `Inspect`
runs the containerIp setter, whose event sets the address and the event of
every waiter subscribed to the app (delivery is on the publishing thread,
taken as one step because the waiters only read after their event). A
waiter's `_containerIp` does not exist before its event (`NoAttr`).
`Placeholders` are the ids written in `%containerIp[..]%` of a command;
MC_DockerGraph.cfg and MC_DockerLeak.cfg use the uids (as the tests, which give a DROP the same oid and
uid), MC_DockerOid.cfg distinct oids as the class documentation asks.
Fairness: weak fairness of each app's steps (Python threads, and docker
answering each call; a container's process is assumed to exit, as the
class's TODO asks of them). When an app starts depends on its inputs, so
`ExecStart` has none there.

### DockerGraph

`DockerGraph` EXTENDS `DockerApp` with the DROPs around the apps: `done`,
the COMPLETED data DROPs, and the constants `Inputs` and `Outputs`.
`DropCompleted` is `BarrierAppDROP.dropCompleted` (1157-1164) starting
`execute` once every input is COMPLETED; an app with no input is never
called and never starts. `ProducersFinished` is the `appFinished` closure
(1081-1089) with `producerFinished` and `setCompleted`: an output completes
once every producer's execStatus is FINISHED or ERROR. `CompleteSource` is
the user's `setCompleted` on a source. A join is one step here;
DropExecution checks the join by itself. Fairness: each execute thread, and
`dropCompleted` and `appFinished`, which run inside an event on a running
thread, are weakly fair; the user's completions are not, so `AppsEnd` takes
"every source is eventually completed" as its hypothesis. `AppsEnd` says the
graph then ends, unless some app waits for a peer that raised before
publishing its address. Two graphs break it, which the run's graph avoids
(both were checked by hand): an app without inputs, and an app waiting on a
peer that consumes its output, which deadlocks with nothing to detect it.

### Runs

| Run | Config | Expect | What it shows |
|---|---|---|---|
| pipeline | MC_Pipeline.cfg | pass | Graph `A,B -> X -> C`, `A -> W -> C`, one user thread, `A` with expectedSize 2, chunks of 2 bytes, short writes, `X`'s run writes `C` once and `W`'s writes nothing; runs return or raise. A plain AppDROP `S` streams `A` and `C`. Checks `TypeOK`, `StreamEndsLast`, `ExecOnce`, `RunsAfterInputs`, `CompletesAfterProducers`, and `DataflowRefined` (DropExecution implements Dataflow). About 337k states, a little over a minute. |
| join_race | MC_Join.cfg | violation | `A -> X -> C`, `B -> Y -> E`, `C,E -> Z`: X and Y complete Z's inputs on two threads, both see the count reached, Z's execute starts twice (`ExecOnce`). |
| write_vs_setcompleted | MC_TwoDrivers.cfg | violation | two user threads on `A,B -> X`: a write that already passed its check sets A back to WRITING after the other thread's setCompleted; a second setCompleted notifies X again and X runs with B not COMPLETED (`RunsAfterInputs`). |
| wiring | MC_Wiring.cfg | pass | every sequence of wiring calls on two DROPs (one EXTERNAL), a barrier and a plain AppDROP: `TypeOK`, `RolesExclusive`, `Idempotent`, `ProducerMirror`. 11k states. |
| wiring_consumer_mirror | MC_WiringMirror.cfg | violation | one call, `d1.addStreamingConsumer(b)`, appends the barrier `b` to `d1`'s streaming consumers (758) before `b.addStreamingInput` raises, so `b` stays a streaming consumer it refuses to be (`ConsumerMirror`). `addInput`'s partial failure (1063) breaks the same property, but it takes two calls, and TLC stops at this one-step trace first. |
| containers | MC_Containers.cfg | pass | every sequence of up to 3 addChild/parent calls, with deletes, on three containers, a directory and two files, cycles included: `TypeOK`, `ParentListed`, `DeleteRemovesAll`. |
| containers_duplicate_children | MC_ContainersDup.cfg | violation | one `addChild` recurses through the parent setter until the recursion limit and lists the child several times (`ChildrenDistinct`). |
| reading | MC_Reading.cfg | pass | two readers, a writer that writes once or only completes, and one setter each for size, checksum and checksumType: `TypeOK`, `CountsOpenReaders` (the lock-protected count equals the readers between increment and decrement), `CountReturnsToZero`. About 113k states. |
| reading_setter_race | MC_ReadingSetter.cfg | violation | the size setter's unlocked `_size` read (555) and its status read (557) straddle `w1`'s write and `setCompleted`; the setter then overwrites the size of a COMPLETED DROP (`MetadataFixedOnceCompleted`). |
| dockerapp | MC_DockerGraph.cfg | pass | three DockerApps in the graph `s -> P -> x -> R -> z`, `s -> Q -> y`, Q naming P's address, R naming Q's and P's, every docker call may raise, exit codes 0 and 1: `GraphTypeOK`, `IpResolvedBeforeCreate`, `AppsEnd`. About 400 states. |
| dockerapp_oid_placeholder | MC_DockerOid.cfg | violation | with oids distinct from uids, a command written with the oid as documented gets no waiter and creates its container with the placeholder unresolved (`IpResolvedBeforeCreate`). |
| dockerapp_container_leak | MC_DockerLeak.cfg | violation | an exception from start, inspect or wait leaves a container that `removeContainer` asks to remove (`ContainerRemoved`). |

Bounds. `MaxExecs = 2` lets a second execute thread exist, so a double start
is seen as a violation rather than hidden by the bound. `MaxWrites = 1`,
`MaxRunWrites` (a bound per app) and a single chunk size keep the pipeline
run to about a minute. In the pipeline only `X`'s run writes to `C`. Letting
`W`'s run write `C` as well multiplies the states by ten, mostly through the
two writes' check/IO/status steps interleaving, and the liveness check of
`DataflowRefined` then takes minutes. The pipeline's properties are about when
apps start and when DROPs complete, and `C` completes only after both `run()`s
have returned or raised. So how two producers' writes to `C` interleave does
not bear on them. The write/setCompleted race is the subject of
`write_vs_setcompleted`. `W` still finishes or raises, so `C` completes through
`producerFinished` from either producer, in either order. Reached:
every interleaving of the driver's write/setCompleted with the two execute
threads, short writes, the expectedSize path, the write refused after
completion, runs that raise, and two producers finishing in either order are
all reached. The races found need only two threads and one write each. The
same write/setCompleted window also lets a first write call `dataWritten`
after a streaming consumer's `dropCompleted` and, under readers, keeps a
reader from closing; `PROJECT.json` records both at their lines.

In the pipeline run the joins are driven by one thread, so it is the
configuration in which the code is correct; the violation runs show what
breaks as soon as a join or a source is shared by two threads.

## 4. Not modelled (yet)

See the plan. `ContainerDROP.expirationDate` is a read with no state
change; its treatment of a child's -1 ("never") as the smallest date is
recorded as a hazard in `PROJECT.json`. So is `write`'s short write (364),
which feeds all of `data` to the checksum while `_size` grows by `nbytes`.
`WriteIO` models it, but no run checks it: the project's runs go to the
concurrency findings, and a unit test with an I/O that accepts fewer bytes
reaches it. Storage back-ends, DockerApp configuration parsing, image
pulling, `dropdict` and the memory benchmark are left out for good: they are
I/O, naming or data containers with no concurrency or state machine.
