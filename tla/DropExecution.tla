--------------------------- MODULE DropExecution ---------------------------
(***************************************************************************)
(* Execution of a DROP graph (src/dfms/drop.py): data DROPs written and    *)
(* completed, the 'status' and 'execStatus' events fanned out to           *)
(* subscribers, BarrierAppDROPs that count completed inputs and start      *)
(* `execute` on a fresh thread, and outputs that complete when all their   *)
(* producers have called `producerFinished`.                               *)
(*                                                                         *)
(* Every Python thread is a call stack of frames.  Event delivery is       *)
(* synchronous, so a `fire` is a frame that calls its subscribers one      *)
(* after the other on the firing thread.  A step of a thread is one        *)
(* stretch of code between two reads or writes of shared state, so TLC     *)
(* interleaves threads exactly where the code can be preempted between a   *)
(* check and the action that depends on it.                                *)
(***************************************************************************)
EXTENDS Integers, Sequences, FiniteSets, SequencesExt

CONSTANTS
    Drops,          \* data DROPs (model values)
    Apps,           \* BarrierAppDROPs (model values)
    StreamApps,     \* plain AppDROPs used as streaming consumers
    Drivers,        \* user threads that write and complete source DROPs
    Inputs,         \* Inputs[a]: the normal inputs of app a (addInput)
    Outputs,        \* Outputs[a]: the outputs of app a (addOutput)
    StreamingConsumers, \* StreamingConsumers[d]: addStreamingConsumer
    External,       \* DROPs with executionMode EXTERNAL
    ExpectedSize,   \* ExpectedSize[d] > 0 iff 'expectedSize' was given
    ChunkSizes,     \* lengths of the data passed to write()
    MaxWrites,      \* bound: write() calls a driver makes on one DROP
    MaxRunWrites,   \* bound: MaxRunWrites[a] write() calls one run() of a makes
    MaxExecs        \* bound: execute threads started for one app

ASSUME /\ Drops \cap Apps = {}
       /\ \A a \in Apps : Inputs[a] \subseteq Drops /\ Outputs[a] \subseteq Drops
       /\ \A d \in Drops : StreamingConsumers[d] \subseteq StreamApps
       /\ External \subseteq Drops
       /\ MaxRunWrites \in [Apps -> Nat]
       /\ MaxExecs \in Nat \ {0}

Producers(d) == {a \in Apps : d \in Outputs[a]}
Consumers(d) == {a \in Apps : d \in Inputs[a]}
Sources      == {d \in Drops : Producers(d) = {}}

\* Threads: the drivers, and the execute threads a BarrierAppDROP spawns.
ExecThreads == Apps \X (1..MaxExecs)
Threads     == Drivers \cup ExecThreads

DropStates == {"INITIALIZED", "WRITING", "COMPLETED"}
AppStates  == {"NOT_RUN", "RUNNING", "FINISHED", "ERROR"}

VARIABLES
    status,             \* AbstractDROP._status, of DROPs and apps
    execStatus,         \* AppDROP._execStatus
    wio,                \* AbstractDROP._wio: "none", "open" or "closed"
    size,               \* AbstractDROP._size: bytes the writer accepted
    ckLen,              \* bytes fed to _updateChecksum
    driverWrites,       \* write() calls issued by drivers, per DROP
    finishedProducers,  \* AbstractDROP._finishedProducers
    completedInputs,    \* BarrierAppDROP._completedInputs (a list)
    spawned,            \* execute threads started per app
    streamLog,          \* calls each streaming consumer received, per DROP
    stack               \* the call stack of every thread

vars == <<status, execStatus, wio, size, ckLen, driverWrites,
          finishedProducers, completedInputs, spawned, streamLog, stack>>

-----------------------------------------------------------------------------
(* Frames.  Callbacks held by a 'fire' frame are the frames they call.     *)

WriteF(d, n, pc)    == [op |-> "write", drop |-> d, len |-> n, pc |-> pc]
SetCompletedF(d, pc) == [op |-> "setCompleted", drop |-> d, pc |-> pc]
FireF(cbs)          == [op |-> "fire", cbs |-> cbs]
DropCompletedF(a, d, pc) == [op |-> "dropCompleted", app |-> a, drop |-> d, pc |-> pc]
ExecuteF(a, pc)     == [op |-> "execute", app |-> a, pc |-> pc]
RunF(a, k)          == [op |-> "run", app |-> a, k |-> k]
ProducerFinishedF(d, a) == [op |-> "producerFinished", drop |-> d, app |-> a]
DriveF              == [op |-> "drive"]

\* The frame thread t is executing; an ended thread executes nothing.
Top(t)  == IF stack[t] = <<>> THEN [op |-> "ended"] ELSE stack[t][Len(stack[t])]
Rest(t) == SubSeq(stack[t], 1, Len(stack[t]) - 1)
\* Replace the top frame of thread t by the frames fs (<<>> returns).
Continue(t, fs) == stack' = [stack EXCEPT ![t] = Rest(t) \o fs]
Pop(t)          == Continue(t, <<>>)
SetTop(t, f)    == Continue(t, <<f>>)

\* Variant: the closure does not look at e.status.
StatusFireUnfiltered(d, v) ==
    IF d \notin External
    THEN SetToSeq({DropCompletedF(c, d, "append") : c \in Consumers(d)})
    ELSE <<>>

(* The subscribers of a 'status' event of DROP d with value v: the closure *)
(* addConsumer registers calls consumer.dropCompleted only for COMPLETED,  *)
(* and is not registered at all for an EXTERNAL DROP.                      *)
StatusFire(d, v) ==
    IF v = "COMPLETED" /\ d \notin External
    THEN SetToSeq({DropCompletedF(c, d, "append") : c \in Consumers(d)})
    ELSE <<>>

\* Variant: only FINISHED notifies the outputs.
ExecStatusFireFinishedOnly(a, v) ==
    IF v = "FINISHED"
    THEN SetToSeq({ProducerFinishedF(o, a) : o \in Outputs[a]})
    ELSE <<>>

(* The subscribers of an 'execStatus' event of app a with value v: the     *)
(* closure addOutput registers calls output.producerFinished(a.uid) for    *)
(* FINISHED and ERROR.                                                     *)
ExecStatusFire(a, v) ==
    IF v \in {"FINISHED", "ERROR"}
    THEN SetToSeq({ProducerFinishedF(o, a) : o \in Outputs[a]})
    ELSE <<>>

(* An exception unwinds the stack to the nearest handler: the broadcaster  *)
(* swallows a callback's exception and goes on with the next callback,     *)
(* execute() catches what run() raises, a driver catches what it called.   *)
(* With no handler the thread dies.                                        *)
Handles(f) == f.op \in {"fire", "drive"} \/ (f.op = "execute" /\ f.pc = "run")
Raise(t) ==
    LET s  == stack[t]
        hs == {i \in 1..Len(s) - 1 : Handles(s[i])}
    IN  IF hs = {}
        THEN stack' = [stack EXCEPT ![t] = <<>>]
        ELSE LET i == Max(hs)
                 h == IF s[i].op = "execute" THEN [s[i] EXCEPT !.pc = "except"]
                                             ELSE s[i]
             IN  stack' = [stack EXCEPT ![t] = Append(SubSeq(s, 1, i - 1), h)]

(* Fire the callbacks cbs above the frames fs; firing to no subscriber     *)
(* does nothing, so no frame is pushed for it.                             *)
Fire(fs, cbs) == IF cbs = <<>> THEN fs ELSE fs \o <<FireF(cbs)>>

(* The status setter: under the lock nothing happens if the value is the  *)
(* same; otherwise the value is stored and, after the lock, the event is   *)
(* fired.  The thread then goes on with the frames fs.                     *)
SetStatus(t, d, v, fs) ==
    IF status[d] = v
    THEN UNCHANGED status /\ Continue(t, fs)
    ELSE /\ status' = [status EXCEPT ![d] = v]
         /\ Continue(t, Fire(fs, StatusFire(d, v)))

(* The execStatus setter, the same for the 'execStatus' event.             *)
SetExecStatus(t, a, v, fs) ==
    IF execStatus[a] = v
    THEN UNCHANGED execStatus /\ Continue(t, fs)
    ELSE /\ execStatus' = [execStatus EXCEPT ![a] = v]
         /\ Continue(t, Fire(fs, ExecStatusFire(a, v)))

-----------------------------------------------------------------------------
(* AbstractDROP.write(data)                                                *)

\* `if self.status not in [INITIALIZED, WRITING]: raise`
WriteCheck(t) ==
    LET f == Top(t) IN
    /\ f.op = "write" /\ f.pc = "check"
    /\ \/ status[f.drop] \in {"INITIALIZED", "WRITING"} /\ SetTop(t, [f EXCEPT !.pc = "io"])
       \/ status[f.drop] \notin {"INITIALIZED", "WRITING"} /\ Raise(t)
    /\ UNCHANGED <<streamLog, status, execStatus, wio, size, ckLen, driverWrites,
                   finishedProducers, completedInputs, spawned>>

\* Lazily open the writer, write, add the bytes accepted (nb, possibly
\* fewer than asked) to the size, call dataWritten on every streaming
\* consumer, feed the data to the checksum.  A closed
\* writer (setCompleted closed it) fails the write with an IOError.
WriteIO(t) ==
    LET f == Top(t)
        d == f.drop
    IN
    /\ f.op = "write" /\ f.pc = "io"
    /\ \/ /\ wio[d] = "closed"
          /\ Raise(t)
          /\ UNCHANGED <<wio, size, ckLen, streamLog>>
       \/ /\ wio[d] # "closed"
          /\ \E nb \in 0..f.len :
                /\ wio' = [wio EXCEPT ![d] = "open"]
                /\ size' = [size EXCEPT ![d] = @ + nb]
                /\ streamLog' = [streamLog EXCEPT ![d] =
                      [c \in StreamApps |-> IF c \in StreamingConsumers[d]
                                            THEN Append(@[c], "data") ELSE @[c]]]
                /\ ckLen' = [ckLen EXCEPT ![d] = @ + f.len]
                /\ SetTop(t, [f EXCEPT !.pc = "status"])
    /\ UNCHANGED <<status, execStatus, driverWrites, finishedProducers,
                   completedInputs, spawned>>

\* All expected bytes arrived.
ExpectedReached(d) == ExpectedSize[d] > 0 /\ ExpectedSize[d] - size[d] <= 0

\* Either setCompleted() is called (returning from write afterwards), or
\* the status is set to WRITING.
WriteStatus(t) ==
    LET f == Top(t) IN
    /\ f.op = "write" /\ f.pc = "status"
    /\ \/ ExpectedReached(f.drop) /\ SetTop(t, SetCompletedF(f.drop, "check"))
                                  /\ UNCHANGED status
       \/ ~ExpectedReached(f.drop) /\ SetStatus(t, f.drop, "WRITING", <<>>)
    /\ UNCHANGED <<streamLog, execStatus, wio, size, ckLen, driverWrites,
                   finishedProducers, completedInputs, spawned>>

-----------------------------------------------------------------------------
(* AbstractDROP.setCompleted()                                             *)

\* Variant: setCompleted() without its status check.
SetCompletedCheckNoGuard(t) ==
    LET f == Top(t) IN
    /\ f.op = "setCompleted" /\ f.pc = "check"
    /\ SetTop(t, [f EXCEPT !.pc = "set"])
    /\ UNCHANGED <<streamLog, status, execStatus, wio, size, ckLen, driverWrites,
                   finishedProducers, completedInputs, spawned>>

\* `if self.status not in [INITIALIZED, WRITING]: raise`
SetCompletedCheck(t) ==
    LET f == Top(t) IN
    /\ f.op = "setCompleted" /\ f.pc = "check"
    /\ \/ status[f.drop] \in {"INITIALIZED", "WRITING"} /\ SetTop(t, [f EXCEPT !.pc = "set"])
       \/ status[f.drop] \notin {"INITIALIZED", "WRITING"} /\ Raise(t)
    /\ UNCHANGED <<streamLog, status, execStatus, wio, size, ckLen, driverWrites,
                   finishedProducers, completedInputs, spawned>>

\* Close the writer if there is one, then set the status to COMPLETED;
\* the streaming consumers are told after the 'status' event.
SetCompletedSet(t) ==
    LET f == Top(t)
        d == f.drop
    IN
    /\ f.op = "setCompleted" /\ f.pc = "set"
    /\ wio' = [wio EXCEPT ![d] = IF @ = "open" THEN "closed" ELSE @]
    /\ SetStatus(t, d, "COMPLETED", <<[f EXCEPT !.pc = "stream"]>>)
    /\ UNCHANGED <<streamLog, execStatus, size, ckLen, driverWrites, finishedProducers,
                   completedInputs, spawned>>

\* `for ic in self._streamingConsumers: ic.dropCompleted(self.uid)`: the
\* AppDROP callback does nothing but return.
SetCompletedStream(t) ==
    LET f == Top(t)
        d == f.drop
    IN
    /\ f.op = "setCompleted" /\ f.pc = "stream"
    /\ streamLog' = [streamLog EXCEPT ![d] =
          [c \in StreamApps |-> IF c \in StreamingConsumers[d]
                                THEN Append(@[c], "end") ELSE @[c]]]
    /\ Pop(t)
    /\ UNCHANGED <<status, execStatus, wio, size, ckLen, driverWrites,
                   finishedProducers, completedInputs, spawned>>

-----------------------------------------------------------------------------
(* LocalEventBroadcaster.fire: call the subscribers one after the other.   *)

FireNext(t) ==
    LET f == Top(t) IN
    /\ f.op = "fire"
    /\ \/ f.cbs = <<>> /\ Pop(t)
       \/ f.cbs # <<>> /\ Continue(t, <<[f EXCEPT !.cbs = Tail(f.cbs)], Head(f.cbs)>>)
    /\ UNCHANGED <<streamLog, status, execStatus, wio, size, ckLen, driverWrites,
                   finishedProducers, completedInputs, spawned>>

-----------------------------------------------------------------------------
(* BarrierAppDROP.dropCompleted(uid)                                       *)

\* Variant: the app appends its own UID.
DropCompletedAppendSelf(t) ==
    LET f == Top(t) IN
    /\ f.op = "dropCompleted" /\ f.pc = "append"
    /\ completedInputs' = [completedInputs EXCEPT ![f.app] = Append(@, f.app)]
    /\ SetTop(t, [f EXCEPT !.pc = "check"])
    /\ UNCHANGED <<streamLog, status, execStatus, wio, size, ckLen, driverWrites,
                   finishedProducers, spawned>>

\* `self._completedInputs.append(uid)`
DropCompletedAppend(t) ==
    LET f == Top(t) IN
    /\ f.op = "dropCompleted" /\ f.pc = "append"
    /\ completedInputs' = [completedInputs EXCEPT ![f.app] = Append(@, f.drop)]
    /\ SetTop(t, [f EXCEPT !.pc = "check"])
    /\ UNCHANGED <<streamLog, status, execStatus, wio, size, ckLen, driverWrites,
                   finishedProducers, spawned>>

\* Variant: an off-by-one in the barrier count.
AllInputsCompletedOffByOne(a) == Len(completedInputs[a]) >= Cardinality(Inputs[a]) - 1

\* `if len(self._completedInputs) == len(self._inputs)`
AllInputsCompleted(a) == Len(completedInputs[a]) = Cardinality(Inputs[a])

\* Start a daemon thread running execute(), or just return.
DropCompletedCheck(t) ==
    LET f == Top(t)
        a == f.app
    IN
    /\ f.op = "dropCompleted" /\ f.pc = "check"
    /\ \/ /\ AllInputsCompleted(a)
          /\ spawned[a] < MaxExecs
          /\ spawned' = [spawned EXCEPT ![a] = @ + 1]
          /\ stack' = [stack EXCEPT ![t] = Rest(t),
                                     ![<<a, spawned[a] + 1>>] = <<ExecuteF(a, "start")>>]
       \/ ~AllInputsCompleted(a) /\ Pop(t) /\ UNCHANGED spawned
    /\ UNCHANGED <<streamLog, status, execStatus, wio, size, ckLen, driverWrites,
                   finishedProducers, completedInputs>>

-----------------------------------------------------------------------------
(* BarrierAppDROP.execute()                                                *)

\* `self.execStatus = RUNNING`, then call run().
ExecStart(t) ==
    LET f == Top(t) IN
    /\ f.op = "execute" /\ f.pc = "start"
    /\ SetExecStatus(t, f.app, "RUNNING", <<[f EXCEPT !.pc = "run"], RunF(f.app, 0)>>)
    /\ UNCHANGED <<streamLog, status, wio, size, ckLen, driverWrites, finishedProducers,
                   completedInputs, spawned>>

\* run() returned: `self.execStatus = FINISHED`.
ExecFinished(t) ==
    LET f == Top(t) IN
    /\ f.op = "execute" /\ f.pc = "run"
    /\ SetExecStatus(t, f.app, "FINISHED", <<[f EXCEPT !.pc = "final"]>>)
    /\ UNCHANGED <<streamLog, status, wio, size, ckLen, driverWrites, finishedProducers,
                   completedInputs, spawned>>

\* run() raised: `self.execStatus = ERROR`.
ExecError(t) ==
    LET f == Top(t) IN
    /\ f.op = "execute" /\ f.pc = "except"
    /\ SetExecStatus(t, f.app, "ERROR", <<[f EXCEPT !.pc = "finalRaise"]>>)
    /\ UNCHANGED <<streamLog, status, wio, size, ckLen, driverWrites, finishedProducers,
                   completedInputs, spawned>>

\* `finally: self.status = COMPLETED`; after an error the exception is
\* raised again and ends the thread.
ExecFinal(t) ==
    LET f == Top(t) IN
    /\ f.op = "execute"
    /\ \/ f.pc = "final" /\ SetStatus(t, f.app, "COMPLETED", <<>>)
       \/ f.pc = "finalRaise" /\ status' = [status EXCEPT ![f.app] = "COMPLETED"]
                             /\ Raise(t)
    /\ UNCHANGED <<streamLog, execStatus, wio, size, ckLen, driverWrites, finishedProducers,
                   completedInputs, spawned>>

(* run(): application code.  It writes into its outputs through write()    *)
(* and returns, or raises (a failing application, a DockerApp whose        *)
(* container exits non-zero, a write refused by a COMPLETED output).       *)
RunStep(t) ==
    LET f == Top(t) IN
    /\ f.op = "run"
    /\ \/ /\ f.k < MaxRunWrites[f.app]
          /\ \E o \in Outputs[f.app], n \in ChunkSizes :
                Continue(t, <<[f EXCEPT !.k = @ + 1], WriteF(o, n, "check")>>)
       \/ Pop(t)
       \/ Raise(t)
    /\ UNCHANGED <<streamLog, status, execStatus, wio, size, ckLen, driverWrites,
                   finishedProducers, completedInputs, spawned>>

-----------------------------------------------------------------------------
(* AbstractDROP.producerFinished(uid)                                      *)

\* Variant: the first producer to finish completes the DROP.
FirstProducerFinished(d, nFinished) == nFinished + 1 >= 1

\* `if (nFinished+1) == len(self._producers)`
AllProducersFinished(d, nFinished) == nFinished + 1 = Cardinality(Producers(d))

\* Under _finishedProducersLock: refuse one finish too many, else record
\* it; after the lock, complete the DROP if this was the last producer.
ProducerFinished(t) ==
    LET f == Top(t)
        d == f.drop
        nFinished == Cardinality(finishedProducers[d])
    IN
    /\ f.op = "producerFinished"
    /\ \/ /\ nFinished >= Cardinality(Producers(d))
          /\ Raise(t)
          /\ UNCHANGED finishedProducers
       \/ /\ nFinished < Cardinality(Producers(d))
          /\ finishedProducers' = [finishedProducers EXCEPT ![d] = @ \cup {f.app}]
          /\ IF AllProducersFinished(d, nFinished)
             THEN SetTop(t, SetCompletedF(d, "check"))
             ELSE Pop(t)
    /\ UNCHANGED <<streamLog, status, execStatus, wio, size, ckLen, driverWrites,
                   completedInputs, spawned>>

-----------------------------------------------------------------------------
(* A driver: the user thread writing the source DROPs and completing them, *)
(* catching what these calls raise; it may stop at any time.               *)

DriveStep(t) ==
    /\ Top(t).op = "drive"
    /\ \/ \E d \in Sources, n \in ChunkSizes :
             /\ driverWrites[d] < MaxWrites
             /\ driverWrites' = [driverWrites EXCEPT ![d] = @ + 1]
             /\ Continue(t, <<DriveF, WriteF(d, n, "check")>>)
       \/ \E d \in Sources :
             Continue(t, <<DriveF, SetCompletedF(d, "check")>>) /\ UNCHANGED driverWrites
       \/ Pop(t) /\ UNCHANGED driverWrites
    /\ UNCHANGED <<streamLog, status, execStatus, wio, size, ckLen, finishedProducers,
                   completedInputs, spawned>>

-----------------------------------------------------------------------------

Init ==
    /\ status = [n \in Drops \cup Apps |-> "INITIALIZED"]
    /\ execStatus = [a \in Apps |-> "NOT_RUN"]
    /\ wio = [d \in Drops |-> "none"]
    /\ size = [d \in Drops |-> 0]
    /\ ckLen = [d \in Drops |-> 0]
    /\ driverWrites = [d \in Drops |-> 0]
    /\ finishedProducers = [d \in Drops |-> {}]
    /\ completedInputs = [a \in Apps |-> <<>>]
    /\ spawned = [a \in Apps |-> 0]
    /\ streamLog = [d \in Drops |-> [c \in StreamApps |-> <<>>]]
    /\ stack = [t \in Threads |-> IF t \in Drivers THEN <<DriveF>> ELSE <<>>]

\* A step of library code on thread t.
LibStep(t) ==
    /\ stack[t] # <<>>
    /\ \/ WriteCheck(t) \/ WriteIO(t) \/ WriteStatus(t)
       \/ SetCompletedCheck(t) \/ SetCompletedSet(t) \/ SetCompletedStream(t)
       \/ FireNext(t)
       \/ DropCompletedAppend(t) \/ DropCompletedCheck(t)
       \/ ExecStart(t) \/ ExecFinished(t) \/ ExecError(t) \/ ExecFinal(t)
       \/ RunStep(t)
       \/ ProducerFinished(t)

\* Every thread has ended: the program stops.
Terminated == \A t \in Threads : stack[t] = <<>>

Next ==
    \/ \E t \in Threads : WriteCheck(t)
    \/ \E t \in Threads : WriteIO(t)
    \/ \E t \in Threads : WriteStatus(t)
    \/ \E t \in Threads : SetCompletedCheck(t)
    \/ \E t \in Threads : SetCompletedSet(t)
    \/ \E t \in Threads : SetCompletedStream(t)
    \/ \E t \in Threads : FireNext(t)
    \/ \E t \in Threads : DropCompletedAppend(t)
    \/ \E t \in Threads : DropCompletedCheck(t)
    \/ \E t \in Threads : ExecStart(t)
    \/ \E t \in Threads : ExecFinished(t)
    \/ \E t \in Threads : ExecError(t)
    \/ \E t \in Threads : ExecFinal(t)
    \/ \E t \in Threads : RunStep(t)
    \/ \E t \in Threads : ProducerFinished(t)
    \/ \E t \in Drivers : DriveStep(t)
    \/ Terminated /\ UNCHANGED vars

\* The interpreter keeps running every live thread; drivers may stop
\* calling the library, but not in the middle of a library call.
Fairness == \A t \in Threads : WF_vars(LibStep(t))

Spec == Init /\ [][Next]_vars /\ Fairness

-----------------------------------------------------------------------------
(* Properties                                                              *)

Frames ==
    {WriteF(d, n, pc) : d \in Drops, n \in ChunkSizes, pc \in {"check", "io", "status"}}
    \cup {SetCompletedF(d, pc) : d \in Drops, pc \in {"check", "set", "stream"}}
    \cup {DropCompletedF(a, d, pc) : a \in Apps, d \in Drops, pc \in {"append", "check"}}
    \cup {ExecuteF(a, pc) : a \in Apps, pc \in {"start", "run", "except", "final", "finalRaise"}}
    \cup UNION {{RunF(a, k) : k \in 0..MaxRunWrites[a]} : a \in Apps}
    \cup {ProducerFinishedF(d, a) : d \in Drops, a \in Apps}
    \cup {DriveF}

\* Every variable holds what the code can store in it; a barrier's list of
\* completed inputs only holds UIDs of its own inputs.
TypeOK ==
    /\ status \in [Drops \cup Apps -> DropStates]
    /\ execStatus \in [Apps -> AppStates]
    /\ wio \in [Drops -> {"none", "open", "closed"}]
    /\ size \in [Drops -> Nat] /\ ckLen \in [Drops -> Nat]
    /\ finishedProducers \in [Drops -> SUBSET Apps]
    /\ \A a \in Apps : completedInputs[a] \in Seq(Inputs[a])
    /\ spawned \in [Apps -> 0..MaxExecs]
    /\ streamLog \in [Drops -> [StreamApps -> Seq({"data", "end"})]]
    /\ \A t \in Threads : \A i \in DOMAIN stack[t] :
          stack[t][i] \in Frames \/ stack[t][i].op = "fire"

\* A BarrierAppDROP starts execute() at most once: dropCompleted must not
\* count its way to len(self._inputs) twice.
ExecOnce == \A a \in Apps : spawned[a] <= 1

\* A BarrierAppDROP only runs once all its inputs are COMPLETED (and they
\* stay so): execute() is never started on a partial input.
RunsAfterInputs ==
    \A a \in Apps : execStatus[a] # "NOT_RUN" =>
        \A d \in Inputs[a] : status[d] = "COMPLETED"

\* A DROP completed through producerFinished (no expectedSize) is only
\* COMPLETED once every one of its producers has finished or failed.
CompletesAfterProducers ==
    \A d \in Drops \ Sources :
        ExpectedSize[d] <= 0 /\ status[d] = "COMPLETED" =>
            \A p \in Producers(d) : execStatus[p] \in {"FINISHED", "ERROR"}

(* A streaming consumer sees the data of a DROP, then its end, once: no   *)
(* dataWritten after the dropCompleted that setCompleted sends, and no     *)
(* second dropCompleted (spec: the stream-end notification comes strictly  *)
(* after the final write).                                                 *)
StreamEndsLast ==
    \A d \in Drops, c \in StreamApps :
        LET log == streamLog[d][c] IN
        \A i \in DOMAIN log : log[i] = "end" => i = Len(log)

(* The refinement mapping onto Dataflow: a DROP is done when its status is *)
(* COMPLETED; an app is idle until execute() sets RUNNING and has ended    *)
(* once execStatus is FINISHED or ERROR.                                   *)
AbstractAppState ==
    [a \in Apps |-> CASE execStatus[a] = "NOT_RUN" -> "idle"
                       [] execStatus[a] = "RUNNING" -> "running"
                       [] OTHER                     -> "ended"]

Abstract == INSTANCE Dataflow
                WITH done <- {d \in Drops : status[d] = "COMPLETED"},
                     appState <- AbstractAppState

(* DropExecution implements Dataflow: every step of the threads, events   *)
(* and callbacks is a Dataflow step or leaves the mapped state alone (no   *)
(* app starts before its inputs, starts twice or restarts, no output       *)
(* completes before its producers, nothing is undone), and under the      *)
(* threads' fairness every app that may start, starts and ends, and every *)
(* output whose producers ended completes.                                 *)
DataflowRefined == Abstract!Spec

=============================================================================
