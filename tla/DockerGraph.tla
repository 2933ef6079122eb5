----------------------------- MODULE DockerGraph -----------------------------
(***************************************************************************)
(* DockerApps inside a DROP graph (src/dfms/drop.py, src/dfms/apps/        *)
(* dockerapp.py): a DockerApp is a BarrierAppDROP, so nobody calls its     *)
(* execute but the status event of its inputs (dropCompleted, started on a *)
(* new thread once every input is COMPLETED), and its outputs complete     *)
(* when its execStatus event reports FINISHED or ERROR (appFinished, then  *)
(* producerFinished and setCompleted on each output).  The DockerApp       *)
(* module gives what each execute thread does; this module adds the DROPs  *)
(* that start the apps and the DROPs the apps complete.                    *)
(*                                                                         *)
(* A join is taken as one step: DropExecution checks the join on its own   *)
(* and shows where it races (join_race).                                   *)
(***************************************************************************)
EXTENDS DockerApp, FiniteSets

CONSTANTS
    Drops,    \* the data DROPs of the graph
    Inputs,   \* [DockerApps -> SUBSET Drops]: AppDROP._inputs
    Outputs   \* [DockerApps -> SUBSET Drops]: AppDROP._outputs

VARIABLE done  \* the DROPs whose status is COMPLETED

graphVars == <<vars, done>>

Producers(d) == {a \in DockerApps : d \in Outputs[a]}
Sources      == {d \in Drops : Producers(d) = {}}

GraphInit == Init /\ done = {}

\* The user completes a source DROP (it may never do so).
CompleteSource(d) ==
    /\ d \in Sources \ done
    /\ done' = done \cup {d}
    /\ UNCHANGED vars

(* BarrierAppDROP.dropCompleted: each input's status event appends its     *)
(* uid; the call that makes the list as long as _inputs starts execute on  *)
(* a daemon thread.  An app with no input gets no call and never starts.   *)
DropCompleted(a) ==
    /\ Inputs[a] # {}
    /\ Inputs[a] \subseteq done
    /\ ExecStart(a)
    /\ UNCHANGED done

\* Variant: appFinished passes on FINISHED only.
ProducersFinishedOnSuccess(d) ==
    /\ d \in Drops \ (Sources \cup done)
    /\ \A p \in Producers(d) : execStatus[p] = "FINISHED"
    /\ done' = done \cup {d}
    /\ UNCHANGED vars

(* appFinished: on execStatus FINISHED or ERROR the app calls              *)
(* producerFinished(uid) of each output; the last producer's call counts   *)
(* len(_producers) and runs setCompleted.                                  *)
ProducersFinished(d) ==
    /\ d \in Drops \ (Sources \cup done)
    /\ \A p \in Producers(d) : execStatus[p] \in {"FINISHED", "ERROR"}
    /\ done' = done \cup {d}
    /\ UNCHANGED vars

\* One step of an execute thread, which leaves the DROPs alone.
RunStep(a) == AppStep(a) /\ UNCHANGED done

\* Nothing but the user could take a step, and the user is done.
GraphTerminated ==
    /\ Sources \subseteq done
    /\ \A a \in DockerApps : ~ENABLED DropCompleted(a) /\ ~ENABLED RunStep(a)
    /\ \A d \in Drops : ~ENABLED ProducersFinished(d)
    /\ UNCHANGED graphVars

GraphNext ==
    \/ \E d \in Drops : CompleteSource(d) \/ ProducersFinished(d)
    \/ \E a \in DockerApps : DropCompleted(a) \/ RunStep(a)
    \/ GraphTerminated

(* The execute threads run (DockerApp's fairness); dropCompleted and       *)
(* appFinished run inside an event on a thread that is running, so they    *)
(* happen once enabled.  The user's completions have no fairness.          *)
GraphSpec ==
    /\ GraphInit /\ [][GraphNext]_graphVars
    /\ \A a \in DockerApps : WF_graphVars(RunStep(a)) /\ WF_graphVars(DropCompleted(a))
    /\ \A d \in Drops : WF_graphVars(ProducersFinished(d))

-----------------------------------------------------------------------------

GraphTypeOK == TypeOK /\ done \subseteq Drops

(* Once the user has completed every source DROP, every DockerApp of the   *)
(* graph ends, or some app waits for a peer that raised before its         *)
(* containerIp setter ran (waitForIp has no timeout).  appFinished passes *)
(* on ERROR as well as FINISHED, so an app that fails does not stop the   *)
(* apps downstream.  A graph in which an app waits on a peer that         *)
(* consumes its outputs, or an app with no inputs, breaks it.              *)
AppsEnd ==
    (\A d \in Sources : <>(d \in done))
    => <>(\/ \A a \in DockerApps : pc[a] \in Ended
          \/ \E a \in DockerApps : pc[a] = "waiters"
                                   /\ \E p \in Range(Waiters(a)) : PeerFailed(p))

=============================================================================
