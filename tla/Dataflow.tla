------------------------------ MODULE Dataflow ------------------------------
(***************************************************************************)
(* What a DROP graph promises, with no threads, events or bytes: a source  *)
(* DROP is completed by its user; an application starts once all its       *)
(* inputs are COMPLETED, runs once and ends (finished or failed); a DROP   *)
(* produced by applications is COMPLETED once all its producers ended.     *)
(* Nothing is undone.  DropExecution implements this specification when    *)
(* every join is driven by one thread (see DataflowRefined there).         *)
(***************************************************************************)
EXTENDS FiniteSets

CONSTANTS Drops, Apps, Inputs, Outputs

VARIABLES
    done,      \* the DROPs that are COMPLETED
    appState   \* "idle", "running" or "ended", per application

vars == <<done, appState>>

Producers(d) == {a \in Apps : d \in Outputs[a]}
Sources      == {d \in Drops : Producers(d) = {}}

Init ==
    /\ done = {}
    /\ appState = [a \in Apps |-> "idle"]

\* The user completes a source DROP (it may never do so).
CompleteSource(d) ==
    /\ d \in Sources \ done
    /\ done' = done \cup {d}
    /\ UNCHANGED appState

\* An application starts once all its inputs are COMPLETED.
StartApp(a) ==
    /\ appState[a] = "idle"
    /\ Inputs[a] \subseteq done
    /\ appState' = [appState EXCEPT ![a] = "running"]
    /\ UNCHANGED done

\* A running application ends, finished or failed.
EndApp(a) ==
    /\ appState[a] = "running"
    /\ appState' = [appState EXCEPT ![a] = "ended"]
    /\ UNCHANGED done

\* A produced DROP is COMPLETED once every producer ended.
CompleteOutput(d) ==
    /\ d \in Drops \ (Sources \cup done)
    /\ \A p \in Producers(d) : appState[p] = "ended"
    /\ done' = done \cup {d}
    /\ UNCHANGED appState

\* A step the graph takes by itself, as opposed to the user's.
GraphStep ==
    \/ \E a \in Apps : StartApp(a) \/ EndApp(a)
    \/ \E d \in Drops : CompleteOutput(d)

Next == (\E d \in Drops : CompleteSource(d)) \/ GraphStep

(* The graph does not stop while one of its own steps is possible; the     *)
(* user's are not promised.  As each app starts and ends once and each     *)
(* DROP completes once, this makes every possible graph step happen.       *)
Spec == Init /\ [][Next]_vars /\ WF_vars(GraphStep)

=============================================================================
