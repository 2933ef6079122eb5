------------------------------ MODULE DockerApp ------------------------------
(***************************************************************************)
(* DockerApp.run (src/dfms/apps/dockerapp.py) inside BarrierAppDROP's      *)
(* execute, with the interest mechanism: handleInterest registers a        *)
(* ContainerIpWaiter on a peer DockerApp whose uid appears in a            *)
(* %containerIp[..]% placeholder of the command; run blocks on every       *)
(* waiter in insertion order, substitutes the address it captured, then    *)
(* creates, starts and inspects its container, publishes its own address   *)
(* through the containerIp setter (which fires the event that releases the *)
(* peers' waiters), waits for the exit code and removes the container.     *)
(* Every docker client call may raise; an exception leaves run at once.    *)
(*                                                                         *)
(* Each app runs on its own execute thread; an action is one docker call   *)
(* or one waitForIp, the points at which the threads interleave.           *)
(***************************************************************************)
EXTENDS Naturals, Sequences, SequencesExt

CONSTANTS
    DockerApps,     \* the DockerApp DROPs of the graph
    Ids,            \* oids and uids
    Uid, Oid,       \* [DockerApps -> Ids]
    Placeholders,   \* [DockerApps -> SUBSET Ids]: ids X of %containerIp[X]% in the command
    InterestOrder,  \* [DockerApps -> Seq(DockerApps)]: the handleInterest calls, in order
    Ip,             \* [DockerApps -> Ips]: the address docker assigns to each container
    Ips,
    NoIp,           \* _containerIp = None
    NoAttr,         \* a waiter's _containerIp before handleEvent: the attribute does not exist
    DockerErrors,   \* the docker client calls that may raise
    ExitCodes,      \* the exit codes a container may return
    RemoveContainer \* [DockerApps -> BOOLEAN]: the removeContainer argument

ASSUME NoIp \notin Ips /\ NoAttr \notin Ips \cup {NoIp} /\ DockerErrors \subseteq {"create", "start", "inspect", "wait"}

VARIABLES
    pc,           \* where each app's execute thread is
    wi,           \* index of the waiter run is blocked on
    subst,        \* subst[a][x]: the address put in place of %containerIp[x]% in a's cmd
    containerIp,  \* DockerApp._containerIp
    waiterIp,     \* waiterIp[a][p]: _containerIp of a's waiter on p
    container,    \* the container of each app: none, created (or running), removed
    execStatus    \* AppDROP._execStatus

vars == <<pc, wi, subst, containerIp, waiterIp, container, execStatus>>

Ended == {"finished", "error"}

(* handleInterest(drop): a waiter is appended only when the peer's uid      *)
(* appears in a placeholder of the command.                                 *)
HandleInterest(a, waiters, p) ==
    IF Uid[p] \in Placeholders[a] THEN Append(waiters, p) ELSE waiters

(* self._waiters after the deployment's handleInterest calls *)
Waiters(a) == FoldLeft(LAMBDA ws, p : HandleInterest(a, ws, p), <<>>, InterestOrder[a])

Init ==
    /\ pc = [a \in DockerApps |-> "idle"]
    /\ wi = [a \in DockerApps |-> 1]
    /\ subst = [a \in DockerApps |-> [x \in Ids |-> NoIp]]
    /\ containerIp = [a \in DockerApps |-> NoIp]
    /\ waiterIp = [a \in DockerApps |-> [p \in DockerApps |-> NoAttr]]
    /\ container = [a \in DockerApps |-> "none"]
    /\ execStatus = [a \in DockerApps |-> "NOT_RUN"]

(* An exception out of run: execute sets ERROR and re-raises. *)
Raise(a) ==
    /\ pc' = [pc EXCEPT ![a] = "error"]
    /\ execStatus' = [execStatus EXCEPT ![a] = "ERROR"]

(* execute: execStatus = RUNNING, then run() *)
ExecStart(a) ==
    /\ pc[a] = "idle"
    /\ pc' = [pc EXCEPT ![a] = "waiters"]
    /\ execStatus' = [execStatus EXCEPT ![a] = "RUNNING"]
    /\ UNCHANGED <<wi, subst, containerIp, waiterIp, container>>

WaitForIpNoWait(a) ==
    LET p == Waiters(a)[wi[a]] IN
    /\ pc[a] = "waiters"
    /\ wi[a] <= Len(Waiters(a))
    /\ subst' = [subst EXCEPT ![a][Uid[p]] = waiterIp[a][p]]
    /\ wi' = [wi EXCEPT ![a] = @ + 1]
    /\ UNCHANGED <<pc, containerIp, waiterIp, container, execStatus>>

(* uid, ip = waiter.waitForIp(): blocks until the waiter's event is set;    *)
(* cmd.replace puts the address in place of the placeholder of that uid.    *)
WaitForIp(a) ==
    LET p == Waiters(a)[wi[a]] IN
    /\ pc[a] = "waiters"
    /\ wi[a] <= Len(Waiters(a))
    /\ waiterIp[a][p] # NoAttr
    /\ subst' = [subst EXCEPT ![a][Uid[p]] = waiterIp[a][p]]
    /\ wi' = [wi EXCEPT ![a] = @ + 1]
    /\ UNCHANGED <<pc, containerIp, waiterIp, container, execStatus>>

WaitersDoneEarly(a) ==
    /\ pc[a] = "waiters"
    /\ wi[a] >= Len(Waiters(a))
    /\ pc' = [pc EXCEPT ![a] = "create"]
    /\ UNCHANGED <<wi, subst, containerIp, waiterIp, container, execStatus>>

(* the loop over self._waiters ends *)
WaitersDone(a) ==
    /\ pc[a] = "waiters"
    /\ wi[a] > Len(Waiters(a))
    /\ pc' = [pc EXCEPT ![a] = "create"]
    /\ UNCHANGED <<wi, subst, containerIp, waiterIp, container, execStatus>>

(* AutoVersionClient, create_host_config, create_container *)
Create(a) ==
    /\ pc[a] = "create"
    /\ \/ /\ pc' = [pc EXCEPT ![a] = "start"]
          /\ container' = [container EXCEPT ![a] = "created"]
          /\ UNCHANGED execStatus
       \/ /\ "create" \in DockerErrors
          /\ Raise(a)
          /\ UNCHANGED container
    /\ UNCHANGED <<wi, subst, containerIp, waiterIp>>

(* c.start(container) *)
Start(a) ==
    /\ pc[a] = "start"
    /\ \/ /\ pc' = [pc EXCEPT ![a] = "inspect"]
          /\ UNCHANGED execStatus
       \/ /\ "start" \in DockerErrors
          /\ Raise(a)
    /\ UNCHANGED <<wi, subst, containerIp, waiterIp, container>>

(* The containerIp setter: _containerIp = ip, then _fire delivers the event *)
(* to every waiter subscribed to this app; handleEvent stores the address   *)
(* and sets the waiter's threading.Event.                                   *)
SetContainerIp(a, ip) ==
    /\ containerIp' = [containerIp EXCEPT ![a] = ip]
    /\ waiterIp' = [w \in DockerApps |->
                      IF \E i \in DOMAIN Waiters(w) : Waiters(w)[i] = a
                      THEN [waiterIp[w] EXCEPT ![a] = ip]
                      ELSE waiterIp[w]]

(* inspection = c.inspect_container(container); self.containerIp = ... *)
Inspect(a) ==
    /\ pc[a] = "inspect"
    /\ \/ /\ pc' = [pc EXCEPT ![a] = "wait"]
          /\ SetContainerIp(a, Ip[a])
          /\ UNCHANGED execStatus
       \/ /\ "inspect" \in DockerErrors
          /\ Raise(a)
          /\ UNCHANGED <<containerIp, waiterIp>>
    /\ UNCHANGED <<wi, subst, container>>

(* self._exitCode = c.wait(container), then rm(container) and either       *)
(* c.close() and return, or raise on a nonzero exit code.                   *)
Wait(a) ==
    /\ pc[a] = "wait"
    /\ \/ \E code \in ExitCodes :
          /\ container' = [container EXCEPT ![a] =
                              IF RemoveContainer[a] THEN "removed" ELSE @]
          /\ IF code = 0
             THEN /\ pc' = [pc EXCEPT ![a] = "finished"]
                  /\ execStatus' = [execStatus EXCEPT ![a] = "FINISHED"]
             ELSE Raise(a)
       \/ /\ "wait" \in DockerErrors
          /\ Raise(a)
          /\ UNCHANGED container
    /\ UNCHANGED <<wi, subst, containerIp, waiterIp>>

AppStep(a) ==
    \/ WaitForIp(a) \/ WaitersDone(a) \/ Create(a) \/ Start(a)
    \/ Inspect(a) \/ Wait(a)

(* Every thread has ended or is blocked for good. *)
Terminated ==
    /\ \A a \in DockerApps : pc[a] \in Ended \cup {"waiters"}
    /\ \A a \in DockerApps : ~ENABLED AppStep(a)
    /\ UNCHANGED vars

Next ==
    \/ \E a \in DockerApps : ExecStart(a) \/ AppStep(a)
    \/ Terminated

(* Python runs every live thread and docker answers every call; a          *)
(* container's process exits by itself (the class's TODO). When an app is  *)
(* started is up to its inputs, so ExecStart has no fairness.               *)
Spec == Init /\ [][Next]_vars /\ \A a \in DockerApps : WF_vars(AppStep(a))

-----------------------------------------------------------------------------

TypeOK ==
    /\ pc \in [DockerApps -> {"idle", "waiters", "create", "start", "inspect", "wait"} \cup Ended]
    /\ \A a \in DockerApps : wi[a] \in 1..Len(Waiters(a)) + 1
    /\ subst \in [DockerApps -> [Ids -> Ips \cup {NoIp}]]
    /\ containerIp \in [DockerApps -> Ips \cup {NoIp}]
    /\ waiterIp \in [DockerApps -> [DockerApps -> Ips \cup {NoAttr}]]
    /\ container \in [DockerApps -> {"none", "created", "removed"}]
    /\ execStatus \in [DockerApps -> {"NOT_RUN", "RUNNING", "FINISHED", "ERROR"}]

(* The spec and the class's documentation: a command naming a peer as      *)
(* %containerIp[oid]%, with handleInterest called for that peer, does not   *)
(* get its container created before the placeholder holds the address the   *)
(* peer's inspection published (run's waiter loop, lines 307-309).          *)
IpResolvedBeforeCreate ==
    \A a, p \in DockerApps :
        /\ Oid[p] \in Placeholders[a]
        /\ p \in Range(InterestOrder[a])
        /\ pc[a] \notin {"idle", "waiters"}
        => subst[a][Oid[p]] = Ip[p]

(* A peer that raised before its containerIp setter ran never releases its *)
(* waiters: waitForIp has no timeout (see AppsEnd in DockerGraph).          *)
PeerFailed(p) == pc[p] = "error" /\ containerIp[p] = NoIp

(* rm(container): a run that ended leaves no container behind when          *)
(* removeContainer is set (lines 343-345, 382-386).                         *)
ContainerRemoved ==
    \A a \in DockerApps : pc[a] \in Ended /\ RemoveContainer[a] => container[a] # "created"

=============================================================================
