---------------------------- MODULE DropWiring ----------------------------
(***************************************************************************)
(* Wiring of a DROP graph (src/dfms/drop.py): addConsumer,                 *)
(* addStreamingConsumer and addProducer on a data DROP, addInput,          *)
(* addStreamingInput and addOutput on an AppDROP.  Each call adds its side *)
(* of the relationship and then calls the other side (the automatic        *)
(* back-reference), which calls back and stops at its "already there"      *)
(* check.  A call may raise half way; the graph builder may catch the      *)
(* exception and go on.  One call runs at a time (graph construction is    *)
(* sequential), so a call, with everything it calls, is one step.          *)
(*                                                                         *)
(* The lists of the code are sets here: every list is guarded by its own   *)
(* membership check, so none holds an element twice and its order is not  *)
(* read by any property.  The subscriptions are sequences, since a         *)
(* closure subscribed twice is called twice.                               *)
(***************************************************************************)
EXTENDS Integers, Sequences, FiniteSets, SequencesExt

CONSTANTS
    Drops,      \* data DROPs
    Apps,       \* AppDROPs
    Barriers,   \* the BarrierAppDROPs among them
    External    \* DROPs with executionMode EXTERNAL

ASSUME /\ Drops \cap Apps = {}
       /\ Barriers \subseteq Apps
       /\ External \subseteq Drops

VARIABLES
    consumers,          \* AbstractDROP._consumers
    streamingConsumers, \* AbstractDROP._streamingConsumers
    producers,          \* AbstractDROP._producers (an AppDROP is a DROP too)
    inputs,             \* AppDROP._inputs
    streamingInputs,    \* AppDROP._streamingInputs
    outputs,            \* AppDROP._outputs
    statusSubs,         \* consumers whose dropCompleted closure a DROP's
                        \* 'status' event calls, in subscription order
    execSubs            \* outputs whose appFinished closure an app's
                        \* 'execStatus' event calls

vars == <<consumers, streamingConsumers, producers, inputs, streamingInputs,
          outputs, statusSubs, execSubs>>

\* The whole wiring as one record, as the calls below pass it along.
W == [consumers |-> consumers, streamingConsumers |-> streamingConsumers,
      producers |-> producers, inputs |-> inputs,
      streamingInputs |-> streamingInputs, outputs |-> outputs,
      statusSubs |-> statusSubs, execSubs |-> execSubs]

\* The result of a call: the wiring after it, and whether it raised.
Ok(w)  == [w |-> w, raised |-> FALSE]
Err(w) == [w |-> w, raised |-> TRUE]

-----------------------------------------------------------------------------
(* The calls.  They call each other, so they are declared RECURSIVE.       *)

RECURSIVE AddConsumer(_, _, _), AddInput(_, _, _),
          AddStreamingConsumer(_, _, _), AddStreamingInput(_, _, _),
          AddProducer(_, _, _), AddOutput(_, _, _),
          AddConsumerNoDupCheck(_, _, _), AddStreamingConsumerNoRoleCheck(_, _, _),
          AddOutputNoSelfCheck(_, _, _), AddOutputNoBackRef(_, _, _)

\* Variant: addConsumer without its "if consumer in self._consumers: return".
AddConsumerNoDupCheck(w, d, c) ==
    IF c \in w.streamingConsumers[d] THEN Err(w)
    ELSE LET r == AddInput([w EXCEPT !.consumers[d] = @ \cup {c}], c, d) IN
         IF r.raised \/ d \in External THEN r
         ELSE Ok([r.w EXCEPT !.statusSubs[d] = Append(@, c)])

(* d.addConsumer(c): refuse a streaming consumer, return if already there, *)
(* append, call c.addInput(d), and unless d is EXTERNAL subscribe the      *)
(* closure that calls c.dropCompleted(d.uid) on COMPLETED.  An exception   *)
(* of addInput propagates, so no closure is subscribed then.               *)
AddConsumer(w, d, c) ==
    CASE c \in w.streamingConsumers[d] -> Err(w)
      [] c \in w.consumers[d]          -> Ok(w)
      [] OTHER ->
           LET r == AddInput([w EXCEPT !.consumers[d] = @ \cup {c}], c, d) IN
           IF r.raised \/ d \in External THEN r
           ELSE Ok([r.w EXCEPT !.statusSubs[d] = Append(@, c)])

\* a.addInput(d): if d is not an input yet, record it, then d.addConsumer(a).
AddInput(w, a, d) ==
    IF d \in w.inputs[a] THEN Ok(w)
    ELSE AddConsumer([w EXCEPT !.inputs[a] = @ \cup {d}], d, a)

\* Variant: addStreamingConsumer does not refuse a normal consumer.
AddStreamingConsumerNoRoleCheck(w, d, c) ==
    IF c \in w.streamingConsumers[d] THEN Ok(w)
    ELSE AddStreamingInput([w EXCEPT !.streamingConsumers[d] = @ \cup {c}], c, d)

(* d.addStreamingConsumer(c): refuse a normal consumer, return if already  *)
(* there, append, call c.addStreamingInput(d).                             *)
AddStreamingConsumer(w, d, c) ==
    CASE c \in w.consumers[d]          -> Err(w)
      [] c \in w.streamingConsumers[d] -> Ok(w)
      [] OTHER ->
           AddStreamingInput([w EXCEPT !.streamingConsumers[d] = @ \cup {c}], c, d)

(* a.addStreamingInput(d): a BarrierAppDROP raises; an AppDROP records d   *)
(* if new and calls d.addStreamingConsumer(a).                             *)
AddStreamingInput(w, a, d) ==
    CASE a \in Barriers            -> Err(w)
      [] d \in w.streamingInputs[a] -> Ok(w)
      [] OTHER ->
           AddStreamingConsumer([w EXCEPT !.streamingInputs[a] = @ \cup {d}], d, a)

\* d.addProducer(p): return if already there, append, call p.addOutput(d).
AddProducer(w, d, p) ==
    IF p \in w.producers[d] THEN Ok(w)
    ELSE AddOutput([w EXCEPT !.producers[d] = @ \cup {p}], p, d)

\* Variant: addOutput accepts the app itself as its output.
AddOutputNoSelfCheck(w, a, d) ==
    IF d \in w.outputs[a] THEN Ok(w)
    ELSE LET r == AddProducer([w EXCEPT !.outputs[a] = @ \cup {d}], d, a) IN
         IF r.raised THEN r
         ELSE Ok([r.w EXCEPT !.execSubs[a] = Append(@, d)])

\* Variant: addOutput without the back-reference d.addProducer(a).
AddOutputNoBackRef(w, a, d) ==
    CASE d = a               -> Err(w)
      [] d \in w.outputs[a] -> Ok(w)
      [] OTHER -> Ok([w EXCEPT !.outputs[a] = @ \cup {d},
                               !.execSubs[a] = Append(@, d)])

(* a.addOutput(d): refuse a itself; if d is new record it, call            *)
(* d.addProducer(a), then subscribe the closure that calls                 *)
(* d.producerFinished(a.uid) on FINISHED or ERROR.                         *)
AddOutput(w, a, d) ==
    CASE d = a               -> Err(w)
      [] d \in w.outputs[a] -> Ok(w)
      [] OTHER ->
           LET r == AddProducer([w EXCEPT !.outputs[a] = @ \cup {d}], d, a) IN
           IF r.raised THEN r
           ELSE Ok([r.w EXCEPT !.execSubs[a] = Append(@, d)])

-----------------------------------------------------------------------------
(* A step: the graph builder makes one call; whether it raised or not, the *)
(* wiring is what the call left.                                           *)

Apply(r) ==
    /\ consumers' = r.w.consumers
    /\ streamingConsumers' = r.w.streamingConsumers
    /\ producers' = r.w.producers
    /\ inputs' = r.w.inputs
    /\ streamingInputs' = r.w.streamingInputs
    /\ outputs' = r.w.outputs
    /\ statusSubs' = r.w.statusSubs
    /\ execSubs' = r.w.execSubs

CallAddConsumer(d, c)          == Apply(AddConsumer(W, d, c))
CallAddStreamingConsumer(d, c) == Apply(AddStreamingConsumer(W, d, c))
CallAddProducer(d, p)          == Apply(AddProducer(W, d, p))
CallAddInput(a, d)             == Apply(AddInput(W, a, d))
CallAddStreamingInput(a, d)    == Apply(AddStreamingInput(W, a, d))
CallAddOutput(a, d)            == Apply(AddOutput(W, a, d))

Init ==
    /\ consumers = [d \in Drops |-> {}]
    /\ streamingConsumers = [d \in Drops |-> {}]
    /\ producers = [n \in Drops \cup Apps |-> {}]
    /\ inputs = [a \in Apps |-> {}]
    /\ streamingInputs = [a \in Apps |-> {}]
    /\ outputs = [a \in Apps |-> {}]
    /\ statusSubs = [d \in Drops |-> <<>>]
    /\ execSubs = [a \in Apps |-> <<>>]

\* The output of addOutput may be the app itself, which addOutput refuses.
Next ==
    \/ \E d \in Drops, c \in Apps : CallAddConsumer(d, c)
    \/ \E d \in Drops, c \in Apps : CallAddStreamingConsumer(d, c)
    \/ \E d \in Drops, p \in Apps : CallAddProducer(d, p)
    \/ \E a \in Apps, d \in Drops : CallAddInput(a, d)
    \/ \E a \in Apps, d \in Drops : CallAddStreamingInput(a, d)
    \/ \E a \in Apps : \E d \in Drops \cup {a} : CallAddOutput(a, d)

Spec == Init /\ [][Next]_vars

-----------------------------------------------------------------------------
(* Properties                                                              *)

\* Every call the graph builder can make, to drive the idempotence check.
Calls ==
    [op : {"addConsumer", "addStreamingConsumer", "addProducer"}, x : Drops, y : Apps]
    \cup [op : {"addInput", "addStreamingInput", "addOutput"}, x : Apps, y : Drops]

Do(w, c) ==
    CASE c.op = "addConsumer"          -> AddConsumer(w, c.x, c.y)
      [] c.op = "addStreamingConsumer" -> AddStreamingConsumer(w, c.x, c.y)
      [] c.op = "addProducer"          -> AddProducer(w, c.x, c.y)
      [] c.op = "addInput"             -> AddInput(w, c.x, c.y)
      [] c.op = "addStreamingInput"    -> AddStreamingInput(w, c.x, c.y)
      [] c.op = "addOutput"            -> AddOutput(w, c.x, c.y)

\* Inputs and outputs of an app are data DROPs: addOutput refuses the app
\* itself; every closure is subscribed for an app (status) or a DROP
\* (execStatus).
TypeOK ==
    /\ consumers \in [Drops -> SUBSET Apps]
    /\ streamingConsumers \in [Drops -> SUBSET Apps]
    /\ producers \in [Drops \cup Apps -> SUBSET Apps]
    /\ inputs \in [Apps -> SUBSET Drops]
    /\ streamingInputs \in [Apps -> SUBSET Drops]
    /\ outputs \in [Apps -> SUBSET Drops]
    /\ statusSubs \in [Drops -> Seq(Apps)]
    /\ execSubs \in [Apps -> Seq(Drops)]

\* No app is both a normal and a streaming consumer of a DROP, whichever
\* side (addConsumer, addInput, addStreamingConsumer, addStreamingInput)
\* the builder wires from (spec: a node may not be in both sets).
RolesExclusive == \A d \in Drops : consumers[d] \cap streamingConsumers[d] = {}

\* Repeating any call, in any wiring the calls reach, changes nothing: the
\* back-references stop at their "already there" checks, so no closure is
\* subscribed twice and no consumer is told twice that a DROP completed
\* (spec: addConsumer twice has the same effect as once).
Idempotent ==
    \A c \in Calls : LET once == Do(W, c).w IN Do(once, c).w = once

\* An app is a producer of a DROP exactly when the DROP is its output, and
\* then exactly one appFinished closure tells the DROP that the app ended:
\* producerFinished counts len(self._producers) against these calls.
ProducerMirror ==
    \A d \in Drops, a \in Apps :
        /\ a \in producers[d] <=> d \in outputs[a]
        /\ Len(SelectSeq(execSubs[a], LAMBDA x : x = d)) = IF d \in outputs[a] THEN 1 ELSE 0

(* Both sides of every consumer relationship agree, whichever side the    *)
(* builder wired from and whatever was refused on the way: an app is a     *)
(* consumer of a DROP exactly when the DROP is its input, and then (unless *)
(* the DROP is EXTERNAL) one closure will call its dropCompleted, since a  *)
(* barrier counts len(self._inputs) against these calls; an app is a      *)
(* streaming consumer exactly when the DROP is its streaming input, which  *)
(* a BarrierAppDROP never has (spec: the consumer is in the producer's     *)
(* consumer list and the producer in the consumer's input list; a barrier  *)
(* forbids streaming inputs).                                              *)
ConsumerMirror ==
    \A d \in Drops, a \in Apps :
        /\ a \in consumers[d] <=> d \in inputs[a]
        /\ d \notin External =>
              Len(SelectSeq(statusSubs[d], LAMBDA x : x = a)) = IF d \in inputs[a] THEN 1 ELSE 0
        /\ a \in streamingConsumers[d] <=> d \in streamingInputs[a]
        /\ a \in Barriers => a \notin streamingConsumers[d]

=============================================================================
