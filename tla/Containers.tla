---------------------------- MODULE Containers ----------------------------
(***************************************************************************)
(* ContainerDROP and DirectoryContainer (src/dfms/drop.py): addChild, the  *)
(* AbstractDROP parent setter that calls back into addChild, and the      *)
(* recursive delete and exists.  Calls are made one at a time by the       *)
(* graph builder, so a call with everything it calls is one step.          *)
(*                                                                         *)
(* addChild appends the child and sets child.parent; the setter calls      *)
(* parent.addChild(child) again, with no "already a child" check, so the   *)
(* two recurse until the interpreter's recursion limit raises, and the     *)
(* bare `except:` of the innermost setter swallows it.  The limit is the   *)
(* constant RecursionLimit, counted in nested calls of the two methods.    *)
(***************************************************************************)
EXTENDS Integers, Sequences, FiniteSets, SequencesExt

CONSTANTS
    Containers,     \* ContainerDROPs
    Dirs,           \* the DirectoryContainers among them
    Files,          \* FileDROPs (leaves holding data)
    PathUnder,      \* PathUnder[k]: nodes whose path is directly under dir k
    NoParent,       \* _parent = None
    RecursionLimit, \* nested calls before Python raises RuntimeError
    MaxCalls        \* bound: wiring calls the builder makes

ASSUME /\ Containers \cap Files = {}
       /\ Dirs \subseteq Containers
       /\ \A k \in Dirs : PathUnder[k] \subseteq (Files \cup Dirs) \ {k}
       /\ RecursionLimit \in Nat /\ MaxCalls \in Nat

Nodes == Containers \cup Files

VARIABLES
    children,   \* ContainerDROP._children (a list)
    parent,     \* AbstractDROP._parent
    stored,     \* the file of a FileDROP exists (getIO().exists())
    calls,      \* wiring calls made so far
    lastDelete  \* history: the container the last call deleted, and
                \* whether delete() raised (none after any other call)

vars == <<children, parent, stored, calls, lastDelete>>

NoDelete == [node |-> NoParent, raised |-> FALSE]

W == [children |-> children, parent |-> parent, stored |-> stored]

Ok(w)  == [w |-> w, raised |-> FALSE]
Err(w) == [w |-> w, raised |-> TRUE]

-----------------------------------------------------------------------------
RECURSIVE AddChild(_, _, _, _), SetParent(_, _, _, _),
          SetParentNoRestore(_, _, _, _), AddChildNoDirCheck(_, _, _, _)

\* Variant: DirectoryContainer.addChild without its type and path check.
AddChildNoDirCheck(w, k, x, n) ==
    CASE n > RecursionLimit -> Err(w)
      [] x = w.parent[k] -> Err(w)
      [] OTHER -> SetParent([w EXCEPT !.children[k] = Append(@, x)], x, k, n + 1)

(* k.addChild(x), entered at call depth n.  A DirectoryContainer refuses a *)
(* child whose path is not directly under its own (all children here are  *)
(* FileDROPs or DirectoryContainers); ContainerDROP.addChild refuses k's   *)
(* own parent, appends x and sets x.parent = k.                            *)
AddChild(w, k, x, n) ==
    CASE n > RecursionLimit -> Err(w)
      [] k \in Dirs /\ x \notin PathUnder[k] -> Err(w)
      [] x = w.parent[k] -> Err(w)
      [] OTHER -> SetParent([w EXCEPT !.children[k] = Append(@, x)], x, k, n + 1)

\* Variant: the setter's `except:` does not restore the previous parent.
SetParentNoRestore(w, x, p, n) ==
    IF n > RecursionLimit THEN Err(w)
    ELSE LET r == AddChild([w EXCEPT !.parent[x] = p], p, x, n + 1) IN
         Ok(r.w)

(* x.parent = p for a container p, at call depth n: store p, call          *)
(* p.addChild(x), and if that raises put the previous parent back and      *)
(* return normally.                                                        *)
SetParent(w, x, p, n) ==
    IF n > RecursionLimit THEN Err(w)
    ELSE LET r == AddChild([w EXCEPT !.parent[x] = p], p, x, n + 1) IN
         IF r.raised THEN Ok([r.w EXCEPT !.parent[x] = w.parent[x]]) ELSE r

RECURSIVE Exists(_, _, _), AnyExists(_, _, _), AnyExistsAnd(_, _, _)

(* Variant: the children's answers are joined with `and` (the TODO at     *)
(* exists asks whether they should be).                                    *)
AnyExistsAnd(w, s, n) ==
    IF s = <<>> THEN [v |-> TRUE, raised |-> FALSE]
    ELSE LET r == Exists(w, Head(s), n) IN
         IF r.raised THEN r
         ELSE LET t == AnyExistsAnd(w, Tail(s), n) IN
              IF t.raised THEN t ELSE [v |-> r.v /\ t.v, raised |-> FALSE]

(* reduce(or, [c.exists() for c in self._children]): every child is asked *)
(* (the list is built first), in order; the first exception propagates.    *)
AnyExists(w, s, n) ==
    IF s = <<>> THEN [v |-> FALSE, raised |-> FALSE]
    ELSE LET r == Exists(w, Head(s), n) IN
         IF r.raised THEN r
         ELSE LET t == AnyExists(w, Tail(s), n) IN
              IF t.raised THEN t ELSE [v |-> r.v \/ t.v, raised |-> FALSE]

(* x.exists() at call depth n: a file exists in its store; a container     *)
(* exists if it has no children or if any child does.  A cycle of          *)
(* containers recurses until the interpreter's limit raises.               *)
Exists(w, x, n) ==
    CASE n > RecursionLimit  -> [v |-> FALSE, raised |-> TRUE]
      [] x \in Files         -> [v |-> w.stored[x], raised |-> FALSE]
      [] w.children[x] = <<>> -> [v |-> TRUE, raised |-> FALSE]
      [] OTHER               -> AnyExists(w, w.children[x], n + 1)

RECURSIVE SelectExisting(_, _, _)
(* [c for c in self._children if c.exists()], at depth n, or the first     *)
(* exception.                                                              *)
SelectExisting(w, s, n) ==
    IF s = <<>> THEN [s |-> <<>>, raised |-> FALSE]
    ELSE LET r == Exists(w, Head(s), n) IN
         IF r.raised THEN [s |-> <<>>, raised |-> TRUE]
         ELSE LET t == SelectExisting(w, Tail(s), n) IN
              IF t.raised \/ ~r.v THEN t
              ELSE [s |-> <<Head(s)>> \o t.s, raised |-> FALSE]

RECURSIVE DeleteNode(_, _, _), DeleteEach(_, _, _)
(* Delete the nodes of the list s in order; the first exception ends the   *)
(* loop and propagates.                                                    *)
DeleteEach(w, s, n) ==
    IF s = <<>> THEN Ok(w)
    ELSE LET r == DeleteNode(w, Head(s), n) IN
         IF r.raised THEN r ELSE DeleteEach(r.w, Tail(s), n)

(* x.delete() at depth n: a file's I/O deletes it, and raises IOError if   *)
(* it is gone; a container first takes the list of its children that       *)
(* exist, then deletes each of them (the list is not looked at again).     *)
DeleteNode(w, x, n) ==
    IF n > RecursionLimit THEN Err(w)
    ELSE IF x \in Files
    THEN IF w.stored[x] THEN Ok([w EXCEPT !.stored[x] = FALSE]) ELSE Err(w)
    ELSE LET sel == SelectExisting(w, w.children[x], n + 1) IN
         IF sel.raised THEN Err(w) ELSE DeleteEach(w, sel.s, n + 1)

-----------------------------------------------------------------------------

Apply(r) ==
    /\ children' = r.w.children
    /\ parent' = r.w.parent
    /\ stored' = r.w.stored

\* The builder calls k.addChild(x), x = k included.
CallAddChild(k, x) ==
    /\ calls < MaxCalls
    /\ calls' = calls + 1
    /\ Apply(AddChild(W, k, x, 1))
    /\ lastDelete' = NoDelete

\* The builder sets x.parent = p, p = x included.
CallSetParent(x, p) ==
    /\ calls < MaxCalls
    /\ calls' = calls + 1
    /\ Apply(SetParent(W, x, p, 1))
    /\ lastDelete' = NoDelete

\* Somebody deletes container k.
CallDelete(k) ==
    LET r == DeleteNode(W, k, 1) IN
    /\ Apply(r)
    /\ lastDelete' = [node |-> k, raised |-> r.raised]
    /\ UNCHANGED calls

Init ==
    /\ children = [k \in Containers |-> <<>>]
    /\ parent = [n \in Nodes |-> NoParent]
    /\ stored = [f \in Files |-> TRUE]
    /\ calls = 0
    /\ lastDelete = NoDelete

Next ==
    \/ \E k \in Containers, x \in Nodes : CallAddChild(k, x)
    \/ \E x \in Nodes, p \in Containers : CallSetParent(x, p)
    \/ \E k \in Containers : CallDelete(k)

Spec == Init /\ [][Next]_vars

-----------------------------------------------------------------------------
(* Properties                                                              *)

\* Children are DROPs, and a DirectoryContainer's are FileDROPs or
\* DirectoryContainers, however they were added; a parent is a container
\* or None.
TypeOK ==
    /\ children \in [Containers -> Seq(Nodes)]
    /\ \A k \in Dirs : Range(children[k]) \subseteq Files \cup Dirs
    /\ parent \in [Nodes -> Containers \cup {NoParent}]
    /\ stored \in [Files -> BOOLEAN]
    /\ calls \in 0..MaxCalls
    /\ lastDelete \in [node : Containers \cup {NoParent}, raised : BOOLEAN]

\* A node's parent lists it among its children, whatever refusals and
\* recursion-limit errors the setter swallowed on the way.
ParentListed ==
    \A x \in Nodes : parent[x] # NoParent => x \in Range(children[parent[x]])

RECURSIVE Closure(_)
\* The nodes reachable from the set s through _children lists, s included.
Closure(s) ==
    LET t == s \cup UNION {Range(children[k]) : k \in s \cap Containers}
    IN IF t = s THEN s ELSE Closure(t)

Reach(k) == Closure(Range(children[k]))

(* A delete() of a container that returns without an exception has removed *)
(* the file of every FileDROP reachable from it: the filter on exists()    *)
(* only skips children with nothing stored below them, however children   *)
(* are shared between containers (a parent overwritten by the setter) or  *)
(* repeated in a list.                                                     *)
DeleteRemovesAll ==
    lastDelete.node \in Containers /\ ~lastDelete.raised
    => \A f \in Reach(lastDelete.node) \cap Files : ~stored[f]

\* A container lists each child once (spec: adding a child sets the
\* child's parent; children are a set of DROPs).
ChildrenDistinct == \A k \in Containers : IsInjective(children[k])

=============================================================================
