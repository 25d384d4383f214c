------------------------------- MODULE Signal -------------------------------
(***************************************************************************)
(* One Signal, the Objects connected to it, and the threads that connect,  *)
(* disconnect, emit and destroy: Signal::Impl, Connection, ConnectionNode, *)
(* and the parts of Object that end an object's connections.               *)
(*                                                                         *)
(* The signal's mutex guards the writers' list and the snapshot emissions  *)
(* walk; each receiver's own mutex guards the list of its incoming         *)
(* connections; nobody holds both, and neither is held while a slot runs.  *)
(* So each operation is a sequence of steps, one per hold of a mutex or    *)
(* access to an atomic flag, other threads step in between, and a slot may *)
(* call any of them in the middle of an emission: a thread has a stack of  *)
(* operations in progress.                                                 *)
(*                                                                         *)
(* A slot whose receiver lives on another thread is posted to it and runs  *)
(* there later.  An object is destroyed on the thread it lives on, and no  *)
(* thread is connecting to it then: its callers have to see to both.       *)
(***************************************************************************)
EXTENDS Integers, FiniteSets, SequencesExt, Subsequences

CONSTANTS
    Threads,    \* threads that use the signal
    Receivers,  \* the objects connected to it
    Home,       \* Home[r] is the thread r lives on
    MaxConns,   \* bound: connections made in a behaviour
    MaxDepth,   \* bound: operations of one thread nested in one another
    MaxEmits,   \* bound: emissions in a behaviour
    None        \* a null entry, a discarded snapshot

ASSUME SignalAssumption ==
    /\ Home \in [Receivers -> Threads]
    /\ MaxConns \in Nat
    /\ MaxDepth \in Nat
    /\ MaxEmits \in Nat
    /\ None \notin Nat

Conns == 1 .. MaxConns

VARIABLES
    working,    \* mWorking: connections and nulls
    tombstones, \* mTombstones
    published,  \* mPublished; None once discarded
    dirty,      \* mDirty
    index,      \* each node's mIndex
    linked,     \* the nodes whose mLinked is set
    connected,  \* the nodes whose mConnected is set
    owner,      \* each node's mOwner
    incoming,   \* the nodes in their receiver's incoming list
    done,       \* the nodes whose mIncomingDone is set
    life,       \* each receiver: alive, dying (its life flag cleared), gone
    pending,    \* calls posted to each receiver's thread
    stack,      \* each thread's operations in progress, the innermost last
    made,       \* connections made
    emits       \* emissions begun

lists == <<working, tombstones, published, dirty, index, linked>>
nodes == <<connected, owner, incoming, done>>
vars == <<lists, nodes, life, pending, stack, made, emits>>

-----------------------------------------------------------------------------
(* Operations in progress.                                                 *)

\* An operation: what it is, the step it is at, and its locals.
Op(kind, at, n, r, todo) ==
    [kind |-> kind, at |-> at, conn |-> n, recv |-> r, todo |-> todo, before |-> made]

Busy(t) == stack[t] # <<>>
Top(t) == Last(stack[t])

Push(t, op) == stack' = [stack EXCEPT ![t] = Append(@, op)]
Pop(t) == stack' = [stack EXCEPT ![t] = Front(@)]
Becomes(t, op) == stack' = [stack EXCEPT ![t] = Append(Front(@), op)]
Goes(t, step) == Becomes(t, [Top(t) EXCEPT !.at = step])

At(t, kinds, step) == Busy(t) /\ Top(t).kind \in kinds /\ Top(t).at = step

\* A thread may call: between events, or from inside a slot.
MayCall(t) ==
    /\ Len(stack[t]) < MaxDepth
    /\ Busy(t) => Top(t).at = "slot"

Ops == UNION {Range(stack[t]) : t \in Threads}

-----------------------------------------------------------------------------
(* The writers' list.                                                      *)

Live(w) == Picked(w, {k \in Positions(w) : w[k] # None})

\* compactIfMostlyDead() that leaves the indices as they were.
CompactedInPlace(w, dead) ==
    /\ working' = IF dead * 2 <= Len(w) THEN w ELSE Live(w)
    /\ tombstones' = IF dead * 2 <= Len(w) THEN dead ELSE 0
    /\ UNCHANGED index

PositionOf(n, w) == CHOOSE k \in Positions(w) : w[k] = n

\* compactIfMostlyDead(): once nulls are the majority the live entries move down, and
\* each learns its new index.
Compacted(w, dead) ==
    IF dead * 2 <= Len(w)
    THEN working' = w /\ tombstones' = dead /\ UNCHANGED index
    ELSE /\ working' = Live(w)
         /\ tombstones' = 0
         /\ index' = [n \in Conns |->
                        IF n \in Range(Live(w)) THEN PositionOf(n, Live(w)) ELSE index[n]]

DiscardSnapshot == published' = None /\ dirty' = TRUE

-----------------------------------------------------------------------------
Init ==
    /\ working = <<>>
    /\ tombstones = 0
    /\ published = <<>>
    /\ dirty = FALSE
    /\ index = [n \in Conns |-> 0]
    /\ linked = {}
    /\ connected = {}
    /\ owner = [n \in Conns |-> None]
    /\ incoming = {}
    /\ done = {}
    /\ life = [r \in Receivers |-> "alive"]
    /\ pending = [r \in Receivers |-> <<>>]
    /\ stack = [t \in Threads |-> <<>>]
    /\ made = 0
    /\ emits = 0

-----------------------------------------------------------------------------
(* connect().                                                              *)

\* Connect() that puts the slot where one was removed.
ConnectInAHole(t, r) ==
    /\ MayCall(t)
    /\ life[r] = "alive"
    /\ made < MaxConns
    /\ LET n == made + 1
           holes == {k \in Positions(working) : working[k] = None}
           k == IF holes = {} THEN Len(working) + 1 ELSE CHOOSE h \in holes : TRUE
       IN  /\ working' = IF holes = {} THEN Append(working, n) ELSE [working EXCEPT ![k] = n]
           /\ tombstones' = IF holes = {} THEN tombstones ELSE tombstones - 1
           /\ index' = [index EXCEPT ![n] = k]
           /\ linked' = linked \cup {n}
           /\ connected' = connected \cup {n}
           /\ owner' = [owner EXCEPT ![n] = r]
           /\ made' = n
           /\ Push(t, Op("connect", "register", n, r, <<>>))
    /\ dirty' = TRUE
    /\ UNCHANGED <<published, incoming, done, life, pending, emits>>

\* Signal::Impl::connect(): the node joins the writers' list, at its end.
Connect(t, r) ==
    /\ MayCall(t)
    /\ life[r] = "alive"
    /\ made < MaxConns
    /\ LET n == made + 1 IN
         /\ working' = Append(working, n)
         /\ index' = [index EXCEPT ![n] = Len(working) + 1]
         /\ linked' = linked \cup {n}
         /\ connected' = connected \cup {n}
         /\ owner' = [owner EXCEPT ![n] = r]
         /\ made' = n
         /\ Push(t, Op("connect", "register", n, r, <<>>))
    /\ dirty' = TRUE
    /\ UNCHANGED <<tombstones, published, incoming, done, life, pending, emits>>

\* registerWithReceiver(): first the life flag ...
Register(t) ==
    /\ At(t, {"connect"}, "register")
    /\ IF life[Top(t).recv] = "alive" THEN Goes(t, "list") ELSE Pop(t)
    /\ UNCHANGED <<lists, nodes, life, pending, made, emits>>

\* ... then, under the receiver's mutex, its list, unless the connection has ended.
List(t) ==
    /\ At(t, {"connect"}, "list")
    /\ incoming' = incoming \cup ({Top(t).conn} \ done)
    /\ Pop(t)
    /\ UNCHANGED <<lists, connected, owner, done, life, pending, made, emits>>

-----------------------------------------------------------------------------
(* Ending connections.                                                     *)

\* Connection::disconnect(): the flag first, so that emissions skip the slot.
\* Its handle is what connect() returned.
Disconnect(t, n) ==
    /\ MayCall(t)
    /\ n <= made
    /\ \A op \in Ops : op.kind = "connect" => op.conn # n
    /\ connected' = connected \ {n}
    /\ Push(t, Op("disconnect", "remove", n, owner[n], <<>>))
    /\ UNCHANGED <<lists, owner, incoming, done, life, pending, made, emits>>

\* An operation that ends several connections is done with one: on to the next.
Enders == {"disconnect", "disconnectAll", "destroy"}

NextConnection(t) ==
    CASE Top(t).kind = "disconnect" -> Pop(t)
      [] Top(t).kind = "disconnectAll" ->
            IF Top(t).todo = <<>> THEN Pop(t)
            ELSE Becomes(t, [Top(t) EXCEPT !.at = "prune", !.conn = Head(Top(t).todo),
                                           !.todo = Tail(@)])
      [] Top(t).kind = "destroy" -> Goes(t, "sever")

\* removeConnection(): nulled where it stands, unless somebody was here first.
RemoveConnection(t) ==
    /\ At(t, {"disconnect", "destroy"}, "remove")
    /\ LET n == Top(t).conn IN
         IF n \in linked
         THEN /\ Compacted([working EXCEPT ![index[n]] = None], tombstones + 1)
              /\ linked' = linked \ {n}
              /\ DiscardSnapshot
              /\ Goes(t, "prune")
         ELSE NextConnection(t) /\ UNCHANGED lists
    /\ UNCHANGED <<nodes, life, pending, made, emits>>

\* pruneReceiver(): first the life flag ...
Prune(t) ==
    /\ At(t, Enders, "prune")
    /\ IF life[owner[Top(t).conn]] = "alive" THEN Goes(t, "unlist") ELSE NextConnection(t)
    /\ UNCHANGED <<lists, nodes, life, pending, made, emits>>

\* ... then, under the receiver's mutex, its list, which a later List() must not rejoin.
Unlist(t) ==
    /\ At(t, Enders, "unlist")
    /\ incoming' = incoming \ {Top(t).conn}
    /\ done' = done \cup {Top(t).conn}
    /\ NextConnection(t)
    /\ UNCHANGED <<lists, connected, owner, life, pending, made, emits>>

\* disconnectAll(), also the Signal's destructor: every flag and link under one lock,
\* the receivers afterwards.
DisconnectAll(t) ==
    /\ MayCall(t)
    /\ connected' = connected \ Range(Live(working))
    /\ linked' = {}
    /\ working' = <<>>
    /\ tombstones' = 0
    /\ DiscardSnapshot
    /\ IF Live(working) = <<>> THEN UNCHANGED stack
       ELSE Push(t, Op("disconnectAll", "prune", Head(Live(working)), None, Tail(Live(working))))
    /\ UNCHANGED <<index, owner, incoming, done, life, pending, made, emits>>

-----------------------------------------------------------------------------
(* ~Object().                                                              *)

Destroy(t, r) ==
    /\ MayCall(t)
    /\ Home[r] = t
    /\ life[r] = "alive"
    /\ \A op \in Ops : op.kind = "connect" => op.recv # r
    /\ life' = [life EXCEPT ![r] = "dying"]
    /\ Push(t, Op("destroy", "take", None, r, <<>>))
    /\ UNCHANGED <<lists, nodes, pending, made, emits>>

Incoming(r) == {n \in incoming : owner[n] = r}

\* The newest first: each was listed at the head.
Newest == [k \in Conns |-> MaxConns + 1 - k]

NewestFirst(S) == Picked(Newest, {k \in Conns : Newest[k] \in S})

\* The incoming list, the newest connection first, is taken over under the receiver's
\* mutex ...
TakeIncoming(t) ==
    /\ At(t, {"destroy"}, "take")
    /\ LET mine == Incoming(Top(t).recv) IN
         /\ incoming' = incoming \ mine
         /\ done' = done \cup mine
         /\ Becomes(t, [Top(t) EXCEPT !.at = "sever", !.todo = NewestFirst(mine)])
    /\ UNCHANGED <<lists, connected, owner, life, pending, made, emits>>

\* ... and its connections ended, one by one, without it.
Sever(t) ==
    /\ At(t, {"destroy"}, "sever")
    /\ IF Top(t).todo = <<>>
       THEN Goes(t, "strip") /\ UNCHANGED connected
       ELSE /\ connected' = connected \ {Head(Top(t).todo)}
            /\ Becomes(t, [Top(t) EXCEPT !.at = "remove", !.conn = Head(Top(t).todo),
                                         !.todo = Tail(@)])
    /\ UNCHANGED <<lists, owner, incoming, done, life, pending, made, emits>>

\* The calls already posted to it are freed, and so is the object.
StripAndFree(t) ==
    /\ At(t, {"destroy"}, "strip")
    /\ pending' = [pending EXCEPT ![Top(t).recv] = <<>>]
    /\ life' = [life EXCEPT ![Top(t).recv] = "gone"]
    /\ Pop(t)
    /\ UNCHANGED <<lists, nodes, made, emits>>

-----------------------------------------------------------------------------
(* emit().                                                                 *)

\* The snapshot, rebuilt only if the writers' list has changed.
Snapshot == IF dirty THEN Live(working) ELSE published

Emit(t) ==
    /\ MayCall(t)
    /\ emits < MaxEmits
    /\ emits' = emits + 1
    /\ published' = Snapshot
    /\ dirty' = FALSE
    /\ Push(t, Op("emit", "next", None, None, Snapshot))
    /\ UNCHANGED <<working, tombstones, index, linked, nodes, life, pending, made>>

\* The next slot of the snapshot, if it is still connected when its turn comes: run
\* here if its receiver lives on this thread, posted otherwise.
CallNext(t) ==
    /\ At(t, {"emit"}, "next")
    /\ IF Top(t).todo = <<>> THEN Pop(t)
       ELSE LET n == Head(Top(t).todo) IN
              Becomes(t, [Top(t) EXCEPT !.conn = n, !.todo = Tail(@),
                            !.at = IF n \notin connected THEN "next"
                                   ELSE IF Home[owner[n]] = t THEN "slot" ELSE "post"])
    /\ UNCHANGED <<lists, nodes, life, pending, made, emits>>

Post(t) ==
    /\ At(t, {"emit"}, "post")
    /\ LET n == Top(t).conn IN
         pending' = [pending EXCEPT ![owner[n]] = Append(@, n)]
    /\ Goes(t, "next")
    /\ UNCHANGED <<lists, nodes, life, made, emits>>

\* The slot returns.
EndSlot(t) ==
    /\ At(t, {"emit", "deliver"}, "slot")
    /\ IF Top(t).kind = "emit" THEN Goes(t, "next") ELSE Pop(t)
    /\ UNCHANGED <<lists, nodes, life, pending, made, emits>>

\* Deliver() that does not ask for the life flag.
DeliverUnchecked(t, r) ==
    /\ ~Busy(t)
    /\ Home[r] = t
    /\ pending[r] # <<>>
    /\ pending' = [pending EXCEPT ![r] = Tail(@)]
    /\ Push(t, Op("deliver", "slot", Head(pending[r]), r, <<>>))
    /\ UNCHANGED <<lists, nodes, life, made, emits>>

\* The receiver's thread gets to a posted call, which runs if its receiver lives.
Deliver(t, r) ==
    /\ ~Busy(t)
    /\ Home[r] = t
    /\ pending[r] # <<>>
    /\ pending' = [pending EXCEPT ![r] = Tail(@)]
    /\ IF life[r] = "alive" THEN Push(t, Op("deliver", "slot", Head(pending[r]), r, <<>>))
       ELSE UNCHANGED stack
    /\ UNCHANGED <<lists, nodes, life, made, emits>>

-----------------------------------------------------------------------------
Next ==
    \E t \in Threads :
        \/ \E r \in Receivers : Connect(t, r) \/ Destroy(t, r) \/ Deliver(t, r)
        \/ \E n \in Conns : Disconnect(t, n)
        \/ DisconnectAll(t)
        \/ Emit(t)
        \/ Register(t)
        \/ List(t)
        \/ RemoveConnection(t)
        \/ Prune(t)
        \/ Unlist(t)
        \/ TakeIncoming(t)
        \/ Sever(t)
        \/ StripAndFree(t)
        \/ CallNext(t)
        \/ Post(t)
        \/ EndSlot(t)

Spec == Init /\ [][Next]_vars

-----------------------------------------------------------------------------
(* Properties.                                                             *)

Kind == {"connect", "disconnect", "disconnectAll", "destroy", "emit", "deliver"}
Step == {"register", "list", "remove", "prune", "unlist", "take", "sever", "strip",
         "next", "post", "slot"}

Operation ==
    [kind : Kind, at : Step, conn : Conns \cup {None}, recv : Receivers \cup {None},
     todo : Seq(Conns), before : 0 .. MaxConns]

\* Every variable has its type.
TypeOK ==
    /\ working \in Seq(Conns \cup {None})
    /\ tombstones \in 0 .. Len(working)
    /\ published \in Seq(Conns) \cup {None}
    /\ dirty \in BOOLEAN
    /\ index \in [Conns -> Nat]
    /\ linked \subseteq Conns /\ connected \subseteq Conns
    /\ owner \in [Conns -> Receivers \cup {None}]
    /\ incoming \subseteq Conns /\ done \subseteq Conns
    /\ life \in [Receivers -> {"alive", "dying", "gone"}]
    /\ pending \in [Receivers -> Seq(Conns)]
    /\ stack \in [Threads -> Seq(Operation)]
    /\ made \in 0 .. MaxConns
    /\ emits \in 0 .. MaxEmits

\* Removal by index removes the right slot: a linked node's mIndex is where it stands,
\* it stands nowhere else, an unlinked one stands nowhere, the nulls are counted, and a
\* snapshot that is not dirty is what the writers' list holds.
IndicesAreRight ==
    /\ \A k \in Positions(working) : working[k] # None =>
            working[k] \in linked /\ index[working[k]] = k
    /\ \A n \in linked : index[n] \in Positions(working) /\ working[index[n]] = n
    /\ tombstones = Cardinality({k \in Positions(working) : working[k] = None})
    /\ ~dirty => published = Live(working)

\* "Slots run in connection order" and "a connection made during an emission does not
\* run in that emission": what an emission has yet to call was connected before it
\* began, in that order, and after what it is calling.
EmissionInOrder ==
    \A op \in Ops : op.kind = "emit" =>
        /\ \A i, j \in Positions(op.todo) : i < j => op.todo[i] < op.todo[j]
        /\ \A i \in Positions(op.todo) :
            /\ op.todo[i] <= op.before
            /\ op.conn # None => op.conn < op.todo[i]

\* No slot runs for an object being destroyed: emitted on its own thread, or posted
\* there by another, with the destruction anywhere in between.
NoSlotOfTheDead ==
    [][\A t \in Threads :
        /\ stack'[t] # <<>>
        /\ Last(stack'[t]).at = "slot"
        /\ Len(stack'[t]) >= Len(stack[t])
        /\ Busy(t) => Top(t).at # "slot"
        => life[owner[Last(stack'[t]).conn]] = "alive"]_vars

\* "Inert is not gone": the signal keeps no slot of a destroyed object, however its
\* destruction races disconnect() and disconnectAll() on other threads.
NoSlotKeptForTheGone ==
    \A n \in linked : life[owner[n]] # "gone"

\* A receiver's incoming list has its connections and no stale ones, whenever nobody is
\* in the middle of making or ending the connection in question.
InProgress(n) ==
    \E op \in Ops : op.kind # "emit" /\ op.at # "slot" /\ (op.conn = n \/ n \in Range(op.todo))

IncomingIsExact ==
    \A n \in 1 .. made :
        ~InProgress(n) /\ life[owner[n]] = "alive" => (n \in incoming <=> n \in linked)

\* The three lists that know a connection agree: the signal's working list and the indices
\* into it, the snapshot emissions walk, and the receiver's incoming list, with none of them
\* keeping what a destroyed object left (Signal.hpp, Object.cpp).
ListsAgree == TypeOK /\ IndicesAreRight /\ NoSlotKeptForTheGone /\ IncomingIsExact
=============================================================================
