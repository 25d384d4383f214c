------------------------ MODULE EventDispatcherProofs ------------------------
(* Theorems about EventDispatcher, for every value of its constants.       *)
EXTENDS EventDispatcher, SubsequencesProofs

-----------------------------------------------------------------------------
(* The operators the queue is built from.                                  *)

\* First(P) is the least element of a non-empty set of positions.
LEMMA FirstIsLeast ==
    ASSUME NEW P \in SUBSET Nat, P # {}
    PROVE  First(P) \in P /\ \A j \in P : First(P) <= j
BY NatLeast DEF First

\* insertByPriorityLocked() puts e at one place k, after the entries that rank as
\* high and before one that ranks lower, and moves nothing else.
InsertedAt(t, q, e, k) ==
    /\ Len(t) = Len(q) + 1
    /\ \A i \in 1 .. Len(q) + 1 :
        t[i] = IF i < k THEN q[i] ELSE IF i = k THEN e ELSE q[i - 1]
    /\ \A i \in 1 .. k - 1 : q[i].prio >= e.prio
    /\ k <= Len(q) => q[k].prio < e.prio

LEMMA InsertByPriorityPlaces ==
    ASSUME NEW q \in Seq(Entry), NEW e \in Entry
    PROVE  /\ InsertByPriority(q, e) \in Seq(Entry)
           /\ \E k \in 1 .. Len(q) + 1 : InsertedAt(InsertByPriority(q, e), q, e, k)
<1> DEFINE behind == {k \in Positions(q) : q[k].prio < e.prio}
<1>0. /\ Len(q) \in Nat
      /\ \A k \in 1 .. Len(q) : q[k] \in Entry /\ q[k].prio \in Int
      /\ e.prio \in Int
  <2>1. \A k \in 1 .. Len(q) : q[k] \in Entry  OBVIOUS
  <2>2. \A x \in Entry : x.prio \in Int  BY DEF Entry
  <2> QED  BY <2>1, <2>2
<1>1. CASE behind = {}
  <2>1. InsertByPriority(q, e) = Append(q, e)  BY <1>1 DEF InsertByPriority
  <2>2. /\ Append(q, e) \in Seq(Entry)
        /\ Len(Append(q, e)) = Len(q) + 1
        /\ \A i \in 1 .. Len(q) : Append(q, e)[i] = q[i]
        /\ Append(q, e)[Len(q) + 1] = e
    BY AppendProperties
  <2>3. \A i \in 1 .. Len(q) : q[i].prio >= e.prio  BY <1>0, <1>1 DEF Positions
  <2>4. InsertedAt(Append(q, e), q, e, Len(q) + 1)  BY <1>0, <2>2, <2>3 DEF InsertedAt
  <2> QED  BY <1>0, <2>1, <2>2, <2>4
<1>2. CASE behind # {}
  <2> DEFINE k == First(behind)
  <2>1. InsertByPriority(q, e) = InsertAt(q, k, e)  BY <1>2 DEF InsertByPriority
  <2>2. behind \in SUBSET Nat  BY <1>0 DEF Positions
  <2>3. k \in behind /\ \A j \in behind : k <= j
    <3> HIDE DEF behind
    <3> QED  BY <1>2, <2>2, FirstIsLeast
  <2> HIDE DEF k
  <2>4. k \in 1 .. Len(q) /\ q[k].prio < e.prio  BY <2>3 DEF Positions
  <2>5. \A i \in 1 .. k - 1 : q[i].prio >= e.prio  BY <1>0, <2>3, <2>4 DEF Positions
  <2> HIDE DEF behind
  <2>6. k \in 1 .. Len(q) + 1  BY <1>0, <2>4
  <2>7. /\ InsertAt(q, k, e) \in Seq(Entry)
        /\ Len(InsertAt(q, k, e)) = Len(q) + 1
        /\ \A i \in 1 .. Len(q) + 1 :
            InsertAt(q, k, e)[i] = IF i < k THEN q[i] ELSE IF i = k THEN e ELSE q[i - 1]
    BY <2>6, InsertAtShifts
  <2>8. InsertedAt(InsertAt(q, k, e), q, e, k)  BY <2>4, <2>5, <2>7 DEF InsertedAt
  <2> QED  BY <2>1, <2>6, <2>7, <2>8
<1> QED  BY <1>1, <1>2

\* admitLocked() keeps a queue of entries a queue of entries.
LEMMA AfterAdmissionType ==
    ASSUME NEW q \in Seq(Entry), NEW e \in Entry, NEW policy
    PROVE  AfterAdmission(q, e, policy) \in Seq(Entry)
<1> DEFINE p == Picked(q, Positions(q) \ {Victim(q)})
<1>1. p \in Seq(Entry)  BY PickedFrom
<1> HIDE DEF p
<1>2. InsertByPriority(q, e) \in Seq(Entry)  BY InsertByPriorityPlaces
<1>3. InsertByPriority(p, e) \in Seq(Entry)  BY <1>1, InsertByPriorityPlaces
<1> QED  BY <1>2, <1>3 DEF AfterAdmission, p

-----------------------------------------------------------------------------
(* Type correctness.                                                       *)

\* An event as the actions build it is an Entry.
LEMMA EntryIntro ==
    ASSUME NEW n \in Nat, NEW r \in Receivers, NEW type \in Types, NEW prio \in Int,
           NEW target \in Fates
    PROVE  [id |-> n, recv |-> r, type |-> type, prio |-> prio, target |-> target] \in Entry
BY DEF Entry

\* The event of a poster, and the entry it is queued as.
LEMMA TicketedEntry ==
    ASSUME TypeOK, NEW p \in Posters, posting[p] # None, NEW prio \in Int
    PROVE  /\ posting[p] \in Post
           /\ Ticketed(p, prio) \in Entry
           /\ Ticketed(p, prio).id = nextId
           /\ Ticketed(p, prio).recv = posting[p].recv
           /\ Ticketed(p, prio).type = posting[p].type
           /\ Ticketed(p, prio).target = posting[p].target
<1>1. posting[p] \in Post /\ nextId \in Nat  BY DEF TypeOK
<1>2. /\ posting[p].recv \in Receivers /\ posting[p].type \in Types
      /\ posting[p].target \in Fates
  BY <1>1 DEF Post
<1> QED  BY <1>1, <1>2, EntryIntro DEF Ticketed

\* The end of an object is told to the events aimed at it, and changes nothing else of them.
LEMMA OutlivedPost ==
    ASSUME TypeOK, NEW p \in Posters, NEW r, NEW fate \in Fates
    PROVE  /\ posting[p] = None => Outlived(p, r, fate) = None
           /\ posting[p] # None =>
                /\ Outlived(p, r, fate) \in Post /\ Outlived(p, r, fate) # None
                /\ Outlived(p, r, fate).recv = posting[p].recv
                /\ Outlived(p, r, fate).type = posting[p].type
<1>1. posting[p] # None => posting[p] \in Post  BY DEF TypeOK
<1>2. \A x \in Post : x # None  BY NoneAssumption
<1>3. \A x \in Post, t \in Fates :
        /\ [x EXCEPT !.target = t] \in Post
        /\ [x EXCEPT !.target = t].recv = x.recv
        /\ [x EXCEPT !.target = t].type = x.type
  BY DEF Post
<1>4. "stray" \in Fates  BY DEF Fates
<1>5. CASE InFlightTo(p, r) /\ posting[p].target = "here"
  <2>1. PICK t \in Fates : t = (IF posting[p].carried THEN "stray" ELSE fate)  BY <1>4
  <2>2. Outlived(p, r, fate) = [posting[p] EXCEPT !.target = t]  BY <1>5, <2>1 DEF Outlived
  <2> QED  BY <1>1, <1>2, <1>3, <1>5, <2>2 DEF InFlightTo
<1>6. CASE ~(InFlightTo(p, r) /\ posting[p].target = "here")
  BY <1>1, <1>6 DEF Outlived
<1> QED  BY <1>5, <1>6

\* The steps of a poster that leave the queue alone.
Aims ==
    \/ \E p \in Posters, r \in Receivers, type \in Types : BeginPost(p, r, type) \/ BeginCarry(p, r, type)
    \/ \E p \in Posters, r \in Receivers : BeginDeleteLater(p, r)
    \/ \E p \in Posters : RefusePost(p)

LEMMA AimsAreQuiet ==
    ASSUME Aims
    PROVE  UNCHANGED <<queue, frames, timers, capacity, accepting, object, nextId>>
BY DEF Aims, BeginPost, BeginCarry, BeginDeleteLater, RefusePost

\* The deaths of an object, of this thread or of another.
Dies ==
    \/ \E r \in Receivers : DestroyObject(r)
    \/ \E p \in Posters : DeleteAtOnce(p)
    \/ RunDeferredDelete

\* A new frame.
LEMMA FrameIntro ==
    ASSUME NEW kind \in {"pass", "drain"}, NEW batch \in Seq(Slot), NEW due \in Seq(Slot)
    PROVE  Frame(kind, batch, due) \in FrameType
<1>1. Len(batch) \in Nat /\ None \in Slot  BY DEF Slot
<1> QED  BY <1>1 DEF Frame, FrameType

LEMMA EntriesAreSlots ==
    ASSUME NEW q \in Seq(Entry)
    PROVE  q \in Seq(Slot)
<1>1. Entry \subseteq Slot  BY DEF Slot
<1> HIDE DEF Slot
<1> QED  BY <1>1, SeqMonotonic

\* Cancelling a receiver's events in a frame, all of them or the expiries only.
LEMMA ClearedType ==
    ASSUME NEW batch \in Seq(Slot), NEW r
    PROVE  Cleared(batch, r) \in Seq(Slot) /\ WithoutExpiries(batch, r) \in Seq(Slot)
<1>1. \A k \in 1 .. Len(batch) : batch[k] \in Slot  OBVIOUS
<1>2. None \in Slot /\ Len(batch) \in Nat  BY DEF Slot
<1> QED  BY <1>1, <1>2, IsASeq DEF Cleared, WithoutExpiries, Positions

LEMMA ClearedInFrameType ==
    ASSUME NEW f \in FrameType, NEW r
    PROVE  /\ ClearedInFrame(f, r) \in FrameType
           /\ [f EXCEPT !.batch = WithoutExpiries(@, r), !.timers = WithoutExpiries(@, r)]
                \in FrameType
<1>1. f.batch \in Seq(Slot) /\ f.timers \in Seq(Slot)  BY DEF FrameType
<1>2. /\ Cleared(f.batch, r) \in Seq(Slot) /\ Cleared(f.timers, r) \in Seq(Slot)
      /\ WithoutExpiries(f.batch, r) \in Seq(Slot) /\ WithoutExpiries(f.timers, r) \in Seq(Slot)
  BY <1>1, ClearedType
<1> QED  BY <1>2 DEF FrameType, ClearedInFrame

\* Strip(r) keeps types.
LEMMA StripType ==
    ASSUME TypeOK, NEW r, Strip(r)
    PROVE  /\ queue' \in Seq(Entry)
           /\ frames' \in Seq(FrameType)
           /\ timers' \in Seq(Receivers)
<1>1. queue' \in Seq(Entry)  BY PickedFrom DEF TypeOK, Strip, Without
<1>2. timers' \in Seq(Receivers)  BY PickedFrom DEF TypeOK, Strip, TimersWithout
<1>3. frames' \in Seq(FrameType)
  <2>1. \A k \in 1 .. Len(frames) : frames[k] \in FrameType  BY DEF TypeOK
  <2>2. \A k \in 1 .. Len(frames) : ClearedInFrame(frames[k], r) \in FrameType
    BY <2>1, ClearedInFrameType
  <2>3. Len(frames) \in Nat  BY DEF TypeOK
  <2>4. frames' = [k \in 1 .. Len(frames) |-> ClearedInFrame(frames[k], r)]
    BY DEF Strip, ClearedInEveryFrame, Positions
  <2> QED  BY <2>2, <2>3, <2>4, IsASeq
<1> QED  BY <1>1, <1>2, <1>3

\* The innermost frame, and a frame put in its place.
LEMMA TopType ==
    ASSUME TypeOK, frames # <<>>
    PROVE  /\ Top \in FrameType
           /\ Len(frames) \in 1 .. Len(frames)
           /\ \A f \in FrameType : SetTop(f) => frames' \in Seq(FrameType)
           /\ frames' = Front(frames) => frames' \in Seq(FrameType)
<1>1. /\ frames \in Seq(FrameType) /\ Len(frames) \in Nat /\ Len(frames) # 0
      /\ Len(frames) \in 1 .. Len(frames)
  BY DEF TypeOK
<1>2. Top \in FrameType  BY <1>1 DEF Top
<1>3. \A f \in FrameType : SetTop(f) => frames' \in Seq(FrameType)
  BY <1>1, ExceptSeq DEF SetTop
<1>4. frames' = Front(frames) => frames' \in Seq(FrameType)
  BY <1>1, SubSeqProperties DEF Front
<1> QED  BY <1>1, <1>2, <1>3, <1>4

\* An object's death strips this thread's queue, unless the object had left.
LEMMA DiesStrips ==
    ASSUME TypeOK, Dies
    PROVE  \E r \in Receivers :
             /\ object' = [object EXCEPT ![r] = "none"]
             /\ \/ Strip(r) /\ deleting' = deleting \ {r}
                \/ object[r] # "here" /\ UNCHANGED <<queue, frames, timers, deleting>>
             /\ UNCHANGED <<capacity, accepting, nextId>>
<1>1. ASSUME NEW r \in Receivers, DestroyObject(r)
      PROVE  /\ object' = [object EXCEPT ![r] = "none"]
             /\ Strip(r) /\ deleting' = deleting \ {r}
             /\ UNCHANGED <<capacity, accepting, nextId>>
  BY <1>1 DEF DestroyObject, Destroyed
<1>2. ASSUME NEW p \in Posters, DeleteAtOnce(p)
      PROVE  \E r \in Receivers :
               /\ object' = [object EXCEPT ![r] = "none"]
               /\ \/ Strip(r) /\ deleting' = deleting \ {r}
                  \/ object[r] # "here" /\ UNCHANGED <<queue, frames, timers, deleting>>
               /\ UNCHANGED <<capacity, accepting, nextId>>
  <2>1. posting[p].recv \in Receivers  BY <1>2 DEF DeleteAtOnce, TypeOK, Post
  <2> QED  BY <1>2, <2>1 DEF DeleteAtOnce, Destroyed
<1>3. ASSUME RunDeferredDelete
      PROVE  \E r \in Receivers :
               /\ object' = [object EXCEPT ![r] = "none"]
               /\ \/ Strip(r) /\ deleting' = deleting \ {r}
                  \/ object[r] # "here" /\ UNCHANGED <<queue, frames, timers, deleting>>
               /\ UNCHANGED <<capacity, accepting, nextId>>
  <2>1. frames # <<>> /\ Top.hand # None  BY <1>3 DEF RunDeferredDelete
  <2>2. Top \in FrameType  BY <2>1, TopType
  <2>3. Top.hand \in Entry  BY <2>1, <2>2 DEF FrameType, Slot
  <2>4. Top.hand.recv \in Receivers  BY <2>3 DEF Entry
  <2> QED  BY <1>3, <2>4 DEF RunDeferredDelete, Destroyed
<1> QED  BY <1>1, <1>2, <1>3 DEF Dies

LEMMA TakeUpType ==
    ASSUME NEW f \in FrameType, NEW e \in Slot
    PROVE  TakeUp(f, e) \in FrameType
<1>1. f.ran + 1 \in Nat  BY DEF FrameType
<1> DEFINE n == f.ran + 1
<1>2. n \in Nat  BY <1>1
<1> HIDE DEF n
<1>3. [f EXCEPT !.hand = e, !.ran = n] \in FrameType  BY <1>2 DEF FrameType
<1> QED  BY <1>3 DEF TakeUp, n

\* The expiries a pass collects.
LEMMA ExpiriesType ==
    ASSUME TypeOK, NEW due
    PROVE  Expiries(due) \in Seq(Entry)
<1> DEFINE fired == Picked(timers, {k \in Positions(timers) : timers[k] \in due})
           x == [k \in Positions(fired) |->
                    [id |-> nextId + k - 1, recv |-> fired[k], type |-> "Timer", prio |-> kNormal,
                     target |-> "here"]]
<1>1. fired \in Seq(Receivers)  BY PickedFrom DEF TypeOK
<1>2. Expiries(due) = x  BY DEF Expiries
<1> HIDE DEF fired
<1>3. Len(fired) \in Nat /\ \A k \in 1 .. Len(fired) : fired[k] \in Receivers  BY <1>1
<1>4. nextId \in Nat \ {0} /\ kNormal \in Int  BY DEF TypeOK, kNormal
<1>5. \A k \in 1 .. Len(fired) :
        [id |-> nextId + k - 1, recv |-> fired[k], type |-> "Timer", prio |-> kNormal,
                     target |-> "here"] \in Entry
  BY <1>3, <1>4 DEF Entry, Types, Fates
<1>6. x \in Seq(Entry)  BY <1>3, <1>5, IsASeq DEF Positions
<1> QED  BY <1>2, <1>6

\* Claiming a slot keeps the frame a frame.
LEMMA ClaimSlotType ==
    ASSUME TypeOK, frames # <<>>, BatchLeft, ClaimSlot
    PROVE  frames' \in Seq(FrameType) /\ queue' \in Seq(Entry)
<1>1. Top \in FrameType  BY TopType
<1> DEFINE f == [Top EXCEPT !.batch[Top.i] = None, !.i = @ + 1]
<1>2. Top.batch \in Seq(Slot) /\ Top.i \in Nat \ {0} /\ Top.i <= Len(Top.batch)
  BY <1>1 DEF FrameType, BatchLeft
<1>3. Top.batch[Top.i] \in Slot /\ None \in Slot  BY <1>2 DEF Slot
<1>4. [Top.batch EXCEPT ![Top.i] = None] \in Seq(Slot)  BY <1>2, <1>3, ExceptSeq
<1>5. f \in FrameType
  <2> DEFINE b == [Top.batch EXCEPT ![Top.i] = None]
             n == Top.i + 1
  <2>1. b \in Seq(Slot) /\ n \in Nat \ {0}  BY <1>2, <1>4
  <2>2. f = [Top EXCEPT !.batch = b, !.i = n]  OBVIOUS
  <2> HIDE DEF b, n, f
  <2> QED  BY <1>1, <2>1, <2>2 DEF FrameType
<1>6. SetTop(TakeUp(f, Top.batch[Top.i])) /\ UNCHANGED queue  BY DEF ClaimSlot
<1> HIDE DEF f
<1> QED  BY <1>3, <1>5, <1>6, TopType, TakeUpType DEF TypeOK

LEMMA InitType == Init => TypeOK
<1>1. ASSUME Init PROVE TypeOK
  <2>1. queue \in Seq(Entry) /\ frames \in Seq(FrameType) /\ timers \in Seq(Receivers)
    BY <1>1, EmptySeq DEF Init
  <2>2. capacity \in Capacities  BY <1>1, DispatcherAssumption DEF Init
  <2> QED  BY <1>1, <2>1, <2>2 DEF Init, TypeOK
<1> QED  BY <1>1

\* Every step keeps the types, action by action.
LEMMA StepType == TypeOK /\ [Next]_vars => TypeOK'
<1> SUFFICES ASSUME TypeOK, [Next]_vars PROVE TypeOK'  OBVIOUS
<1>0. kNormal \in Int /\ nextId \in Nat /\ nextId + 1 \in Nat \ {0}
  BY DEF kNormal, TypeOK
<1> USE DEF Types
<1>1. ASSUME NEW p \in Posters, NEW policy, NEW prio \in Priorities, PostEvent(p, policy, prio)
      PROVE  TypeOK'
  <2>1. prio \in Int /\ posting[p] # None  BY <1>1, DispatcherAssumption DEF PostEvent
  <2>2. queue' \in Seq(Entry)
    BY <1>1, <2>1, TicketedEntry, AfterAdmissionType DEF PostEvent, TypeOK
  <2>3. posting' \in [Posters -> Post \cup {None}]  BY <1>1 DEF PostEvent, Arrived, TypeOK
  <2> QED  BY <1>0, <1>1, <2>2, <2>3 DEF PostEvent, TypeOK
<1>2. ASSUME NEW p \in Posters, NEW prio \in Priorities, PostEventUnconditionally(p, prio)
      PROVE  TypeOK'
  <2>1. prio \in Int /\ posting[p] # None
    BY <1>2, DispatcherAssumption DEF PostEventUnconditionally
  <2>2. queue' \in Seq(Entry)
    BY <1>2, <2>1, TicketedEntry, InsertByPriorityPlaces DEF PostEventUnconditionally, TypeOK
  <2>3. posting' \in [Posters -> Post \cup {None}]
    BY <1>2 DEF PostEventUnconditionally, Arrived, TypeOK
  <2> QED  BY <1>0, <1>2, <2>2, <2>3 DEF PostEventUnconditionally, TypeOK
<1>3. CASE Aims
  <2>1. posting' \in [Posters -> Post \cup {None}]
    <3>1. ASSUME NEW p \in Posters, NEW r \in Receivers, NEW type \in Types,
                 NEW carried \in BOOLEAN, Resolve(p, r, type, carried)
          PROVE  posting' \in [Posters -> Post \cup {None}]
      <4>1. [recv |-> r, type |-> type, carried |-> carried, target |-> "here"] \in Post
        BY DEF Post, Fates
      <4> QED  BY <3>1, <4>1 DEF Resolve, TypeOK
    <3>2. ASSUME NEW p \in Posters, RefusePost(p) PROVE posting' \in [Posters -> Post \cup {None}]
      BY <3>2 DEF RefusePost, Arrived, TypeOK
    <3> QED  BY <1>3, <3>1, <3>2 DEF Aims, BeginPost, BeginCarry, BeginDeleteLater
  <2>2. deleting' \in SUBSET Receivers
    <3>1. deleting \in SUBSET Receivers  BY DEF TypeOK
    <3>2. ASSUME NEW p, NEW r, NEW type, BeginPost(p, r, type) PROVE deleting' = deleting
      BY <3>2 DEF BeginPost
    <3>3. ASSUME NEW p, NEW r \in Receivers, NEW type, BeginCarry(p, r, type)
          PROVE  deleting' \in SUBSET Receivers
      BY <3>1, <3>3 DEF BeginCarry
    <3>4. ASSUME NEW p, NEW r \in Receivers, BeginDeleteLater(p, r)
          PROVE  deleting' \in SUBSET Receivers
      BY <3>1, <3>4 DEF BeginDeleteLater
    <3>5. ASSUME NEW p, RefusePost(p) PROVE deleting' = deleting  BY <3>5 DEF RefusePost
    <3> QED  BY <1>3, <3>1, <3>2, <3>3, <3>4, <3>5 DEF Aims
  <2> QED  BY <1>3, <2>1, <2>2, AimsAreQuiet DEF TypeOK
<1>a. ASSUME NEW r, NEW fate \in Fates, Outlive(r, fate)
      PROVE  posting' \in [Posters -> Post \cup {None}]
  <2>1. \A p \in Posters : Outlived(p, r, fate) \in Post \cup {None}  BY OutlivedPost
  <2> QED  BY <1>a, <2>1 DEF Outlive
<1>b. "gone" \in Fates /\ "stray" \in Fates  BY DEF Fates
<1>5. CASE Dies
  <2>1. PICK r \in Receivers :
          /\ object' = [object EXCEPT ![r] = "none"]
          /\ \/ Strip(r) /\ deleting' = deleting \ {r}
             \/ object[r] # "here" /\ UNCHANGED <<queue, frames, timers, deleting>>
          /\ UNCHANGED <<capacity, accepting, nextId>>
    BY <1>5, DiesStrips
  <2>2. posting' \in [Posters -> Post \cup {None}]
    <3>1. ASSUME NEW x \in Receivers, DestroyObject(x) PROVE posting' \in [Posters -> Post \cup {None}]
      BY <3>1, <1>a, <1>b DEF DestroyObject
    <3>2. CASE RunDeferredDelete  BY <3>2, <1>a, <1>b DEF RunDeferredDelete, TypeOK
    <3>3. ASSUME NEW p \in Posters, DeleteAtOnce(p) PROVE posting' \in [Posters -> Post \cup {None}]
      <4> DEFINE x == posting[p].recv
      <4>1. \A o \in Posters : Outlived(o, x, "gone") \in Post \cup {None}  BY OutlivedPost, <1>b
      <4>2. posting' = [o \in Posters |-> IF o = p THEN None ELSE Outlived(o, x, "gone")]
        BY <3>3 DEF DeleteAtOnce
      <4> HIDE DEF x
      <4> QED  BY <4>1, <4>2
    <3> QED  BY <1>5, <3>1, <3>2, <3>3 DEF Dies
  <2>3. /\ queue' \in Seq(Entry) /\ frames' \in Seq(FrameType) /\ timers' \in Seq(Receivers)
        /\ deleting' \in SUBSET Receivers
    BY <2>1, StripType DEF TypeOK
  <2> QED  BY <2>1, <2>2, <2>3 DEF TypeOK
<1>4. ASSUME NEW r \in Receivers, CreateObject(r) PROVE TypeOK'
  BY <1>4 DEF CreateObject, TypeOK
<1>6. ASSUME NEW r \in Receivers, MoveAway(r) PROVE TypeOK'
  <2>1. Strip(r) /\ Outlive(r, "stray")  BY <1>6 DEF MoveAway
  <2>2. posting' \in [Posters -> Post \cup {None}]  BY <2>1, <1>a, <1>b
  <2> QED  BY <1>6, <2>1, <2>2, StripType DEF MoveAway, TypeOK
<1>7. ASSUME NEW r \in Receivers, LeaveOrReturn(r) PROVE TypeOK'
  BY <1>7 DEF LeaveOrReturn, TypeOK
<1>8. ASSUME NEW r \in Receivers, RegisterTimer(r) PROVE TypeOK'
  <2>1. timers' \in Seq(Receivers)  BY <1>8, AppendProperties DEF RegisterTimer, TypeOK
  <2> QED  BY <1>8, <2>1 DEF RegisterTimer, TypeOK
<1>9. ASSUME NEW r \in Receivers, UnregisterTimer(r) PROVE TypeOK'
  <2>1. queue' \in Seq(Entry) /\ timers' \in Seq(Receivers)
    BY <1>9, PickedFrom DEF UnregisterTimer, TimersWithout, TypeOK
  <2>2. frames' \in Seq(FrameType)
    <3> DEFINE g(f) == [f EXCEPT !.batch = WithoutExpiries(@, r), !.timers = WithoutExpiries(@, r)]
    <3>1. \A d \in 1 .. Len(frames) : frames[d] \in FrameType  BY DEF TypeOK
    <3>2. \A f \in FrameType : g(f) \in FrameType  BY ClearedInFrameType
    <3>3. frames' = [d \in 1 .. Len(frames) |-> g(frames[d])]
      BY <1>9 DEF UnregisterTimer, Positions
    <3>4. Len(frames) \in Nat  BY DEF TypeOK
    <3> HIDE DEF g
    <3> QED  BY <3>1, <3>2, <3>3, <3>4, IsASeq
  <2> QED  BY <1>9, <2>1, <2>2 DEF UnregisterTimer, TypeOK
<1>10. ASSUME NEW c \in Capacities, SetEventQueueCapacity(c) PROVE TypeOK'
  BY <1>10 DEF SetEventQueueCapacity, TypeOK
<1>11. CASE Close  BY <1>11 DEF Close, TypeOK
<1>12. ASSUME NEW due, BeginPass(due) PROVE TypeOK'
  <2>1. Expiries(due) \in Seq(Slot) /\ queue \in Seq(Slot) /\ Len(Expiries(due)) \in Nat
    BY ExpiriesType, EntriesAreSlots DEF TypeOK
  <2>2. Frame("pass", queue, Expiries(due)) \in FrameType  BY <2>1, FrameIntro
  <2>3. frames' \in Seq(FrameType)  BY <1>12, <2>2, AppendProperties DEF BeginPass, TypeOK
  <2>4. queue' \in Seq(Entry)  BY <1>12, EmptySeq DEF BeginPass
  <2>5. nextId' \in Nat \ {0}  BY <1>12, <2>1 DEF BeginPass, TypeOK
  <2> QED  BY <1>12, <2>3, <2>4, <2>5 DEF BeginPass, TypeOK
<1>13. CASE NextEvent
  <2>1. frames # <<>> /\ BatchLeft  BY <1>13 DEF NextEvent, BetweenDispatches
  <2>2. queue' \in Seq(Entry) /\ frames' \in Seq(FrameType)
    <3>1. CASE Preempts
      <4>1. Steal  BY <1>13, <3>1 DEF NextEvent
      <4>2. Top \in FrameType  BY <2>1, TopType
      <4>3. Top.budget \in Nat /\ Top.budget > 0 /\ queue # <<>> /\ queue \in Seq(Entry)
        BY <3>1, <4>2 DEF Preempts, TypeOK, FrameType
      <4> DEFINE f == [Top EXCEPT !.budget = @ - 1]
                 n == Top.budget - 1
      <4>4. n \in Nat /\ f = [Top EXCEPT !.budget = n]  BY <4>3
      <4>5. f \in FrameType
        <5> HIDE DEF f, n
        <5> QED  BY <4>2, <4>4 DEF FrameType
      <4>6. Head(queue) \in Slot /\ Tail(queue) \in Seq(Entry)
        BY <4>3, HeadTailProperties DEF Slot
      <4>7. SetTop(TakeUp(f, Head(queue))) /\ queue' = Tail(queue)  BY <4>1 DEF Steal
      <4> HIDE DEF f
      <4> QED  BY <2>1, <4>5, <4>6, <4>7, TakeUpType, TopType
    <3>2. CASE ~Preempts  BY <1>13, <2>1, <3>2, ClaimSlotType DEF NextEvent
    <3> QED  BY <3>1, <3>2
  <2> QED  BY <1>13, <2>2 DEF NextEvent, TypeOK
<1>14. CASE NextExpiry
  <2>1. frames # <<>>  BY <1>14 DEF NextExpiry, BetweenDispatches
  <2>2. Top \in FrameType  BY <2>1, TopType
  <2>3. Top.timers \in Seq(Slot) /\ Top.j \in Nat \ {0} /\ Top.j <= Len(Top.timers)
    BY <1>14, <2>2 DEF NextExpiry, FrameType
  <2> DEFINE b == [Top.timers EXCEPT ![Top.j] = None]
             n == Top.j + 1
             f == [Top EXCEPT !.timers[Top.j] = None, !.j = @ + 1]
  <2>4. b \in Seq(Slot) /\ n \in Nat \ {0} /\ Top.timers[Top.j] \in Slot
    BY <2>3, ExceptSeq DEF Slot
  <2>5. f = [Top EXCEPT !.timers = b, !.j = n]  OBVIOUS
  <2>6. f \in FrameType
    <3> HIDE DEF b, n, f
    <3> QED  BY <2>2, <2>4, <2>5 DEF FrameType
  <2>7. SetTop(TakeUp(f, Top.timers[Top.j]))  BY <1>14 DEF NextExpiry
  <2> HIDE DEF f
  <2>8. frames' \in Seq(FrameType)  BY <2>1, <2>4, <2>6, <2>7, TakeUpType, TopType
  <2> QED  BY <1>14, <2>8 DEF NextExpiry, TypeOK
<1>15. CASE EndPass
  <2>1. frames' \in Seq(FrameType)  BY <1>15, TopType DEF EndPass, BetweenDispatches
  <2> QED  BY <1>15, <2>1 DEF EndPass, TypeOK
<1>17. CASE EndDispatch
  <2>1. frames # <<>> /\ Top \in FrameType  BY <1>17, TopType DEF EndDispatch
  <2> DEFINE d == IF Top.hand.type = "DeferredDelete" THEN Top.deleted \cup {Top.hand.recv}
                  ELSE Top.deleted
             f == [Top EXCEPT !.hand = None, !.deleted = d]
  <2>2. Top.hand \in Entry  BY <1>17, <2>1 DEF EndDispatch, FrameType, Slot
  <2>3. d \in SUBSET Receivers /\ None \in Slot  BY <2>1, <2>2 DEF FrameType, Entry, Slot
  <2>4. SetTop(f)  BY <1>17 DEF EndDispatch
  <2> HIDE DEF d
  <2>5. f \in FrameType  BY <2>1, <2>3 DEF FrameType
  <2> HIDE DEF f
  <2>6. frames' \in Seq(FrameType)  BY <2>1, <2>4, <2>5, TopType
  <2> QED  BY <1>17, <2>6 DEF EndDispatch, TypeOK
<1>18. DeferredDeletes \in Seq(Slot) /\ DrainedQueue \in Seq(Entry) /\ <<>> \in Seq(Slot)
  <2>1. DeferredDeletes \in Seq(Entry) /\ DrainedQueue \in Seq(Entry)
    BY PickedFrom DEF DeferredDeletes, DrainedQueue, TypeOK
  <2> QED  BY <2>1, EntriesAreSlots
<1>19. Frame("drain", DeferredDeletes, <<>>) \in FrameType  BY <1>18, FrameIntro
<1>20. CASE BeginDrain
  BY <1>18, <1>19, <1>20 DEF BeginDrain, TypeOK
<1>21. CASE NextDeferredDelete
  <2>1. queue' \in Seq(Entry) /\ frames' \in Seq(FrameType)
    BY <1>21, ClaimSlotType DEF NextDeferredDelete, BetweenDispatches
  <2> QED  BY <1>21, <2>1 DEF NextDeferredDelete, TypeOK
<1>22. CASE DrainAgain
  <2>1. frames # <<>> /\ Top \in FrameType  BY <1>22, TopType DEF DrainAgain, BetweenDispatches
  <2> DEFINE f == [Frame("drain", DeferredDeletes, <<>>) EXCEPT !.deleted = Top.deleted]
  <2>2. f \in FrameType
    <3>1. Top.deleted \in SUBSET Receivers  BY <2>1 DEF FrameType
    <3> QED  BY <1>19, <3>1 DEF FrameType
  <2>3. SetTop(f) \/ frames' = Front(frames)  BY <1>22 DEF DrainAgain
  <2> HIDE DEF f
  <2>4. frames' \in Seq(FrameType)  BY <2>1, <2>2, <2>3, TopType
  <2> QED  BY <1>18, <1>22, <2>4 DEF DrainAgain, TypeOK
<1>23. CASE UNCHANGED vars  BY <1>23 DEF vars, TypeOK
<1> QED
  BY <1>1, <1>2, <1>3, <1>4, <1>5, <1>6, <1>7, <1>8, <1>9, <1>10, <1>11, <1>12, <1>13,
     <1>14, <1>15, <1>17, <1>20, <1>21, <1>22, <1>23 DEF Next, Aims, Dies

\* Type correctness: in every behaviour the queue, the running passes, the timers
\* and the flags of EventDispatcherDefault keep their types.
THEOREM TypeCorrect == Spec => []TypeOK
BY InitType, StepType, PTL DEF Spec

-----------------------------------------------------------------------------
(* The queue's order.  What makes it inductive: every queued ticket is below *)
(* nextId, so a newcomer is the youngest of its rank and belongs last in it. *)

Numbered(q, n) == \A k \in Positions(q) : q[k].id < n

QueueInv(q, n) == Ordered(q) /\ Numbered(q, n)

\* Taking entries out of a queue keeps its order.
LEMMA PickedKeepsOrder ==
    ASSUME NEW q \in Seq(Entry), NEW P, NEW n \in Nat, QueueInv(q, n)
    PROVE  QueueInv(Picked(q, P), n)
<1> DEFINE t == Picked(q, P)
<1>1. t \in Seq(Entry) /\ \E f : Embeds(t, q, P, Len(q), f)  BY PickedEmbeds
<1> HIDE DEF t
<1>2. PICK f : Embeds(t, q, P, Len(q), f)  BY <1>1
<1>3. \A i \in Positions(t) : f[i] \in Positions(q) /\ t[i] = q[f[i]]
  BY <1>2 DEF Embeds, Positions
<1>4. \A i, j \in Positions(t) : i < j => f[i] < f[j]  BY <1>2 DEF Embeds, Positions
<1>5. Ordered(t)  BY <1>3, <1>4 DEF Ordered, QueueInv
<1>6. Numbered(t, n)  BY <1>3 DEF Numbered, QueueInv
<1> QED  BY <1>5, <1>6 DEF QueueInv, t

LEMMA TailKeepsOrder ==
    ASSUME NEW q \in Seq(Entry), NEW n \in Nat, q # <<>>, QueueInv(q, n)
    PROVE  QueueInv(Tail(q), n)
<1>1. /\ Tail(q) \in Seq(Entry) /\ Len(Tail(q)) = Len(q) - 1 /\ Len(q) \in Nat
      /\ \A k \in 1 .. Len(Tail(q)) : Tail(q)[k] = q[k + 1]
  BY HeadTailProperties
<1> QED  BY <1>1 DEF QueueInv, Ordered, Numbered, Positions

\* A newcomer with the next ticket joins in order.
LEMMA InsertKeepsOrder ==
    ASSUME NEW q \in Seq(Entry), NEW e \in Entry, NEW n \in Nat, e.id = n, QueueInv(q, n)
    PROVE  QueueInv(InsertByPriority(q, e), n + 1)
<1> DEFINE t == InsertByPriority(q, e)
<1>1. PICK k \in 1 .. Len(q) + 1 : InsertedAt(t, q, e, k)  BY InsertByPriorityPlaces
<1>2. Len(q) \in Nat /\ Positions(q) = 1 .. Len(q)  BY DEF Positions
<1>3. \A x \in Entry : x.prio \in Int /\ x.id \in Nat  BY DEF Entry
<1>4. \A i \in Positions(q) : q[i] \in Entry /\ q[i].prio \in Int /\ q[i].id \in Nat
  <2>1. \A i \in Positions(q) : q[i] \in Entry  BY <1>2
  <2> QED  BY <2>1, <1>3
<1> HIDE DEF t
<1>5. Len(t) = Len(q) + 1 /\ Positions(t) = 1 .. Len(q) + 1  BY <1>1 DEF InsertedAt, Positions
<1>6. \A i \in Positions(t) : t[i] = IF i < k THEN q[i] ELSE IF i = k THEN e ELSE q[i - 1]
  BY <1>1, <1>5 DEF InsertedAt
<1>7. \A i \in 1 .. k - 1 : q[i].prio >= e.prio  BY <1>1 DEF InsertedAt
<1>8. \A i \in Positions(q) : i >= k => q[i].prio < e.prio
  <2>1. TAKE i \in Positions(q)
  <2>2. HAVE i >= k
  <2>3. k \in Positions(q) /\ q[k].prio < e.prio  BY <2>2, <1>1, <1>2 DEF InsertedAt
  <2>4. CASE k = i  BY <2>3, <2>4
  <2>5. CASE k < i
    <3>1. q[k].prio > q[i].prio \/ q[k].prio = q[i].prio
      BY <2>3, <2>5 DEF QueueInv, Ordered
    <3>2. q[k].prio \in Int /\ q[i].prio \in Int /\ e.prio \in Int  BY <2>3, <1>3, <1>4
    <3> QED  BY <3>1, <3>2, <2>3
  <2> QED  BY <2>2, <2>4, <2>5, <1>2
<1>9. \A i \in Positions(q) : q[i].id < e.id  BY DEF QueueInv, Numbered
<1>10. Ordered(t)
  <2> DEFINE Before(x, y) == x.prio > y.prio \/ (x.prio = y.prio /\ x.id < y.id)
  <2>1. \A i, j \in Positions(q) : i < j => Before(q[i], q[j])  BY DEF QueueInv, Ordered
  <2>2. \A i \in Positions(q) : i < k => Before(q[i], e)  BY <1>2, <1>3, <1>4, <1>7, <1>9
  <2>3. \A i \in Positions(q) : i >= k => Before(e, q[i])  BY <1>3, <1>4, <1>8
  <2> HIDE DEF Before
  <2>4. ASSUME NEW i \in Positions(t), NEW j \in Positions(t), i < j
        PROVE  Before(t[i], t[j])
    <3>1. CASE j < k  BY <3>1, <2>4, <2>1, <1>2, <1>5, <1>6
    <3>2. CASE j = k
      <4>1. t[j] = e /\ t[i] = q[i] /\ i < k /\ i \in Positions(q)
        BY <3>2, <2>4, <1>2, <1>5, <1>6
      <4> QED  BY <4>1, <2>2
    <3>3. CASE j > k
      <4>1. t[j] = q[j - 1] /\ j - 1 >= k /\ j - 1 \in Positions(q)  BY <3>3, <1>2, <1>5, <1>6
      <4>2. CASE i = k
        <5>1. t[i] = e  BY <4>2, <1>6
        <5> QED  BY <4>1, <5>1, <2>3
      <4>3. CASE i < k
        <5>1. t[i] = q[i] /\ i \in Positions(q) /\ i < j - 1  BY <3>3, <4>3, <1>2, <1>5, <1>6
        <5> QED  BY <4>1, <5>1, <2>1
      <4>4. CASE i > k
        <5>1. t[i] = q[i - 1] /\ i - 1 \in Positions(q) /\ i - 1 < j - 1
          BY <2>4, <4>4, <1>2, <1>5, <1>6
        <5> QED  BY <4>1, <5>1, <2>1
      <4> QED  BY <4>2, <4>3, <4>4, <1>5
    <3> QED  BY <3>1, <3>2, <3>3, <1>5
  <2> QED  BY <2>4 DEF Ordered, Before
<1>11. Numbered(t, n + 1)
  <2>1. SUFFICES ASSUME NEW i \in Positions(t) PROVE t[i].id < n + 1  BY DEF Numbered
  <2>2. CASE i = k  BY <2>2, <1>6
  <2>3. CASE i < k
    <3>1. i \in Positions(q) /\ t[i] = q[i]  BY <2>3, <1>2, <1>5, <1>6
    <3> QED  BY <3>1, <1>4, <1>9
  <2>4. CASE i > k
    <3>1. i - 1 \in Positions(q) /\ t[i] = q[i - 1]  BY <2>4, <1>2, <1>5, <1>6
    <3> QED  BY <3>1, <1>4, <1>9
  <2> QED  BY <2>2, <2>3, <2>4, <1>5
<1> QED  BY <1>10, <1>11 DEF QueueInv, t

LEMMA NumberedMonotonic ==
    ASSUME NEW q \in Seq(Entry), NEW n \in Nat, NEW m \in Nat, n <= m, QueueInv(q, n)
    PROVE  QueueInv(q, m)
<1>1. \A x \in Entry : x.id \in Nat  BY DEF Entry
<1>2. \A i \in Positions(q) : q[i] \in Entry  BY DEF Positions
<1> QED  BY <1>1, <1>2 DEF QueueInv, Numbered

LEMMA AdmissionKeepsOrder ==
    ASSUME NEW q \in Seq(Entry), NEW e \in Entry, NEW policy, NEW n \in Nat, e.id = n,
           QueueInv(q, n)
    PROVE  QueueInv(AfterAdmission(q, e, policy), n + 1)
<1> DEFINE p == Picked(q, Positions(q) \ {Victim(q)})
<1>1. p \in Seq(Entry) /\ QueueInv(p, n)  BY PickedFrom, PickedKeepsOrder
<1> HIDE DEF p
<1>2. QueueInv(InsertByPriority(q, e), n + 1)  BY InsertKeepsOrder
<1>3. QueueInv(InsertByPriority(p, e), n + 1)  BY <1>1, InsertKeepsOrder
<1>4. QueueInv(q, n + 1)  BY NumberedMonotonic
<1> QED  BY <1>2, <1>3, <1>4 DEF AfterAdmission, p

\* Every step keeps the queue's order.
LEMMA StepOrder == TypeOK /\ QueueInv(queue, nextId) /\ [Next]_vars => QueueInv(queue, nextId)'
<1> SUFFICES ASSUME TypeOK, QueueInv(queue, nextId), [Next]_vars
             PROVE  QueueInv(queue', nextId')
  OBVIOUS
<1>0. queue \in Seq(Entry) /\ nextId \in Nat /\ kNormal \in Int  BY DEF TypeOK, kNormal
<1>a. ASSUME queue' = queue, nextId' = nextId PROVE QueueInv(queue', nextId')
  BY <1>a
<1>b. ASSUME NEW P, queue' = Picked(queue, P), nextId' = nextId PROVE QueueInv(queue', nextId')
  BY <1>0, <1>b, PickedKeepsOrder
<1>1. ASSUME NEW p \in Posters, NEW policy, NEW prio \in Priorities, PostEvent(p, policy, prio)
      PROVE  QueueInv(queue', nextId')
  <2>1. prio \in Int /\ posting[p] # None  BY <1>1, DispatcherAssumption DEF PostEvent
  <2>2. Ticketed(p, prio) \in Entry /\ Ticketed(p, prio).id = nextId  BY <2>1, TicketedEntry
  <2>3. queue' = AfterAdmission(queue, Ticketed(p, prio), policy) /\ nextId' = nextId + 1
    BY <1>1 DEF PostEvent
  <2> QED  BY <1>0, <2>2, <2>3, AdmissionKeepsOrder
<1>2. ASSUME NEW p \in Posters, NEW prio \in Priorities, PostEventUnconditionally(p, prio)
      PROVE  QueueInv(queue', nextId')
  <2>1. prio \in Int /\ posting[p] # None
    BY <1>2, DispatcherAssumption DEF PostEventUnconditionally
  <2>2. Ticketed(p, prio) \in Entry /\ Ticketed(p, prio).id = nextId  BY <2>1, TicketedEntry
  <2>3. queue' = InsertByPriority(queue, Ticketed(p, prio)) /\ nextId' = nextId + 1
    BY <1>2 DEF PostEventUnconditionally
  <2> QED  BY <1>0, <2>2, <2>3, InsertKeepsOrder
<1>3. CASE Dies
  BY <1>3, <1>a, <1>b, DiesStrips DEF Strip, Without
<1>4. CASE Aims
  BY <1>4, <1>a, AimsAreQuiet
<1>5. ASSUME NEW r \in Receivers, MoveAway(r) PROVE QueueInv(queue', nextId')
  BY <1>5, <1>b DEF MoveAway, Strip, Without
<1>6. ASSUME NEW r \in Receivers,
             CreateObject(r) \/ LeaveOrReturn(r) \/ RegisterTimer(r)
      PROVE  QueueInv(queue', nextId')
  BY <1>6, <1>a DEF CreateObject, LeaveOrReturn, RegisterTimer
<1>7. ASSUME NEW r \in Receivers, UnregisterTimer(r) PROVE QueueInv(queue', nextId')
  BY <1>7, <1>b DEF UnregisterTimer
<1>8. ASSUME NEW c \in Capacities, SetEventQueueCapacity(c) PROVE QueueInv(queue', nextId')
  BY <1>8, <1>a DEF SetEventQueueCapacity
<1>9. ASSUME NEW due, BeginPass(due) PROVE QueueInv(queue', nextId')
  BY <1>9 DEF BeginPass, QueueInv, Ordered, Numbered, Positions
<1>10. CASE NextEvent
  <2>1. CASE Preempts
    <3>1. Steal /\ nextId' = nextId  BY <1>10, <2>1 DEF NextEvent
    <3>2. queue' = Tail(queue) /\ queue # <<>>  BY <3>1, <2>1 DEF Steal, Preempts
    <3> QED  BY <1>0, <3>1, <3>2, TailKeepsOrder
  <2>2. CASE ~Preempts  BY <1>10, <1>a, <2>2 DEF NextEvent, ClaimSlot
  <2> QED  BY <2>1, <2>2
<1>11. CASE Close \/ NextExpiry \/ EndPass \/ EndDispatch \/ NextDeferredDelete
  BY <1>11, <1>a DEF Close, NextExpiry, EndPass, EndDispatch, NextDeferredDelete, ClaimSlot
<1>13. CASE BeginDrain \/ DrainAgain
  BY <1>13, <1>b DEF BeginDrain, DrainAgain, DrainedQueue
<1>14. CASE UNCHANGED vars  BY <1>14, <1>a DEF vars
<1> QED
  BY <1>1, <1>2, <1>3, <1>4, <1>5, <1>6, <1>7, <1>8, <1>9, <1>10, <1>11, <1>13, <1>14
  DEF Next, Aims, Dies

\* "Higher runs first, and equal priorities keep posting order": in every behaviour
\* mEventQueue is sorted by descending priority and, within one, by ticket, whatever
\* the overflow policies, evictions, cancellations and migrations.
THEOREM AlwaysQueueOrdered == Spec => []QueueOrdered
<1>1. Init => QueueInv(queue, nextId)
  BY DEF Init, QueueInv, Ordered, Numbered, Positions
<1>2. TypeOK /\ QueueInv(queue, nextId) /\ [Next]_vars => QueueInv(queue, nextId)'
  BY StepOrder
<1>3. QueueInv(queue, nextId) => QueueOrdered  BY DEF QueueInv, QueueOrdered
<1> QED  BY <1>1, <1>2, <1>3, TypeCorrect, PTL DEF Spec

-----------------------------------------------------------------------------
(* Nothing for the gone.  What makes it inductive: a timer, whose expiry a   *)
(* later pass will collect, is owned by an object of this thread too, and    *)
(* what is in flight is aimed as what it will be queued as.                  *)

Names(s, e) == \E k \in Positions(s) : s[k] = e

Awaited(e) ==
    \/ Names(queue, e)
    \/ \E d \in Positions(frames) : Names(frames[d].batch, e) \/ Names(frames[d].timers, e)

TimersLive == \A k \in Positions(timers) : object[timers[k]] = "here"

PostsAimed == \A p \in Posters : posting[p] # None => RightlyAimed(posting[p])

EventsAimed == \A e \in Entry : Awaited(e) => RightlyAimed(e)

LivingInv == EventsAimed /\ TimersLive /\ PostsAimed

LEMMA EntryIsNotNone == \A e \in Entry : e # None
BY NoneAssumption

\* Taking entries out brings nothing new.
LEMMA PickedNames ==
    ASSUME NEW S, NEW s \in Seq(S), NEW P, NEW e, Names(Picked(s, P), e)
    PROVE  /\ \E k \in Positions(s) : k \in P /\ s[k] = e
           /\ Names(s, e)
<1>1. PICK i \in Positions(Picked(s, P)) : Picked(s, P)[i] = e  BY DEF Names
<1>2. PICK k \in Positions(s) : k \in P /\ Picked(s, P)[i] = s[k]  BY <1>1, PickedFrom
<1> QED  BY <1>1, <1>2 DEF Names

\* Clearing r's slots leaves no event for r, and brings nothing new.
LEMMA ClearedNames ==
    ASSUME NEW b \in Seq(Slot), NEW r, NEW e \in Entry
    PROVE  /\ Names(Cleared(b, r), e) => Names(b, e) /\ e.recv # r
           /\ Names(WithoutExpiries(b, r), e) => Names(b, e)
<1>1. Len(b) \in Nat /\ e # None  BY EntryIsNotNone
<1>2. /\ Positions(Cleared(b, r)) = Positions(b)
      /\ Positions(WithoutExpiries(b, r)) = Positions(b)
  BY <1>1, ClearedType DEF Cleared, WithoutExpiries, Positions
<1>3. ASSUME Names(Cleared(b, r), e) PROVE Names(b, e) /\ e.recv # r
  BY <1>1, <1>2, <1>3 DEF Names, Cleared
<1>4. ASSUME Names(WithoutExpiries(b, r), e) PROVE Names(b, e)
  BY <1>1, <1>2, <1>4 DEF Names, WithoutExpiries
<1> QED  BY <1>3, <1>4

LEMMA FramesHaveSlots ==
    ASSUME TypeOK
    PROVE  /\ Len(frames) \in Nat
           /\ \A d \in Positions(frames) :
                /\ frames[d] \in FrameType
                /\ frames[d].batch \in Seq(Slot)
                /\ frames[d].timers \in Seq(Slot)
<1>1. \A f \in FrameType : f.batch \in Seq(Slot) /\ f.timers \in Seq(Slot)  BY DEF FrameType
<1>2. frames \in Seq(FrameType)  BY DEF TypeOK
<1> QED  BY <1>1, <1>2 DEF Positions

\* Strip(r) forgets r, whatever was waiting for it, and nothing else appears.
LEMMA StripForgets ==
    ASSUME TypeOK, NEW r, Strip(r), NEW e \in Entry, Awaited(e)'
    PROVE  Awaited(e) /\ e.recv # r
<1>1. ASSUME Names(queue', e) PROVE Names(queue, e) /\ e.recv # r
  <2> DEFINE P == {k \in Positions(queue) : queue[k].recv # r}
  <2>1. queue \in Seq(Entry) /\ queue' = Picked(queue, P)  BY DEF Strip, Without, TypeOK
  <2>2. \A k \in Positions(queue) : k \in P => queue[k].recv # r  OBVIOUS
  <2> HIDE DEF P
  <2> QED  BY <1>1, <2>1, <2>2, PickedNames
<1>2. ASSUME NEW d \in Positions(frames'),
             Names(frames'[d].batch, e) \/ Names(frames'[d].timers, e)
      PROVE  /\ e.recv # r
             /\ \E c \in Positions(frames) : Names(frames[c].batch, e) \/ Names(frames[c].timers, e)
  <2>1. frames' = [c \in Positions(frames) |-> ClearedInFrame(frames[c], r)]
    BY DEF Strip, ClearedInEveryFrame
  <2>2. Len(frames) \in Nat  BY FramesHaveSlots
  <2>3. Len(frames') = Len(frames) /\ d \in Positions(frames)  BY <2>1, <2>2 DEF Positions
  <2>4. frames[d] \in FrameType /\ frames[d].batch \in Seq(Slot) /\ frames[d].timers \in Seq(Slot)
    BY <2>3, FramesHaveSlots, SMTT(30)
  <2>5. /\ frames'[d].batch = Cleared(frames[d].batch, r)
        /\ frames'[d].timers = Cleared(frames[d].timers, r)
    BY <2>1, <2>3, <2>4 DEF ClearedInFrame, FrameType
  <2> QED  BY <1>2, <2>3, <2>4, <2>5, ClearedNames
<1> QED  BY <1>1, <1>2 DEF Awaited

\* A new innermost frame that names nobody new.
LEMMA SetTopNames ==
    ASSUME TypeOK, frames # <<>>, NEW f \in FrameType, SetTop(f), NEW e \in Entry,
           Names(f.batch, e) => Names(Top.batch, e),
           Names(f.timers, e) => Names(Top.timers, e),
           Names(queue', e) => Names(queue, e)
    PROVE  Awaited(e)' => Awaited(e)
<1>1. /\ Len(frames) \in Nat /\ Len(frames) \in Positions(frames) /\ frames \in Seq(FrameType)
      /\ Top = frames[Len(frames)]
  BY TopType DEF TypeOK, Top, Positions
<1>2. /\ Positions(frames') = Positions(frames)
      /\ \A d \in Positions(frames) : frames'[d] = IF d = Len(frames) THEN f ELSE frames[d]
  BY <1>1, ExceptSeq DEF SetTop, Positions
<1>3. ASSUME NEW d \in Positions(frames'),
             Names(frames'[d].batch, e) \/ Names(frames'[d].timers, e)
      PROVE  Names(frames[d].batch, e) \/ Names(frames[d].timers, e)
  BY <1>1, <1>2, <1>3
<1> QED  BY <1>2, <1>3 DEF Awaited

\* A slot cleared by hand names nobody new.
LEMMA ClaimedNames ==
    ASSUME NEW b \in Seq(Slot), NEW k \in 1 .. Len(b), NEW e \in Entry
    PROVE  Names([b EXCEPT ![k] = None], e) => Names(b, e)
<1> DEFINE c == [b EXCEPT ![k] = None]
<1>1. /\ Positions(c) = Positions(b)
      /\ \A j \in Positions(b) : c[j] = IF j = k THEN None ELSE b[j]
  BY ExceptSeq DEF Positions, Slot
<1> HIDE DEF c
<1>2. Names(c, e) => Names(b, e)  BY <1>1, EntryIsNotNone DEF Names
<1> QED  BY <1>2 DEF c

\* Taking an event up changes neither batch.
LEMMA TakeUpKeepsSlots ==
    ASSUME NEW f \in FrameType, NEW e
    PROVE  /\ TakeUp(f, e).batch = f.batch
           /\ TakeUp(f, e).timers = f.timers
BY DEF TakeUp, FrameType

\* Claiming the next slot, in a pass or in the drain, names nobody new.
LEMMA ClaimSlotNames ==
    ASSUME TypeOK, frames # <<>>, BatchLeft, ClaimSlot, NEW e \in Entry
    PROVE  Awaited(e)' => Awaited(e)
<1>1. Top \in FrameType  BY TopType
<1> DEFINE f == [Top EXCEPT !.batch[Top.i] = None, !.i = @ + 1]
           b == [Top.batch EXCEPT ![Top.i] = None]
           n == Top.i + 1
<1>2. Top.batch \in Seq(Slot) /\ Top.i \in 1 .. Len(Top.batch)
  BY <1>1 DEF FrameType, BatchLeft
<1>3. Top.batch[Top.i] \in Slot /\ None \in Slot /\ n \in Nat \ {0}  BY <1>2 DEF Slot
<1>4. b \in Seq(Slot)  BY <1>2, <1>3, ExceptSeq
<1>5. f = [Top EXCEPT !.batch = b, !.i = n]  OBVIOUS
<1>6. Names(b, e) => Names(Top.batch, e)  BY <1>2, ClaimedNames
<1>7. SetTop(TakeUp(f, Top.batch[Top.i])) /\ UNCHANGED queue  BY DEF ClaimSlot
<1> HIDE DEF b, n, f
<1>8. f \in FrameType /\ f.batch = b /\ f.timers = Top.timers
  BY <1>1, <1>3, <1>4, <1>5 DEF FrameType
<1>9. TakeUp(f, Top.batch[Top.i]) \in FrameType  BY <1>3, <1>8, TakeUpType
<1> QED  BY <1>6, <1>7, <1>8, <1>9, TakeUpKeepsSlots, SetTopNames

\* A queue a newcomer may have joined holds nothing but it and what it held.
LEMMA InsertedNames ==
    ASSUME NEW q \in Seq(Entry), NEW y \in Entry, NEW e, Names(InsertByPriority(q, y), e)
    PROVE  Names(q, e) \/ e = y
<1> DEFINE t == InsertByPriority(q, y)
<1>1. PICK k \in 1 .. Len(q) + 1 : InsertedAt(t, q, y, k)  BY InsertByPriorityPlaces
<1>2. Len(q) \in Nat /\ Positions(q) = 1 .. Len(q)  BY DEF Positions
<1>3. PICK i \in Positions(t) : t[i] = e  BY DEF Names
<1> HIDE DEF t
<1>4. Positions(t) = 1 .. Len(q) + 1  BY <1>1 DEF InsertedAt, Positions
<1>5. t[i] = IF i < k THEN q[i] ELSE IF i = k THEN y ELSE q[i - 1]
  BY <1>1, <1>4 DEF InsertedAt
<1>6. CASE i < k
  <2>1. i \in Positions(q) /\ t[i] = q[i]  BY <1>2, <1>4, <1>5, <1>6
  <2> QED  BY <2>1, <1>3 DEF Names
<1>7. CASE i = k  BY <1>3, <1>5, <1>7
<1>8. CASE i > k
  <2>1. i - 1 \in Positions(q) /\ t[i] = q[i - 1]  BY <1>2, <1>4, <1>5, <1>8
  <2> QED  BY <2>1, <1>3 DEF Names
<1> QED  BY <1>4, <1>6, <1>7, <1>8

LEMMA AdmittedNames ==
    ASSUME NEW q \in Seq(Entry), NEW y \in Entry, NEW policy, NEW e,
           Names(AfterAdmission(q, y, policy), e)
    PROVE  Names(q, e) \/ e = y
<1> DEFINE p == Picked(q, Positions(q) \ {Victim(q)})
<1>1. p \in Seq(Entry) /\ (Names(p, e) => Names(q, e))
  BY PickedFrom, PickedNames
<1> HIDE DEF p
<1>2. Names(InsertByPriority(q, y), e) => Names(q, e) \/ e = y  BY InsertedNames
<1>3. Names(InsertByPriority(p, y), e) => Names(q, e) \/ e = y  BY <1>1, InsertedNames
<1> QED  BY <1>2, <1>3 DEF AfterAdmission, p

\* The expiries a pass collects are for the owners of timers.
LEMMA ExpiriesNames ==
    ASSUME TypeOK, TimersLive, NEW due, NEW e, Names(Expiries(due), e)
    PROVE  RightlyAimed(e)
<1> DEFINE P == {k \in Positions(timers) : timers[k] \in due}
           fired == Picked(timers, P)
           x == [k \in Positions(fired) |->
                    [id |-> nextId + k - 1, recv |-> fired[k], type |-> "Timer", prio |-> kNormal,
                     target |-> "here"]]
<1>1. timers \in Seq(Receivers) /\ fired \in Seq(Receivers)  BY PickedFrom DEF TypeOK
<1>2. Expiries(due) = x  BY DEF Expiries
<1> HIDE DEF P
<1>3. \A k \in Positions(fired) : \E j \in Positions(timers) : fired[k] = timers[j]
  BY <1>1, PickedFrom
<1> HIDE DEF fired
<1>4. Len(fired) \in Nat  BY <1>1
<1>5. Positions(x) = Positions(fired)  BY <1>4 DEF Positions
<1>6. \A k \in Positions(fired) : x[k].recv = fired[k] /\ x[k].target = "here"  OBVIOUS
<1> HIDE DEF x
<1>7. PICK k \in Positions(fired) : x[k] = e  BY <1>2, <1>5 DEF Names
<1>8. object[e.recv] = "here" /\ e.target = "here"  BY <1>3, <1>6, <1>7 DEF TimersLive
<1> QED  BY <1>8 DEF RightlyAimed

\* What is in flight to an object that dies or leaves is no longer aimed at it.
LEMMA OutlivedAimed ==
    ASSUME TypeOK, PostsAimed, NEW p \in Posters, posting[p] # None, NEW r,
           NEW fate \in {"gone", "stray"}, fate = "gone" => ~Spoken(p, r)
    PROVE  LET x == Outlived(p, r, fate) IN
             /\ x.target = "here" => x.recv # r /\ object[x.recv] = "here"
             /\ x.target = "gone" => x.type = "MetaCall"
<1>1. posting[p] \in Post /\ RightlyAimed(posting[p])  BY DEF TypeOK, PostsAimed
<1>2. \A x \in Post, t \in Fates :
        /\ [x EXCEPT !.target = t].target = t
        /\ [x EXCEPT !.target = t].recv = x.recv
        /\ [x EXCEPT !.target = t].type = x.type
  BY DEF Post
<1>3. CASE InFlightTo(p, r) /\ posting[p].target = "here"
  <2>1. PICK t \in Fates : /\ t = (IF posting[p].carried THEN "stray" ELSE fate)
                           /\ t # "here"
                           /\ t = "gone" => ~posting[p].carried /\ fate = "gone"
    BY DEF Fates
  <2>2. Outlived(p, r, fate) = [posting[p] EXCEPT !.target = t]  BY <1>3, <2>1 DEF Outlived
  <2>3. t = "gone" => posting[p].type = "MetaCall"  BY <1>3, <2>1 DEF Spoken
  <2> QED  BY <1>1, <1>2, <2>1, <2>2, <2>3
<1>4. CASE ~(InFlightTo(p, r) /\ posting[p].target = "here")
  <2>1. Outlived(p, r, fate) = posting[p]  BY <1>4 DEF Outlived
  <2> QED  BY <1>1, <1>4, <2>1 DEF RightlyAimed, InFlightTo
<1> QED  BY <1>3, <1>4

\* What an object's death, wherever it lived, does to the events in flight.
LEMMA DiesAimed ==
    ASSUME TypeOK, LivingInv, Dies
    PROVE  PostsAimed'
<1>0. /\ PostsAimed /\ object \in [Receivers -> {"here", "away", "none"}]
      /\ \A p \in Posters : posting[p] # None => posting[p].recv \in Receivers
  BY DEF LivingInv, TypeOK, Post
<1>1. ASSUME NEW r \in Receivers, object' = [object EXCEPT ![r] = "none"], NEW p \in Posters,
             posting[p] # None, ~Spoken(p, r), posting'[p] = Outlived(p, r, "gone")
      PROVE  RightlyAimed(posting[p])' 
  <2>1. posting'[p].recv \in Receivers  BY <1>0, <1>1, OutlivedPost DEF Fates
  <2>2. /\ posting'[p].target = "here" => posting'[p].recv # r /\ object[posting'[p].recv] = "here"
        /\ posting'[p].target = "gone" => posting'[p].type = "MetaCall"
    BY <1>0, <1>1, OutlivedAimed
  <2> QED  BY <1>0, <1>1, <2>1, <2>2 DEF RightlyAimed
<1>2. \A p \in Posters : \A r : posting[p] = None => Outlived(p, r, "gone") = None
  BY OutlivedPost DEF Fates
<1>3. ASSUME NEW r \in Receivers, DestroyObject(r) PROVE PostsAimed'
  <2>1. /\ object' = [object EXCEPT ![r] = "none"] /\ \A p \in Posters : ~Spoken(p, r)
        /\ \A p \in Posters : posting'[p] = Outlived(p, r, "gone")
    BY <1>3 DEF DestroyObject, Destroyed, SpokenOf, Outlive
  <2> QED  BY <1>1, <1>2, <2>1 DEF PostsAimed
<1>4. ASSUME NEW q \in Posters, DeleteAtOnce(q) PROVE PostsAimed'
  <2> DEFINE r == posting[q].recv
  <2>1. /\ r \in Receivers /\ \A p \in Posters : p # q => ~Spoken(p, r)
        /\ object' = [object EXCEPT ![r] = "none"]
        /\ \A p \in Posters : posting'[p] = IF p = q THEN None ELSE Outlived(p, r, "gone")
    BY <1>0, <1>4 DEF DeleteAtOnce, Destroyed
  <2> HIDE DEF r
  <2> QED  BY <1>1, <1>2, <2>1 DEF PostsAimed
<1>5. CASE RunDeferredDelete
  <2> DEFINE r == Top.hand.recv
  <2>1. r \in Receivers
    <3>1. frames # <<>> /\ Top.hand # None  BY <1>5 DEF RunDeferredDelete
    <3>2. Top \in FrameType  BY <3>1, TopType
    <3> QED  BY <3>1, <3>2 DEF FrameType, Slot, Entry
  <2>2. /\ object' = [object EXCEPT ![r] = "none"] /\ \A p \in Posters : ~Spoken(p, r)
        /\ \/ \A p \in Posters : posting'[p] = Outlived(p, r, "gone")
           \/ object[r] # "here" /\ posting' = posting
    BY <1>5 DEF RunDeferredDelete, Destroyed, SpokenOf, Outlive
  <2> HIDE DEF r
  <2>3. CASE object[r] # "here" /\ posting' = posting
    BY <1>0, <2>1, <2>2, <2>3 DEF PostsAimed, RightlyAimed
  <2> QED  BY <1>1, <1>2, <2>1, <2>2, <2>3 DEF PostsAimed
<1> QED  BY <1>3, <1>4, <1>5 DEF Dies

\* Every step keeps what is in flight rightly aimed.
LEMMA StepAimed == TypeOK /\ LivingInv /\ [Next]_vars => PostsAimed'
<1> SUFFICES ASSUME TypeOK, LivingInv, [Next]_vars PROVE PostsAimed'  OBVIOUS
<1>0. /\ PostsAimed /\ object \in [Receivers -> {"here", "away", "none"}]
      /\ posting \in [Posters -> Post \cup {None}]
      /\ \A p \in Posters : posting[p] # None => posting[p].recv \in Receivers
  BY DEF LivingInv, TypeOK, Post
<1>a. ASSUME posting' = posting, object' = object PROVE PostsAimed'
  BY <1>0, <1>a DEF PostsAimed, RightlyAimed
<1>b. ASSUME NEW p \in Posters, Arrived(p), object' = object PROVE PostsAimed'
  BY <1>0, <1>b DEF Arrived, PostsAimed, RightlyAimed
<1>c. ASSUME NEW r \in Receivers, object[r] # "here", posting' = posting, NEW there,
             object' = [object EXCEPT ![r] = there]
      PROVE  PostsAimed'
  BY <1>0, <1>c DEF PostsAimed, RightlyAimed
<1>1. ASSUME NEW p \in Posters, NEW policy, NEW prio, PostEvent(p, policy, prio) PROVE PostsAimed'
  BY <1>1, <1>b DEF PostEvent
<1>2. ASSUME NEW p \in Posters, NEW prio, PostEventUnconditionally(p, prio) PROVE PostsAimed'
  BY <1>2, <1>b DEF PostEventUnconditionally
<1>3. CASE Aims
  <2>1. ASSUME NEW p \in Posters, NEW r \in Receivers, NEW type, NEW carried,
               Resolve(p, r, type, carried)
        PROVE  PostsAimed'
    <3>1. object' = object /\ object[r] = "here"  BY <1>3, <2>1, AimsAreQuiet DEF Resolve
    <3>2. \A q \in Posters : posting'[q] =
            IF q = p THEN [recv |-> r, type |-> type, carried |-> carried, target |-> "here"]
            ELSE posting[q]
      BY <1>0, <2>1 DEF Resolve
    <3> QED  BY <1>0, <3>1, <3>2 DEF PostsAimed, RightlyAimed
  <2>2. ASSUME NEW p \in Posters, RefusePost(p) PROVE PostsAimed'  BY <2>2, <1>b DEF RefusePost
  <2> QED  BY <1>3, <2>1, <2>2 DEF Aims, BeginPost, BeginCarry, BeginDeleteLater
<1>4. CASE Dies  BY <1>4, DiesAimed
<1>5. ASSUME NEW r \in Receivers, MoveAway(r) PROVE PostsAimed'
  <2>1. /\ object' = [object EXCEPT ![r] = "away"]
        /\ \A p \in Posters : posting'[p] = Outlived(p, r, "stray")
    BY <1>5 DEF MoveAway, Outlive
  <2>2. ASSUME NEW p \in Posters, posting'[p] # None PROVE RightlyAimed(posting[p])'
    <3>1. posting[p] # None /\ posting'[p].recv \in Receivers
      BY <1>0, <2>1, <2>2, OutlivedPost DEF Fates
    <3>2. /\ posting'[p].target = "here" => posting'[p].recv # r /\ object[posting'[p].recv] = "here"
          /\ posting'[p].target = "gone" => posting'[p].type = "MetaCall"
      BY <1>0, <2>1, <3>1, OutlivedAimed
    <3> QED  BY <1>0, <2>1, <3>1, <3>2 DEF RightlyAimed
  <2> QED  BY <2>2 DEF PostsAimed
<1>6. ASSUME NEW r \in Receivers, CreateObject(r) \/ LeaveOrReturn(r) PROVE PostsAimed'
  <2>1. object[r] # "here" /\ posting' = posting /\ \E there : object' = [object EXCEPT ![r] = there]
    BY <1>6 DEF CreateObject, LeaveOrReturn
  <2> QED  BY <2>1, <1>c
<1>7. ASSUME NEW r \in Receivers, RegisterTimer(r) \/ UnregisterTimer(r) PROVE PostsAimed'
  BY <1>7, <1>a DEF RegisterTimer, UnregisterTimer
<1>8. ASSUME NEW c, SetEventQueueCapacity(c) PROVE PostsAimed'
  BY <1>8, <1>a DEF SetEventQueueCapacity
<1>9. ASSUME NEW due, BeginPass(due) PROVE PostsAimed'  BY <1>9, <1>a DEF BeginPass
<1>10. CASE Close \/ NextEvent \/ NextExpiry \/ EndPass \/ EndDispatch
  BY <1>10, <1>a DEF Close, NextEvent, NextExpiry, EndPass, EndDispatch
<1>11. CASE BeginDrain \/ NextDeferredDelete \/ DrainAgain
  BY <1>11, <1>a DEF BeginDrain, NextDeferredDelete, DrainAgain
<1>12. CASE UNCHANGED vars  BY <1>12, <1>a DEF vars
<1> QED
  BY <1>1, <1>2, <1>3, <1>4, <1>5, <1>6, <1>7, <1>8, <1>9, <1>10, <1>11, <1>12
  DEF Next, Aims, Dies

\* A timer's owner lives here: it died or left with its timers.
LEMMA StepTimers == TypeOK /\ TimersLive /\ [Next]_vars => TimersLive'
<1> SUFFICES ASSUME TypeOK, TimersLive, [Next]_vars PROVE TimersLive'  OBVIOUS
<1>0. /\ timers \in Seq(Receivers) /\ object \in [Receivers -> {"here", "away", "none"}]
      /\ \A k \in Positions(timers) : timers[k] \in Receivers
  BY DEF TypeOK, Positions
<1>a. ASSUME UNCHANGED <<timers, object>> PROVE TimersLive'  BY <1>a DEF TimersLive
<1>b. ASSUME NEW r, timers' = TimersWithout(r), \A y \in Receivers : y # r => object'[y] = object[y]
      PROVE  TimersLive'
  <2> DEFINE P == {j \in Positions(timers) : timers[j] # r}
  <2>1. timers' = Picked(timers, P)  BY <1>b DEF TimersWithout
  <2>2. \A j \in Positions(timers) : j \in P => timers[j] # r  OBVIOUS
  <2> HIDE DEF P
  <2>3. ASSUME NEW k \in Positions(timers') PROVE object'[timers'[k]] = "here"
    <3>1. PICK j \in Positions(timers) : j \in P /\ timers'[k] = timers[j]
      BY <1>0, <2>1, <2>3, PickedFrom
    <3> QED  BY <1>0, <1>b, <2>2, <3>1 DEF TimersLive
  <2> QED  BY <2>3 DEF TimersLive
<1>c. ASSUME NEW r \in Receivers, object[r] # "here", timers' = timers, NEW there,
             object' = [object EXCEPT ![r] = there]
      PROVE  TimersLive'
  BY <1>0, <1>c DEF TimersLive
<1>1. CASE \/ \E p \in Posters, policy \in Policies, prio \in Priorities : PostEvent(p, policy, prio)
           \/ \E p \in Posters, prio \in Priorities : PostEventUnconditionally(p, prio)
           \/ Aims
  BY <1>1, <1>a, AimsAreQuiet DEF PostEvent, PostEventUnconditionally
<1>2. CASE Dies
  <2>1. PICK r \in Receivers :
          /\ object' = [object EXCEPT ![r] = "none"]
          /\ Strip(r) \/ (object[r] # "here" /\ timers' = timers)
    BY <1>2, DiesStrips
  <2>2. \A y \in Receivers : y # r => object'[y] = object[y]  BY <1>0, <2>1
  <2> QED  BY <1>b, <1>c, <2>1, <2>2 DEF Strip
<1>3. ASSUME NEW r \in Receivers, MoveAway(r) PROVE TimersLive'
  <2>1. \A y \in Receivers : y # r => object'[y] = object[y]  BY <1>0, <1>3 DEF MoveAway
  <2> QED  BY <1>3, <1>b, <2>1 DEF MoveAway, Strip
<1>4. ASSUME NEW r \in Receivers, CreateObject(r) \/ LeaveOrReturn(r) PROVE TimersLive'
  <2>1. object[r] # "here" /\ timers' = timers /\ \E there : object' = [object EXCEPT ![r] = there]
    BY <1>4 DEF CreateObject, LeaveOrReturn
  <2> QED  BY <2>1, <1>c
<1>5. ASSUME NEW r \in Receivers, RegisterTimer(r) PROVE TimersLive'
  <2>1. object' = object /\ object[r] = "here" /\ timers' = Append(timers, r)
    BY <1>5 DEF RegisterTimer
  <2>2. /\ Len(timers') = Len(timers) + 1 /\ Len(timers) \in Nat
        /\ timers'[Len(timers) + 1] = r
        /\ \A j \in 1 .. Len(timers) : timers'[j] = timers[j]
    BY <1>0, <2>1, AppendProperties
  <2> QED  BY <2>1, <2>2 DEF TimersLive, Positions
<1>6. ASSUME NEW r \in Receivers, UnregisterTimer(r) PROVE TimersLive'
  BY <1>6, <1>b DEF UnregisterTimer
<1>7. ASSUME NEW c, SetEventQueueCapacity(c) PROVE TimersLive'
  BY <1>7, <1>a DEF SetEventQueueCapacity
<1>8. ASSUME NEW due, BeginPass(due) PROVE TimersLive'  BY <1>8, <1>a DEF BeginPass
<1>9. CASE Close \/ NextEvent \/ NextExpiry \/ EndPass \/ EndDispatch
  BY <1>9, <1>a DEF Close, NextEvent, NextExpiry, EndPass, EndDispatch
<1>10. CASE BeginDrain \/ NextDeferredDelete \/ DrainAgain
  BY <1>10, <1>a DEF BeginDrain, NextDeferredDelete, DrainAgain
<1>11. CASE UNCHANGED vars  BY <1>11, <1>a DEF vars
<1> QED
  BY <1>1, <1>2, <1>3, <1>4, <1>5, <1>6, <1>7, <1>8, <1>9, <1>10, <1>11 DEF Next, Aims, Dies

\* Every step keeps what waits rightly aimed, action by action.
LEMMA StepLiving == TypeOK /\ LivingInv /\ [Next]_vars => EventsAimed'
<1> SUFFICES ASSUME TypeOK, LivingInv, [Next]_vars, NEW e \in Entry, Awaited(e)'
             PROVE  RightlyAimed(e)'
  BY DEF EventsAimed
<1>0. /\ queue \in Seq(Entry) /\ frames \in Seq(FrameType) /\ timers \in Seq(Receivers)
      /\ nextId \in Nat /\ kNormal \in Int
      /\ object \in [Receivers -> {"here", "away", "none"}]
      /\ Awaited(e) => RightlyAimed(e)
      /\ e.recv \in Receivers
  BY DEF TypeOK, kNormal, LivingInv, EventsAimed, Entry
<1>a. ASSUME Awaited(e), object' = object PROVE RightlyAimed(e)'
  BY <1>0, <1>a DEF RightlyAimed
<1>b. ASSUME NEW p \in Posters, posting[p] # None, NEW prio \in Int,
             frames' = frames, object' = object,
             Names(queue', e) => Names(queue, e) \/ e = Ticketed(p, prio)
      PROVE  RightlyAimed(e)'
  <2>1. RightlyAimed(Ticketed(p, prio))
    <3>1. RightlyAimed(posting[p])  BY <1>b DEF LivingInv, PostsAimed
    <3> QED  BY <1>b, <3>1, TicketedEntry DEF RightlyAimed
  <2>2. RightlyAimed(e)  BY <1>0, <1>b, <2>1 DEF Awaited
  <2> QED  BY <1>b, <2>2 DEF RightlyAimed
<1>c. ASSUME NEW r, Strip(r), \A y \in Receivers : y # r => object'[y] = object[y]
      PROVE  RightlyAimed(e)'
  <2>1. Awaited(e) /\ e.recv # r  BY <1>c, StripForgets
  <2> QED  BY <2>1, <1>0, <1>c DEF RightlyAimed
<1>d. ASSUME NEW r \in Receivers, object[r] # "here", Awaited(e), NEW there,
             object' = [object EXCEPT ![r] = there]
      PROVE  RightlyAimed(e)'
  BY <1>0, <1>d DEF RightlyAimed
<1>1. ASSUME NEW p \in Posters, NEW policy, NEW prio \in Priorities, PostEvent(p, policy, prio)
      PROVE  RightlyAimed(e)'
  <2>1. prio \in Int /\ posting[p] # None  BY <1>1, DispatcherAssumption DEF PostEvent
  <2>2. Ticketed(p, prio) \in Entry  BY <2>1, TicketedEntry
  <2>3. queue' = AfterAdmission(queue, Ticketed(p, prio), policy) /\ UNCHANGED <<frames, object>>
    BY <1>1 DEF PostEvent
  <2>4. Names(queue', e) => Names(queue, e) \/ e = Ticketed(p, prio)
    BY <1>0, <2>2, <2>3, AdmittedNames
  <2> QED  BY <2>1, <2>3, <2>4, <1>b
<1>2. ASSUME NEW p \in Posters, NEW prio \in Priorities, PostEventUnconditionally(p, prio)
      PROVE  RightlyAimed(e)'
  <2>1. prio \in Int /\ posting[p] # None
    BY <1>2, DispatcherAssumption DEF PostEventUnconditionally
  <2>2. Ticketed(p, prio) \in Entry  BY <2>1, TicketedEntry
  <2>3. queue' = InsertByPriority(queue, Ticketed(p, prio)) /\ UNCHANGED <<frames, object>>
    BY <1>2 DEF PostEventUnconditionally
  <2>4. Names(queue', e) => Names(queue, e) \/ e = Ticketed(p, prio)
    BY <1>0, <2>2, <2>3, InsertedNames
  <2> QED  BY <2>1, <2>3, <2>4, <1>b
<1>3. CASE Aims  BY <1>3, <1>a, AimsAreQuiet DEF Awaited
<1>4. CASE Dies
  <2>1. PICK r \in Receivers :
          /\ object' = [object EXCEPT ![r] = "none"]
          /\ Strip(r) \/ (object[r] # "here" /\ UNCHANGED <<queue, frames>>)
    BY <1>4, DiesStrips
  <2>2. \A y \in Receivers : y # r => object'[y] = object[y]  BY <1>0, <2>1
  <2> QED  BY <1>c, <1>d, <2>1, <2>2 DEF Awaited
<1>5. ASSUME NEW r \in Receivers, MoveAway(r) PROVE RightlyAimed(e)'
  <2>1. Strip(r) /\ \A y \in Receivers : y # r => object'[y] = object[y]
    BY <1>0, <1>5 DEF MoveAway
  <2> QED  BY <2>1, <1>c
<1>6. ASSUME NEW r \in Receivers, CreateObject(r) \/ LeaveOrReturn(r) PROVE RightlyAimed(e)'
  <2>1. Awaited(e)  BY <1>6 DEF CreateObject, LeaveOrReturn, Awaited
  <2>2. object[r] # "here" /\ \E there : object' = [object EXCEPT ![r] = there]
    BY <1>6 DEF CreateObject, LeaveOrReturn
  <2> QED  BY <2>1, <2>2, <1>d
<1>7. ASSUME NEW r \in Receivers, RegisterTimer(r) PROVE RightlyAimed(e)'
  BY <1>7, <1>a DEF RegisterTimer, Awaited
<1>8. ASSUME NEW r \in Receivers, UnregisterTimer(r) PROVE RightlyAimed(e)'
  <2>1. ASSUME Names(queue', e) PROVE Names(queue, e)
    <3> DEFINE P == {k \in Positions(queue) : ~IsExpiryOf(queue[k], r)}
    <3>1. queue' = Picked(queue, P)  BY <1>8 DEF UnregisterTimer
    <3> HIDE DEF P
    <3> QED  BY <1>0, <2>1, <3>1, PickedNames
  <2>3. ASSUME NEW d \in Positions(frames'),
               Names(frames'[d].batch, e) \/ Names(frames'[d].timers, e)
        PROVE  \E c \in Positions(frames) : Names(frames[c].batch, e) \/ Names(frames[c].timers, e)
    <3> DEFINE g(f) == [f EXCEPT !.batch = WithoutExpiries(@, r), !.timers = WithoutExpiries(@, r)]
    <3>1. frames' = [c \in Positions(frames) |-> g(frames[c])]  BY <1>8 DEF UnregisterTimer
    <3>2. d \in Positions(frames)
      <4> HIDE DEF g
      <4>1. Len(frames) \in Nat  BY FramesHaveSlots
      <4>2. Len(frames') = Len(frames)  BY <3>1, <4>1 DEF Positions
      <4> QED  BY <2>3, <4>2 DEF Positions
    <3>3. frames[d] \in FrameType /\ frames[d].batch \in Seq(Slot) /\ frames[d].timers \in Seq(Slot)
      BY <3>2, FramesHaveSlots
    <3>4. /\ frames'[d].batch = WithoutExpiries(frames[d].batch, r)
          /\ frames'[d].timers = WithoutExpiries(frames[d].timers, r)
      BY <3>1, <3>2, <3>3 DEF FrameType
    <3> QED  BY <2>3, <3>2, <3>3, <3>4, ClearedNames
  <2>4. Awaited(e)  BY <2>1, <2>3 DEF Awaited
  <2> QED  BY <1>8, <1>a, <2>4 DEF UnregisterTimer
<1>9. ASSUME NEW c \in Capacities, SetEventQueueCapacity(c) PROVE RightlyAimed(e)'
  BY <1>9, <1>a DEF SetEventQueueCapacity, Awaited
<1>10. ASSUME NEW due, BeginPass(due) PROVE RightlyAimed(e)'
  <2> DEFINE f == Frame("pass", queue, Expiries(due))
  <2>1. queue' = <<>> /\ frames' = Append(frames, f) /\ UNCHANGED object
    BY <1>10 DEF BeginPass
  <2>2. f.batch = queue /\ f.timers = Expiries(due)  BY DEF Frame
  <2>3. f \in FrameType
    BY <1>0, FrameIntro, ExpiriesType, EntriesAreSlots
  <2> HIDE DEF f
  <2>4. /\ Len(frames') = Len(frames) + 1 /\ Len(frames) \in Nat
        /\ frames'[Len(frames) + 1] = f
        /\ \A d \in 1 .. Len(frames) : frames'[d] = frames[d]
    BY <1>0, <2>1, <2>3, AppendProperties
  <2>5. ~Names(queue', e)  BY <2>1 DEF Names, Positions
  <2>6. ASSUME NEW d \in Positions(frames'),
               Names(frames'[d].batch, e) \/ Names(frames'[d].timers, e)
        PROVE  RightlyAimed(e)
    <3>1. CASE d \in Positions(frames)
      <4>1. frames'[d] = frames[d]  BY <2>4, <3>1 DEF Positions
      <4> QED  BY <1>0, <2>6, <3>1, <4>1 DEF Awaited
    <3>2. CASE d = Len(frames) + 1
      <4>1. Names(queue, e) \/ Names(Expiries(due), e)  BY <2>2, <2>4, <2>6, <3>2
      <4> QED  BY <1>0, <4>1, ExpiriesNames DEF Awaited, LivingInv
    <3> QED  BY <2>4, <3>1, <3>2 DEF Positions
  <2>7. RightlyAimed(e)  BY <2>5, <2>6 DEF Awaited
  <2> QED  BY <2>1, <2>7 DEF RightlyAimed
<1>11. CASE NextEvent
  <2>1. frames # <<>> /\ BatchLeft /\ UNCHANGED object
    BY <1>11 DEF NextEvent, BetweenDispatches
  <2>2. Awaited(e)' => Awaited(e)
    <3>1. CASE Preempts
      <4>1. Steal  BY <1>11, <3>1 DEF NextEvent
      <4>2. Top \in FrameType  BY <2>1, TopType
      <4>3. Top.budget \in Nat /\ Top.budget > 0 /\ queue # <<>>
        BY <3>1, <4>2 DEF Preempts, FrameType
      <4> DEFINE f == [Top EXCEPT !.budget = @ - 1]
                 n == Top.budget - 1
      <4>4. n \in Nat /\ f = [Top EXCEPT !.budget = n]  BY <4>3
      <4>5. f \in FrameType /\ f.batch = Top.batch /\ f.timers = Top.timers
        <5> HIDE DEF f, n
        <5> QED  BY <4>2, <4>4 DEF FrameType
      <4>6. /\ Head(queue) \in Slot /\ Len(Tail(queue)) = Len(queue) - 1 /\ Len(queue) \in Nat
            /\ \A k \in 1 .. Len(Tail(queue)) : Tail(queue)[k] = queue[k + 1]
        BY <1>0, <4>3, HeadTailProperties DEF Slot
      <4>7. SetTop(TakeUp(f, Head(queue))) /\ queue' = Tail(queue)  BY <4>1 DEF Steal
      <4>8. Names(queue', e) => Names(queue, e)
        <5>1. \A k \in Positions(queue') : k + 1 \in Positions(queue) /\ queue'[k] = queue[k + 1]
          BY <4>6, <4>7 DEF Positions
        <5> QED  BY <5>1 DEF Names
      <4> HIDE DEF f
      <4>9. TakeUp(f, Head(queue)) \in FrameType  BY <4>5, <4>6, TakeUpType
      <4> QED  BY <2>1, <4>5, <4>7, <4>8, <4>9, TakeUpKeepsSlots, SetTopNames
    <3>2. CASE ~Preempts  BY <1>11, <2>1, <3>2, ClaimSlotNames DEF NextEvent
    <3> QED  BY <3>1, <3>2
  <2> QED  BY <1>a, <2>1, <2>2
<1>12. CASE NextExpiry
  <2>1. frames # <<>> /\ UNCHANGED <<queue, object>>
    BY <1>12 DEF NextExpiry, BetweenDispatches
  <2>2. Top \in FrameType  BY <2>1, TopType
  <2>3. Top.timers \in Seq(Slot) /\ Top.j \in Nat \ {0} /\ Top.j \in 1 .. Len(Top.timers)
    BY <1>12, <2>2 DEF NextExpiry, FrameType
  <2> DEFINE b == [Top.timers EXCEPT ![Top.j] = None]
             n == Top.j + 1
             f == [Top EXCEPT !.timers[Top.j] = None, !.j = @ + 1]
  <2>4. b \in Seq(Slot) /\ n \in Nat \ {0} /\ Top.timers[Top.j] \in Slot
    BY <2>3, ExceptSeq DEF Slot
  <2>5. f = [Top EXCEPT !.timers = b, !.j = n]  OBVIOUS
  <2>6. Names(b, e) => Names(Top.timers, e)  BY <2>3, ClaimedNames
  <2>7. SetTop(TakeUp(f, Top.timers[Top.j]))  BY <1>12 DEF NextExpiry
  <2> HIDE DEF b, n, f
  <2>8. f \in FrameType /\ f.batch = Top.batch /\ f.timers = b  BY <2>2, <2>4, <2>5 DEF FrameType
  <2>9. TakeUp(f, Top.timers[Top.j]) \in FrameType  BY <2>4, <2>8, TakeUpType
  <2>10. Awaited(e)' => Awaited(e)
    BY <2>1, <2>6, <2>7, <2>8, <2>9, TakeUpKeepsSlots, SetTopNames
  <2> QED  BY <1>a, <2>1, <2>10
<1>13. ASSUME frames # <<>>, frames' = Front(frames),
              Names(queue', e) => Names(queue, e)
       PROVE  Awaited(e)' => Awaited(e)
  <2>1. /\ Len(frames') = Len(frames) - 1 /\ Len(frames) \in Nat
        /\ \A d \in 1 .. Len(frames) - 1 : frames'[d] = frames[d]
    <3>1. Len(frames) \in Nat /\ Len(frames) # 0 /\ frames' = SubSeq(frames, 1, Len(frames) - 1)
      BY <1>0, <1>13 DEF Front
    <3> DEFINE n == Len(frames) - 1
    <3>2. n \in Nat /\ n <= Len(frames)  BY <3>1
    <3> HIDE DEF n
    <3>3. \A d \in 1 .. n : frames[d] \in FrameType  BY <1>0, <3>1, <3>2
    <3>4. /\ Len(SubSeq(frames, 1, n)) = n
          /\ \A d \in 1 .. n : SubSeq(frames, 1, n)[d] = frames[d]
      BY <3>2, <3>3, SubSeqProperties
    <3> QED  BY <3>1, <3>4 DEF n
  <2>2. \A d \in Positions(frames') : d \in Positions(frames) /\ frames'[d] = frames[d]
    BY <2>1 DEF Positions
  <2> QED  BY <1>13, <2>2 DEF Awaited
<1>14. CASE EndPass
  <2>1. frames # <<>> /\ UNCHANGED <<queue, object>> /\ frames' = Front(frames)
    BY <1>14 DEF EndPass, BetweenDispatches
  <2>2. Awaited(e)' => Awaited(e)  BY <1>13, <2>1
  <2> QED  BY <1>a, <2>1, <2>2
<1>16. CASE EndDispatch
  <2>1. frames # <<>> /\ UNCHANGED <<queue, object>>  BY <1>16 DEF EndDispatch
  <2>2. Top \in FrameType /\ Top.hand \in Entry
    BY <1>16, <2>1, TopType DEF EndDispatch, FrameType, Slot
  <2> DEFINE d == IF Top.hand.type = "DeferredDelete" THEN Top.deleted \cup {Top.hand.recv}
                  ELSE Top.deleted
             f == [Top EXCEPT !.hand = None, !.deleted = d]
  <2>3. d \in SUBSET Receivers /\ None \in Slot  BY <2>2 DEF FrameType, Entry, Slot
  <2>4. SetTop(f)  BY <1>16 DEF EndDispatch
  <2> HIDE DEF d
  <2>5. f \in FrameType /\ f.batch = Top.batch /\ f.timers = Top.timers  BY <2>2, <2>3 DEF FrameType
  <2> HIDE DEF f
  <2>6. Awaited(e)' => Awaited(e)  BY <2>1, <2>4, <2>5, SetTopNames
  <2> QED  BY <1>a, <2>1, <2>6
<1>17. /\ Names(DrainedQueue, e) => Names(queue, e)
       /\ Names(DeferredDeletes, e) => Names(queue, e)
  BY <1>0, PickedNames DEF DrainedQueue, DeferredDeletes
<1>18. DeferredDeletes \in Seq(Slot) /\ <<>> \in Seq(Slot)
  <2>1. DeferredDeletes \in Seq(Entry)  BY <1>0, PickedFrom DEF DeferredDeletes
  <2> QED  BY <2>1, EntriesAreSlots
<1> DEFINE drain == Frame("drain", DeferredDeletes, <<>>)
<1>19. drain \in FrameType /\ drain.batch = DeferredDeletes /\ drain.timers = <<>>
  BY <1>18, FrameIntro DEF Frame
<1>20. ~Names(<<>>, e)  BY DEF Names, Positions
<1> HIDE DEF drain
<1>21. CASE BeginDrain
  <2>1. frames' = <<drain>> /\ queue' = DrainedQueue /\ UNCHANGED object
    BY <1>21 DEF BeginDrain, drain
  <2>2. Len(frames') = 1 /\ frames'[1] = drain  BY <2>1
  <2>3. Awaited(e)' => Awaited(e)
    BY <1>17, <1>19, <1>20, <2>1, <2>2 DEF Awaited, Positions
  <2> QED  BY <1>a, <2>1, <2>3
<1>22. CASE NextDeferredDelete
  <2>1. Awaited(e)' => Awaited(e)
    BY <1>22, ClaimSlotNames DEF NextDeferredDelete, BetweenDispatches
  <2> QED  BY <1>22, <1>a, <2>1 DEF NextDeferredDelete
<1>23. CASE DrainAgain
  <2>1. frames # <<>> /\ queue' = DrainedQueue /\ UNCHANGED object
    BY <1>23 DEF DrainAgain, BetweenDispatches
  <2>2. Awaited(e)' => Awaited(e)
    <3>1. CASE DeferredDeletes = <<>>
      <4>1. frames' = Front(frames)  BY <1>23, <3>1 DEF DrainAgain
      <4> QED  BY <1>13, <1>17, <2>1, <4>1
    <3>2. CASE DeferredDeletes # <<>>
      <4>0. Top \in FrameType  BY <2>1, TopType
      <4> DEFINE f == [drain EXCEPT !.deleted = Top.deleted]
      <4>1. SetTop(f)  BY <1>23, <3>2 DEF DrainAgain, drain
      <4>2. f \in FrameType /\ f.batch = DeferredDeletes /\ f.timers = <<>>
        BY <1>19, <4>0 DEF FrameType
      <4> HIDE DEF f
      <4>3. /\ Len(frames) \in Nat /\ Len(frames) \in Positions(frames)
            /\ Positions(frames') = Positions(frames)
            /\ \A d \in Positions(frames) : frames'[d] = IF d = Len(frames) THEN f ELSE frames[d]
        BY <1>0, <2>1, <4>1, ExceptSeq, TopType DEF SetTop, Positions
      <4>4. ASSUME NEW d \in Positions(frames'),
                   Names(frames'[d].batch, e) \/ Names(frames'[d].timers, e)
            PROVE  Awaited(e)
        BY <1>17, <1>20, <4>2, <4>3, <4>4 DEF Awaited
      <4> QED  BY <1>17, <2>1, <4>4 DEF Awaited
    <3> QED  BY <3>1, <3>2
  <2> QED  BY <1>a, <2>1, <2>2
<1>24. CASE Close  BY <1>24, <1>a DEF Close, Awaited
<1>25. CASE UNCHANGED vars  BY <1>25, <1>a DEF vars, Awaited
<1> QED
  BY <1>1, <1>2, <1>3, <1>4, <1>5, <1>6, <1>7, <1>8, <1>9, <1>10, <1>11, <1>12, <1>14,
     <1>16, <1>21, <1>22, <1>23, <1>24, <1>25
  DEF Next, Aims, Dies

-----------------------------------------------------------------------------
(* A pass is bounded.  What makes it inductive: every event a pass took up   *)
(* has been paid for with a unit of its budget or an advance of i or j.      *)

Spent(length, budget, i, j) == (length - budget) + (i - 1) + (j - 1)

Paid(f) == Spent(Len(f.batch), f.budget, f.i, f.j)

Solvent(f) ==
    /\ f.budget <= Len(f.batch)
    /\ f.i <= Len(f.batch) + 1
    /\ f.j <= Len(f.timers) + 1
    /\ f.ran <= Paid(f)

SolventInv == \A d \in Positions(frames) : Solvent(frames[d])

LEMMA FrameFields ==
    ASSUME NEW f \in FrameType
    PROVE  /\ f.batch \in Seq(Slot) /\ f.timers \in Seq(Slot)
           /\ Len(f.batch) \in Nat /\ Len(f.timers) \in Nat
           /\ f.i \in Nat \ {0} /\ f.j \in Nat \ {0} /\ f.budget \in Nat /\ f.ran \in Nat
<1>1. /\ f.batch \in Seq(Slot) /\ f.timers \in Seq(Slot)
      /\ f.i \in Nat \ {0} /\ f.j \in Nat \ {0} /\ f.budget \in Nat /\ f.ran \in Nat
  BY DEF FrameType
<1> QED  BY <1>1

\* A frame with the same lengths and counters is as solvent.
LEMMA SolventSame ==
    ASSUME NEW f, NEW g, Solvent(f),
           Len(g.batch) = Len(f.batch), Len(g.timers) = Len(f.timers),
           g.i = f.i, g.j = f.j, g.budget = f.budget, g.ran = f.ran
    PROVE  Solvent(g)
BY DEF Solvent, Paid

\* Cancelling keeps every frame's lengths and counters.
LEMMA ClearedSolvent ==
    ASSUME NEW f \in FrameType, NEW r, Solvent(f)
    PROVE  /\ Solvent(ClearedInFrame(f, r))
           /\ Solvent([f EXCEPT !.batch = WithoutExpiries(@, r), !.timers = WithoutExpiries(@, r)])
<1>1. ASSUME NEW b \in Seq(Slot), NEW t \in Seq(Slot), Len(b) = Len(f.batch), Len(t) = Len(f.timers)
      PROVE  Solvent([f EXCEPT !.batch = b, !.timers = t])
  <2> DEFINE g == [f EXCEPT !.batch = b, !.timers = t]
  <2>1. /\ g.batch = b /\ g.timers = t
        /\ g.i = f.i /\ g.j = f.j /\ g.budget = f.budget /\ g.ran = f.ran
    BY DEF FrameType
  <2> HIDE DEF g
  <2>2. Solvent(g)  BY <1>1, <2>1, SolventSame
  <2> QED  BY <2>2 DEF g
<1>2. ASSUME NEW b \in Seq(Slot)
      PROVE  /\ Cleared(b, r) \in Seq(Slot) /\ Len(Cleared(b, r)) = Len(b)
             /\ WithoutExpiries(b, r) \in Seq(Slot) /\ Len(WithoutExpiries(b, r)) = Len(b)
  <2>1. Len(b) \in Nat  BY <1>2
  <2>2. Cleared(b, r) \in Seq(Slot) /\ WithoutExpiries(b, r) \in Seq(Slot)  BY <1>2, ClearedType
  <2> QED  BY <2>1, <2>2 DEF Cleared, WithoutExpiries, Positions
<1>3. f.batch \in Seq(Slot) /\ f.timers \in Seq(Slot)  BY FrameFields
<1>4. Solvent([f EXCEPT !.batch = Cleared(f.batch, r), !.timers = Cleared(f.timers, r)])
  BY <1>1, <1>2, <1>3
<1>5. Solvent([f EXCEPT !.batch = WithoutExpiries(f.batch, r), !.timers = WithoutExpiries(f.timers, r)])
  BY <1>1, <1>2, <1>3
<1> QED  BY <1>4, <1>5 DEF ClearedInFrame

\* A unit of budget spent, or an advance of i or of j, pays for one event.
LEMMA PayingOne ==
    ASSUME NEW f \in FrameType, NEW g \in FrameType, Solvent(f),
           Len(g.batch) = Len(f.batch), Len(g.timers) = Len(f.timers), g.ran = f.ran,
           \/ g.budget = f.budget - 1 /\ g.i = f.i /\ g.j = f.j
           \/ g.budget = f.budget /\ g.i = f.i + 1 /\ f.i <= Len(f.batch) /\ g.j = f.j
           \/ g.budget = f.budget /\ g.i = f.i /\ g.j = f.j + 1 /\ f.j <= Len(f.timers)
    PROVE  Solvent(g) /\ g.ran + 1 <= Paid(g)
<1>1. PICK a \in Nat : a = Len(f.batch)  BY FrameFields
<1>2. PICK t \in Nat : t = Len(f.timers)  BY FrameFields
<1>3. PICK b \in Nat : b = f.budget  BY FrameFields
<1>4. PICK i \in Nat : i = f.i  BY FrameFields
<1>5. PICK j \in Nat : j = f.j  BY FrameFields
<1>6. PICK n \in Nat : n = f.ran  BY FrameFields
<1>7. b <= a /\ i <= a + 1 /\ j <= t + 1 /\ n <= Spent(a, b, i, j)
  BY <1>1, <1>2, <1>3, <1>4, <1>5, <1>6 DEF Solvent, Paid
<1>8. CASE g.budget = f.budget - 1 /\ g.i = f.i /\ g.j = f.j
  <2>1. n + 1 <= Spent(a, b - 1, i, j) /\ n <= Spent(a, b - 1, i, j) /\ b - 1 <= a
    BY <1>7 DEF Spent
  <2> QED  BY <1>1, <1>2, <1>3, <1>4, <1>5, <1>6, <1>7, <1>8, <2>1 DEF Solvent, Paid
<1>9. CASE g.budget = f.budget /\ g.i = f.i + 1 /\ f.i <= Len(f.batch) /\ g.j = f.j
  <2>1. n + 1 <= Spent(a, b, i + 1, j) /\ n <= Spent(a, b, i + 1, j)  BY <1>7 DEF Spent
  <2>2. i + 1 <= a + 1  BY <1>1, <1>4, <1>9
  <2> QED  BY <1>1, <1>2, <1>3, <1>4, <1>5, <1>6, <1>7, <1>9, <2>1, <2>2 DEF Solvent, Paid
<1>10. CASE g.budget = f.budget /\ g.i = f.i /\ g.j = f.j + 1 /\ f.j <= Len(f.timers)
  <2>1. n + 1 <= Spent(a, b, i, j + 1) /\ n <= Spent(a, b, i, j + 1)  BY <1>7 DEF Spent
  <2>2. j + 1 <= t + 1  BY <1>2, <1>5, <1>10
  <2> QED  BY <1>1, <1>2, <1>3, <1>4, <1>5, <1>6, <1>7, <1>10, <2>1, <2>2 DEF Solvent, Paid
<1> QED  BY <1>8, <1>9, <1>10

\* What was paid for one more event allows taking it up.
LEMMA TakeUpSolvent ==
    ASSUME NEW f \in FrameType, NEW e, Solvent(f), f.ran + 1 <= Paid(f)
    PROVE  Solvent(TakeUp(f, e))
<1> DEFINE n == f.ran + 1
           g == [f EXCEPT !.hand = e, !.ran = n]
<1>1. /\ g.batch = f.batch /\ g.timers = f.timers /\ g.i = f.i /\ g.j = f.j
      /\ g.budget = f.budget /\ g.ran = n
  BY DEF FrameType
<1>2. n <= Paid(f)  OBVIOUS
<1>3. TakeUp(f, e) \in {f, g}  BY DEF TakeUp
<1> HIDE DEF n, g
<1>4. Solvent(g)  BY <1>1, <1>2 DEF Solvent, Paid
<1> QED  BY <1>3, <1>4

LEMMA SetTopSolvent ==
    ASSUME TypeOK, SolventInv, frames # <<>>, NEW f \in FrameType, Solvent(f), SetTop(f)
    PROVE  SolventInv'
<1>1. frames \in Seq(FrameType) /\ Len(frames) \in 1 .. Len(frames)  BY TopType DEF TypeOK
<1>2. /\ Positions(frames') = Positions(frames)
      /\ \A d \in Positions(frames) : frames'[d] = IF d = Len(frames) THEN f ELSE frames[d]
  BY <1>1, ExceptSeq DEF SetTop, Positions
<1> QED  BY <1>2 DEF SolventInv

LEMMA FrontSolvent ==
    ASSUME TypeOK, SolventInv, frames # <<>>, frames' = Front(frames)
    PROVE  SolventInv'
<1> DEFINE n == Len(frames) - 1
<1>1. n \in Nat /\ n <= Len(frames) /\ frames' = SubSeq(frames, 1, n) /\ frames \in Seq(FrameType)
  BY DEF Front, TypeOK
<1>2. \A d \in 1 .. n : d \in 1 .. Len(frames)  BY <1>1
<1> HIDE DEF n
<1>3. \A d \in 1 .. n : frames[d] \in FrameType  BY <1>1, <1>2
<1>4. Len(frames') = n /\ \A d \in 1 .. n : frames'[d] = frames[d]
  BY <1>1, <1>3, SubSeqProperties
<1> QED  BY <1>2, <1>4 DEF SolventInv, Positions

LEMMA StripSolvent ==
    ASSUME TypeOK, SolventInv, NEW r, Strip(r)
    PROVE  SolventInv'
<1>1. frames' = [d \in 1 .. Len(frames) |-> ClearedInFrame(frames[d], r)] /\ Len(frames) \in Nat
  BY FramesHaveSlots DEF Strip, ClearedInEveryFrame, Positions
<1>2. Len(frames') = Len(frames)  BY <1>1
<1>3. \A d \in 1 .. Len(frames) : Solvent(ClearedInFrame(frames[d], r))
  BY FramesHaveSlots, ClearedSolvent DEF SolventInv, Positions
<1> QED  BY <1>1, <1>2, <1>3 DEF SolventInv, Positions

LEMMA ClaimSlotSolvent ==
    ASSUME TypeOK, SolventInv, frames # <<>>, BatchLeft, ClaimSlot
    PROVE  SolventInv'
<1>1. Top \in FrameType /\ Len(frames) \in 1 .. Len(frames)  BY TopType
<1>2. Solvent(Top)  BY <1>1 DEF SolventInv, Top, Positions
<1> DEFINE f == [Top EXCEPT !.batch[Top.i] = None, !.i = @ + 1]
           b == [Top.batch EXCEPT ![Top.i] = None]
           n == Top.i + 1
<1>3. Top.batch \in Seq(Slot) /\ Top.i \in 1 .. Len(Top.batch)
  BY <1>1, FrameFields DEF BatchLeft
<1>4. n \in Nat \ {0} /\ b \in Seq(Slot) /\ Len(b) = Len(Top.batch) /\ Top.batch[Top.i] \in Slot
  BY <1>3, ExceptSeq DEF Slot
<1>5. f = [Top EXCEPT !.batch = b, !.i = n]  OBVIOUS
<1>6. SetTop(TakeUp(f, Top.batch[Top.i]))  BY DEF ClaimSlot
<1>7. n = Top.i + 1  OBVIOUS
<1> HIDE DEF b, n, f
<1>8. /\ f \in FrameType /\ f.batch = b /\ f.timers = Top.timers /\ f.i = n /\ f.j = Top.j
      /\ f.budget = Top.budget /\ f.ran = Top.ran
  BY <1>1, <1>4, <1>5 DEF FrameType
<1>9. Solvent(f) /\ f.ran + 1 <= Paid(f)
  BY <1>1, <1>2, <1>3, <1>4, <1>7, <1>8, PayingOne
<1> QED  BY <1>4, <1>6, <1>8, <1>9, TakeUpType, TakeUpSolvent, SetTopSolvent

\* Every step keeps every pass solvent, action by action.
LEMMA StepSolvent == TypeOK /\ SolventInv /\ [Next]_vars => SolventInv'
<1> SUFFICES ASSUME TypeOK, SolventInv, [Next]_vars PROVE SolventInv'  OBVIOUS
<1>a. ASSUME frames' = frames PROVE SolventInv'  BY <1>a DEF SolventInv
<1>b. ASSUME NEW b \in Seq(Slot), NEW t \in Seq(Slot), NEW kind \in {"pass", "drain"}
      PROVE  Frame(kind, b, t) \in FrameType /\ Solvent(Frame(kind, b, t))
  <2>1. Len(b) \in Nat /\ Len(t) \in Nat  OBVIOUS
  <2>2. Frame(kind, b, t) \in FrameType  BY FrameIntro
  <2>3. Spent(Len(b), Len(b), 1, 1) = 0  BY <2>1 DEF Spent
  <2> QED  BY <2>1, <2>2, <2>3 DEF Frame, Solvent, Paid
<1>1. CASE \/ \E p \in Posters, policy \in Policies, prio \in Priorities : PostEvent(p, policy, prio)
           \/ \E p \in Posters, prio \in Priorities : PostEventUnconditionally(p, prio)
           \/ Aims
           \/ \E r \in Receivers : CreateObject(r) \/ LeaveOrReturn(r) \/ RegisterTimer(r)
  BY <1>1, <1>a, AimsAreQuiet
  DEF PostEvent, PostEventUnconditionally, CreateObject, LeaveOrReturn, RegisterTimer
<1>2. CASE Dies \/ \E r \in Receivers : MoveAway(r)
  <2>1. PICK r \in Receivers : frames' = frames \/ Strip(r)  BY <1>2, DiesStrips DEF MoveAway
  <2> QED  BY <2>1, <1>a, StripSolvent
<1>3. ASSUME NEW r \in Receivers, UnregisterTimer(r) PROVE SolventInv'
  <2> DEFINE g(f) == [f EXCEPT !.batch = WithoutExpiries(@, r), !.timers = WithoutExpiries(@, r)]
  <2>1. frames' = [d \in Positions(frames) |-> g(frames[d])]  BY <1>3 DEF UnregisterTimer
  <2>2. \A d \in Positions(frames) : Solvent(g(frames[d]))
    BY FramesHaveSlots, ClearedSolvent DEF SolventInv
  <2>3. Len(frames) \in Nat  BY FramesHaveSlots
  <2> HIDE DEF g
  <2>4. Positions(frames') = Positions(frames)  BY <2>1, <2>3 DEF Positions
  <2> QED  BY <2>1, <2>2, <2>4 DEF SolventInv
<1>4. ASSUME NEW c \in Capacities, SetEventQueueCapacity(c) PROVE SolventInv'
  BY <1>4, <1>a DEF SetEventQueueCapacity
<1>5. CASE Close  BY <1>5, <1>a DEF Close
<1>6. ASSUME NEW due, BeginPass(due) PROVE SolventInv'
  <2> DEFINE f == Frame("pass", queue, Expiries(due))
  <2>1. f \in FrameType /\ Solvent(f)
    BY <1>b, ExpiriesType, EntriesAreSlots DEF TypeOK
  <2>2. frames' = Append(frames, f) /\ frames \in Seq(FrameType)  BY <1>6 DEF BeginPass, TypeOK
  <2> HIDE DEF f
  <2>3. /\ Len(frames') = Len(frames) + 1 /\ Len(frames) \in Nat
        /\ frames'[Len(frames) + 1] = f
        /\ \A d \in 1 .. Len(frames) : frames'[d] = frames[d]
    BY <2>1, <2>2, AppendProperties
  <2> QED  BY <2>1, <2>3 DEF SolventInv, Positions
<1>7. CASE NextEvent
  <2>1. frames # <<>> /\ BatchLeft  BY <1>7 DEF NextEvent, BetweenDispatches
  <2>2. CASE Preempts
    <3>1. Steal  BY <1>7, <2>2 DEF NextEvent
    <3>2. Top \in FrameType /\ Len(frames) \in 1 .. Len(frames)  BY <2>1, TopType
    <3>3. Solvent(Top)  BY <3>2 DEF SolventInv, Top, Positions
    <3> DEFINE n == Top.budget - 1
               f == [Top EXCEPT !.budget = @ - 1]
    <3>4. /\ Len(Top.batch) \in Nat /\ Top.i \in Nat /\ Top.j \in Nat
          /\ Top.budget \in Nat /\ Top.ran \in Nat /\ Top.budget > 0
      BY <2>2, <3>2, FrameFields DEF Preempts
    <3>5. n \in Nat /\ n = Top.budget - 1 /\ f = [Top EXCEPT !.budget = n]  BY <3>4
    <3>6. Head(queue) \in Slot  BY <2>2, HeadTailProperties DEF Preempts, TypeOK, Slot
    <3>7. SetTop(TakeUp(f, Head(queue)))  BY <3>1 DEF Steal
    <3> HIDE DEF n, f
    <3>8. /\ f \in FrameType /\ f.batch = Top.batch /\ f.timers = Top.timers
          /\ f.i = Top.i /\ f.j = Top.j /\ f.budget = n /\ f.ran = Top.ran
      BY <3>2, <3>5 DEF FrameType
    <3>9. Solvent(f) /\ f.ran + 1 <= Paid(f)  BY <3>2, <3>3, <3>5, <3>8, PayingOne
    <3> QED  BY <2>1, <3>6, <3>7, <3>8, <3>9, TakeUpType, TakeUpSolvent, SetTopSolvent
  <2>3. CASE ~Preempts  BY <1>7, <2>1, <2>3, ClaimSlotSolvent DEF NextEvent
  <2> QED  BY <2>2, <2>3
<1>8. CASE NextExpiry
  <2>1. frames # <<>>  BY <1>8 DEF NextExpiry, BetweenDispatches
  <2>2. Top \in FrameType /\ Len(frames) \in 1 .. Len(frames)  BY <2>1, TopType
  <2>3. Solvent(Top)  BY <2>2 DEF SolventInv, Top, Positions
  <2>4. /\ Len(Top.batch) \in Nat /\ Len(Top.timers) \in Nat /\ Top.i \in Nat /\ Top.j \in Nat \ {0}
        /\ Top.budget \in Nat /\ Top.ran \in Nat /\ Top.j <= Len(Top.timers)
        /\ Top.timers \in Seq(Slot)
    BY <1>8, <2>2, FrameFields DEF NextExpiry
  <2> DEFINE b == [Top.timers EXCEPT ![Top.j] = None]
             n == Top.j + 1
             f == [Top EXCEPT !.timers[Top.j] = None, !.j = @ + 1]
  <2>5. /\ b \in Seq(Slot) /\ Len(b) = Len(Top.timers) /\ n \in Nat \ {0} /\ n = Top.j + 1
        /\ Top.timers[Top.j] \in Slot
    BY <2>4, ExceptSeq DEF Slot
  <2>6. f = [Top EXCEPT !.timers = b, !.j = n]  OBVIOUS
  <2>7. SetTop(TakeUp(f, Top.timers[Top.j]))  BY <1>8 DEF NextExpiry
  <2> HIDE DEF b, n, f
  <2>8. /\ f \in FrameType /\ f.batch = Top.batch /\ f.timers = b
        /\ f.i = Top.i /\ f.j = n /\ f.budget = Top.budget /\ f.ran = Top.ran
    BY <2>2, <2>5, <2>6 DEF FrameType
  <2>9. Solvent(f) /\ f.ran + 1 <= Paid(f)  BY <2>2, <2>3, <2>4, <2>5, <2>8, PayingOne
  <2> QED  BY <2>1, <2>5, <2>7, <2>8, <2>9, TakeUpType, TakeUpSolvent, SetTopSolvent
<1>9. CASE EndPass  BY <1>9, FrontSolvent DEF EndPass, BetweenDispatches
<1>11. CASE EndDispatch
  <2>1. frames # <<>>  BY <1>11 DEF EndDispatch
  <2>2. Top \in FrameType /\ Len(frames) \in 1 .. Len(frames)  BY <2>1, TopType
  <2>3. Solvent(Top)  BY <2>2 DEF SolventInv, Top, Positions
  <2> DEFINE d == IF Top.hand.type = "DeferredDelete" THEN Top.deleted \cup {Top.hand.recv}
                  ELSE Top.deleted
             f == [Top EXCEPT !.hand = None, !.deleted = d]
  <2>4. Top.hand \in Entry  BY <1>11, <2>2 DEF EndDispatch, FrameType, Slot
  <2>5. d \in SUBSET Receivers /\ None \in Slot  BY <2>2, <2>4 DEF FrameType, Entry, Slot
  <2>6. SetTop(f)  BY <1>11 DEF EndDispatch
  <2> HIDE DEF d
  <2>7. /\ f \in FrameType /\ f.batch = Top.batch /\ f.timers = Top.timers
        /\ f.i = Top.i /\ f.j = Top.j /\ f.budget = Top.budget /\ f.ran = Top.ran
    BY <2>2, <2>5 DEF FrameType
  <2> HIDE DEF f
  <2>8. Solvent(f)  BY <2>3, <2>7, SolventSame
  <2> QED  BY <2>1, <2>6, <2>7, <2>8, SetTopSolvent
<1>12. DeferredDeletes \in Seq(Slot) /\ <<>> \in Seq(Slot)
  <2>1. DeferredDeletes \in Seq(Entry)  BY PickedFrom DEF DeferredDeletes, TypeOK
  <2> QED  BY <2>1, EntriesAreSlots
<1> DEFINE drain == Frame("drain", DeferredDeletes, <<>>)
<1>13. drain \in FrameType /\ Solvent(drain)  BY <1>12, <1>b
<1> HIDE DEF drain
<1>14. CASE BeginDrain
  <2>1. frames' = <<drain>>  BY <1>14 DEF BeginDrain, drain
  <2> QED  BY <2>1, <1>13 DEF SolventInv, Positions
<1>15. CASE NextDeferredDelete
  BY <1>15, ClaimSlotSolvent DEF NextDeferredDelete, BetweenDispatches
<1>16. CASE DrainAgain
  <2>1. frames # <<>> /\ Top \in FrameType  BY <1>16, TopType DEF DrainAgain, BetweenDispatches
  <2>2. CASE DeferredDeletes = <<>>  BY <1>16, <2>1, <2>2, FrontSolvent DEF DrainAgain
  <2>3. CASE DeferredDeletes # <<>>
    <3> DEFINE f == [drain EXCEPT !.deleted = Top.deleted]
    <3>1. SetTop(f)  BY <1>16, <2>3 DEF DrainAgain, drain
    <3>2. /\ f \in FrameType /\ f.batch = drain.batch /\ f.timers = drain.timers
          /\ f.i = drain.i /\ f.j = drain.j /\ f.budget = drain.budget /\ f.ran = drain.ran
      BY <1>13, <2>1 DEF FrameType
    <3> HIDE DEF f
    <3>3. Solvent(f)  BY <1>13, <3>2, SolventSame
    <3> QED  BY <2>1, <3>1, <3>2, <3>3, SetTopSolvent
  <2> QED  BY <2>2, <2>3
<1>17. CASE UNCHANGED vars  BY <1>17, <1>a DEF vars
<1> QED
  BY <1>1, <1>2, <1>3, <1>4, <1>5, <1>6, <1>7, <1>8, <1>9, <1>11, <1>14, <1>15, <1>16, <1>17
  DEF Next, Aims, Dies

\* However fast handlers post events that outrank its batch, a pass dispatches no
\* more than twice the events it took, and the expiries it collected.
THEOREM PassAlwaysBounded == Spec => []PassBounded
<1>1. Init => SolventInv  BY DEF Init, SolventInv, Positions
<1>2. TypeOK /\ SolventInv /\ [Next]_vars => SolventInv'  BY StepSolvent
<1>3. TypeOK /\ SolventInv => PassBounded
  <2> SUFFICES ASSUME TypeOK, SolventInv, NEW d \in Positions(frames)
               PROVE  frames[d].ran <= 2 * Len(frames[d].batch) + Len(frames[d].timers)
    BY DEF PassBounded
  <2> DEFINE f == frames[d]
  <2>1. f \in FrameType /\ Solvent(f)  BY FramesHaveSlots DEF SolventInv
  <2> HIDE DEF f
  <2>2. /\ Len(f.batch) \in Nat /\ Len(f.timers) \in Nat /\ f.i \in Nat /\ f.j \in Nat
        /\ f.budget \in Nat /\ f.ran \in Nat
    BY <2>1, FrameFields
  <2>3. ASSUME NEW a \in Nat, NEW t \in Nat, NEW b \in Nat, NEW i \in Nat, NEW j \in Nat,
               NEW n \in Nat, b <= a, i <= a + 1, j <= t + 1, n <= Spent(a, b, i, j)
        PROVE  n <= 2 * a + t
    BY <2>3 DEF Spent
  <2>4. f.ran <= 2 * Len(f.batch) + Len(f.timers)  BY <2>1, <2>2, <2>3 DEF Solvent, Paid
  <2> QED  BY <2>4 DEF f
<1> QED  BY <1>1, <1>2, <1>3, TypeCorrect, PTL DEF Spec

\* What every reader of mEventQueue relies on, and what a pass may do, for any number of
\* receivers, priorities, capacities and nested passes.
THEOREM QueueAlwaysSound == Spec => []QueueIsSound
BY TypeCorrect, AlwaysQueueOrdered, PTL DEF QueueIsSound

-----------------------------------------------------------------------------
(* Where every event is.  What makes OneOwner and the order of a pass         *)
(* inductive: no two holders have an event in common, every ticket is below    *)
(* nextId, what a pass has gone by is cleared, and its batch is older than the *)
(* queue.                                                                      *)

\* The events in a sequence of slots, and those a frame holds.
Elements(s) == {s[k] : k \in Positions(s)} \ {None}

Hand(f) == {f.hand} \ {None}

FrameHolds(f) == Elements(f.batch) \cup Elements(f.timers) \cup Hand(f)

\* No ticket twice, within a sequence and between two sets of events.
Once(s) ==
    \A k, l \in Positions(s) : s[k] # None /\ s[l] # None /\ s[k].id = s[l].id => k = l

Apart(A, B) == \A x \in A, y \in B : x.id # y.id

FrameOwns(f) ==
    /\ Once(f.batch)
    /\ Once(f.timers)
    /\ Apart(Elements(f.batch), Elements(f.timers))
    /\ Apart(Elements(f.batch) \cup Elements(f.timers), Hand(f))

Owned(q, fs, n) ==
    /\ Once(q)
    /\ \A d \in Positions(fs) : FrameOwns(fs[d])
    /\ \A d \in Positions(fs) : Apart(Elements(q), FrameHolds(fs[d]))
    /\ \A c, d \in Positions(fs) : c # d => Apart(FrameHolds(fs[c]), FrameHolds(fs[d]))
    /\ \A d \in Positions(fs) : \A x \in FrameHolds(fs[d]) : x.id < n

\* Ordered() for a sequence some of whose slots were cleared.
Ranked(s) ==
    \A k, l \in Positions(s) : k < l /\ s[k] # None /\ s[l] # None =>
        \/ s[k].prio > s[l].prio
        \/ s[k].prio = s[l].prio /\ s[k].id < s[l].id

Older(A, B) == \A x \in A, y \in B : x.id < y.id

Swept(f, q) ==
    /\ \A k \in Positions(f.batch) : k < f.i => f.batch[k] = None
    /\ \A k \in Positions(f.timers) : k < f.j => f.timers[k] = None
    /\ f.kind = "drain" => f.timers = <<>>
    /\ Ranked(f.batch)
    /\ f.kind = "pass" => Older(Elements(f.batch), Elements(q))

Held(q, fs, n) ==
    /\ Owned(q, fs, n)
    /\ \A d \in Positions(fs) : Swept(fs[d], q)

HeldInv == Held(queue, frames, nextId)

LEMMA ElementOf ==
    ASSUME NEW s, NEW x
    PROVE  x \in Elements(s) <=> x # None /\ \E k \in Positions(s) : s[k] = x
BY DEF Elements

LEMMA ElementAt ==
    ASSUME NEW s, NEW k \in Positions(s), s[k] # None
    PROVE  s[k] \in Elements(s)
BY DEF Elements

LEMMA EntryFields == \A x \in Entry : x.id \in Nat /\ x.prio \in Int /\ x # None
BY NoneAssumption DEF Entry

LEMMA ElementsType ==
    ASSUME NEW s \in Seq(Slot)
    PROVE  Elements(s) \subseteq Entry
<1>1. \A k \in Positions(s) : s[k] \in Slot  BY DEF Positions
<1> QED  BY <1>1 DEF Elements, Slot

LEMMA FrameHoldsType ==
    ASSUME NEW f \in FrameType
    PROVE  FrameHolds(f) \subseteq Entry
<1>1. f.hand \in Slot  BY DEF FrameType
<1>2. Elements(f.batch) \subseteq Entry /\ Elements(f.timers) \subseteq Entry
  BY FrameFields, ElementsType
<1> QED  BY <1>1, <1>2 DEF FrameHolds, Hand, Slot

\* t is what is left of s: some slots taken out, or cleared, the rest in place.
Left(t, s, f) ==
    /\ \A i \in Positions(t) : f[i] \in Positions(s) /\ t[i] \in {None, s[f[i]]}
    /\ \A i, j \in Positions(t) : i < j => f[i] < f[j]

Within(t, s) == \E f : Left(t, s, f)

LEMMA WithinKeeps ==
    ASSUME NEW s, NEW t, Within(t, s), Len(s) \in Nat, Len(t) \in Nat
    PROVE  /\ Elements(t) \subseteq Elements(s)
           /\ Once(s) => Once(t)
           /\ Ranked(s) => Ranked(t)
<1>1. PICK f : Left(t, s, f)  BY DEF Within
<1>2. \A i \in Positions(t) : f[i] \in Positions(s) /\ (t[i] = None \/ t[i] = s[f[i]])
  BY <1>1 DEF Left
<1>3. \A i, j \in Positions(t) : i < j => f[i] < f[j]  BY <1>1 DEF Left
<1>4. Elements(t) \subseteq Elements(s)  BY <1>2 DEF Elements
<1>5. ASSUME Once(s) PROVE Once(t)
  <2> SUFFICES ASSUME NEW k \in Positions(t), NEW l \in Positions(t),
                      t[k] # None, t[l] # None, t[k].id = t[l].id
               PROVE  k = l
    BY DEF Once
  <2>1. f[k] = f[l]  BY <1>2, <1>5 DEF Once
  <2>2. f[k] \in Nat /\ k \in Nat /\ l \in Nat  BY <1>2 DEF Positions
  <2>3. ~(k < l) /\ ~(l < k)  BY <1>3, <2>1, <2>2
  <2> QED  BY <2>2, <2>3
<1>6. ASSUME Ranked(s) PROVE Ranked(t)
  <2> SUFFICES ASSUME NEW k \in Positions(t), NEW l \in Positions(t), k < l,
                      t[k] # None, t[l] # None
               PROVE  \/ t[k].prio > t[l].prio
                      \/ t[k].prio = t[l].prio /\ t[k].id < t[l].id
    BY DEF Ranked
  <2>1. f[k] < f[l] /\ t[k] = s[f[k]] /\ t[l] = s[f[l]]  BY <1>2, <1>3
  <2>2. f[k] \in Positions(s) /\ f[l] \in Positions(s)  BY <1>2
  <2> QED  BY <2>1, <2>2, <1>6 DEF Ranked
<1> QED  BY <1>4, <1>5, <1>6

LEMMA PickedWithin ==
    ASSUME NEW S, NEW s \in Seq(S), NEW P
    PROVE  /\ Picked(s, P) \in Seq(S)
           /\ Within(Picked(s, P), s)
           /\ \A x \in Elements(s) :
                (\A k \in Positions(s) : s[k] = x => k \in P) => x \in Elements(Picked(s, P))
           /\ \A x \in Elements(Picked(s, P)) : \E k \in Positions(s) : k \in P /\ s[k] = x
<1> DEFINE t == Picked(s, P)
<1>1. t \in Seq(S) /\ \E f : Embeds(t, s, P, Len(s), f)  BY PickedEmbeds
<1> HIDE DEF t
<1>2. PICK f : Embeds(t, s, P, Len(s), f)  BY <1>1
<1>3. \A i \in Positions(t) : f[i] \in Positions(s) /\ f[i] \in P /\ t[i] = s[f[i]]
  BY <1>2 DEF Embeds, Positions
<1>4. \A i, j \in Positions(t) : i < j => f[i] < f[j]  BY <1>2 DEF Embeds, Positions
<1>5. \A k \in Positions(s) : k \in P => \E i \in Positions(t) : f[i] = k
  BY <1>2 DEF Embeds, Positions
<1>6. Within(t, s)  BY <1>3, <1>4 DEF Within, Left
<1>7. ASSUME NEW x \in Elements(s), \A k \in Positions(s) : s[k] = x => k \in P
      PROVE  x \in Elements(t)
  <2>1. PICK k \in Positions(s) : s[k] = x /\ x # None  BY ElementOf
  <2>2. PICK i \in Positions(t) : f[i] = k  BY <1>5, <1>7, <2>1
  <2> QED  BY <1>3, <2>1, <2>2, ElementOf
<1>8. ASSUME NEW x \in Elements(t)
      PROVE  \E k \in Positions(s) : k \in P /\ s[k] = x
  <2>1. PICK i \in Positions(t) : t[i] = x  BY ElementOf
  <2> QED  BY <1>3, <2>1
<1> QED  BY <1>1, <1>6, <1>7, <1>8 DEF t

LEMMA TailWithin ==
    ASSUME NEW S, NEW s \in Seq(S), s # <<>>
    PROVE  /\ Within(Tail(s), s)
           /\ 1 \in Positions(s) /\ Head(s) = s[1]
           /\ \A k \in Positions(Tail(s)) :
                k + 1 \in Positions(s) /\ Tail(s)[k] = s[k + 1] /\ k + 1 # 1 /\ 1 < k + 1
<1>1. /\ Tail(s) \in Seq(S) /\ Len(Tail(s)) = Len(s) - 1 /\ Len(s) \in Nat
      /\ \A k \in 1 .. Len(Tail(s)) : Tail(s)[k] = s[k + 1]
      /\ Len(s) # 0
  BY HeadTailProperties
<1>2. PICK t : t = Tail(s)  OBVIOUS
<1>3. \A k \in Positions(t) :
        k + 1 \in Positions(s) /\ t[k] = s[k + 1] /\ k \in Nat /\ k + 1 # 1 /\ 1 < k + 1
  BY <1>1, <1>2 DEF Positions
<1> DEFINE f == [k \in Positions(t) |-> k + 1]
<1>4. \A k \in Positions(t) : f[k] = k + 1  OBVIOUS
<1> HIDE DEF f
<1>5. \A i, j \in Positions(t) : i < j => f[i] < f[j]  BY <1>3, <1>4
<1>6. Left(t, s, f)  BY <1>3, <1>4, <1>5 DEF Left
<1>7. Within(t, s)  BY <1>6 DEF Within
<1>8. 1 \in Positions(s) /\ Head(s) = s[1]  BY <1>1 DEF Positions
<1> QED  BY <1>2, <1>3, <1>7, <1>8

\* Slots cleared in place.
Thins(t, s) ==
    /\ Len(t) = Len(s)
    /\ \A k \in Positions(s) : t[k] = s[k] \/ t[k] = None

LEMMA ThinsWithin ==
    ASSUME NEW s, NEW t, Thins(t, s), Len(s) \in Nat
    PROVE  Within(t, s)
<1> DEFINE f == [k \in Positions(s) |-> k]
<1>1. Positions(t) = Positions(s)  BY DEF Thins, Positions
<1>2. \A k \in Positions(t) : f[k] = k  BY <1>1
<1> HIDE DEF f
<1>3. Left(t, s, f)  BY <1>1, <1>2 DEF Left, Thins
<1> QED  BY <1>3 DEF Within

LEMMA ClearedThins ==
    ASSUME NEW b \in Seq(Slot), NEW r
    PROVE  Thins(Cleared(b, r), b) /\ Thins(WithoutExpiries(b, r), b)
<1>1. Len(b) \in Nat  OBVIOUS
<1> QED  BY <1>1 DEF Thins, Cleared, WithoutExpiries, Positions

LEMMA ExceptThins ==
    ASSUME NEW b \in Seq(Slot), NEW k \in 1 .. Len(b)
    PROVE  /\ Thins([b EXCEPT ![k] = None], b)
           /\ [b EXCEPT ![k] = None][k] = None
           /\ \A j \in Positions(b) : j # k => [b EXCEPT ![k] = None][j] = b[j]
<1>1. /\ Len([b EXCEPT ![k] = None]) = Len(b)
      /\ \A j \in 1 .. Len(b) : [b EXCEPT ![k] = None][j] = IF j = k THEN None ELSE b[j]
  BY ExceptSeq DEF Slot
<1> QED  BY <1>1 DEF Thins, Positions

LEMMA QueueElements ==
    ASSUME NEW q \in Seq(Entry)
    PROVE  /\ Elements(q) \subseteq Entry
           /\ \A k \in Positions(q) : q[k] \in Elements(q) /\ q[k] \in Entry
           /\ Len(q) \in Nat
           /\ Ordered(q) => Ranked(q)
<1>1. \A k \in Positions(q) : q[k] \in Entry  BY DEF Positions
<1>2. Ordered(q) => Ranked(q)  BY DEF Ordered, Ranked
<1> QED  BY <1>1, <1>2, EntryFields DEF Elements

\* An insertion adds e, and no second of anything.
LEMMA InsertHolds ==
    ASSUME NEW q \in Seq(Entry), NEW e \in Entry
    PROVE  /\ InsertByPriority(q, e) \in Seq(Entry)
           /\ Elements(InsertByPriority(q, e)) = Elements(q) \cup {e}
           /\ Once(q) /\ Apart(Elements(q), {e}) => Once(InsertByPriority(q, e))
<1> DEFINE t == InsertByPriority(q, e)
<1>1. t \in Seq(Entry)  BY InsertByPriorityPlaces
<1>2. PICK k \in 1 .. Len(q) + 1 : InsertedAt(t, q, e, k)  BY InsertByPriorityPlaces
<1> HIDE DEF t
<1>3. Len(q) \in Nat /\ Positions(q) = 1 .. Len(q) /\ Positions(t) = 1 .. Len(q) + 1
  BY <1>2 DEF InsertedAt, Positions
<1>4. \A i \in Positions(t) : t[i] = IF i < k THEN q[i] ELSE IF i = k THEN e ELSE q[i - 1]
  BY <1>2, <1>3 DEF InsertedAt
<1> DEFINE o == [i \in Positions(t) |-> IF i < k THEN i ELSE i - 1]
<1>5. \A i \in Positions(t) : i # k => o[i] \in Positions(q) /\ t[i] = q[o[i]]
  BY <1>3, <1>4
<1>6. \A i, j \in Positions(t) : i # k /\ j # k /\ o[i] = o[j] => i = j
  BY <1>3
<1>7. \A l \in Positions(q) : \E i \in Positions(t) : i # k /\ o[i] = l
  <2> TAKE l \in Positions(q)
  <2>1. CASE l < k  BY <2>1, <1>3
  <2>2. CASE l >= k
    <3>1. l + 1 \in Positions(t) /\ l + 1 # k /\ o[l + 1] = l  BY <2>2, <1>3
    <3> QED  BY <3>1
  <2> QED  BY <2>1, <2>2, <1>3
<1>8. k \in Positions(t) /\ t[k] = e  BY <1>3, <1>4
<1> HIDE DEF o
<1>9. \A x \in Elements(t) : x \in Elements(q) \/ x = e
  <2> TAKE x \in Elements(t)
  <2>1. PICK i \in Positions(t) : t[i] = x /\ x # None  BY ElementOf
  <2> QED  BY <1>5, <1>8, <2>1, ElementOf
<1>10. \A x \in Elements(q) : x \in Elements(t)
  <2> TAKE x \in Elements(q)
  <2>1. PICK l \in Positions(q) : q[l] = x /\ x # None  BY ElementOf
  <2>2. PICK i \in Positions(t) : i # k /\ o[i] = l  BY <1>7
  <2> QED  BY <1>5, <2>1, <2>2, ElementOf
<1>11. e \in Elements(t)  BY <1>8, EntryFields, ElementOf
<1>12. Elements(t) = Elements(q) \cup {e}  BY <1>9, <1>10, <1>11
<1>13. ASSUME Once(q), Apart(Elements(q), {e}) PROVE Once(t)
  <2> SUFFICES ASSUME NEW i \in Positions(t), NEW j \in Positions(t),
                      t[i] # None, t[j] # None, t[i].id = t[j].id
               PROVE  i = j
    BY DEF Once
  <2>1. \A l \in Positions(t) : l # k /\ t[l] # None => t[l] \in Elements(q)
    BY <1>5, ElementOf
  <2>2. \A l \in Positions(t) : l # k /\ t[l] # None => t[l].id # e.id
    BY <2>1, <1>13 DEF Apart
  <2>3. CASE i # k /\ j # k  BY <2>3, <1>5, <1>6, <1>13 DEF Once
  <2>4. CASE i = k \/ j = k  BY <2>4, <2>2, <1>8
  <2> QED  BY <2>3, <2>4
<1> QED  BY <1>1, <1>12, <1>13 DEF t

\* An admission adds at most e, and no second of anything.
LEMMA AdmitHolds ==
    ASSUME NEW q \in Seq(Entry), NEW e \in Entry, NEW policy
    PROVE  /\ Elements(AfterAdmission(q, e, policy)) \subseteq Elements(q) \cup {e}
           /\ Once(q) /\ Apart(Elements(q), {e}) => Once(AfterAdmission(q, e, policy))
<1> DEFINE p == Picked(q, Positions(q) \ {Victim(q)})
<1>1. p \in Seq(Entry) /\ Within(p, q) /\ Len(p) \in Nat /\ Len(q) \in Nat
  <2>1. p \in Seq(Entry) /\ Within(p, q)  BY PickedWithin
  <2> HIDE DEF p
  <2> QED  BY <2>1
<1> HIDE DEF p
<1>2. Elements(p) \subseteq Elements(q) /\ (Once(q) => Once(p))  BY <1>1, WithinKeeps
<1>3. Apart(Elements(q), {e}) => Apart(Elements(p), {e})  BY <1>2 DEF Apart
<1>4. /\ Elements(InsertByPriority(p, e)) \subseteq Elements(q) \cup {e}
      /\ Once(q) /\ Apart(Elements(q), {e}) => Once(InsertByPriority(p, e))
  BY <1>1, <1>2, <1>3, InsertHolds
<1>5. /\ Elements(InsertByPriority(q, e)) \subseteq Elements(q) \cup {e}
      /\ Once(q) /\ Apart(Elements(q), {e}) => Once(InsertByPriority(q, e))
  BY InsertHolds
<1>6. AfterAdmission(q, e, policy) \in {q, InsertByPriority(q, e), InsertByPriority(p, e)}
  BY DEF AfterAdmission, p
<1> QED  BY <1>4, <1>5, <1>6

\* A frame some of whose slots were cleared, the rest as it was.
Shrinks(g, f) ==
    /\ Thins(g.batch, f.batch)
    /\ Thins(g.timers, f.timers)
    /\ g.hand = f.hand
    /\ g.kind = f.kind
    /\ g.i = f.i
    /\ g.j = f.j

LEMMA ThinsKeeps ==
    ASSUME NEW s \in Seq(Slot), NEW t \in Seq(Slot), Thins(t, s)
    PROVE  /\ Elements(t) \subseteq Elements(s)
           /\ Once(s) => Once(t)
           /\ Ranked(s) => Ranked(t)
           /\ Positions(t) = Positions(s)
           /\ \A k \in Positions(s) : s[k] = None => t[k] = None
<1>1. Len(s) \in Nat /\ Len(t) \in Nat  OBVIOUS
<1>2. Within(t, s)  BY <1>1, ThinsWithin
<1>3. /\ Elements(t) \subseteq Elements(s)
      /\ Once(s) => Once(t)
      /\ Ranked(s) => Ranked(t)
  BY <1>1, <1>2, WithinKeeps
<1>4. /\ Positions(t) = Positions(s)
      /\ \A k \in Positions(s) : s[k] = None => t[k] = None
  BY DEF Thins, Positions
<1> QED  BY <1>3, <1>4

\* What is left of a frame, with a hand that is empty, as it was, or holds an event
\* of the frame that is in none of its slots any more.
LEMMA FrameTakes ==
    ASSUME NEW f \in FrameType, NEW g \in FrameType, FrameOwns(f),
           Thins(g.batch, f.batch), Thins(g.timers, f.timers),
           g.hand # f.hand => Apart(Elements(g.batch) \cup Elements(g.timers), Hand(g))
    PROVE  /\ FrameOwns(g)
           /\ FrameHolds(g) \subseteq FrameHolds(f) \cup Hand(g)
<1>1. /\ f.batch \in Seq(Slot) /\ f.timers \in Seq(Slot)
      /\ g.batch \in Seq(Slot) /\ g.timers \in Seq(Slot)
  BY FrameFields
<1>2. /\ Elements(g.batch) \subseteq Elements(f.batch) /\ (Once(f.batch) => Once(g.batch))
      /\ Elements(g.timers) \subseteq Elements(f.timers) /\ (Once(f.timers) => Once(g.timers))
  BY <1>1, ThinsKeeps
<1>3. Apart(Elements(g.batch), Elements(g.timers))  BY <1>2 DEF FrameOwns, Apart
<1>4. Apart(Elements(g.batch) \cup Elements(g.timers), Hand(g))
  <2>1. CASE g.hand = f.hand
    <3>1. Hand(g) = Hand(f)  BY <2>1 DEF Hand
    <3> QED  BY <3>1, <1>2 DEF FrameOwns, Apart
  <2> QED  BY <2>1
<1>5. FrameHolds(g) \subseteq FrameHolds(f) \cup Hand(g)  BY <1>2 DEF FrameHolds
<1> QED  BY <1>2, <1>3, <1>4, <1>5 DEF FrameOwns

LEMMA ShrinksKeeps ==
    ASSUME NEW f \in FrameType, NEW g \in FrameType, Shrinks(g, f)
    PROVE  /\ FrameOwns(f) => FrameOwns(g)
           /\ FrameHolds(g) \subseteq FrameHolds(f)
           /\ Elements(g.batch) \subseteq Elements(f.batch)
           /\ \A q : Swept(f, q) => Swept(g, q)
<1>1. /\ f.batch \in Seq(Slot) /\ f.timers \in Seq(Slot)
      /\ g.batch \in Seq(Slot) /\ g.timers \in Seq(Slot)
  BY FrameFields
<1>2. /\ Elements(g.batch) \subseteq Elements(f.batch)
      /\ Elements(g.timers) \subseteq Elements(f.timers)
      /\ Ranked(f.batch) => Ranked(g.batch)
      /\ Positions(g.batch) = Positions(f.batch)
      /\ Positions(g.timers) = Positions(f.timers)
      /\ \A k \in Positions(f.batch) : f.batch[k] = None => g.batch[k] = None
      /\ \A k \in Positions(f.timers) : f.timers[k] = None => g.timers[k] = None
  BY <1>1, ThinsKeeps DEF Shrinks
<1>3. Hand(g) = Hand(f)  BY DEF Hand, Shrinks
<1>4. FrameHolds(g) \subseteq FrameHolds(f)  BY <1>2, <1>3 DEF FrameHolds
<1>5. FrameOwns(f) => FrameOwns(g)  BY FrameTakes DEF Shrinks
<1>6. ASSUME NEW q, Swept(f, q) PROVE Swept(g, q)
  <2>1. f.kind = "drain" => g.timers = <<>>
    <3>1. ASSUME f.timers = <<>> PROVE g.timers = <<>>
      <4>1. Len(g.timers) = 0  BY <3>1 DEF Shrinks, Thins
      <4> QED  BY <1>1, <4>1
    <3> QED  BY <3>1, <1>6 DEF Swept
  <2>2. f.kind = "pass" => Older(Elements(g.batch), Elements(q))
    BY <1>2, <1>6 DEF Swept, Older
  <2> QED  BY <1>2, <1>6, <2>1, <2>2 DEF Swept, Shrinks
<1> QED  BY <1>2, <1>4, <1>5, <1>6

\* A ticket handed out between n and m.
New(x, n, m) == n <= x.id /\ x.id < m

\* Held somewhere, and a step that holds nothing that was not held before or is new.
HeldIn(x, q, fs) == x \in Elements(q) \/ \E d \in Positions(fs) : x \in FrameHolds(fs[d])

Traces(q, fs, n, q2, fs2, n2) ==
    \A x : HeldIn(x, q2, fs2) => HeldIn(x, q, fs) \/ New(x, n, n2)

Traced == Traces(queue, frames, nextId, queue', frames', nextId')

\* The law of every step.  The queue keeps entries and takes new ones; every frame but m
\* only loses; and frame m, if there is one, holds what it held, what the queue gave up
\* and what is new.
LEMMA FramesMove ==
    ASSUME NEW q \in Seq(Entry), NEW q2 \in Seq(Entry),
           NEW fs \in Seq(FrameType), NEW fs2 \in Seq(FrameType),
           NEW n \in Nat, NEW n2 \in Nat, n <= n2, NEW m,
           Held(q, fs, n), Numbered(q, n),
           Once(q2),
           \A x \in Elements(q2) : x \in Elements(q) \/ New(x, n, n2),
           \A d \in Positions(fs2) : d # m => d \in Positions(fs) /\ Shrinks(fs2[d], fs[d]),
           \A d \in Positions(fs2) : d = m =>
                /\ FrameOwns(fs2[d])
                /\ Swept(fs2[d], q2)
                /\ Apart(Elements(q2), FrameHolds(fs2[d]))
                /\ \A x \in FrameHolds(fs2[d]) :
                    \/ x \in Elements(q)
                    \/ New(x, n, n2)
                    \/ d \in Positions(fs) /\ x \in FrameHolds(fs[d])
    PROVE  Held(q2, fs2, n2) /\ Traces(q, fs, n, q2, fs2, n2)
<1>1. /\ \A d \in Positions(fs) : fs[d] \in FrameType
      /\ \A d \in Positions(fs2) : fs2[d] \in FrameType
  BY DEF Positions
<1>2. \A x \in Elements(q) : x \in Entry /\ x.id \in Nat /\ x.id < n
  <2> TAKE x \in Elements(q)
  <2>1. PICK k \in Positions(q) : q[k] = x  BY ElementOf
  <2>2. x \in Entry  BY QueueElements
  <2> QED  BY <2>1, <2>2, EntryFields DEF Numbered
<1>3. \A d \in Positions(fs) : \A x \in FrameHolds(fs[d]) : x.id \in Nat /\ x.id < n
  <2> TAKE d \in Positions(fs)
  <2> TAKE x \in FrameHolds(fs[d])
  <2>1. x \in Entry  BY <1>1, FrameHoldsType
  <2> QED  BY <2>1, EntryFields DEF Held, Owned
<1>4. \A d \in Positions(fs2) : d # m =>
        /\ FrameOwns(fs2[d])
        /\ FrameHolds(fs2[d]) \subseteq FrameHolds(fs[d])
        /\ Elements(fs2[d].batch) \subseteq Elements(fs[d].batch)
        /\ Swept(fs2[d], q)
        /\ d \in Positions(fs)
  <2> SUFFICES ASSUME NEW d \in Positions(fs2), d # m
               PROVE  /\ FrameOwns(fs2[d])
                      /\ FrameHolds(fs2[d]) \subseteq FrameHolds(fs[d])
                      /\ Elements(fs2[d].batch) \subseteq Elements(fs[d].batch)
                      /\ Swept(fs2[d], q)
                      /\ d \in Positions(fs)
    OBVIOUS
  <2>1. d \in Positions(fs) /\ Shrinks(fs2[d], fs[d])  OBVIOUS
  <2>2. fs[d] \in FrameType /\ fs2[d] \in FrameType  BY <1>1, <2>1
  <2>3. FrameOwns(fs[d]) /\ Swept(fs[d], q)  BY <2>1 DEF Held, Owned
  <2> QED  BY <2>1, <2>2, <2>3, ShrinksKeeps
<1> DEFINE Mine(d) == \A x \in FrameHolds(fs2[d]) :
                         \/ x \in Elements(q)
                         \/ New(x, n, n2)
                         \/ d \in Positions(fs) /\ x \in FrameHolds(fs[d])
<1>5. \A d \in Positions(fs2) : Mine(d)  BY <1>4
<1>6. \A d \in Positions(fs2) : FrameOwns(fs2[d])  BY <1>4
<1>7. /\ \A d \in Positions(fs) : Apart(Elements(q), FrameHolds(fs[d]))
      /\ \A c, d \in Positions(fs) : c # d => Apart(FrameHolds(fs[c]), FrameHolds(fs[d]))
  BY DEF Held, Owned
<1>8. ASSUME NEW d \in Positions(fs2) PROVE Apart(Elements(q2), FrameHolds(fs2[d]))
  <2>1. CASE d = m  BY <2>1
  <2>2. CASE d # m
    <3>1. d \in Positions(fs) /\ FrameHolds(fs2[d]) \subseteq FrameHolds(fs[d])  BY <1>4, <2>2
    <3>2. SUFFICES ASSUME NEW x \in Elements(q2), NEW y \in FrameHolds(fs2[d])
                   PROVE  x.id # y.id
      BY DEF Apart
    <3>3. y \in FrameHolds(fs[d]) /\ y.id \in Nat /\ y.id < n  BY <3>1, <1>3
    <3>4. CASE x \in Elements(q)  BY <3>1, <3>3, <3>4, <1>7 DEF Apart
    <3>5. CASE New(x, n, n2)  BY <3>3, <3>5 DEF New
    <3> QED  BY <3>4, <3>5
  <2> QED  BY <2>1, <2>2
<1>9. ASSUME NEW c \in Positions(fs2), NEW d \in Positions(fs2), d # m, c # d
      PROVE  Apart(FrameHolds(fs2[c]), FrameHolds(fs2[d]))
  <2>1. d \in Positions(fs) /\ FrameHolds(fs2[d]) \subseteq FrameHolds(fs[d])  BY <1>4, <1>9
  <2>2. SUFFICES ASSUME NEW x \in FrameHolds(fs2[c]), NEW y \in FrameHolds(fs2[d])
                 PROVE  x.id # y.id
    BY DEF Apart
  <2>3. y \in FrameHolds(fs[d]) /\ y.id \in Nat /\ y.id < n  BY <2>1, <1>3
  <2>4. CASE x \in Elements(q)  BY <2>1, <2>3, <2>4, <1>7 DEF Apart
  <2>5. CASE New(x, n, n2)  BY <2>3, <2>5 DEF New
  <2>6. CASE c \in Positions(fs) /\ x \in FrameHolds(fs[c])
    BY <2>1, <2>3, <2>6, <1>7, <1>9 DEF Apart
  <2> QED  BY <2>4, <2>5, <2>6, <1>5
<1>10. \A c, d \in Positions(fs2) : c # d => Apart(FrameHolds(fs2[c]), FrameHolds(fs2[d]))
  <2> SUFFICES ASSUME NEW c \in Positions(fs2), NEW d \in Positions(fs2), c # d
               PROVE  Apart(FrameHolds(fs2[c]), FrameHolds(fs2[d]))
    OBVIOUS
  <2>1. CASE d # m  BY <2>1, <1>9
  <2>2. CASE c # m
    <3>1. Apart(FrameHolds(fs2[d]), FrameHolds(fs2[c]))  BY <2>2, <1>9
    <3> QED  BY <3>1 DEF Apart
  <2> QED  BY <2>1, <2>2
<1>11. ASSUME NEW d \in Positions(fs2), NEW x \in FrameHolds(fs2[d]) PROVE x.id < n2
  <2>1. CASE x \in Elements(q)  BY <2>1, <1>2
  <2>2. CASE New(x, n, n2)  BY <2>2 DEF New
  <2>3. CASE d \in Positions(fs) /\ x \in FrameHolds(fs[d])  BY <2>3, <1>3
  <2> QED  BY <2>1, <2>2, <2>3, <1>5
<1>12. ASSUME NEW d \in Positions(fs2) PROVE Swept(fs2[d], q2)
  <2>1. CASE d = m  BY <2>1
  <2>2. CASE d # m
    <3>1. /\ d \in Positions(fs) /\ Swept(fs2[d], q)
          /\ Elements(fs2[d].batch) \subseteq FrameHolds(fs[d])
      BY <1>4, <2>2 DEF FrameHolds
    <3>2. ASSUME fs2[d].kind = "pass", NEW x \in Elements(fs2[d].batch), NEW y \in Elements(q2)
          PROVE  x.id < y.id
      <4>1. x.id \in Nat /\ x.id < n  BY <3>1, <1>3
      <4>2. CASE y \in Elements(q)  BY <3>1, <3>2, <4>2 DEF Swept, Older
      <4>3. CASE New(y, n, n2)
        <5>1. y \in Entry /\ y.id \in Nat  BY QueueElements, EntryFields
        <5> QED  BY <4>1, <4>3, <5>1 DEF New
      <4> QED  BY <4>2, <4>3
    <3> QED  BY <3>1, <3>2 DEF Swept, Older
  <2> QED  BY <2>1, <2>2
<1>13. Traces(q, fs, n, q2, fs2, n2)  BY <1>5 DEF Traces, HeldIn
<1> HIDE DEF Mine
<1>14. Held(q2, fs2, n2)  BY <1>6, <1>8, <1>10, <1>11, <1>12 DEF Held, Owned
<1> QED  BY <1>13, <1>14

LEMMA ShrinksReflexive == \A f : Shrinks(f, f)
BY DEF Shrinks, Thins

LEMMA EmptyHolds == Elements(<<>>) = {} /\ Once(<<>>) /\ Ranked(<<>>)
BY DEF Elements, Once, Ranked, Positions

\* A step that puts no event in any frame.
LEMMA QueueMoves ==
    ASSUME TypeOK, HeldInv, Numbered(queue, nextId),
           queue' \in Seq(Entry), frames' \in Seq(FrameType), nextId' \in Nat, nextId <= nextId',
           Once(queue'),
           \A x \in Elements(queue') : x \in Elements(queue) \/ New(x, nextId, nextId'),
           \A d \in Positions(frames') : d \in Positions(frames) /\ Shrinks(frames'[d], frames[d])
    PROVE  HeldInv' /\ Traced
<1>1. /\ queue \in Seq(Entry) /\ frames \in Seq(FrameType) /\ nextId \in Nat
      /\ Held(queue, frames, nextId)
  BY DEF TypeOK, HeldInv
<1>2. \A d \in Positions(frames') : d # 0  BY DEF Positions
<1>3. Held(queue', frames', nextId') /\ Traced  BY <1>1, <1>2, FramesMove DEF Traced
<1> QED  BY <1>3 DEF HeldInv

\* A step of the innermost pass.
LEMMA TopMoves ==
    ASSUME TypeOK, HeldInv, Numbered(queue, nextId), frames # <<>>,
           queue' \in Seq(Entry), nextId' = nextId,
           Once(queue'), Elements(queue') \subseteq Elements(queue),
           NEW g \in FrameType, SetTop(g), FrameOwns(g), Swept(g, queue'),
           Apart(Elements(queue'), FrameHolds(g)),
           FrameHolds(g) \subseteq Elements(queue) \cup FrameHolds(Top)
    PROVE  HeldInv' /\ Traced
<1>1. /\ queue \in Seq(Entry) /\ frames \in Seq(FrameType) /\ nextId \in Nat
      /\ Held(queue, frames, nextId)
  BY DEF TypeOK, HeldInv
<1>2. PICK m : m = Len(frames)  OBVIOUS
<1>3. m \in Positions(frames) /\ Top = frames[m] /\ m \in 1 .. Len(frames)
  BY <1>2, TopType DEF Top, Positions
<1>4. frames' \in Seq(FrameType)  BY TopType
<1>5. /\ Positions(frames') = Positions(frames)
      /\ \A d \in Positions(frames) : frames'[d] = IF d = m THEN g ELSE frames[d]
  BY <1>1, <1>2, <1>3, ExceptSeq DEF SetTop, Positions
<1>6. \A d \in Positions(frames') : d # m => d \in Positions(frames) /\ Shrinks(frames'[d], frames[d])
  BY <1>5, ShrinksReflexive
<1>7. \A d \in Positions(frames') : d = m =>
        /\ FrameOwns(frames'[d])
        /\ Swept(frames'[d], queue')
        /\ Apart(Elements(queue'), FrameHolds(frames'[d]))
        /\ \A x \in FrameHolds(frames'[d]) :
            \/ x \in Elements(queue)
            \/ New(x, nextId, nextId')
            \/ d \in Positions(frames) /\ x \in FrameHolds(frames[d])
  BY <1>3, <1>5
<1>8. nextId <= nextId' /\ nextId' \in Nat  BY <1>1
<1>9. Held(queue', frames', nextId') /\ Traced
  BY <1>1, <1>4, <1>6, <1>7, <1>8, FramesMove DEF Traced
<1> QED  BY <1>9 DEF HeldInv

\* What HeldInv says of the innermost frame.
LEMMA TopHeld ==
    ASSUME TypeOK, HeldInv, frames # <<>>
    PROVE  /\ Top \in FrameType
           /\ FrameOwns(Top) /\ Swept(Top, queue) /\ Once(queue)
           /\ Apart(Elements(queue), FrameHolds(Top))
<1>1. Top \in FrameType /\ Len(frames) \in Positions(frames) /\ Top = frames[Len(frames)]
  BY TopType DEF Top, Positions
<1> QED  BY <1>1 DEF HeldInv, Held, Owned

\* Destroying or moving an object clears slots and does nothing else to a frame.
LEMMA StripShrinks ==
    ASSUME TypeOK, NEW r, Strip(r)
    PROVE  /\ Len(frames') = Len(frames)
           /\ \A d \in Positions(frames') :
                /\ d \in Positions(frames)
                /\ Shrinks(frames'[d], frames[d])
                /\ frames'[d].batch = Cleared(frames[d].batch, r)
                /\ frames'[d].timers = Cleared(frames[d].timers, r)
                /\ frames'[d].deleted = frames[d].deleted
<1>1. frames' = [c \in Positions(frames) |-> ClearedInFrame(frames[c], r)] /\ Len(frames) \in Nat
  BY FramesHaveSlots DEF Strip, ClearedInEveryFrame
<1>2. Len(frames') = Len(frames)  BY <1>1 DEF Positions
<1>3. ASSUME NEW d \in Positions(frames')
      PROVE  /\ d \in Positions(frames)
             /\ Shrinks(frames'[d], frames[d])
             /\ frames'[d].batch = Cleared(frames[d].batch, r)
             /\ frames'[d].timers = Cleared(frames[d].timers, r)
             /\ frames'[d].deleted = frames[d].deleted
  <2>1. d \in Positions(frames) /\ frames'[d] = ClearedInFrame(frames[d], r)
    BY <1>1, <1>2, <1>3 DEF Positions
  <2>2. PICK f \in FrameType : f = frames[d]  BY <2>1, FramesHaveSlots
  <2>3. PICK b : b = Cleared(f.batch, r)  OBVIOUS
  <2>4. PICK t : t = Cleared(f.timers, r)  OBVIOUS
  <2>5. Thins(b, f.batch) /\ Thins(t, f.timers)  BY <2>3, <2>4, FrameFields, ClearedThins
  <2>6. PICK g : g = [f EXCEPT !.batch = b, !.timers = t]  OBVIOUS
  <2>7. g = ClearedInFrame(f, r)  BY <2>3, <2>4, <2>6 DEF ClearedInFrame
  <2>8. /\ Shrinks(g, f) /\ g.batch = b /\ g.timers = t /\ g.deleted = f.deleted
    BY <2>5, <2>6 DEF Shrinks, FrameType
  <2> QED  BY <2>1, <2>2, <2>3, <2>4, <2>7, <2>8
<1> QED  BY <1>2, <1>3

LEMMA StripMoves ==
    ASSUME TypeOK, HeldInv, Numbered(queue, nextId), NEW r, Strip(r), nextId' = nextId
    PROVE  HeldInv' /\ Traced
<1>1. queue' \in Seq(Entry) /\ frames' \in Seq(FrameType)  BY StripType
<1>2. Once(queue') /\ Elements(queue') \subseteq Elements(queue)
  <2>1. Within(queue', queue) /\ queue \in Seq(Entry)  BY PickedWithin DEF Strip, Without, TypeOK
  <2>2. Len(queue) \in Nat /\ Len(queue') \in Nat  BY <1>1, <2>1
  <2> QED  BY <2>1, <2>2, WithinKeeps DEF HeldInv, Held, Owned
<1>3. \A d \in Positions(frames') : d \in Positions(frames) /\ Shrinks(frames'[d], frames[d])
  BY StripShrinks
<1>4. nextId' \in Nat /\ nextId <= nextId'  BY DEF TypeOK
<1> QED  BY <1>1, <1>2, <1>3, <1>4, QueueMoves

\* The fields TakeUp() leaves alone.
LEMMA TakeUpFields ==
    ASSUME NEW f \in FrameType, NEW e \in Slot
    PROVE  /\ TakeUp(f, e) \in FrameType
           /\ TakeUp(f, e).batch = f.batch
           /\ TakeUp(f, e).timers = f.timers
           /\ TakeUp(f, e).i = f.i
           /\ TakeUp(f, e).j = f.j
           /\ TakeUp(f, e).kind = f.kind
           /\ TakeUp(f, e).deleted = f.deleted
           /\ TakeUp(f, e).hand = IF e = None \/ e.recv \in f.deleted THEN f.hand ELSE e
<1>1. TakeUp(f, e) \in FrameType  BY TakeUpType
<1> DEFINE n == f.ran + 1
<1>2. TakeUp(f, e) = IF e = None \/ e.recv \in f.deleted THEN f
                     ELSE [f EXCEPT !.hand = e, !.ran = n]
  BY DEF TakeUp
<1> HIDE DEF n
<1> QED  BY <1>1, <1>2 DEF FrameType

\* The event of a slot that is cleared as it is taken up has no other place.
LEMMA ClaimedApart ==
    ASSUME NEW s \in Seq(Slot), NEW k \in 1 .. Len(s), Once(s), s[k] # None
    PROVE  /\ Apart(Elements([s EXCEPT ![k] = None]), {s[k]})
           /\ s[k] \in Elements(s)
<1> DEFINE t == [s EXCEPT ![k] = None]
<1>1. /\ Positions(t) = Positions(s) /\ t[k] = None
      /\ \A j \in Positions(s) : j # k => t[j] = s[j]
  BY ExceptThins DEF Thins, Positions
<1> HIDE DEF t
<1>2. k \in Positions(s)  BY DEF Positions
<1>3. ASSUME NEW x \in Elements(t) PROVE x.id # s[k].id
  <2>1. PICK j \in Positions(t) : t[j] = x /\ x # None  BY ElementOf
  <2>2. j # k /\ s[j] = x /\ j \in Positions(s)  BY <1>1, <2>1
  <2> QED  BY <1>2, <2>1, <2>2 DEF Once
<1>4. s[k] \in Elements(s)  BY <1>2, ElementAt
<1> QED  BY <1>3, <1>4 DEF Apart, t

\* Claiming the next slot of a batch: what each holder has afterwards.
LEMMA ClaimSlotFrame ==
    ASSUME TypeOK, frames # <<>>, BatchLeft, ClaimSlot
    PROVE  \E g \in FrameType :
            /\ SetTop(g) /\ UNCHANGED queue
            /\ Top.i \in 1 .. Len(Top.batch)
            /\ g.batch = [Top.batch EXCEPT ![Top.i] = None]
            /\ g.timers = Top.timers
            /\ g.i = Top.i + 1 /\ g.j = Top.j /\ g.kind = Top.kind /\ g.deleted = Top.deleted
            /\ LET e == Top.batch[Top.i]
               IN  g.hand = IF e = None \/ e.recv \in Top.deleted THEN Top.hand ELSE e
<1>1. Top \in FrameType  BY TopType
<1> DEFINE f == [Top EXCEPT !.batch[Top.i] = None, !.i = @ + 1]
           b == [Top.batch EXCEPT ![Top.i] = None]
           n == Top.i + 1
           e == Top.batch[Top.i]
<1>2. Top.batch \in Seq(Slot) /\ Top.i \in 1 .. Len(Top.batch) /\ Top.i \in Nat \ {0}
  BY <1>1, FrameFields DEF BatchLeft
<1>3. e \in Slot /\ None \in Slot /\ n \in Nat \ {0}  BY <1>2 DEF Slot
<1>4. b \in Seq(Slot)  BY <1>2, <1>3, ExceptSeq
<1>5. f = [Top EXCEPT !.batch = b, !.i = n]  OBVIOUS
<1>6. SetTop(TakeUp(f, e)) /\ UNCHANGED queue  BY DEF ClaimSlot
<1>7. n = Top.i + 1 /\ b = [Top.batch EXCEPT ![Top.i] = None]  OBVIOUS
<1> HIDE DEF b, n, f, e
<1>8. /\ f \in FrameType /\ f.batch = b /\ f.timers = Top.timers /\ f.i = n /\ f.j = Top.j
      /\ f.kind = Top.kind /\ f.deleted = Top.deleted /\ f.hand = Top.hand
  BY <1>1, <1>3, <1>4, <1>5 DEF FrameType
<1> DEFINE g == TakeUp(f, e)
<1>9. /\ g \in FrameType /\ g.batch = b /\ g.timers = Top.timers /\ g.i = n /\ g.j = Top.j
      /\ g.kind = Top.kind /\ g.deleted = Top.deleted
      /\ g.hand = IF e = None \/ e.recv \in Top.deleted THEN Top.hand ELSE e
  BY <1>3, <1>8, TakeUpFields
<1> HIDE DEF g
<1>10. SetTop(g)  BY <1>6 DEF g
<1> USE DEF e
<1> QED  BY <1>2, <1>6, <1>7, <1>9, <1>10

LEMMA ClaimSlotMoves ==
    ASSUME TypeOK, HeldInv, Numbered(queue, nextId), nextId' = nextId,
           frames # <<>>, Top.hand = None, BatchLeft, ClaimSlot
    PROVE  HeldInv' /\ Traced
<1>1. PICK g \in FrameType :
            /\ SetTop(g) /\ UNCHANGED queue
            /\ Top.i \in 1 .. Len(Top.batch)
            /\ g.batch = [Top.batch EXCEPT ![Top.i] = None]
            /\ g.timers = Top.timers
            /\ g.i = Top.i + 1 /\ g.j = Top.j /\ g.kind = Top.kind /\ g.deleted = Top.deleted
            /\ LET e == Top.batch[Top.i]
               IN  g.hand = IF e = None \/ e.recv \in Top.deleted THEN Top.hand ELSE e
  BY ClaimSlotFrame
<1>2. PICK f \in FrameType : f = Top  BY TopType
<1>3. PICK i : i = f.i  OBVIOUS
<1>4. /\ FrameOwns(f) /\ Swept(f, queue) /\ Once(queue)
      /\ Apart(Elements(queue), FrameHolds(f))
  BY <1>2, TopHeld
<1>5. /\ f.batch \in Seq(Slot) /\ f.timers \in Seq(Slot) /\ i \in 1 .. Len(f.batch) /\ i \in Nat
      /\ f.hand = None /\ g.hand \in {None, f.batch[i]}
      /\ g.batch = [f.batch EXCEPT ![i] = None] /\ g.timers = f.timers
      /\ g.i = i + 1 /\ g.j = f.j /\ g.kind = f.kind
  BY <1>1, <1>2, <1>3, FrameFields
<1>6. /\ Thins(g.batch, f.batch) /\ Thins(g.timers, f.timers)
      /\ g.batch[i] = None /\ \A k \in Positions(f.batch) : k # i => g.batch[k] = f.batch[k]
  BY <1>5, ExceptThins DEF Thins
<1>7. /\ Elements(g.batch) \subseteq Elements(f.batch) /\ g.batch \in Seq(Slot)
      /\ Ranked(g.batch) /\ Positions(g.batch) = Positions(f.batch)
  BY <1>4, <1>5, <1>6, FrameFields, ThinsKeeps DEF Swept
<1>8. Hand(g) \subseteq Elements(f.batch) /\ Apart(Elements(g.batch) \cup Elements(g.timers), Hand(g))
  <2>1. CASE g.hand = None
    <3>1. Hand(g) = {}  BY <2>1 DEF Hand
    <3> QED  BY <3>1 DEF Apart
  <2>2. CASE g.hand # None
    <3>1. g.hand = f.batch[i] /\ f.batch[i] # None  BY <1>5, <2>2
    <3>2. Hand(g) = {f.batch[i]}  BY <3>1 DEF Hand
    <3>3. Apart(Elements(g.batch), {f.batch[i]}) /\ f.batch[i] \in Elements(f.batch)
      BY <1>4, <1>5, <3>1, ClaimedApart DEF FrameOwns
    <3>4. Apart(Elements(g.timers), {f.batch[i]})  BY <1>4, <1>5, <3>3 DEF FrameOwns, Apart
    <3> QED  BY <3>2, <3>3, <3>4 DEF Apart
  <2> QED  BY <2>1, <2>2
<1>9. FrameOwns(g) /\ FrameHolds(g) \subseteq FrameHolds(f)
  <2>1. FrameOwns(g) /\ FrameHolds(g) \subseteq FrameHolds(f) \cup Hand(g)
    BY <1>4, <1>6, <1>8, FrameTakes
  <2> QED  BY <2>1, <1>8 DEF FrameHolds
<1>10. Swept(g, queue)
  <2>1. \A k \in Positions(g.batch) : k < g.i => g.batch[k] = None
    <3> SUFFICES ASSUME NEW k \in Positions(f.batch), k < i + 1 PROVE g.batch[k] = None
      BY <1>5, <1>7
    <3>1. CASE k = i  BY <3>1, <1>6
    <3>2. CASE k # i
      <4>1. k < i  BY <3>2, <1>5 DEF Positions
      <4> QED  BY <4>1, <3>2, <1>3, <1>4, <1>6 DEF Swept
    <3> QED  BY <3>1, <3>2
  <2>2. g.kind = "pass" => Older(Elements(g.batch), Elements(queue))
    BY <1>4, <1>5, <1>7 DEF Swept, Older
  <2> QED  BY <2>1, <2>2, <1>4, <1>5, <1>7 DEF Swept
<1>11. Apart(Elements(queue), FrameHolds(g))  BY <1>4, <1>9 DEF Apart
<1>12. queue' = queue /\ queue \in Seq(Entry)  BY <1>1 DEF TypeOK
<1> QED  BY <1>1, <1>2, <1>4, <1>9, <1>10, <1>11, <1>12, TopMoves

LEMMA NextExpiryFrame ==
    ASSUME TypeOK, NextExpiry
    PROVE  \E g \in FrameType :
            /\ SetTop(g)
            /\ Top.j \in 1 .. Len(Top.timers)
            /\ g.timers = [Top.timers EXCEPT ![Top.j] = None]
            /\ g.batch = Top.batch
            /\ g.i = Top.i /\ g.j = Top.j + 1 /\ g.kind = Top.kind /\ g.deleted = Top.deleted
            /\ LET e == Top.timers[Top.j]
               IN  g.hand = IF e = None \/ e.recv \in Top.deleted THEN Top.hand ELSE e
<1>1. Top \in FrameType  BY TopType DEF NextExpiry, BetweenDispatches
<1> DEFINE f == [Top EXCEPT !.timers[Top.j] = None, !.j = @ + 1]
           b == [Top.timers EXCEPT ![Top.j] = None]
           n == Top.j + 1
           e == Top.timers[Top.j]
<1>2. Top.timers \in Seq(Slot) /\ Top.j \in 1 .. Len(Top.timers) /\ Top.j \in Nat \ {0}
  BY <1>1, FrameFields DEF NextExpiry
<1>3. e \in Slot /\ None \in Slot /\ n \in Nat \ {0}  BY <1>2 DEF Slot
<1>4. b \in Seq(Slot)  BY <1>2, <1>3, ExceptSeq
<1>5. f = [Top EXCEPT !.timers = b, !.j = n]  OBVIOUS
<1>6. SetTop(TakeUp(f, e))  BY DEF NextExpiry
<1>7. n = Top.j + 1 /\ b = [Top.timers EXCEPT ![Top.j] = None]  OBVIOUS
<1> HIDE DEF b, n, f, e
<1>8. /\ f \in FrameType /\ f.batch = Top.batch /\ f.timers = b /\ f.i = Top.i /\ f.j = n
      /\ f.kind = Top.kind /\ f.deleted = Top.deleted /\ f.hand = Top.hand
  BY <1>1, <1>3, <1>4, <1>5 DEF FrameType
<1> DEFINE g == TakeUp(f, e)
<1>9. /\ g \in FrameType /\ g.batch = Top.batch /\ g.timers = b /\ g.i = Top.i /\ g.j = n
      /\ g.kind = Top.kind /\ g.deleted = Top.deleted
      /\ g.hand = IF e = None \/ e.recv \in Top.deleted THEN Top.hand ELSE e
  BY <1>3, <1>8, TakeUpFields
<1> HIDE DEF g
<1>10. SetTop(g)  BY <1>6 DEF g
<1> USE DEF e
<1> QED  BY <1>2, <1>7, <1>9, <1>10

LEMMA NextExpiryMoves ==
    ASSUME TypeOK, HeldInv, Numbered(queue, nextId), NextExpiry
    PROVE  HeldInv' /\ Traced
<1>1. PICK g \in FrameType :
            /\ SetTop(g)
            /\ Top.j \in 1 .. Len(Top.timers)
            /\ g.timers = [Top.timers EXCEPT ![Top.j] = None]
            /\ g.batch = Top.batch
            /\ g.i = Top.i /\ g.j = Top.j + 1 /\ g.kind = Top.kind /\ g.deleted = Top.deleted
            /\ LET e == Top.timers[Top.j]
               IN  g.hand = IF e = None \/ e.recv \in Top.deleted THEN Top.hand ELSE e
  BY NextExpiryFrame
<1>0. /\ frames # <<>> /\ Top.hand = None /\ Top.kind = "pass" /\ nextId' = nextId
      /\ queue' = queue /\ queue \in Seq(Entry)
  BY DEF NextExpiry, BetweenDispatches, TypeOK
<1>2. PICK f \in FrameType : f = Top  BY <1>0, TopType
<1>3. PICK i : i = f.j  OBVIOUS
<1>4. /\ FrameOwns(f) /\ Swept(f, queue) /\ Once(queue)
      /\ Apart(Elements(queue), FrameHolds(f))
  BY <1>0, <1>2, TopHeld
<1>5. /\ f.batch \in Seq(Slot) /\ f.timers \in Seq(Slot) /\ i \in 1 .. Len(f.timers) /\ i \in Nat
      /\ f.hand = None /\ g.hand \in {None, f.timers[i]}
      /\ g.timers = [f.timers EXCEPT ![i] = None] /\ g.batch = f.batch
      /\ g.j = i + 1 /\ g.i = f.i /\ g.kind = f.kind /\ f.kind = "pass"
  BY <1>0, <1>1, <1>2, <1>3, FrameFields
<1>6. /\ Thins(g.batch, f.batch) /\ Thins(g.timers, f.timers)
      /\ g.timers[i] = None /\ \A k \in Positions(f.timers) : k # i => g.timers[k] = f.timers[k]
  BY <1>5, ExceptThins DEF Thins
<1>7. Elements(g.timers) \subseteq Elements(f.timers) /\ Positions(g.timers) = Positions(f.timers)
  BY <1>5, <1>6, FrameFields, ThinsKeeps
<1>8. Hand(g) \subseteq Elements(f.timers) /\ Apart(Elements(g.batch) \cup Elements(g.timers), Hand(g))
  <2>1. CASE g.hand = None
    <3>1. Hand(g) = {}  BY <2>1 DEF Hand
    <3> QED  BY <3>1 DEF Apart
  <2>2. CASE g.hand # None
    <3>1. g.hand = f.timers[i] /\ f.timers[i] # None  BY <1>5, <2>2
    <3>2. Hand(g) = {f.timers[i]}  BY <3>1 DEF Hand
    <3>3. Apart(Elements(g.timers), {f.timers[i]}) /\ f.timers[i] \in Elements(f.timers)
      BY <1>4, <1>5, <3>1, ClaimedApart DEF FrameOwns
    <3>4. Apart(Elements(g.batch), {f.timers[i]})  BY <1>4, <1>5, <3>3 DEF FrameOwns, Apart
    <3> QED  BY <3>2, <3>3, <3>4 DEF Apart
  <2> QED  BY <2>1, <2>2
<1>9. FrameOwns(g) /\ FrameHolds(g) \subseteq FrameHolds(f)
  <2>1. FrameOwns(g) /\ FrameHolds(g) \subseteq FrameHolds(f) \cup Hand(g)
    BY <1>4, <1>6, <1>8, FrameTakes
  <2> QED  BY <2>1, <1>8 DEF FrameHolds
<1>10. Swept(g, queue)
  <2>1. \A k \in Positions(g.timers) : k < g.j => g.timers[k] = None
    <3> SUFFICES ASSUME NEW k \in Positions(f.timers), k < i + 1 PROVE g.timers[k] = None
      BY <1>5, <1>7
    <3>1. CASE k = i  BY <3>1, <1>6
    <3>2. CASE k # i
      <4>1. k < i  BY <3>2, <1>5 DEF Positions
      <4> QED  BY <4>1, <3>2, <1>3, <1>4, <1>6 DEF Swept
    <3> QED  BY <3>1, <3>2
  <2> QED  BY <2>1, <1>4, <1>5, <1>7 DEF Swept
<1>11. Apart(Elements(queue), FrameHolds(g))  BY <1>4, <1>9 DEF Apart
<1> QED  BY <1>0, <1>1, <1>2, <1>4, <1>9, <1>10, <1>11, TopMoves

\* Stealing the front of the live queue: what each holder has afterwards.
LEMMA StealFrame ==
    ASSUME TypeOK, frames # <<>>, Preempts, Steal
    PROVE  \E g \in FrameType :
            /\ SetTop(g)
            /\ queue # <<>> /\ queue' = Tail(queue)
            /\ g.batch = Top.batch /\ g.timers = Top.timers
            /\ g.i = Top.i /\ g.j = Top.j /\ g.kind = Top.kind /\ g.deleted = Top.deleted
            /\ LET e == Head(queue)
               IN  g.hand = IF e = None \/ e.recv \in Top.deleted THEN Top.hand ELSE e
<1>1. Top \in FrameType  BY TopType
<1>2. Top.budget \in Nat /\ Top.budget > 0 /\ queue # <<>> /\ queue \in Seq(Entry)
  BY <1>1 DEF Preempts, TypeOK, FrameType
<1> DEFINE f == [Top EXCEPT !.budget = @ - 1]
           n == Top.budget - 1
           e == Head(queue)
<1>3. n \in Nat /\ f = [Top EXCEPT !.budget = n]  BY <1>2
<1>4. e \in Slot  BY <1>2, HeadTailProperties DEF Slot
<1>5. SetTop(TakeUp(f, e)) /\ queue' = Tail(queue)  BY DEF Steal
<1> HIDE DEF n, f, e
<1>6. /\ f \in FrameType /\ f.batch = Top.batch /\ f.timers = Top.timers /\ f.i = Top.i /\ f.j = Top.j
      /\ f.kind = Top.kind /\ f.deleted = Top.deleted /\ f.hand = Top.hand
  BY <1>1, <1>3 DEF FrameType
<1> DEFINE g == TakeUp(f, e)
<1>7. /\ g \in FrameType /\ g.batch = Top.batch /\ g.timers = Top.timers /\ g.i = Top.i /\ g.j = Top.j
      /\ g.kind = Top.kind /\ g.deleted = Top.deleted
      /\ g.hand = IF e = None \/ e.recv \in Top.deleted THEN Top.hand ELSE e
  BY <1>4, <1>6, TakeUpFields
<1>8. SetTop(g)  BY <1>5
<1> HIDE DEF g
<1> USE DEF e
<1> QED  BY <1>2, <1>5, <1>7, <1>8

LEMMA StealMoves ==
    ASSUME TypeOK, HeldInv, Numbered(queue, nextId), nextId' = nextId,
           frames # <<>>, Top.hand = None, Preempts, Steal
    PROVE  HeldInv' /\ Traced
<1>1. PICK g \in FrameType :
            /\ SetTop(g)
            /\ queue # <<>> /\ queue' = Tail(queue)
            /\ g.batch = Top.batch /\ g.timers = Top.timers
            /\ g.i = Top.i /\ g.j = Top.j /\ g.kind = Top.kind /\ g.deleted = Top.deleted
            /\ LET e == Head(queue)
               IN  g.hand = IF e = None \/ e.recv \in Top.deleted THEN Top.hand ELSE e
  BY StealFrame
<1>2. PICK f \in FrameType : f = Top  BY TopType
<1>3. PICK q \in Seq(Entry) : q = queue  BY DEF TypeOK
<1>4. PICK t : t = Tail(q)  OBVIOUS
<1>5. PICK e : e = Head(q)  OBVIOUS
<1>6. /\ FrameOwns(f) /\ Swept(f, q) /\ Once(q) /\ Apart(Elements(q), FrameHolds(f))
      /\ f.hand = None /\ g.hand \in {None, e}
      /\ g.batch = f.batch /\ g.timers = f.timers /\ g.i = f.i /\ g.j = f.j /\ g.kind = f.kind
  BY <1>1, <1>2, <1>3, <1>5, TopHeld
<1>7. t \in Seq(Entry) /\ Within(t, q) /\ Len(q) \in Nat /\ Len(t) \in Nat
  <2>1. t \in Seq(Entry) /\ Within(t, q)  BY <1>1, <1>3, <1>4, TailWithin, HeadTailProperties
  <2> QED  BY <2>1
<1>8. Elements(t) \subseteq Elements(q) /\ Once(t)  BY <1>6, <1>7, WithinKeeps
<1>9. /\ 1 \in Positions(q) /\ e = q[1]
      /\ \A k \in Positions(t) : k + 1 \in Positions(q) /\ t[k] = q[k + 1] /\ k + 1 # 1
  BY <1>1, <1>3, <1>4, <1>5, TailWithin
<1>10. e \in Elements(q) /\ e # None  BY <1>9, QueueElements, EntryFields
<1>11. ASSUME NEW x \in Elements(t) PROVE x.id # e.id
  <2>1. PICK k \in Positions(t) : t[k] = x /\ x # None  BY ElementOf
  <2> QED  BY <1>6, <1>9, <1>10, <2>1 DEF Once
<1>12. Hand(g) \subseteq {e}  BY <1>6 DEF Hand
<1>13. Thins(g.batch, f.batch) /\ Thins(g.timers, f.timers)  BY <1>6 DEF Thins
<1>14. Apart(Elements(g.batch) \cup Elements(g.timers), Hand(g))
  BY <1>6, <1>10, <1>12 DEF Apart, FrameHolds
<1>15. FrameOwns(g) /\ FrameHolds(g) \subseteq FrameHolds(f) \cup {e}
  <2>1. FrameOwns(g) /\ FrameHolds(g) \subseteq FrameHolds(f) \cup Hand(g)
    BY <1>6, <1>13, <1>14, FrameTakes
  <2> QED  BY <2>1, <1>12
<1>16. Apart(Elements(t), FrameHolds(g))
  <2> SUFFICES ASSUME NEW x \in Elements(t), NEW y \in FrameHolds(g) PROVE x.id # y.id
    BY DEF Apart
  <2>1. CASE y = e  BY <2>1, <1>11
  <2>2. CASE y \in FrameHolds(f)  BY <2>2, <1>6, <1>8 DEF Apart
  <2> QED  BY <2>1, <2>2, <1>15
<1>17. Swept(g, t)
  <2>1. f.kind = "pass" => Older(Elements(f.batch), Elements(t))
    BY <1>6, <1>8 DEF Swept, Older
  <2> QED  BY <2>1, <1>6 DEF Swept
<1>18. queue' = t  BY <1>1, <1>3, <1>4
<1> QED
  BY <1>1, <1>2, <1>3, <1>7, <1>8, <1>10, <1>15, <1>16, <1>17, <1>18, TopMoves

\* A frame fresh from the queue.
LEMMA FrameBegins ==
    ASSUME NEW b \in Seq(Slot), NEW t \in Seq(Slot), NEW q, NEW kind \in {"pass", "drain"},
           Once(b), Once(t), Apart(Elements(b), Elements(t)), Ranked(b),
           kind = "drain" => t = <<>>,
           kind = "pass" => Older(Elements(b), Elements(q)),
           NEW g \in FrameType, g.kind = kind, g.batch = b, g.timers = t, g.i = 1, g.j = 1, g.hand = None
    PROVE  /\ FrameOwns(g)
           /\ Swept(g, q)
           /\ FrameHolds(g) = Elements(b) \cup Elements(t)
<1>1. Hand(g) = {}  BY DEF Hand
<1>2. FrameOwns(g)  BY <1>1 DEF FrameOwns, Apart
<1>3. /\ \A k \in Positions(b) : ~(k < 1)
      /\ \A k \in Positions(t) : ~(k < 1)
  BY DEF Positions
<1>4. Swept(g, q)  BY <1>3 DEF Swept
<1> QED  BY <1>1, <1>2, <1>4 DEF FrameHolds

LEMMA ExpiriesHold ==
    ASSUME TypeOK, NEW due
    PROVE  /\ Expiries(due) \in Seq(Entry)
           /\ Once(Expiries(due))
           /\ \A x \in Elements(Expiries(due)) :
                x.type = "Timer" /\ New(x, nextId, nextId + Len(Expiries(due)))
<1> DEFINE fired == Picked(timers, {k \in Positions(timers) : timers[k] \in due})
           x == [k \in Positions(fired) |->
                    [id |-> nextId + k - 1, recv |-> fired[k], type |-> "Timer", prio |-> kNormal,
                     target |-> "here"]]
<1>1. Expiries(due) \in Seq(Entry)  BY ExpiriesType
<1>2. Expiries(due) = x  BY DEF Expiries
<1>3. fired \in Seq(Receivers)  BY PickedFrom DEF TypeOK
<1> HIDE DEF fired
<1>4. Len(fired) \in Nat /\ Len(x) = Len(fired) /\ Positions(x) = Positions(fired)
  BY <1>3, SMTT(30) DEF Positions
<1>5. \A k \in Positions(x) : x[k].id = nextId + k - 1 /\ x[k].type = "Timer"  BY <1>4
<1>6. nextId \in Nat  BY DEF TypeOK
<1> HIDE DEF x
<1>7. \A k \in Positions(x) : k \in Nat /\ 1 <= k /\ k <= Len(x)  BY <1>4 DEF Positions
<1>8. Once(x)  BY <1>5, <1>6, <1>7 DEF Once
<1>9. ASSUME NEW y \in Elements(x) PROVE y.type = "Timer" /\ New(y, nextId, nextId + Len(x))
  <2>1. PICK k \in Positions(x) : x[k] = y  BY ElementOf
  <2> QED  BY <1>4, <1>5, <1>6, <1>7, <2>1 DEF New
<1> QED  BY <1>1, <1>2, <1>8, <1>9

LEMMA BeginPassMoves ==
    ASSUME TypeOK, HeldInv, QueueInv(queue, nextId), NEW due, BeginPass(due)
    PROVE  HeldInv' /\ Traced
<1>1. PICK x : x = Expiries(due)  OBVIOUS
<1>2. PICK q \in Seq(Entry) : q = queue  BY DEF TypeOK
<1>3. PICK n \in Nat : n = nextId  BY DEF TypeOK
<1>4. PICK fs \in Seq(FrameType) : fs = frames  BY DEF TypeOK
<1>5. /\ x \in Seq(Entry) /\ Once(x) /\ Len(x) \in Nat
      /\ \A y \in Elements(x) : New(y, n, n + Len(x))
  <2>1. x \in Seq(Entry)  BY <1>1, ExpiriesHold
  <2> QED  BY <2>1, <1>1, <1>3, ExpiriesHold, SMTT(30)
<1>6. PICK g : g = Frame("pass", q, x)  OBVIOUS
<1>7. q \in Seq(Slot) /\ x \in Seq(Slot)  BY <1>5, EntriesAreSlots
<1>8. /\ g \in FrameType /\ g.kind = "pass" /\ g.batch = q /\ g.timers = x
      /\ g.i = 1 /\ g.j = 1 /\ g.hand = None
  BY <1>6, <1>7, FrameIntro DEF Frame
<1>9. frames' = Append(fs, g) /\ queue' = <<>> /\ nextId' = n + Len(x)
  BY <1>1, <1>2, <1>3, <1>4, <1>6 DEF BeginPass
<1>10. PICK m : m = Len(fs) + 1  OBVIOUS
<1>11. /\ frames' \in Seq(FrameType)
       /\ \A d \in Positions(frames') : d # m => d \in Positions(fs) /\ frames'[d] = fs[d]
       /\ frames'[m] = g
  <2>1. /\ Append(fs, g) \in Seq(FrameType) /\ Len(Append(fs, g)) = Len(fs) + 1 /\ Len(fs) \in Nat
        /\ \A d \in 1 .. Len(fs) : Append(fs, g)[d] = fs[d]
        /\ Append(fs, g)[Len(fs) + 1] = g
    BY <1>8, AppendProperties
  <2> QED  BY <1>9, <1>10, <2>1 DEF Positions
<1>12. /\ Held(q, fs, n) /\ Numbered(q, n) /\ Ranked(q) /\ Once(q)
  BY <1>2, <1>3, <1>4, QueueElements DEF HeldInv, QueueInv, Held, Owned
<1>13. Apart(Elements(q), Elements(x))
  <2> SUFFICES ASSUME NEW a \in Elements(q), NEW b \in Elements(x) PROVE a.id # b.id
    BY DEF Apart
  <2>1. PICK k \in Positions(q) : q[k] = a  BY ElementOf
  <2>2. a \in Entry /\ b \in Entry  BY <1>5, QueueElements
  <2> QED  BY <1>5, <1>12, <2>1, <2>2, EntryFields DEF New, Numbered
<1>14. PICK t : t = <<>>  OBVIOUS
<1>15. t \in Seq(Entry) /\ Elements(t) = {} /\ Once(t)  BY <1>14, EmptyHolds
<1>16. /\ FrameOwns(g) /\ Swept(g, t)
       /\ FrameHolds(g) = Elements(q) \cup Elements(x)
  <2>1. Older(Elements(q), Elements(t))  BY <1>15 DEF Older
  <2> QED  BY <1>5, <1>7, <1>8, <1>12, <1>13, <2>1, FrameBegins
<1>17. PICK n2 \in Nat : n2 = n + Len(x) /\ n <= n2  BY <1>5
<1>18. \A d \in Positions(frames') : d # m => d \in Positions(fs) /\ Shrinks(frames'[d], fs[d])
  BY <1>11, ShrinksReflexive
<1>19. \A d \in Positions(frames') : d = m =>
            /\ FrameOwns(frames'[d])
            /\ Swept(frames'[d], t)
            /\ Apart(Elements(t), FrameHolds(frames'[d]))
            /\ \A y \in FrameHolds(frames'[d]) :
                \/ y \in Elements(q)
                \/ New(y, n, n2)
                \/ d \in Positions(fs) /\ y \in FrameHolds(fs[d])
  BY <1>5, <1>11, <1>15, <1>16, <1>17 DEF Apart
<1>20. \A y \in Elements(t) : y \in Elements(q) \/ New(y, n, n2)  BY <1>15
<1>21. Held(t, frames', n2) /\ Traces(q, fs, n, t, frames', n2)
  BY <1>11, <1>12, <1>15, <1>17, <1>18, <1>19, <1>20, FramesMove
<1> QED  BY <1>2, <1>3, <1>4, <1>9, <1>14, <1>17, <1>21 DEF HeldInv, Traced

\* A drain parts the queue in two.
LEMMA DrainParts ==
    ASSUME NEW q \in Seq(Entry), Once(q), q = queue
    PROVE  /\ DeferredDeletes \in Seq(Entry) /\ DrainedQueue \in Seq(Entry)
           /\ Once(DeferredDeletes) /\ Once(DrainedQueue)
           /\ Ranked(q) => Ranked(DeferredDeletes)
           /\ Elements(DeferredDeletes) \subseteq Elements(q)
           /\ Elements(DrainedQueue) \subseteq Elements(q)
           /\ \A x \in Elements(q) :
                IF x.type = "DeferredDelete" THEN x \in Elements(DeferredDeletes)
                                             ELSE x \in Elements(DrainedQueue)
           /\ \A x \in Elements(DeferredDeletes) : x.type = "DeferredDelete"
           /\ \A x \in Elements(DrainedQueue) : x.type # "DeferredDelete"
           /\ Apart(Elements(DrainedQueue), Elements(DeferredDeletes))
<1> DEFINE P == {k \in Positions(q) : q[k].type = "DeferredDelete"}
           R == {k \in Positions(q) : q[k].type # "DeferredDelete"}
<1>1. PICK a : a = Picked(q, P)  OBVIOUS
<1>2. PICK b : b = Picked(q, R)  OBVIOUS
<1>3. DeferredDeletes = a /\ DrainedQueue = b  BY <1>1, <1>2 DEF DeferredDeletes, DrainedQueue
<1>4. /\ \A k \in Positions(q) : k \in P <=> q[k].type = "DeferredDelete"
      /\ \A k \in Positions(q) : k \in R <=> q[k].type # "DeferredDelete"
  OBVIOUS
<1> HIDE DEF P, R
<1>5. /\ a \in Seq(Entry) /\ Within(a, q)
      /\ \A x \in Elements(q) : (\A k \in Positions(q) : q[k] = x => k \in P) => x \in Elements(a)
      /\ \A x \in Elements(a) : \E k \in Positions(q) : k \in P /\ q[k] = x
  BY <1>1, PickedWithin
<1>6. /\ b \in Seq(Entry) /\ Within(b, q)
      /\ \A x \in Elements(q) : (\A k \in Positions(q) : q[k] = x => k \in R) => x \in Elements(b)
      /\ \A x \in Elements(b) : \E k \in Positions(q) : k \in R /\ q[k] = x
  BY <1>2, PickedWithin
<1>7. Len(a) \in Nat /\ Len(b) \in Nat /\ Len(q) \in Nat  BY <1>5, <1>6
<1>8. /\ Elements(a) \subseteq Elements(q) /\ Once(a) /\ (Ranked(q) => Ranked(a))
      /\ Elements(b) \subseteq Elements(q) /\ Once(b)
  BY <1>5, <1>6, <1>7, WithinKeeps
<1>9. /\ \A x \in Elements(a) : x.type = "DeferredDelete"
      /\ \A x \in Elements(b) : x.type # "DeferredDelete"
  BY <1>4, <1>5, <1>6
<1>10. \A x \in Elements(q) : IF x.type = "DeferredDelete" THEN x \in Elements(a) ELSE x \in Elements(b)
  BY <1>4, <1>5, <1>6
<1>11. Apart(Elements(b), Elements(a))
  <2> SUFFICES ASSUME NEW x \in Elements(b), NEW y \in Elements(a) PROVE x.id # y.id
    BY DEF Apart
  <2>1. PICK k \in Positions(q) : k \in R /\ q[k] = x  BY <1>6
  <2>2. PICK l \in Positions(q) : l \in P /\ q[l] = y  BY <1>5
  <2>3. q[k] # None /\ q[l] # None  BY QueueElements, EntryFields
  <2>4. k # l  BY <1>4, <2>1, <2>2
  <2> QED  BY <2>1, <2>2, <2>3, <2>4 DEF Once
<1> QED  BY <1>3, <1>5, <1>6, <1>8, <1>9, <1>10, <1>11

\* A frame of the drain, first or renewed.
LEMMA DrainFrame ==
    ASSUME TypeOK, HeldInv, QueueInv(queue, nextId),
           NEW g \in FrameType, g.kind = "drain", g.batch = DeferredDeletes, g.timers = <<>>,
           g.i = 1, g.j = 1, g.hand = None
    PROVE  /\ FrameOwns(g)
           /\ Swept(g, DrainedQueue)
           /\ FrameHolds(g) = Elements(DeferredDeletes)
<1>1. PICK q \in Seq(Entry) : q = queue  BY DEF TypeOK
<1>2. Once(q) /\ Ranked(q)  BY <1>1, QueueElements DEF HeldInv, Held, Owned, QueueInv
<1>3. PICK b : b = DeferredDeletes  OBVIOUS
<1>4. b \in Seq(Entry) /\ Once(b) /\ Ranked(b)  BY <1>1, <1>2, <1>3, DrainParts
<1>5. PICK t : t = <<>>  OBVIOUS
<1>6. Once(t) /\ Apart(Elements(b), Elements(t)) /\ Elements(t) = {} /\ t \in Seq(Slot)
  BY <1>5, EmptyHolds DEF Apart
<1>7. b \in Seq(Slot)  BY <1>4, EntriesAreSlots
<1>8. g.batch = b /\ g.timers = t  BY <1>3, <1>5
<1>9. FrameOwns(g) /\ Swept(g, DrainedQueue) /\ FrameHolds(g) = Elements(b) \cup Elements(t)
  BY <1>4, <1>5, <1>6, <1>7, <1>8, FrameBegins
<1> QED  BY <1>3, <1>6, <1>9

\* The frame DrainAgain renews.
DrainTop == [Frame("drain", DeferredDeletes, <<>>) EXCEPT !.deleted = Top.deleted]

LEMMA DrainTopFields ==
    ASSUME TypeOK, NEW g, \/ g = Frame("drain", DeferredDeletes, <<>>)
                          \/ g = DrainTop /\ frames # <<>>
    PROVE  /\ g \in FrameType
           /\ g.kind = "drain" /\ g.batch = DeferredDeletes /\ g.timers = <<>>
           /\ g.i = 1 /\ g.j = 1 /\ g.hand = None
           /\ g = DrainTop => g.deleted = Top.deleted
<1>1. PICK b \in Seq(Slot) : b = DeferredDeletes
  <2>1. DeferredDeletes \in Seq(Entry)  BY PickedFrom DEF DeferredDeletes, TypeOK
  <2> QED  BY <2>1, EntriesAreSlots
<1>2. PICK h : h = Frame("drain", b, <<>>)  OBVIOUS
<1>3. /\ h \in FrameType /\ h.kind = "drain" /\ h.batch = b /\ h.timers = <<>>
      /\ h.i = 1 /\ h.j = 1 /\ h.hand = None
  <2>1. <<>> \in Seq(Slot)  OBVIOUS
  <2>2. h \in FrameType  BY <1>2, <2>1, FrameIntro
  <2> QED  BY <1>2, <2>2 DEF Frame
<1>4. CASE g = DrainTop /\ frames # <<>>
  <2>1. PICK d \in SUBSET Receivers : d = Top.deleted  BY <1>4, TopType DEF FrameType
  <2>2. g = [h EXCEPT !.deleted = d]  BY <1>1, <1>2, <1>4, <2>1 DEF DrainTop
  <2>3. /\ g \in FrameType /\ g.kind = "drain" /\ g.batch = b /\ g.timers = <<>>
        /\ g.i = 1 /\ g.j = 1 /\ g.hand = None /\ g.deleted = d
    BY <1>3, <2>1, <2>2 DEF FrameType
  <2> QED  BY <1>1, <2>1, <2>3
<1>5. CASE g = h /\ g # DrainTop  BY <1>1, <1>3, <1>5
<1>6. CASE g = h /\ g = DrainTop
  <2>1. g.deleted = Top.deleted  BY <1>2, <1>3, <1>6 DEF DrainTop, FrameType
  <2> QED  BY <1>1, <1>3, <1>6, <2>1
<1> QED  BY <1>1, <1>2, <1>4, <1>5, <1>6

LEMMA FrontFrames ==
    ASSUME TypeOK, frames # <<>>, frames' = Front(frames)
    PROVE  /\ frames' \in Seq(FrameType)
           /\ Len(frames') = Len(frames) - 1
           /\ \A d \in Positions(frames') : d \in Positions(frames) /\ frames'[d] = frames[d]
<1> DEFINE n == Len(frames) - 1
<1>1. n \in Nat /\ n <= Len(frames) /\ frames' = SubSeq(frames, 1, n) /\ frames \in Seq(FrameType)
  BY DEF Front, TypeOK
<1>2. \A d \in 1 .. n : d \in 1 .. Len(frames)  BY <1>1
<1>3. n = Len(frames) - 1  OBVIOUS
<1> HIDE DEF n
<1>4. \A d \in 1 .. n : frames[d] \in FrameType  BY <1>1, <1>2
<1>5. Len(frames') = n /\ \A d \in 1 .. n : frames'[d] = frames[d]
  BY <1>1, <1>4, SubSeqProperties
<1>6. frames' \in Seq(FrameType)  BY TopType
<1> QED  BY <1>2, <1>3, <1>5, <1>6 DEF Positions

LEMMA DrainMoves ==
    ASSUME TypeOK, HeldInv, QueueInv(queue, nextId), BeginDrain \/ DrainAgain
    PROVE  HeldInv' /\ Traced
<1>1. PICK q \in Seq(Entry) : q = queue  BY DEF TypeOK
<1>2. PICK n \in Nat : n = nextId  BY DEF TypeOK
<1>3. PICK fs \in Seq(FrameType) : fs = frames  BY DEF TypeOK
<1>4. Held(q, fs, n) /\ Numbered(q, n) /\ Once(q)
  BY <1>1, <1>2, <1>3 DEF HeldInv, QueueInv, Held, Owned
<1>5. PICK a : a = DeferredDeletes  OBVIOUS
<1>6. PICK b : b = DrainedQueue  OBVIOUS
<1>7. /\ b \in Seq(Entry) /\ Once(b) /\ Elements(b) \subseteq Elements(q)
      /\ Elements(a) \subseteq Elements(q) /\ Apart(Elements(b), Elements(a))
  BY <1>1, <1>4, <1>5, <1>6, DrainParts
<1>8. queue' = b /\ nextId' = n  BY <1>2, <1>6 DEF BeginDrain, DrainAgain
<1>9. ASSUME NEW g, \/ g = Frame("drain", DeferredDeletes, <<>>)
                    \/ g = DrainTop /\ frames # <<>>
      PROVE  /\ g \in FrameType /\ FrameOwns(g) /\ Swept(g, b) /\ FrameHolds(g) = Elements(a)
  <2>1. /\ g \in FrameType
        /\ g.kind = "drain" /\ g.batch = DeferredDeletes /\ g.timers = <<>>
        /\ g.i = 1 /\ g.j = 1 /\ g.hand = None
    BY <1>9, DrainTopFields
  <2> QED  BY <1>5, <1>6, <2>1, DrainFrame
<1>10. CASE BeginDrain
  <2>1. PICK g : g = Frame("drain", DeferredDeletes, <<>>)  OBVIOUS
  <2>2. g \in FrameType /\ FrameOwns(g) /\ Swept(g, b) /\ FrameHolds(g) = Elements(a)
    BY <1>9, <2>1
  <2>3. frames' = <<g>>  BY <1>10, <2>1 DEF BeginDrain
  <2>4. frames' \in Seq(FrameType) /\ Positions(frames') = {1} /\ frames'[1] = g
    BY <2>2, <2>3 DEF Positions
  <2>5. \A d \in Positions(frames') : d = 1  BY <2>4
  <2>6. \A d \in Positions(frames') : d = 1 =>
            /\ FrameOwns(frames'[d]) /\ Swept(frames'[d], b)
            /\ Apart(Elements(b), FrameHolds(frames'[d]))
            /\ \A x \in FrameHolds(frames'[d]) :
                \/ x \in Elements(q)
                \/ New(x, n, n)
                \/ d \in Positions(fs) /\ x \in FrameHolds(fs[d])
    BY <1>7, <2>2, <2>4
  <2>7. \A d \in Positions(frames') : d # 1 => d \in Positions(fs) /\ Shrinks(frames'[d], fs[d])
    BY <2>5
  <2>8. n <= n  OBVIOUS
  <2>9. \A x \in Elements(b) : x \in Elements(q) \/ New(x, n, n)  BY <1>7
  <2>10. Held(b, frames', n) /\ Traces(q, fs, n, b, frames', n)
    BY <1>4, <1>7, <2>4, <2>6, <2>7, <2>8, <2>9, FramesMove
  <2> QED  BY <1>1, <1>2, <1>3, <1>8, <2>10 DEF HeldInv, Traced
<1>11. CASE DrainAgain /\ DeferredDeletes # <<>>
  <2>1. frames # <<>> /\ SetTop(DrainTop)  BY <1>11 DEF DrainAgain, BetweenDispatches, DrainTop
  <2>2. PICK g : g = DrainTop  OBVIOUS
  <2>3. g \in FrameType /\ FrameOwns(g) /\ Swept(g, b) /\ FrameHolds(g) = Elements(a)
    BY <1>9, <2>1, <2>2
  <2>4. SetTop(g)  BY <2>1, <2>2
  <2>5. Numbered(queue, nextId) /\ nextId' = nextId  BY <1>2, <1>8 DEF QueueInv
  <2>6. /\ queue' \in Seq(Entry) /\ Once(queue') /\ Elements(queue') \subseteq Elements(queue)
        /\ Swept(g, queue') /\ Apart(Elements(queue'), FrameHolds(g))
        /\ FrameHolds(g) \subseteq Elements(queue) \cup FrameHolds(Top)
    BY <1>1, <1>7, <1>8, <2>3
  <2> QED  BY <2>1, <2>3, <2>4, <2>5, <2>6, TopMoves
<1>12. CASE DrainAgain /\ DeferredDeletes = <<>>
  <2>1. frames # <<>> /\ frames' = Front(frames)  BY <1>12 DEF DrainAgain, BetweenDispatches
  <2>2. /\ frames' \in Seq(FrameType)
        /\ \A d \in Positions(frames') : d \in Positions(frames) /\ Shrinks(frames'[d], frames[d])
    BY <2>1, FrontFrames, ShrinksReflexive
  <2>3. /\ queue' \in Seq(Entry) /\ Once(queue') /\ nextId' \in Nat /\ nextId <= nextId'
        /\ \A x \in Elements(queue') : x \in Elements(queue) \/ New(x, nextId, nextId')
    BY <1>1, <1>2, <1>7, <1>8
  <2> QED  BY <2>2, <2>3, QueueMoves DEF QueueInv
<1> QED  BY <1>10, <1>11, <1>12

LEMMA PostMoves ==
    ASSUME TypeOK, HeldInv, QueueInv(queue, nextId), NEW e \in Entry, e.id = nextId,
           nextId' = nextId + 1, frames' = frames,
           \/ queue' = InsertByPriority(queue, e)
           \/ \E policy : queue' = AfterAdmission(queue, e, policy)
    PROVE  HeldInv' /\ Traced
<1>1. PICK q \in Seq(Entry) : q = queue  BY DEF TypeOK
<1>2. PICK n \in Nat : n = nextId  BY DEF TypeOK
<1>3. Once(q) /\ Numbered(q, n)  BY <1>1, <1>2 DEF HeldInv, Held, Owned, QueueInv
<1>4. Apart(Elements(q), {e})
  <2> SUFFICES ASSUME NEW x \in Elements(q) PROVE x.id # e.id  BY DEF Apart
  <2>1. PICK k \in Positions(q) : q[k] = x  BY ElementOf
  <2>2. x \in Entry  BY QueueElements
  <2> QED  BY <1>2, <1>3, <2>1, <2>2, EntryFields DEF Numbered
<1>5. queue' \in Seq(Entry) /\ Once(queue') /\ Elements(queue') \subseteq Elements(q) \cup {e}
  BY <1>1, <1>3, <1>4, InsertHolds, AdmitHolds, AfterAdmissionType
<1>6. New(e, n, n + 1) /\ n + 1 \in Nat /\ n <= n + 1  BY <1>2 DEF New
<1>7. /\ frames' \in Seq(FrameType)
      /\ \A d \in Positions(frames') : d \in Positions(frames) /\ Shrinks(frames'[d], frames[d])
  BY ShrinksReflexive DEF TypeOK
<1>8. \A x \in Elements(queue') : x \in Elements(queue) \/ New(x, nextId, nextId')
  BY <1>1, <1>2, <1>5, <1>6
<1> QED  BY <1>2, <1>5, <1>6, <1>7, <1>8, QueueMoves DEF QueueInv

\* Stopping a timer clears expiries and does nothing else to a frame.
LEMMA UnregisterShrinks ==
    ASSUME TypeOK, NEW r, UnregisterTimer(r)
    PROVE  /\ Len(frames') = Len(frames)
           /\ \A d \in Positions(frames') :
                /\ d \in Positions(frames)
                /\ Shrinks(frames'[d], frames[d])
                /\ frames'[d].batch = WithoutExpiries(frames[d].batch, r)
                /\ frames'[d].timers = WithoutExpiries(frames[d].timers, r)
                /\ frames'[d].deleted = frames[d].deleted
<1> DEFINE h(f) == [f EXCEPT !.batch = WithoutExpiries(@, r), !.timers = WithoutExpiries(@, r)]
<1>1. frames' = [c \in Positions(frames) |-> h(frames[c])] /\ Len(frames) \in Nat
  BY FramesHaveSlots DEF UnregisterTimer
<1> HIDE DEF h
<1>2. Len(frames') = Len(frames)  BY <1>1 DEF Positions
<1>3. ASSUME NEW d \in Positions(frames')
      PROVE  /\ d \in Positions(frames)
             /\ Shrinks(frames'[d], frames[d])
             /\ frames'[d].batch = WithoutExpiries(frames[d].batch, r)
             /\ frames'[d].timers = WithoutExpiries(frames[d].timers, r)
             /\ frames'[d].deleted = frames[d].deleted
  <2>1. d \in Positions(frames) /\ frames'[d] = h(frames[d])
    BY <1>1, <1>2, <1>3 DEF Positions
  <2>2. PICK f \in FrameType : f = frames[d]  BY <2>1, FramesHaveSlots
  <2>3. PICK b : b = WithoutExpiries(f.batch, r)  OBVIOUS
  <2>4. PICK t : t = WithoutExpiries(f.timers, r)  OBVIOUS
  <2>5. Thins(b, f.batch) /\ Thins(t, f.timers)  BY <2>3, <2>4, FrameFields, ClearedThins
  <2>6. PICK g : g = [f EXCEPT !.batch = b, !.timers = t]  OBVIOUS
  <2>7. g = h(f)  BY <2>3, <2>4, <2>6 DEF h
  <2>8. /\ Shrinks(g, f) /\ g.batch = b /\ g.timers = t /\ g.deleted = f.deleted
    BY <2>5, <2>6 DEF Shrinks, FrameType
  <2> QED  BY <2>1, <2>2, <2>3, <2>4, <2>7, <2>8
<1> QED  BY <1>2, <1>3

LEMMA UnregisterMoves ==
    ASSUME TypeOK, HeldInv, QueueInv(queue, nextId), NEW r, UnregisterTimer(r), TypeOK'
    PROVE  HeldInv' /\ Traced
<1>1. queue' \in Seq(Entry) /\ frames' \in Seq(FrameType) /\ queue \in Seq(Entry)  BY DEF TypeOK
<1>2. Once(queue') /\ Elements(queue') \subseteq Elements(queue)
  <2>1. Within(queue', queue)  BY <1>1, PickedWithin DEF UnregisterTimer
  <2>2. Len(queue) \in Nat /\ Len(queue') \in Nat  BY <1>1
  <2> QED  BY <2>1, <2>2, WithinKeeps DEF HeldInv, Held, Owned
<1>3. \A d \in Positions(frames') : d \in Positions(frames) /\ Shrinks(frames'[d], frames[d])
  BY UnregisterShrinks
<1>4. nextId' \in Nat /\ nextId <= nextId'
  <2>1. nextId' = nextId /\ nextId \in Nat  BY DEF TypeOK, UnregisterTimer
  <2> QED  BY <2>1
<1> QED  BY <1>1, <1>2, <1>3, <1>4, QueueMoves DEF QueueInv

LEMMA EndDispatchFrame ==
    ASSUME TypeOK, EndDispatch
    PROVE  \E g \in FrameType :
            /\ SetTop(g)
            /\ g.batch = Top.batch /\ g.timers = Top.timers
            /\ g.i = Top.i /\ g.j = Top.j /\ g.kind = Top.kind /\ g.hand = None
            /\ Top.deleted \subseteq g.deleted
<1>1. Top \in FrameType /\ Top.hand \in Entry
  BY TopType DEF EndDispatch, FrameType, Slot
<1> DEFINE d == IF Top.hand.type = "DeferredDelete" THEN Top.deleted \cup {Top.hand.recv}
                ELSE Top.deleted
           g == [Top EXCEPT !.hand = None, !.deleted = d]
<1>2. d \in SUBSET Receivers /\ Top.deleted \subseteq d /\ None \in Slot
  BY <1>1 DEF FrameType, Entry, Slot
<1>3. SetTop(g)  BY DEF EndDispatch
<1> HIDE DEF d
<1>4. /\ g \in FrameType /\ g.batch = Top.batch /\ g.timers = Top.timers
      /\ g.i = Top.i /\ g.j = Top.j /\ g.kind = Top.kind /\ g.hand = None /\ g.deleted = d
  BY <1>1, <1>2 DEF FrameType
<1> HIDE DEF g
<1> QED  BY <1>2, <1>3, <1>4

LEMMA EndDispatchMoves ==
    ASSUME TypeOK, HeldInv, Numbered(queue, nextId), EndDispatch
    PROVE  HeldInv' /\ Traced
<1>1. PICK g \in FrameType :
            /\ SetTop(g)
            /\ g.batch = Top.batch /\ g.timers = Top.timers
            /\ g.i = Top.i /\ g.j = Top.j /\ g.kind = Top.kind /\ g.hand = None
  BY EndDispatchFrame
<1>2. frames # <<>> /\ queue' = queue /\ nextId' = nextId /\ queue \in Seq(Entry)
  BY DEF EndDispatch, TypeOK
<1>3. PICK f \in FrameType : f = Top  BY <1>2, TopType
<1>4. FrameOwns(f) /\ Swept(f, queue) /\ Once(queue) /\ Apart(Elements(queue), FrameHolds(f))
  BY <1>2, <1>3, TopHeld
<1>5. Hand(g) = {}  BY <1>1 DEF Hand
<1>6. Thins(g.batch, f.batch) /\ Thins(g.timers, f.timers)  BY <1>1, <1>3 DEF Thins
<1>7. FrameOwns(g) /\ FrameHolds(g) \subseteq FrameHolds(f)
  <2>1. Apart(Elements(g.batch) \cup Elements(g.timers), Hand(g))  BY <1>5 DEF Apart
  <2>2. FrameOwns(g) /\ FrameHolds(g) \subseteq FrameHolds(f) \cup Hand(g)
    BY <1>4, <1>6, <2>1, FrameTakes
  <2> QED  BY <1>5, <2>2
<1>8. Swept(g, queue)  BY <1>1, <1>3, <1>4 DEF Swept
<1>9. Apart(Elements(queue), FrameHolds(g))  BY <1>4, <1>7 DEF Apart
<1> QED  BY <1>1, <1>2, <1>3, <1>4, <1>7, <1>8, <1>9, TopMoves

\* Every step keeps every event in its one place, action by action.
LEMMA StepHeld ==
    TypeOK /\ QueueInv(queue, nextId) /\ HeldInv /\ [Next]_vars => HeldInv' /\ Traced
<1> SUFFICES ASSUME TypeOK, QueueInv(queue, nextId), HeldInv, [Next]_vars PROVE HeldInv' /\ Traced
  OBVIOUS
<1>0. nextId \in Nat /\ kNormal \in Int /\ Numbered(queue, nextId) /\ TypeOK'
  BY StepType DEF TypeOK, kNormal, QueueInv
<1>a. ASSUME UNCHANGED <<queue, frames, nextId>> PROVE HeldInv' /\ Traced
  BY <1>a DEF HeldInv, Traced, Traces
<1>1. ASSUME NEW p \in Posters, NEW policy, NEW prio \in Priorities, PostEvent(p, policy, prio)
      PROVE  HeldInv' /\ Traced
  <2>1. prio \in Int /\ posting[p] # None  BY <1>1, DispatcherAssumption DEF PostEvent
  <2>2. PICK e \in Entry : e = Ticketed(p, prio) /\ e.id = nextId  BY <2>1, TicketedEntry
  <2>3. /\ queue' = AfterAdmission(queue, e, policy) /\ nextId' = nextId + 1
        /\ frames' = frames
    BY <1>1, <2>2 DEF PostEvent
  <2> QED  BY <2>2, <2>3, PostMoves
<1>2. ASSUME NEW p \in Posters, NEW prio \in Priorities, PostEventUnconditionally(p, prio)
      PROVE  HeldInv' /\ Traced
  <2>1. prio \in Int /\ posting[p] # None
    BY <1>2, DispatcherAssumption DEF PostEventUnconditionally
  <2>2. PICK e \in Entry : e = Ticketed(p, prio) /\ e.id = nextId  BY <2>1, TicketedEntry
  <2>3. /\ queue' = InsertByPriority(queue, e) /\ nextId' = nextId + 1
        /\ frames' = frames
    BY <1>2, <2>2 DEF PostEventUnconditionally
  <2> QED  BY <2>2, <2>3, PostMoves
<1>3. CASE Dies \/ \E r \in Receivers : MoveAway(r)
  <2>1. PICK r : (Strip(r) \/ UNCHANGED <<queue, frames>>) /\ nextId' = nextId
    BY <1>3, DiesStrips DEF MoveAway
  <2> QED  BY <1>0, <1>a, <2>1, StripMoves
<1>4. CASE Aims  BY <1>4, <1>a, AimsAreQuiet
<1>5. ASSUME NEW r \in Receivers, CreateObject(r) \/ LeaveOrReturn(r) \/ RegisterTimer(r)
      PROVE  HeldInv' /\ Traced
  BY <1>5, <1>a DEF CreateObject, LeaveOrReturn, RegisterTimer
<1>6. ASSUME NEW r \in Receivers, UnregisterTimer(r) PROVE HeldInv' /\ Traced
  BY <1>0, <1>6, UnregisterMoves
<1>7. ASSUME NEW c \in Capacities, SetEventQueueCapacity(c) PROVE HeldInv' /\ Traced
  BY <1>7, <1>a DEF SetEventQueueCapacity
<1>8. CASE Close  BY <1>8, <1>a DEF Close
<1>9. ASSUME NEW due, BeginPass(due) PROVE HeldInv' /\ Traced
  BY <1>9, BeginPassMoves
<1>10. CASE NextEvent
  <2>1. frames # <<>> /\ Top.hand = None /\ BatchLeft /\ nextId' = nextId
    BY <1>10 DEF NextEvent, BetweenDispatches
  <2>2. CASE Preempts  BY <1>0, <1>10, <2>1, <2>2, StealMoves DEF NextEvent
  <2>3. CASE ~Preempts  BY <1>0, <1>10, <2>1, <2>3, ClaimSlotMoves DEF NextEvent
  <2> QED  BY <2>2, <2>3
<1>11. CASE NextExpiry  BY <1>0, <1>11, NextExpiryMoves
<1>12. CASE EndPass
  <2>1. frames # <<>> /\ frames' = Front(frames) /\ queue' = queue /\ nextId' = nextId
    BY <1>12 DEF EndPass, BetweenDispatches
  <2>2. /\ frames' \in Seq(FrameType)
        /\ \A d \in Positions(frames') : d \in Positions(frames) /\ Shrinks(frames'[d], frames[d])
    BY <2>1, FrontFrames, ShrinksReflexive
  <2>3. /\ queue' \in Seq(Entry) /\ Once(queue') /\ nextId' \in Nat /\ nextId <= nextId'
        /\ \A x \in Elements(queue') : x \in Elements(queue) \/ New(x, nextId, nextId')
    BY <1>0, <2>1 DEF TypeOK, HeldInv, Held, Owned
  <2> QED  BY <1>0, <2>2, <2>3, QueueMoves
<1>14. CASE EndDispatch  BY <1>0, <1>14, EndDispatchMoves
<1>15. CASE BeginDrain \/ DrainAgain  BY <1>15, DrainMoves
<1>16. CASE NextDeferredDelete
  BY <1>0, <1>16, ClaimSlotMoves DEF NextDeferredDelete, BetweenDispatches
<1>17. CASE UNCHANGED vars  BY <1>17, <1>a DEF vars
<1> QED
  BY <1>1, <1>2, <1>3, <1>4, <1>5, <1>6, <1>7, <1>8, <1>9, <1>10, <1>11, <1>12,
     <1>14, <1>15, <1>16, <1>17
  DEF Next, Aims, Dies

LEMMA InitHeld == Init => HeldInv
<1> SUFFICES ASSUME Init PROVE HeldInv  OBVIOUS
<1>1. queue = <<>> /\ frames = <<>>  BY DEF Init
<1>2. Positions(frames) = {}  BY <1>1 DEF Positions
<1>3. Once(queue)  BY <1>1, EmptyHolds
<1> QED  BY <1>2, <1>3 DEF HeldInv, Held, Owned

\* The invariant of the events' places, in every behaviour.
LEMMA AlwaysHeld == Spec => [](TypeOK /\ QueueInv(queue, nextId) /\ HeldInv)
<1>1. Init => QueueInv(queue, nextId)
  BY DEF Init, QueueInv, Ordered, Numbered, Positions
<1>2. TypeOK /\ QueueInv(queue, nextId) /\ [Next]_vars => QueueInv(queue, nextId)'
  BY StepOrder
<1> QED  BY <1>1, <1>2, InitType, InitHeld, StepType, StepHeld, PTL DEF Spec

\* A slot Occupied names, told by its holder.
LEMMA SlotHolder ==
    ASSUME TypeOK, NEW s \in Occupied
    PROVE  \/ /\ s[1] = "queue" /\ s[2] = 0 /\ s[3] \in Positions(queue)
              /\ At(s) = queue[s[3]] /\ At(s) \in Elements(queue)
           \/ /\ s[1] = "batch" /\ s[2] \in Positions(frames) /\ s[3] \in Positions(frames[s[2]].batch)
              /\ At(s) = frames[s[2]].batch[s[3]] /\ At(s) \in Elements(frames[s[2]].batch)
           \/ /\ s[1] = "timer" /\ s[2] \in Positions(frames) /\ s[3] \in Positions(frames[s[2]].timers)
              /\ At(s) = frames[s[2]].timers[s[3]] /\ At(s) \in Elements(frames[s[2]].timers)
           \/ /\ s[1] = "hand" /\ s[2] \in Positions(frames) /\ s[3] = 0
              /\ At(s) = frames[s[2]].hand /\ At(s) \in Hand(frames[s[2]])
<1>1. s \in Slots /\ At(s) # None  BY DEF Occupied
<1>2. CASE \E k \in Positions(queue) : s = <<"queue", 0, k>>
  <2>1. s[1] = "queue" /\ s[2] = 0 /\ s[3] \in Positions(queue)  BY <1>2
  <2>2. At(s) = queue[s[3]]  BY <2>1 DEF At
  <2> QED  BY <1>1, <2>1, <2>2, ElementAt
<1>3. CASE \E d \in Positions(frames) : \E k \in Positions(frames[d].batch) : s = <<"batch", d, k>>
  <2>1. s[1] = "batch" /\ s[2] \in Positions(frames) /\ s[3] \in Positions(frames[s[2]].batch)
    BY <1>3
  <2>2. At(s) = frames[s[2]].batch[s[3]]  BY <2>1 DEF At
  <2> QED  BY <1>1, <2>1, <2>2, ElementAt
<1>4. CASE \E d \in Positions(frames) : \E k \in Positions(frames[d].timers) : s = <<"timer", d, k>>
  <2>1. s[1] = "timer" /\ s[2] \in Positions(frames) /\ s[3] \in Positions(frames[s[2]].timers)
    BY <1>4
  <2>2. At(s) = frames[s[2]].timers[s[3]]  BY <2>1 DEF At
  <2> QED  BY <1>1, <2>1, <2>2, ElementAt
<1>5. CASE \E d \in Positions(frames) : s = <<"hand", d, 0>>
  <2>1. s[1] = "hand" /\ s[2] \in Positions(frames) /\ s[3] = 0  BY <1>5
  <2>2. At(s) = frames[s[2]].hand  BY <2>1 DEF At
  <2> QED  BY <1>1, <2>1, <2>2 DEF Hand
<1>6. \/ \E k \in Positions(queue) : s = <<"queue", 0, k>>
      \/ \E d \in Positions(frames) : \E k \in Positions(frames[d].batch) : s = <<"batch", d, k>>
      \/ \E d \in Positions(frames) : \E k \in Positions(frames[d].timers) : s = <<"timer", d, k>>
      \/ \E d \in Positions(frames) : s = <<"hand", d, 0>>
  BY <1>1 DEF Slots
<1> QED  BY <1>2, <1>3, <1>4, <1>5, <1>6

LEMMA SlotIsTriple ==
    ASSUME NEW s \in Slots, NEW t \in Slots, s[1] = t[1], s[2] = t[2], s[3] = t[3]
    PROVE  s = t
<1>1. \A u \in Slots : u = <<u[1], u[2], u[3]>>  BY DEF Slots
<1> QED  BY <1>1

\* An event has one owner: in every behaviour, whatever posts, passes, nested passes,
\* kills and destructions interleave, no event is in two slots of mEventQueue, of the
\* passes' batches and expiries, and of the hands dispatching one, so none is freed twice.
THEOREM EventsHaveOneOwner == Spec => []OneOwner
<1>1. ASSUME TypeOK, HeldInv, NEW s \in Occupied, NEW t \in Occupied, At(s).id = At(t).id
      PROVE  s = t
  <2>1. s \in Slots /\ t \in Slots /\ At(s) # None /\ At(t) # None  BY DEF Occupied
  <2>2. /\ Once(queue)
        /\ \A d \in Positions(frames) : FrameOwns(frames[d])
        /\ \A d \in Positions(frames) : Apart(Elements(queue), FrameHolds(frames[d]))
        /\ \A c, d \in Positions(frames) : c # d => Apart(FrameHolds(frames[c]), FrameHolds(frames[d]))
    BY <1>1 DEF HeldInv, Held, Owned
  <2> DEFINE InFrame(u) == u[2] \in Positions(frames) /\ At(u) \in FrameHolds(frames[u[2]])
             InQueue(u) == u[1] = "queue" /\ At(u) \in Elements(queue)
  <2>3. /\ InQueue(s) \/ InFrame(s)
        /\ InQueue(t) \/ InFrame(t)
    BY <1>1, SlotHolder DEF FrameHolds
  <2>4. CASE InQueue(s) /\ InQueue(t)
    <3>1. /\ s[2] = 0 /\ s[3] \in Positions(queue) /\ At(s) = queue[s[3]]
          /\ t[2] = 0 /\ t[3] \in Positions(queue) /\ At(t) = queue[t[3]]
      BY <1>1, <2>4, SlotHolder
    <3>2. s[3] = t[3]  BY <1>1, <2>1, <2>2, <3>1 DEF Once
    <3> QED  BY <2>1, <2>4, <3>1, <3>2, SlotIsTriple
  <2>5. ~(InQueue(s) /\ InFrame(t))  BY <1>1, <2>2 DEF Apart
  <2>6. ~(InFrame(s) /\ InQueue(t))
    <3> HIDE DEF InQueue
    <3>1. SUFFICES ASSUME InFrame(s), InQueue(t) PROVE FALSE  OBVIOUS
    <3>2. Apart(Elements(queue), FrameHolds(frames[s[2]]))  BY <2>2, <3>1
    <3> QED  BY <1>1, <3>1, <3>2 DEF Apart, InQueue
  <2>7. CASE InFrame(s) /\ InFrame(t) /\ ~InQueue(s) /\ ~InQueue(t)
    <3>1. s[2] = t[2]  BY <1>1, <2>2, <2>7 DEF Apart
    <3>2. PICK f : f = frames[s[2]] /\ FrameOwns(f)  BY <2>2, <2>7
    <3>3. ASSUME NEW u \in Occupied, u[2] = s[2], ~InQueue(u)
          PROVE  \/ /\ u[1] = "batch" /\ u[3] \in Positions(f.batch)
                    /\ At(u) = f.batch[u[3]] /\ At(u) \in Elements(f.batch)
                 \/ /\ u[1] = "timer" /\ u[3] \in Positions(f.timers)
                    /\ At(u) = f.timers[u[3]] /\ At(u) \in Elements(f.timers)
                 \/ u[1] = "hand" /\ u[3] = 0 /\ At(u) \in Hand(f)
      BY <1>1, <3>2, <3>3, SlotHolder
    <3>4. s[1] = t[1] /\ s[3] = t[3]
      <4>1. \/ /\ s[1] = "batch" /\ s[3] \in Positions(f.batch)
               /\ At(s) = f.batch[s[3]] /\ At(s) \in Elements(f.batch)
            \/ /\ s[1] = "timer" /\ s[3] \in Positions(f.timers)
               /\ At(s) = f.timers[s[3]] /\ At(s) \in Elements(f.timers)
            \/ s[1] = "hand" /\ s[3] = 0 /\ At(s) \in Hand(f)
        BY <2>7, <3>3
      <4>2. \/ /\ t[1] = "batch" /\ t[3] \in Positions(f.batch)
               /\ At(t) = f.batch[t[3]] /\ At(t) \in Elements(f.batch)
            \/ /\ t[1] = "timer" /\ t[3] \in Positions(f.timers)
               /\ At(t) = f.timers[t[3]] /\ At(t) \in Elements(f.timers)
            \/ t[1] = "hand" /\ t[3] = 0 /\ At(t) \in Hand(f)
        BY <2>7, <3>1, <3>3
      <4> QED  BY <1>1, <2>1, <3>2, <4>1, <4>2 DEF FrameOwns, Once, Apart
    <3> QED  BY <2>1, <3>1, <3>4, SlotIsTriple
  <2> QED  BY <2>3, <2>4, <2>5, <2>6, <2>7
<1>2. TypeOK /\ HeldInv => OneOwner  BY <1>1 DEF OneOwner
<1> QED  BY <1>2, AlwaysHeld, PTL

\* Nothing but a call with its own life token waits for an object that is gone: in every
\* behaviour, of any number of objects and posters and passes nested to any depth, what is
\* queued, published by a pass or in flight names a receiver that is still here if it was
\* when the event was aimed, and is a MetaCall if it died between the aiming and the queuing.
THEOREM NothingIsForTheGone == Spec => []NothingForTheGone
<1>1. Init => LivingInv
  <2> SUFFICES ASSUME Init PROVE LivingInv  OBVIOUS
  <2>1. \A e \in Entry : ~Awaited(e)  BY DEF Init, Awaited, Names, Positions
  <2>2. \A p \in Posters : posting[p] = None  BY DEF Init
  <2>3. Positions(timers) = {}  BY DEF Init, Positions
  <2> QED  BY <2>1, <2>2, <2>3 DEF LivingInv, EventsAimed, PostsAimed, TimersLive
<1>2. TypeOK /\ LivingInv /\ [Next]_vars => LivingInv'
  BY StepLiving, StepTimers, StepAimed DEF LivingInv
<1>3. TypeOK /\ LivingInv => NothingForTheGone
  <2> SUFFICES ASSUME TypeOK, LivingInv PROVE NothingForTheGone  OBVIOUS
  <2>1. ASSUME NEW s \in Occupied, s[1] # "hand" PROVE RightlyAimed(At(s))
    <3>1. At(s) # None  BY DEF Occupied
    <3>2. At(s) \in Entry
      <4>1. /\ Elements(queue) \subseteq Entry
            /\ \A d \in Positions(frames) : /\ Elements(frames[d].batch) \subseteq Entry
                                            /\ Elements(frames[d].timers) \subseteq Entry
        BY FramesHaveSlots, EntriesAreSlots, ElementsType DEF TypeOK
      <4> QED  BY <2>1, <4>1, SlotHolder
    <3>3. Awaited(At(s))  BY <2>1, SlotHolder DEF Awaited, Names
    <3> QED  BY <3>2, <3>3 DEF LivingInv, EventsAimed
  <2> QED  BY <2>1 DEF NothingForTheGone, LivingInv, PostsAimed
<1> QED  BY <1>1, <1>2, <1>3, TypeCorrect, PTL DEF Spec

\* However handlers and other threads post, destroy, move and nest, a pass holds nothing for
\* what is gone but calls that find it so, and comes to an end.
THEOREM PassesAlwaysSound == Spec => []PassesAreSound
BY NothingIsForTheGone, PassAlwaysBounded, PTL DEF PassesAreSound

-----------------------------------------------------------------------------
(* The order within a rank.                                                *)

LEMMA SetTopTop ==
    ASSUME TypeOK, frames # <<>>, NEW g \in FrameType, SetTop(g)
    PROVE  Top' = g /\ Len(frames') = Len(frames)
<1>1. frames \in Seq(FrameType) /\ Len(frames) \in 1 .. Len(frames)  BY TopType DEF TypeOK
<1>2. Len(frames') = Len(frames) /\ frames'[Len(frames)] = g
  BY <1>1, ExceptSeq DEF SetTop
<1> QED  BY <1>2 DEF Top

LEMMA ShrinksTop ==
    ASSUME TypeOK, frames # <<>>, Len(frames') = Len(frames),
           \A d \in Positions(frames') : Shrinks(frames'[d], frames[d])
    PROVE  Top'.hand = Top.hand
<1>1. Len(frames) \in Positions(frames')  BY TopType DEF Positions
<1> QED  BY <1>1 DEF Top, Shrinks

\* Only NextEvent takes up an event of the queue or of a batch.
LEMMA TakenUpByNextEvent ==
    ASSUME TypeOK, Next, NEW e, TakesUp(e)
    PROVE  NextEvent
<1>1. /\ Len(frames') = Len(frames) /\ frames # <<>> /\ Top.kind = "pass"
      /\ Top.hand = None /\ Top'.hand # None /\ Top'.j = Top.j /\ Len(frames) \in Nat
  BY FramesHaveSlots DEF TakesUp
<1>2. frames' # frames  BY <1>1 DEF Top
<1>3. \A r \in Receivers : ~Strip(r) /\ ~UnregisterTimer(r)
  BY <1>1, StripShrinks, UnregisterShrinks, ShrinksTop
<1>4. /\ \A p \in Posters, policy \in Policies, prio \in Priorities : ~PostEvent(p, policy, prio)
      /\ \A p \in Posters, prio \in Priorities : ~PostEventUnconditionally(p, prio)
      /\ \A r \in Receivers : ~CreateObject(r) /\ ~LeaveOrReturn(r) /\ ~RegisterTimer(r)
  BY <1>2 DEF PostEvent, PostEventUnconditionally, CreateObject, LeaveOrReturn, RegisterTimer
<1>5. ~Aims  BY <1>2, AimsAreQuiet
<1>6. ~Dies /\ \A r \in Receivers : ~MoveAway(r)
  BY <1>2, <1>3, DiesStrips DEF MoveAway
<1>7. \A c \in Capacities : ~SetEventQueueCapacity(c)  BY <1>2 DEF SetEventQueueCapacity
<1>8. ~Close  BY <1>2 DEF Close
<1>9. ASSUME NEW due, BeginPass(due) PROVE FALSE
  <2>1. PICK g : g = Frame("pass", queue, Expiries(due))  OBVIOUS
  <2>2. g \in FrameType  BY <2>1, ExpiriesType, EntriesAreSlots, FrameIntro DEF TypeOK
  <2>3. frames' = Append(frames, g) /\ frames \in Seq(FrameType)
    BY <1>9, <2>1 DEF BeginPass, TypeOK
  <2>4. Len(frames') = Len(frames) + 1  BY <2>2, <2>3, AppendProperties
  <2> QED  BY <1>1, <2>4
<1>10. ~NextExpiry
  <2>1. SUFFICES ASSUME NextExpiry PROVE FALSE  OBVIOUS
  <2>2. PICK g \in FrameType : SetTop(g) /\ g.j = Top.j + 1  BY <2>1, NextExpiryFrame
  <2>3. Top' = g  BY <1>1, <2>2, SetTopTop
  <2>4. Top.j \in Nat  BY <1>1, TopType, FrameFields
  <2> QED  BY <1>1, <2>2, <2>3, <2>4
<1>11. ~EndPass
  <2>1. SUFFICES ASSUME EndPass PROVE FALSE  OBVIOUS
  <2>2. frames' = Front(frames)  BY <2>1 DEF EndPass
  <2>3. Len(frames') = Len(frames) - 1  BY <1>1, <2>2, FrontFrames
  <2> QED  BY <1>1, <2>3
<1>12. ~EndDispatch /\ ~BeginDrain
  BY <1>1 DEF EndDispatch, BeginDrain
<1>13. ~NextDeferredDelete /\ ~DrainAgain
  BY <1>1 DEF NextDeferredDelete, DrainAgain, BetweenDispatches
<1> QED
  BY <1>3, <1>4, <1>5, <1>6, <1>7, <1>8, <1>9, <1>10, <1>11, <1>12, <1>13
  DEF Next, Aims, Dies

\* Stolen from the queue, the event precedes the queue's equals and outranks the batch.
LEMMA StolenInOrder ==
    ASSUME TypeOK, QueueInv(queue, nextId), HeldInv, frames # <<>>, Top.hand = None,
           BatchLeft, Preempts, Steal, NEW e, Top'.hand = e, e # None
    PROVE  ~Overtaken(e, queue') /\ ~Overtaken(e, Top'.batch)
<1>1. PICK g \in FrameType :
            /\ SetTop(g)
            /\ queue # <<>> /\ queue' = Tail(queue)
            /\ g.batch = Top.batch
            /\ LET x == Head(queue)
               IN  g.hand = IF x = None \/ x.recv \in Top.deleted THEN Top.hand ELSE x
  BY StealFrame
<1>2. Top' = g  BY <1>1, SetTopTop
<1>3. PICK f \in FrameType : f = Top  BY TopType
<1>4. PICK i : i = f.i  OBVIOUS
<1>5. PICK b \in Seq(Slot) : b = f.batch  BY FrameFields
<1>6. e = Head(queue)  BY <1>1, <1>2
<1>7. /\ i \in Positions(b) /\ b[i] # None /\ e.prio > b[i].prio
  BY <1>3, <1>4, <1>5, <1>6, FrameFields DEF Preempts, BatchLeft, Positions
<1>8. /\ \A k \in Positions(b) : k < i => b[k] = None
      /\ Ranked(b)
  BY <1>3, <1>4, <1>5, TopHeld DEF Swept
<1>9. ~Overtaken(e, b)
  <2> SUFFICES ASSUME NEW k \in Positions(b), b[k] # None, b[k].prio = e.prio PROVE FALSE
    BY DEF Overtaken
  <2>1. k \in Nat /\ i \in Nat  BY <1>7 DEF Positions
  <2>2. b[k] \in Entry /\ b[i] \in Entry  BY <1>7, ElementAt, ElementsType
  <2>3. b[k].prio \in Int /\ b[i].prio \in Int  BY <2>2, EntryFields
  <2>4. CASE k < i  BY <2>4, <1>8
  <2>5. CASE k = i  BY <2>3, <2>5, <1>7
  <2>6. CASE i < k
    <3>1. b[i].prio >= b[k].prio  BY <2>3, <2>6, <1>7, <1>8 DEF Ranked
    <3> QED  BY <2>3, <3>1, <1>7
  <2> QED  BY <2>1, <2>4, <2>5, <2>6
<1>10. PICK q \in Seq(Entry) : q = queue  BY DEF TypeOK
<1>11. PICK t : t = Tail(q)  OBVIOUS
<1>12. /\ 1 \in Positions(q) /\ e = q[1]
       /\ \A k \in Positions(t) : k + 1 \in Positions(q) /\ t[k] = q[k + 1] /\ 1 < k + 1
  BY <1>1, <1>6, <1>10, <1>11, TailWithin
<1>13. ~Overtaken(e, t)
  <2> SUFFICES ASSUME NEW k \in Positions(t), t[k].prio = e.prio, t[k].id < e.id PROVE FALSE
    BY DEF Overtaken
  <2>1. k + 1 \in Positions(q) /\ t[k] = q[k + 1] /\ 1 < k + 1  BY <1>12
  <2>2. q[1].prio > q[k + 1].prio \/ q[1].id < q[k + 1].id
    BY <1>10, <1>12, <2>1 DEF QueueInv, Ordered
  <2>3. e \in Entry /\ q[k + 1] \in Entry  BY <1>12, <2>1, QueueElements
  <2>4. e.prio \in Int /\ e.id \in Nat /\ q[k + 1].prio \in Int /\ q[k + 1].id \in Nat
    BY <2>3, EntryFields
  <2> QED  BY <1>12, <2>1, <2>2, <2>4
<1> QED  BY <1>1, <1>2, <1>3, <1>5, <1>9, <1>10, <1>11, <1>13

\* Taken from the batch, the event is older than the queue and precedes the batch's equals.
LEMMA ClaimedInOrder ==
    ASSUME TypeOK, HeldInv, frames # <<>>, Top.hand = None, Top.kind = "pass",
           BatchLeft, ClaimSlot, NEW e, Top'.hand = e, e # None
    PROVE  ~Overtaken(e, queue') /\ ~Overtaken(e, Top'.batch)
<1>1. PICK g \in FrameType :
            /\ SetTop(g) /\ UNCHANGED queue
            /\ Top.i \in 1 .. Len(Top.batch)
            /\ g.batch = [Top.batch EXCEPT ![Top.i] = None]
            /\ LET x == Top.batch[Top.i]
               IN  g.hand = IF x = None \/ x.recv \in Top.deleted THEN Top.hand ELSE x
  BY ClaimSlotFrame
<1>2. Top' = g  BY <1>1, SetTopTop
<1>3. PICK f \in FrameType : f = Top  BY TopType
<1>4. PICK i : i = f.i  OBVIOUS
<1>5. PICK b \in Seq(Slot) : b = f.batch  BY FrameFields
<1>6. PICK c : c = g.batch  OBVIOUS
<1>7. e = b[i] /\ i \in Positions(b) /\ i \in 1 .. Len(b)
  BY <1>1, <1>2, <1>3, <1>4, <1>5 DEF Positions
<1>8. /\ \A k \in Positions(b) : k < i => b[k] = None
      /\ Ranked(b) /\ Older(Elements(b), Elements(queue))
  BY <1>3, <1>4, <1>5, TopHeld DEF Swept
<1>9. c = [b EXCEPT ![i] = None]  BY <1>1, <1>3, <1>4, <1>5, <1>6
<1>10. /\ Positions(c) = Positions(b) /\ c[i] = None
       /\ \A k \in Positions(b) : k # i => c[k] = b[k]
  BY <1>7, <1>9, ExceptThins DEF Thins, Positions
<1>11. e \in Elements(b) /\ e \in Entry  BY <1>7, ElementAt, ElementsType
<1>12. ~Overtaken(e, c)
  <2> SUFFICES ASSUME NEW k \in Positions(c), c[k] # None, c[k].prio = e.prio, c[k].id < e.id
               PROVE  FALSE
    BY DEF Overtaken
  <2>1. k # i /\ k \in Positions(b) /\ c[k] = b[k]  BY <1>10
  <2>2. k \in Nat /\ i \in Nat  BY <2>1, <1>7 DEF Positions
  <2>3. b[k] \in Entry  BY <2>1, ElementAt, ElementsType
  <2>4. e.prio \in Int /\ e.id \in Nat /\ b[k].prio \in Int /\ b[k].id \in Nat
    BY <1>11, <2>3, EntryFields
  <2>5. CASE k < i  BY <2>1, <2>5, <1>8
  <2>6. CASE i < k
    <3>1. e.prio > b[k].prio \/ e.id < b[k].id  BY <2>1, <2>6, <1>7, <1>8 DEF Ranked
    <3> QED  BY <2>1, <2>4, <3>1
  <2> QED  BY <2>1, <2>2, <2>5, <2>6
<1>13. ~Overtaken(e, queue)
  <2> SUFFICES ASSUME NEW k \in Positions(queue), queue[k].id < e.id PROVE FALSE
    BY DEF Overtaken
  <2>1. queue[k] \in Elements(queue) /\ queue[k] \in Entry  BY QueueElements DEF TypeOK
  <2>2. e.id < queue[k].id  BY <2>1, <1>8, <1>11 DEF Older
  <2>3. e.id \in Nat /\ queue[k].id \in Nat  BY <2>1, <1>11, EntryFields
  <2> QED  BY <2>2, <2>3
<1> QED  BY <1>1, <1>2, <1>6, <1>12, <1>13

\* "Equal priorities keep posting order": an event a pass takes up is older than every
\* event of its rank that the pass could have taken up instead, in the batch it swapped out
\* or in the live queue that may preempt it.
THEOREM EqualPrioritiesKeepOrder == Spec => EqualPriorityKeepsOrder
<1>1. ASSUME TypeOK, QueueInv(queue, nextId), HeldInv, [Next]_vars,
             NEW s \in Occupied, TakesUp(At(s))
      PROVE  ~Overtaken(At(s), queue') /\ ~Overtaken(At(s), Top'.batch)
  <2>1. PICK e : e = At(s)  OBVIOUS
  <2>2. /\ frames # <<>> /\ Top.kind = "pass" /\ Top.hand = None
        /\ Top'.hand = e /\ e # None /\ TakesUp(e)
    BY <1>1, <2>1 DEF TakesUp
  <2>3. Next
    <3>1. CASE UNCHANGED vars
      <4>1. frames' = frames  BY <3>1 DEF vars
      <4> QED  BY <2>2, <4>1 DEF Top
    <3> QED  BY <1>1, <3>1
  <2>4. NextEvent  BY <1>1, <2>2, <2>3, TakenUpByNextEvent
  <2>5. BatchLeft  BY <2>4 DEF NextEvent
  <2>6. CASE Preempts
    <3>1. Steal  BY <2>4, <2>6 DEF NextEvent
    <3> QED  BY <1>1, <2>1, <2>2, <2>5, <2>6, <3>1, StolenInOrder
  <2>7. CASE ~Preempts
    <3>1. ClaimSlot  BY <2>4, <2>7 DEF NextEvent
    <3> QED  BY <1>1, <2>1, <2>2, <2>5, <3>1, ClaimedInOrder
  <2> QED  BY <2>6, <2>7
<1> DEFINE InOrder == \A s \in Occupied : TakesUp(At(s)) =>
                        ~Overtaken(At(s), queue') /\ ~Overtaken(At(s), Top'.batch)
<1>2. TypeOK /\ QueueInv(queue, nextId) /\ HeldInv /\ [Next]_vars => InOrder
  BY <1>1
<1> HIDE DEF InOrder
<1>3. Spec => [][InOrder]_vars  BY <1>2, AlwaysHeld, PTL DEF Spec
<1> QED  BY <1>3 DEF EqualPriorityKeepsOrder, InOrder

-----------------------------------------------------------------------------
(* Deferred deletes.                                                       *)

\* Deferred deletes of r, wherever they are.
Waits(x, r) == x.type = "DeferredDelete" /\ x.recv = r

LEMMA HeldInSlot ==
    ASSUME TypeOK, NEW r
    PROVE  DeferredDeleteHeld(r) <=> \E x : HeldIn(x, queue, frames) /\ Waits(x, r)
<1>1. ASSUME DeferredDeleteHeld(r)
      PROVE  \E x : HeldIn(x, queue, frames) /\ Waits(x, r)
  <2>1. PICK s \in Occupied : Waits(At(s), r)  BY <1>1 DEF DeferredDeleteHeld, Waits
  <2>2. HeldIn(At(s), queue, frames)  BY <2>1, SlotHolder DEF HeldIn, FrameHolds
  <2> QED  BY <2>1, <2>2
<1>2. ASSUME NEW x, HeldIn(x, queue, frames), Waits(x, r)
      PROVE  DeferredDeleteHeld(r)
  <2>1. SUFFICES \E s \in Slots : At(s) = x /\ x # None
    BY <1>2 DEF DeferredDeleteHeld, Occupied, Waits
  <2>2. CASE x \in Elements(queue)
    <3>1. PICK k \in Positions(queue) : queue[k] = x /\ x # None  BY <2>2, ElementOf
    <3>2. <<"queue", 0, k>> \in Slots  BY DEF Slots
    <3>3. At(<<"queue", 0, k>>) = x  BY <3>1 DEF At
    <3> QED  BY <3>1, <3>2, <3>3
  <2>3. ASSUME NEW d \in Positions(frames), x \in FrameHolds(frames[d])
        PROVE  \E s \in Slots : At(s) = x /\ x # None
    <3>1. CASE x \in Elements(frames[d].batch)
      <4>1. PICK k \in Positions(frames[d].batch) : frames[d].batch[k] = x /\ x # None
        BY <3>1, ElementOf
      <4>2. <<"batch", d, k>> \in Slots  BY DEF Slots
      <4>3. At(<<"batch", d, k>>) = x  BY <4>1 DEF At
      <4> QED  BY <4>1, <4>2, <4>3
    <3>2. CASE x \in Elements(frames[d].timers)
      <4>1. PICK k \in Positions(frames[d].timers) : frames[d].timers[k] = x /\ x # None
        BY <3>2, ElementOf
      <4>2. <<"timer", d, k>> \in Slots  BY DEF Slots
      <4>3. At(<<"timer", d, k>>) = x  BY <4>1 DEF At
      <4> QED  BY <4>1, <4>2, <4>3
    <3>3. CASE x \in Hand(frames[d])
      <4>1. frames[d].hand = x /\ x # None  BY <3>3 DEF Hand
      <4>2. <<"hand", d, 0>> \in Slots  BY DEF Slots
      <4>3. At(<<"hand", d, 0>>) = x  BY <4>1 DEF At
      <4> QED  BY <4>1, <4>2, <4>3
    <3> QED  BY <2>3, <3>1, <3>2, <3>3 DEF FrameHolds
  <2> QED  BY <1>2, <2>2, <2>3 DEF HeldIn
<1> QED  BY <1>1, <1>2

\* The same of the next state.
LEMMA HeldInSlotNext ==
    ASSUME NEW r, NEW x
    PROVE  /\ TypeOK' /\ HeldIn(x, queue, frames)' /\ Waits(x, r) => DeferredDeleteHeld(r)'
           /\ TypeOK' /\ DeferredDeleteHeld(r)' => (\E y : HeldIn(y, queue, frames) /\ Waits(y, r))'
<1>1. TypeOK => (DeferredDeleteHeld(r) <=> \E y : HeldIn(y, queue, frames) /\ Waits(y, r))
  BY HeldInSlot
<1>2. TypeOK' => (DeferredDeleteHeld(r)' <=> (\E y : HeldIn(y, queue, frames) /\ Waits(y, r))')
  BY <1>1, PTL
<1> QED  BY <1>2

\* A full queue evicts what is there to evict, the oldest of its lowest band: never a
\* deferred delete.
LEMMA VictimDroppable ==
    ASSUME NEW q \in Seq(Entry), Ordered(q), Droppable(q) # {}
    PROVE  Victim(q) \in Droppable(q)
<1>1. Droppable(q) \subseteq Positions(q) /\ Len(q) \in Nat  BY DEF Droppable
<1> DEFINE D == Droppable(q)
           FromEnd == {n \in Nat : \E k \in D : n = Len(q) - k}
<1>2. \A k \in D : k \in Positions(q) /\ k \in Nat /\ k <= Len(q) /\ Len(q) - k \in Nat
  BY <1>1 DEF Positions
<1>3. \A k \in D : q[k].prio \in Int
  <2> TAKE k \in D
  <2>1. q[k] \in Entry  BY <1>2, QueueElements
  <2> QED  BY <2>1, EntryFields
<1>4. D # {}  OBVIOUS
<1> HIDE DEF D
<1>5. FromEnd # {} /\ FromEnd \in SUBSET Nat  BY <1>2, <1>4
<1>6. PICK n \in FromEnd : \A m \in FromEnd : n <= m
  <2> HIDE DEF FromEnd
  <2> QED  BY <1>5, NatLeast
<1>7. PICK z \in D : n = Len(q) - z  BY <1>6
<1>8. \A k \in D : k <= z
  <2> TAKE k \in D
  <2>1. Len(q) - k \in FromEnd  BY <1>2
  <2>2. n <= Len(q) - k  BY <1>6, <2>1
  <2> QED  BY <1>1, <1>2, <1>7, <2>2
<1> HIDE DEF FromEnd
<1>9. \A k \in D : q[z].prio <= q[k].prio
  <2> TAKE k \in D
  <2>1. CASE k = z  BY <2>1, <1>3
  <2>2. CASE k # z
    <3>1. k < z /\ k \in Positions(q) /\ z \in Positions(q)  BY <2>2, <1>2, <1>8
    <3>2. q[k].prio > q[z].prio \/ q[k].prio = q[z].prio  BY <3>1 DEF Ordered
    <3> QED  BY <3>2, <1>3, <1>7
  <2> QED  BY <2>1, <2>2
<1> DEFINE B == {k \in D : q[k].prio = q[z].prio}
<1>10. B # {} /\ B \in SUBSET Nat  BY <1>2, <1>7
<1>11. PICK v \in B : \A k \in B : v <= k
  <2> HIDE DEF B
  <2> QED  BY <1>10, NatLeast
<1>12. \A j \in D : q[v].prio < q[j].prio \/ (q[v].prio = q[j].prio /\ v <= j)
  BY <1>3, <1>9, <1>11
<1>13. \E k \in D : \A j \in D : q[k].prio < q[j].prio \/ (q[k].prio = q[j].prio /\ k <= j)
  BY <1>11, <1>12
<1> QED  BY <1>13 DEF Victim, D

LEMMA AdmitKeepsDeletes ==
    ASSUME NEW q \in Seq(Entry), NEW e \in Entry, NEW policy, Ordered(q),
           NEW x \in Elements(q), x.type = "DeferredDelete"
    PROVE  x \in Elements(AfterAdmission(q, e, policy))
<1> DEFINE p == Picked(q, Positions(q) \ {Victim(q)})
<1>1. x \in Elements(InsertByPriority(q, e))  BY InsertHolds
<1>2. ASSUME Evicts(q, e, policy) PROVE x \in Elements(InsertByPriority(p, e))
  <2>1. Victim(q) \in Droppable(q)  BY <1>2, VictimDroppable DEF Evicts
  <2>2. Victim(q) \in Positions(q) /\ q[Victim(q)].type # "DeferredDelete"
    BY <2>1 DEF Droppable
  <2>3. \A k \in Positions(q) : q[k] = x => k \in Positions(q) \ {Victim(q)}  BY <2>2
  <2>4. p \in Seq(Entry) /\ x \in Elements(p)  BY <2>3, PickedWithin
  <2> HIDE DEF p
  <2> QED  BY <2>4, InsertHolds
<1> QED  BY <1>1, <1>2 DEF AfterAdmission

\* A deferred delete is posted: not coalesced, and not refused by a full queue.
LEMMA DeleteAdmitted ==
    ASSUME NEW q \in Seq(Entry), NEW e \in Entry, e.type = "DeferredDelete"
    PROVE  e \in Elements(AfterAdmission(q, e, "DropNewest"))
<1>1. AfterAdmission(q, e, "DropNewest") = InsertByPriority(q, e)
  BY DEF AfterAdmission, Coalesces
<1> QED  BY <1>1, InsertHolds

\* What stays in a sequence of slots that is cleared of r, or of its expiries.
LEMMA ClearedKeeps ==
    ASSUME NEW b \in Seq(Slot), NEW r, NEW x \in Elements(b)
    PROVE  /\ x.recv # r => x \in Elements(Cleared(b, r))
           /\ x.type # "Timer" => x \in Elements(WithoutExpiries(b, r))
<1>1. PICK k \in Positions(b) : b[k] = x /\ x # None  BY ElementOf
<1>2. Len(b) \in Nat  OBVIOUS
<1>3. PICK c : c = Cleared(b, r)  OBVIOUS
<1>4. PICK w : w = WithoutExpiries(b, r)  OBVIOUS
<1>5. Thins(c, b) /\ Thins(w, b)  BY <1>3, <1>4, ClearedThins
<1>6. k \in Positions(c) /\ k \in Positions(w)  BY <1>1, <1>2, <1>5 DEF Thins, Positions
<1>7. x.recv # r => c[k] = x  BY <1>1, <1>3 DEF Cleared
<1>8. x.type # "Timer" => w[k] = x  BY <1>1, <1>4 DEF WithoutExpiries, IsExpiryOf
<1> QED  BY <1>1, <1>3, <1>4, <1>6, <1>7, <1>8, ElementOf

LEMMA FrameKeeps ==
    ASSUME NEW f \in FrameType, NEW g, Shrinks(g, f), NEW r, NEW x \in FrameHolds(f),
           \/ /\ g.batch = Cleared(f.batch, r) /\ g.timers = Cleared(f.timers, r)
              /\ x.recv # r
           \/ /\ g.batch = WithoutExpiries(f.batch, r) /\ g.timers = WithoutExpiries(f.timers, r)
              /\ x.type # "Timer"
    PROVE  x \in FrameHolds(g)
<1>1. f.batch \in Seq(Slot) /\ f.timers \in Seq(Slot)  BY FrameFields
<1>2. x \in Elements(f.batch) => x \in Elements(g.batch)  BY <1>1, ClearedKeeps
<1>3. x \in Elements(f.timers) => x \in Elements(g.timers)  BY <1>1, ClearedKeeps
<1>4. Hand(g) = Hand(f)  BY DEF Shrinks, Hand
<1> QED  BY <1>2, <1>3, <1>4 DEF FrameHolds

\* A step that takes x from no frame and not from the queue.
LEMMA QueueKeeps ==
    ASSUME NEW x, HeldIn(x, queue, frames),
           x \in Elements(queue) => x \in Elements(queue'),
           \A d \in Positions(frames) :
                x \in FrameHolds(frames[d]) => d \in Positions(frames') /\ x \in FrameHolds(frames'[d])
    PROVE  HeldIn(x, queue', frames')
BY DEF HeldIn

\* A step of the innermost pass that takes x at most to another of its places.
LEMMA TopKeeps ==
    ASSUME TypeOK, frames # <<>>, NEW g \in FrameType, SetTop(g), NEW x, HeldIn(x, queue, frames),
           x \in Elements(queue) => x \in Elements(queue') \/ x \in FrameHolds(g),
           x \in FrameHolds(Top) => x \in FrameHolds(g)
    PROVE  HeldIn(x, queue', frames')
<1>1. PICK m : m = Len(frames)  OBVIOUS
<1>2. m \in Positions(frames) /\ Top = frames[m] /\ m \in 1 .. Len(frames)
  BY <1>1, TopType DEF Top, Positions
<1>3. frames \in Seq(FrameType)  BY DEF TypeOK
<1>4. /\ Positions(frames') = Positions(frames)
      /\ \A d \in Positions(frames) : frames'[d] = IF d = m THEN g ELSE frames[d]
  BY <1>1, <1>2, <1>3, ExceptSeq DEF SetTop, Positions
<1>5. frames'[m] = g /\ m \in Positions(frames')  BY <1>2, <1>4
<1>6. CASE x \in Elements(queue)  BY <1>5, <1>6 DEF HeldIn
<1>7. ASSUME NEW d \in Positions(frames), x \in FrameHolds(frames[d])
      PROVE  HeldIn(x, queue', frames')
  <2>1. x \in FrameHolds(frames'[d])  BY <1>2, <1>4, <1>7
  <2> QED  BY <1>4, <2>1 DEF HeldIn
<1> QED  BY <1>6, <1>7 DEF HeldIn

\* A pass that has gone by all of its slots holds nothing.
LEMMA SpentHoldsNothing ==
    ASSUME NEW f \in FrameType, NEW q, Swept(f, q), f.i > Len(f.batch), f.j > Len(f.timers),
           f.hand = None
    PROVE  FrameHolds(f) = {}
<1>1. /\ f.batch \in Seq(Slot) /\ f.timers \in Seq(Slot) /\ f.i \in Nat /\ f.j \in Nat
  BY FrameFields DEF FrameType
<1>2. \A k \in Positions(f.batch) : k < f.i  BY <1>1 DEF Positions
<1>3. \A k \in Positions(f.timers) : k < f.j  BY <1>1 DEF Positions
<1>4. Elements(f.batch) = {} /\ Elements(f.timers) = {}  BY <1>2, <1>3 DEF Swept, Elements
<1> QED  BY <1>4 DEF FrameHolds, Hand

\* Taking up the event of a slot: it goes to the hand, unless its receiver was deleted.
LEMMA ClaimKeeps ==
    ASSUME TypeOK, frames # <<>>, Top.hand = None, queue' = queue, BatchLeft, ClaimSlot,
           NEW x, HeldIn(x, queue, frames), x.recv \notin Top.deleted
    PROVE  HeldIn(x, queue', frames')
<1>1. PICK g \in FrameType :
            /\ SetTop(g)
            /\ Top.i \in 1 .. Len(Top.batch)
            /\ g.batch = [Top.batch EXCEPT ![Top.i] = None]
            /\ g.timers = Top.timers
            /\ LET e == Top.batch[Top.i]
               IN  g.hand = IF e = None \/ e.recv \in Top.deleted THEN Top.hand ELSE e
  BY ClaimSlotFrame
<1>2. PICK f \in FrameType : f = Top  BY TopType
<1>3. PICK i : i = f.i  OBVIOUS
<1>4. f.batch \in Seq(Slot) /\ i \in 1 .. Len(f.batch) /\ g.batch = [f.batch EXCEPT ![i] = None]
  BY <1>1, <1>2, <1>3, FrameFields
<1>5. /\ Thins(g.batch, f.batch)
      /\ \A k \in Positions(f.batch) : k # i => g.batch[k] = f.batch[k]
  BY <1>4, ExceptThins
<1>6. Positions(g.batch) = Positions(f.batch)  BY <1>5 DEF Thins, Positions
<1>7. ASSUME x \in Elements(f.batch) PROVE x \in FrameHolds(g)
  <2>1. PICK k \in Positions(f.batch) : f.batch[k] = x /\ x # None  BY <1>7, ElementOf
  <2>2. CASE k = i
    <3>1. g.hand = x  BY <1>1, <1>2, <1>3, <2>1, <2>2
    <3> QED  BY <2>1, <3>1 DEF FrameHolds, Hand
  <2>3. CASE k # i
    <3>1. x \in Elements(g.batch)  BY <1>5, <1>6, <2>1, <2>3, ElementOf
    <3> QED  BY <3>1 DEF FrameHolds
  <2> QED  BY <2>2, <2>3
<1>8. ASSUME x \in FrameHolds(f) PROVE x \in FrameHolds(g)
  <2>1. Hand(f) = {}  BY <1>2 DEF Hand
  <2>2. x \in Elements(f.batch) \/ x \in Elements(f.timers)  BY <1>8, <2>1 DEF FrameHolds
  <2>3. g.timers = f.timers  BY <1>1, <1>2
  <2> QED  BY <1>7, <2>2, <2>3 DEF FrameHolds
<1> QED  BY <1>1, <1>2, <1>8, TopKeeps

LEMMA ExpiryKeeps ==
    ASSUME TypeOK, NextExpiry,
           NEW x, HeldIn(x, queue, frames), x.recv \notin Top.deleted
    PROVE  HeldIn(x, queue', frames')
<1>0. frames # <<>> /\ Top.hand = None /\ queue' = queue  BY DEF NextExpiry, BetweenDispatches
<1>1. PICK g \in FrameType :
            /\ SetTop(g)
            /\ Top.j \in 1 .. Len(Top.timers)
            /\ g.timers = [Top.timers EXCEPT ![Top.j] = None]
            /\ g.batch = Top.batch
            /\ LET e == Top.timers[Top.j]
               IN  g.hand = IF e = None \/ e.recv \in Top.deleted THEN Top.hand ELSE e
  BY NextExpiryFrame
<1>2. PICK f \in FrameType : f = Top  BY <1>0, TopType
<1>3. PICK j : j = f.j  OBVIOUS
<1>4. f.timers \in Seq(Slot) /\ j \in 1 .. Len(f.timers) /\ g.timers = [f.timers EXCEPT ![j] = None]
  BY <1>1, <1>2, <1>3, FrameFields
<1>5. /\ Thins(g.timers, f.timers)
      /\ \A k \in Positions(f.timers) : k # j => g.timers[k] = f.timers[k]
  BY <1>4, ExceptThins
<1>6. Positions(g.timers) = Positions(f.timers)  BY <1>5 DEF Thins, Positions
<1>7. ASSUME x \in Elements(f.timers) PROVE x \in FrameHolds(g)
  <2>1. PICK k \in Positions(f.timers) : f.timers[k] = x /\ x # None  BY <1>7, ElementOf
  <2>2. CASE k = j
    <3>1. g.hand = x  BY <1>1, <1>2, <1>3, <2>1, <2>2
    <3> QED  BY <2>1, <3>1 DEF FrameHolds, Hand
  <2>3. CASE k # j
    <3>1. x \in Elements(g.timers)  BY <1>5, <1>6, <2>1, <2>3, ElementOf
    <3> QED  BY <3>1 DEF FrameHolds
  <2> QED  BY <2>2, <2>3
<1>8. ASSUME x \in FrameHolds(f) PROVE x \in FrameHolds(g)
  <2>1. Hand(f) = {}  BY <1>0, <1>2 DEF Hand
  <2>2. x \in Elements(f.batch) \/ x \in Elements(f.timers)  BY <1>8, <2>1 DEF FrameHolds
  <2>3. g.batch = f.batch  BY <1>1, <1>2
  <2> QED  BY <1>7, <2>2, <2>3 DEF FrameHolds
<1> QED  BY <1>0, <1>1, <1>2, <1>8, TopKeeps

LEMMA StealKeeps ==
    ASSUME TypeOK, frames # <<>>, Top.hand = None, Preempts, Steal,
           NEW x, HeldIn(x, queue, frames), x.recv \notin Top.deleted
    PROVE  HeldIn(x, queue', frames')
<1>1. PICK g \in FrameType :
            /\ SetTop(g)
            /\ queue # <<>> /\ queue' = Tail(queue)
            /\ g.batch = Top.batch /\ g.timers = Top.timers
            /\ LET e == Head(queue)
               IN  g.hand = IF e = None \/ e.recv \in Top.deleted THEN Top.hand ELSE e
  BY StealFrame
<1>2. PICK f \in FrameType : f = Top  BY TopType
<1>3. PICK q \in Seq(Entry) : q = queue  BY DEF TypeOK
<1>4. PICK t : t = Tail(q)  OBVIOUS
<1>5. t \in Seq(Entry) /\ Len(t) = Len(q) - 1 /\ \A k \in 1 .. Len(t) : t[k] = q[k + 1]
  BY <1>1, <1>3, <1>4, HeadTailProperties
<1>6. ASSUME x \in Elements(q) PROVE x \in Elements(t) \/ x \in FrameHolds(g)
  <2>1. PICK k \in Positions(q) : q[k] = x /\ x # None  BY <1>6, ElementOf
  <2>2. CASE k = 1
    <3>1. Head(q) = x  BY <1>1, <1>3, <2>1, <2>2, TailWithin
    <3>2. g.hand = x  BY <1>1, <1>3, <2>1, <3>1
    <3> QED  BY <2>1, <3>2 DEF FrameHolds, Hand
  <2>3. CASE k # 1
    <3>1. k - 1 \in 1 .. Len(t) /\ k = (k - 1) + 1  BY <1>3, <1>5, <2>1, <2>3 DEF Positions
    <3>2. t[k - 1] = x /\ k - 1 \in Positions(t)  BY <1>5, <2>1, <3>1 DEF Positions
    <3> QED  BY <2>1, <3>2, ElementOf
  <2> QED  BY <2>2, <2>3
<1>7. ASSUME x \in FrameHolds(f) PROVE x \in FrameHolds(g)
  <2>1. Hand(f) = {}  BY <1>2 DEF Hand
  <2>2. g.batch = f.batch /\ g.timers = f.timers  BY <1>1, <1>2
  <2> QED  BY <1>7, <2>1, <2>2 DEF FrameHolds
<1> QED  BY <1>1, <1>2, <1>3, <1>4, <1>6, <1>7, TopKeeps

LEMMA BeginPassFrame ==
    ASSUME TypeOK, NEW due, BeginPass(due)
    PROVE  \E g \in FrameType :
            /\ FrameHolds(g) = Elements(queue) \cup Elements(Expiries(due))
            /\ \E m \in Positions(frames') :
                /\ frames'[m] = g
                /\ \A d \in Positions(frames') : d # m => d \in Positions(frames) /\ frames'[d] = frames[d]
                /\ \A d \in Positions(frames) : d \in Positions(frames') /\ d # m
<1>1. PICK x \in Seq(Entry) : x = Expiries(due)  BY ExpiriesType
<1>2. PICK q \in Seq(Entry) : q = queue  BY DEF TypeOK
<1>3. PICK fs \in Seq(FrameType) : fs = frames  BY DEF TypeOK
<1>4. PICK g : g = Frame("pass", q, x)  OBVIOUS
<1>5. q \in Seq(Slot) /\ x \in Seq(Slot)  BY EntriesAreSlots
<1>6. g \in FrameType /\ g.batch = q /\ g.timers = x /\ g.hand = None
  BY <1>4, <1>5, FrameIntro DEF Frame
<1>7. frames' = Append(fs, g)  BY <1>1, <1>2, <1>3, <1>4 DEF BeginPass
<1>8. PICK m : m = Len(fs) + 1  OBVIOUS
<1>9. /\ Len(Append(fs, g)) = m /\ Len(fs) \in Nat
      /\ \A d \in 1 .. Len(fs) : Append(fs, g)[d] = fs[d]
      /\ Append(fs, g)[m] = g
  BY <1>6, <1>8, AppendProperties
<1>10. /\ m \in Positions(frames') /\ frames'[m] = g
       /\ \A d \in Positions(frames') : d # m => d \in Positions(fs) /\ frames'[d] = fs[d]
       /\ \A d \in Positions(fs) : d \in Positions(frames') /\ d # m
  BY <1>7, <1>8, <1>9 DEF Positions
<1>11. FrameHolds(g) = Elements(q) \cup Elements(x)  BY <1>6 DEF FrameHolds, Hand
<1> QED  BY <1>1, <1>2, <1>3, <1>6, <1>10, <1>11

\* A pass takes the queue over, and what it adds are expiries.
LEMMA BeginPassKeeps ==
    ASSUME TypeOK, NEW due, BeginPass(due), NEW x
    PROVE  /\ HeldIn(x, queue, frames) => HeldIn(x, queue', frames')
           /\ HeldIn(x, queue', frames') => HeldIn(x, queue, frames) \/ x.type = "Timer"
<1>1. PICK g \in FrameType :
            /\ FrameHolds(g) = Elements(queue) \cup Elements(Expiries(due))
            /\ \E m \in Positions(frames') :
                /\ frames'[m] = g
                /\ \A d \in Positions(frames') : d # m => d \in Positions(frames) /\ frames'[d] = frames[d]
                /\ \A d \in Positions(frames) : d \in Positions(frames') /\ d # m
  BY BeginPassFrame
<1>2. PICK m \in Positions(frames') :
                /\ frames'[m] = g
                /\ \A d \in Positions(frames') : d # m => d \in Positions(frames) /\ frames'[d] = frames[d]
                /\ \A d \in Positions(frames) : d \in Positions(frames') /\ d # m
  BY <1>1
<1>3. queue' = <<>> /\ Elements(queue') = {}  BY EmptyHolds DEF BeginPass
<1>4. \A y \in Elements(Expiries(due)) : y.type = "Timer"  BY ExpiriesHold
<1>5. ASSUME HeldIn(x, queue, frames) PROVE HeldIn(x, queue', frames')
  <2>1. CASE x \in Elements(queue)  BY <1>1, <1>2, <2>1 DEF HeldIn
  <2>2. CASE \E d \in Positions(frames) : x \in FrameHolds(frames[d])  BY <1>2, <2>2 DEF HeldIn
  <2> QED  BY <1>5, <2>1, <2>2 DEF HeldIn
<1>6. ASSUME HeldIn(x, queue', frames') PROVE HeldIn(x, queue, frames) \/ x.type = "Timer"
  <2>1. PICK d \in Positions(frames') : x \in FrameHolds(frames'[d])  BY <1>3, <1>6 DEF HeldIn
  <2>2. CASE d = m  BY <1>1, <1>2, <1>4, <2>1, <2>2 DEF HeldIn
  <2>3. CASE d # m  BY <1>2, <2>1, <2>3 DEF HeldIn
  <2> QED  BY <2>2, <2>3
<1> QED  BY <1>5, <1>6

LEMMA StripKeeps ==
    ASSUME TypeOK, NEW r, Strip(r), NEW x, HeldIn(x, queue, frames), x.recv # r
    PROVE  HeldIn(x, queue', frames')
<1>1. ASSUME x \in Elements(queue) PROVE x \in Elements(queue')
  <2>1. PICK q \in Seq(Entry) : q = queue  BY DEF TypeOK
  <2>2. PICK P : P = {k \in Positions(q) : q[k].recv # r}  OBVIOUS
  <2>3. queue' = Picked(q, P)  BY <2>1, <2>2 DEF Strip, Without
  <2>4. \A k \in Positions(q) : q[k] = x => k \in P  BY <2>2
  <2> QED  BY <1>1, <2>1, <2>3, <2>4, PickedWithin
<1>2. ASSUME NEW d \in Positions(frames), x \in FrameHolds(frames[d])
      PROVE  d \in Positions(frames') /\ x \in FrameHolds(frames'[d])
  <2>1. Len(frames') = Len(frames) /\ d \in Positions(frames')  BY StripShrinks DEF Positions
  <2>2. /\ Shrinks(frames'[d], frames[d])
        /\ frames'[d].batch = Cleared(frames[d].batch, r)
        /\ frames'[d].timers = Cleared(frames[d].timers, r)
    BY <2>1, StripShrinks
  <2>3. frames[d] \in FrameType  BY DEF TypeOK, Positions
  <2> QED  BY <1>2, <2>1, <2>2, <2>3, FrameKeeps
<1> QED  BY <1>1, <1>2, QueueKeeps

LEMMA UnregisterKeeps ==
    ASSUME TypeOK, NEW r, UnregisterTimer(r), NEW x, HeldIn(x, queue, frames), x.type # "Timer"
    PROVE  HeldIn(x, queue', frames')
<1>1. ASSUME x \in Elements(queue) PROVE x \in Elements(queue')
  <2>1. PICK q \in Seq(Entry) : q = queue  BY DEF TypeOK
  <2>2. PICK P : P = {k \in Positions(q) : ~IsExpiryOf(q[k], r)}  OBVIOUS
  <2>3. queue' = Picked(q, P)  BY <2>1, <2>2 DEF UnregisterTimer
  <2>4. \A k \in Positions(q) : q[k] = x => k \in P  BY <2>2 DEF IsExpiryOf
  <2> QED  BY <1>1, <2>1, <2>3, <2>4, PickedWithin
<1>2. ASSUME NEW d \in Positions(frames), x \in FrameHolds(frames[d])
      PROVE  d \in Positions(frames') /\ x \in FrameHolds(frames'[d])
  <2>1. Len(frames') = Len(frames) /\ d \in Positions(frames')  BY UnregisterShrinks DEF Positions
  <2>2. /\ Shrinks(frames'[d], frames[d])
        /\ frames'[d].batch = WithoutExpiries(frames[d].batch, r)
        /\ frames'[d].timers = WithoutExpiries(frames[d].timers, r)
    BY <2>1, UnregisterShrinks
  <2>3. frames[d] \in FrameType  BY DEF TypeOK, Positions
  <2> QED  BY <1>2, <2>1, <2>2, <2>3, FrameKeeps
<1> QED  BY <1>1, <1>2, QueueKeeps

\* The innermost pass returns, spent.
LEMMA FrontKeeps ==
    ASSUME TypeOK, frames # <<>>, frames' = Front(frames), FrameHolds(Top) = {},
           NEW x, HeldIn(x, queue, frames), x \in Elements(queue) => x \in Elements(queue')
    PROVE  HeldIn(x, queue', frames')
<1>1. PICK m : m = Len(frames)  OBVIOUS
<1>2. m \in Positions(frames) /\ Top = frames[m] /\ m \in Nat  BY <1>1, TopType DEF Top, Positions
<1>3. /\ Len(frames') = m - 1
      /\ \A d \in Positions(frames') : d \in Positions(frames) /\ frames'[d] = frames[d]
  BY <1>1, FrontFrames
<1>4. ASSUME NEW d \in Positions(frames), x \in FrameHolds(frames[d])
      PROVE  d \in Positions(frames') /\ x \in FrameHolds(frames'[d])
  <2>1. d # m  BY <1>2, <1>4
  <2>2. d \in Positions(frames')  BY <1>1, <1>2, <1>3, <2>1 DEF Positions
  <2> QED  BY <1>3, <1>4, <2>2
<1> QED  BY <1>4, QueueKeeps

LEMMA DrainKeeps ==
    ASSUME TypeOK, HeldInv, QueueInv(queue, nextId), BeginDrain \/ DrainAgain,
           NEW x, HeldIn(x, queue, frames), x.type = "DeferredDelete"
    PROVE  HeldIn(x, queue', frames')
<1>1. PICK q \in Seq(Entry) : q = queue  BY DEF TypeOK
<1>2. Once(q)  BY <1>1 DEF HeldInv, Held, Owned
<1>3. PICK a : a = DeferredDeletes  OBVIOUS
<1>4. a \in Seq(Entry) /\ (x \in Elements(q) => x \in Elements(a))  BY <1>1, <1>2, <1>3, DrainParts
<1>5. CASE BeginDrain
  <2>1. frames = <<>> /\ Positions(frames) = {}  BY <1>5 DEF BeginDrain, Positions
  <2>2. x \in Elements(q)  BY <1>1, <2>1 DEF HeldIn
  <2>3. PICK g : g = Frame("drain", DeferredDeletes, <<>>)  OBVIOUS
  <2>4. frames' = <<g>> /\ g.batch = a  BY <1>3, <1>5, <2>3 DEF BeginDrain, Frame
  <2>5. 1 \in Positions(frames') /\ frames'[1] = g  BY <2>4 DEF Positions
  <2>6. x \in FrameHolds(g)  BY <1>4, <2>2, <2>4 DEF FrameHolds
  <2> QED  BY <2>5, <2>6 DEF HeldIn
<1>6. ASSUME DrainAgain PROVE HeldIn(x, queue', frames')
  <2>1. frames # <<>> /\ Top.hand = None /\ Top.kind = "drain" /\ ~BatchLeft
    BY <1>6 DEF DrainAgain, BetweenDispatches
  <2>2. PICK f \in FrameType : f = Top  BY <2>1, TopType
  <2>3. Swept(f, q) /\ f.batch \in Seq(Slot) /\ f.i \in Nat /\ f.j \in Nat \ {0}
    BY <1>1, <2>1, <2>2, TopHeld, FrameFields DEF FrameType
  <2>4. f.timers = <<>> /\ f.i > Len(f.batch) /\ f.j > Len(f.timers) /\ f.hand = None
    <3>1. f.timers = <<>>  BY <2>1, <2>2, <2>3 DEF Swept
    <3>2. f.i > Len(f.batch)  BY <2>1, <2>2, <2>3 DEF BatchLeft
    <3> QED  BY <2>1, <2>2, <2>3, <3>1, <3>2
  <2>5. FrameHolds(f) = {}  BY <2>3, <2>4, SpentHoldsNothing
  <2>6. CASE DeferredDeletes # <<>>
    <3>1. PICK g : g = DrainTop  OBVIOUS
    <3>2. g \in FrameType /\ g.batch = a  BY <1>3, <2>1, <3>1, DrainTopFields
    <3>3. SetTop(g)  BY <1>6, <2>6, <3>1 DEF DrainAgain, DrainTop
    <3>4. x \in Elements(queue) => x \in FrameHolds(g)  BY <1>1, <1>4, <3>2 DEF FrameHolds
    <3> QED  BY <2>1, <2>2, <2>5, <3>2, <3>3, <3>4, TopKeeps
  <2>7. CASE DeferredDeletes = <<>>
    <3>1. frames' = Front(frames)  BY <1>6, <2>7 DEF DrainAgain
    <3>2. x \notin Elements(queue)  BY <1>1, <1>3, <1>4, <2>7, EmptyHolds
    <3> QED  BY <2>1, <2>2, <2>5, <3>1, <3>2, FrontKeeps
  <2> QED  BY <2>6, <2>7
<1> QED  BY <1>5, <1>6

LEMMA EndPassKeeps ==
    ASSUME TypeOK, HeldInv, EndPass, NEW x, HeldIn(x, queue, frames)
    PROVE  HeldIn(x, queue', frames')
<1>1. frames # <<>> /\ Top.hand = None /\ ~BatchLeft /\ Top.j > Len(Top.timers) /\ queue' = queue
  BY DEF EndPass, BetweenDispatches
<1>2. PICK f \in FrameType : f = Top  BY <1>1, TopType
<1>3. Swept(f, queue) /\ f.batch \in Seq(Slot) /\ f.i \in Nat
  BY <1>1, <1>2, TopHeld, FrameFields DEF FrameType
<1>4. f.i > Len(f.batch) /\ f.j > Len(f.timers) /\ f.hand = None  BY <1>1, <1>2, <1>3 DEF BatchLeft
<1>5. FrameHolds(f) = {}  BY <1>3, <1>4, SpentHoldsNothing
<1>6. frames' = Front(frames)  BY DEF EndPass
<1> QED  BY <1>1, <1>2, <1>5, <1>6, FrontKeeps

LEMMA EndDispatchKeeps ==
    ASSUME TypeOK, EndDispatch, NEW x, HeldIn(x, queue, frames), x.type = "DeferredDelete",
           object[x.recv] # "none"
    PROVE  HeldIn(x, queue', frames')
<1>1. PICK g \in FrameType :
            /\ SetTop(g)
            /\ g.batch = Top.batch /\ g.timers = Top.timers
  BY EndDispatchFrame
<1>2. frames # <<>> /\ queue' = queue /\ Top.hand # x  BY DEF EndDispatch
<1>3. x \in FrameHolds(Top) => x \in FrameHolds(g)  BY <1>1, <1>2 DEF FrameHolds, Hand
<1> QED  BY <1>1, <1>2, <1>3, TopKeeps

\* A deferred delete stays where somebody holds it, whatever the step, while its object
\* stays here and no running pass has put its address among the deleted.
LEMMA StepKeepsDelete ==
    ASSUME TypeOK, QueueInv(queue, nextId), HeldInv, [Next]_vars,
           NEW r \in Receivers, object[r] = "here", object'[r] = "here",
           \A d \in Positions(frames) : r \notin frames[d].deleted,
           NEW x, HeldIn(x, queue, frames), Waits(x, r)
    PROVE  HeldIn(x, queue', frames')
<1>0. /\ x.type = "DeferredDelete" /\ x.recv = r
      /\ Ordered(queue) /\ queue \in Seq(Entry)
      /\ object \in [Receivers -> {"here", "away", "none"}]
  BY DEF Waits, QueueInv, TypeOK
<1>t. frames # <<>> => r \notin Top.deleted
  <2> SUFFICES ASSUME frames # <<>> PROVE r \notin Top.deleted  OBVIOUS
  <2>1. Len(frames) \in Positions(frames)  BY TopType DEF Positions
  <2> QED  BY <2>1 DEF Top
<1>a. ASSUME frames' = frames, x \in Elements(queue) => x \in Elements(queue')
      PROVE  HeldIn(x, queue', frames')
  BY <1>a, QueueKeeps
<1>b. ASSUME NEW z, Strip(z), object'[z] # "here" PROVE HeldIn(x, queue', frames')
  BY <1>0, <1>b, StripKeeps
<1>1. ASSUME NEW p \in Posters, NEW policy, NEW prio \in Priorities, PostEvent(p, policy, prio)
      PROVE  HeldIn(x, queue', frames')
  <2>1. prio \in Int /\ posting[p] # None  BY <1>1, DispatcherAssumption DEF PostEvent
  <2>2. PICK e \in Entry : e = Ticketed(p, prio)  BY <2>1, TicketedEntry
  <2>3. queue' = AfterAdmission(queue, e, policy) /\ frames' = frames  BY <1>1, <2>2 DEF PostEvent
  <2> QED  BY <1>0, <1>a, <2>3, AdmitKeepsDeletes
<1>2. ASSUME NEW p \in Posters, NEW prio \in Priorities, PostEventUnconditionally(p, prio)
      PROVE  HeldIn(x, queue', frames')
  <2>1. prio \in Int /\ posting[p] # None
    BY <1>2, DispatcherAssumption DEF PostEventUnconditionally
  <2>2. PICK e \in Entry : e = Ticketed(p, prio)  BY <2>1, TicketedEntry
  <2>3. queue' = InsertByPriority(queue, e) /\ frames' = frames
    BY <1>2, <2>2 DEF PostEventUnconditionally
  <2> QED  BY <1>0, <1>a, <2>3, InsertHolds
<1>3. CASE Dies \/ \E z \in Receivers : MoveAway(z)
  <2>1. PICK z \in Receivers :
          \/ Strip(z) /\ \E there \in {"none", "away"} : object' = [object EXCEPT ![z] = there]
          \/ UNCHANGED <<queue, frames>>
    BY <1>3, DiesStrips DEF MoveAway
  <2>2. CASE UNCHANGED <<queue, frames>>  BY <1>a, <2>2
  <2>3. CASE Strip(z) /\ \E there \in {"none", "away"} : object' = [object EXCEPT ![z] = there]
    <3>1. object'[z] # "here"  BY <1>0, <2>3
    <3> QED  BY <1>b, <2>3, <3>1
  <2> QED  BY <2>1, <2>2, <2>3
<1>4. CASE Aims  BY <1>4, <1>a, AimsAreQuiet
<1>6. ASSUME NEW z \in Receivers, UnregisterTimer(z) PROVE HeldIn(x, queue', frames')
  BY <1>0, <1>6, UnregisterKeeps
<1>7. ASSUME \/ \E z \in Receivers : CreateObject(z) \/ LeaveOrReturn(z) \/ RegisterTimer(z)
             \/ \E c \in Capacities : SetEventQueueCapacity(c)
             \/ Close
             \/ UNCHANGED vars
      PROVE  HeldIn(x, queue', frames')
  <2>1. queue' = queue /\ frames' = frames
    BY <1>7 DEF CreateObject, LeaveOrReturn, RegisterTimer, SetEventQueueCapacity, Close, vars
  <2> QED  BY <1>a, <2>1
<1>8. ASSUME NEW due, BeginPass(due) PROVE HeldIn(x, queue', frames')
  BY <1>8, BeginPassKeeps
<1>9. CASE NextEvent
  <2>1. frames # <<>> /\ Top.hand = None /\ BatchLeft /\ ((Preempts /\ Steal) \/ ClaimSlot)
    BY <1>9 DEF NextEvent, BetweenDispatches
  <2>2. x.recv \notin Top.deleted  BY <1>0, <1>t, <2>1
  <2>3. CASE Preempts /\ Steal  BY <2>1, <2>2, <2>3, StealKeeps
  <2>4. ASSUME ClaimSlot PROVE HeldIn(x, queue', frames')
    <3>1. queue' = queue  BY <2>4 DEF ClaimSlot
    <3> QED  BY <2>1, <2>2, <2>4, <3>1, ClaimKeeps
  <2> QED  BY <2>1, <2>3, <2>4
<1>10. CASE NextExpiry
  <2>1. x.recv \notin Top.deleted  BY <1>0, <1>10, <1>t DEF NextExpiry, BetweenDispatches
  <2> QED  BY <1>10, <2>1, ExpiryKeeps
<1>11. CASE EndPass  BY <1>11, EndPassKeeps
<1>12. CASE EndDispatch  BY <1>0, <1>12, EndDispatchKeeps
<1>13. CASE BeginDrain \/ DrainAgain  BY <1>0, <1>13, DrainKeeps
<1>14. CASE NextDeferredDelete
  <2>1. frames # <<>> /\ Top.hand = None /\ BatchLeft /\ ClaimSlot /\ queue' = queue
    BY <1>14 DEF NextDeferredDelete, BetweenDispatches, ClaimSlot
  <2> QED  BY <1>0, <1>t, <2>1, ClaimKeeps
<1> QED
  BY <1>1, <1>2, <1>3, <1>4, <1>6, <1>7, <1>8, <1>9, <1>10, <1>11, <1>12, <1>13, <1>14
  DEF Next, Aims, Dies

\* The event in flight from p is r's deferred delete.
Carries(p, r) == InFlightTo(p, r) /\ posting[p].type = "DeferredDelete"

\* A deferred delete in flight stays so, or is queued, while its object stays here, unless
\* it was carried to a queue that had closed.
LEMMA StepCarriesDelete ==
    ASSUME TypeOK, [Next]_vars, NEW r \in Receivers, object'[r] = "here",
           ~CarriedInVain(r), NEW p \in Posters, Carries(p, r)
    PROVE  Carries(p, r)' \/ \E x \in Elements(queue') : Waits(x, r)
<1>0. /\ posting \in [Posters -> Post \cup {None}] /\ posting[p] # None
      /\ posting[p].recv = r /\ posting[p].type = "DeferredDelete"
      /\ queue \in Seq(Entry) /\ object \in [Receivers -> {"here", "away", "none"}]
      /\ posting[p].recv \in Receivers
  BY DEF TypeOK, Carries, InFlightTo, Post
<1>a. ASSUME posting'[p] = posting[p] PROVE Carries(p, r)'
  BY <1>0, <1>a DEF Carries, InFlightTo
<1>b. ASSUME NEW z, NEW fate \in Fates, posting'[p] = Outlived(p, z, fate) PROVE Carries(p, r)'
  BY <1>0, <1>b, OutlivedPost DEF Carries, InFlightTo
<1>c. ASSUME NEW q \in Posters, q # p, Arrived(q) PROVE Carries(p, r)'
  BY <1>0, <1>a, <1>c DEF Arrived
<1>d. "gone" \in Fates /\ "stray" \in Fates  BY DEF Fates
<1>1. ASSUME NEW q \in Posters, NEW policy, NEW prio \in Priorities, PostEvent(q, policy, prio)
      PROVE  Carries(p, r)' \/ \E x \in Elements(queue') : Waits(x, r)
  <2>1. CASE q = p
    <3>1. prio \in Int  BY DispatcherAssumption
    <3>2. PICK e \in Entry : e = Ticketed(p, prio) /\ Waits(e, r)
      BY <1>0, <3>1, TicketedEntry DEF Waits
    <3>3. queue' = AfterAdmission(queue, e, "DropNewest")  BY <1>0, <1>1, <2>1, <3>2 DEF PostEvent
    <3> QED  BY <1>0, <3>2, <3>3, DeleteAdmitted DEF Waits
  <2> QED  BY <1>1, <1>c, <2>1 DEF PostEvent
<1>2. ASSUME NEW q \in Posters, NEW prio \in Priorities, PostEventUnconditionally(q, prio)
      PROVE  Carries(p, r)' \/ \E x \in Elements(queue') : Waits(x, r)
  <2>1. CASE q = p
    <3>1. prio \in Int  BY DispatcherAssumption
    <3>2. PICK e \in Entry : e = Ticketed(p, prio) /\ Waits(e, r)
      BY <1>0, <3>1, TicketedEntry DEF Waits
    <3>3. queue' = InsertByPriority(queue, e)  BY <1>2, <2>1, <3>2 DEF PostEventUnconditionally
    <3> QED  BY <1>0, <3>2, <3>3, InsertHolds
  <2> QED  BY <1>2, <1>c, <2>1 DEF PostEventUnconditionally
<1>3. CASE Aims
  <2>1. ASSUME NEW q \in Posters, NEW z, NEW type, NEW carried, Resolve(q, z, type, carried)
        PROVE  Carries(p, r)'
    <3>1. q # p  BY <1>0, <2>1 DEF Resolve
    <3> QED  BY <1>0, <1>a, <2>1, <3>1 DEF Resolve
  <2>2. ASSUME NEW q \in Posters, RefusePost(q) PROVE Carries(p, r)'
    <3>1. q # p  BY <1>0, <2>2 DEF RefusePost, CarriedInVain, Carries
    <3> QED  BY <1>c, <2>2, <3>1 DEF RefusePost
  <2> QED  BY <1>3, <2>1, <2>2 DEF Aims, BeginPost, BeginCarry, BeginDeleteLater
<1>4. CASE Dies
  <2>1. ASSUME NEW z \in Receivers, DestroyObject(z) PROVE Carries(p, r)'
    BY <1>b, <1>d, <2>1 DEF DestroyObject, Outlive
  <2>2. ASSUME NEW q \in Posters, DeleteAtOnce(q) PROVE Carries(p, r)'
    <3>1. q # p
      <4>1. SUFFICES ASSUME q = p PROVE FALSE  OBVIOUS
      <4>2. object' = [object EXCEPT ![r] = "none"]  BY <1>0, <2>2, <4>1 DEF DeleteAtOnce, Destroyed
      <4> QED  BY <1>0, <4>2
    <3> DEFINE z == posting[q].recv
    <3>2. posting'[p] = Outlived(p, z, "gone")  BY <2>2, <3>1 DEF DeleteAtOnce
    <3> HIDE DEF z
    <3> QED  BY <1>b, <1>d, <3>2
  <2>3. CASE RunDeferredDelete
    <3> DEFINE z == Top.hand.recv
    <3>1. posting'[p] = Outlived(p, z, "gone") \/ posting' = posting
      BY <2>3 DEF RunDeferredDelete, Outlive
    <3> HIDE DEF z
    <3> QED  BY <1>a, <1>b, <1>d, <3>1
  <2> QED  BY <1>4, <2>1, <2>2, <2>3 DEF Dies
<1>5. ASSUME NEW z \in Receivers, MoveAway(z) PROVE Carries(p, r)'
  BY <1>5, <1>b, <1>d DEF MoveAway, Outlive
<1>6. ASSUME \/ \E z \in Receivers :
                  \/ CreateObject(z) \/ LeaveOrReturn(z) \/ RegisterTimer(z) \/ UnregisterTimer(z)
             \/ \E c \in Capacities : SetEventQueueCapacity(c)
             \/ Close
             \/ \E due \in SUBSET ToSet(timers) : BeginPass(due)
             \/ NextEvent \/ NextExpiry \/ EndPass \/ EndDispatch
             \/ BeginDrain \/ NextDeferredDelete \/ DrainAgain
             \/ UNCHANGED vars
      PROVE  Carries(p, r)'
  <2>1. posting' = posting
    BY <1>6 DEF CreateObject, LeaveOrReturn, RegisterTimer, UnregisterTimer, SetEventQueueCapacity, Close,
                BeginPass, NextEvent, NextExpiry, EndPass, EndDispatch, BeginDrain, NextDeferredDelete,
                DrainAgain, vars
  <2> QED  BY <1>a, <2>1
<1> QED  BY <1>1, <1>2, <1>3, <1>4, <1>5, <1>6 DEF Next, Aims, Dies

\* A closed queue takes no deferred delete.
LEMMA StepClosed ==
    ASSUME TypeOK, QueueInv(queue, nextId), HeldInv, [Next]_vars, ~accepting,
           NEW x, HeldIn(x, queue', frames'), x.type = "DeferredDelete"
    PROVE  HeldIn(x, queue, frames)
<1>1. CASE \E due \in SUBSET ToSet(timers) : BeginPass(due)  BY <1>1, BeginPassKeeps
<1>2. CASE ~\E due \in SUBSET ToSet(timers) : BeginPass(due)
  <2>1. nextId' = nextId
    <3>1. CASE Dies \/ Aims  BY <3>1, DiesStrips, AimsAreQuiet
    <3>2. CASE ~(Dies \/ Aims)
      BY <1>2, <3>2 DEF Next, Aims, Dies, vars, PostEvent, PostEventUnconditionally, CreateObject,
             MoveAway, LeaveOrReturn, RegisterTimer, UnregisterTimer, SetEventQueueCapacity, Close,
             NextEvent, NextExpiry, EndPass, EndDispatch, BeginDrain, NextDeferredDelete, DrainAgain
    <3> QED  BY <3>1, <3>2
  <2>2. Traced /\ TypeOK' /\ HeldInv'  BY StepHeld, StepType
  <2>3. HeldIn(x, queue, frames) \/ New(x, nextId, nextId)  BY <2>1, <2>2 DEF Traced, Traces
  <2>4. x.id \in Nat
    <3>1. x \in Elements(queue') => x \in Entry  BY <2>2, QueueElements DEF TypeOK
    <3>2. ASSUME NEW d \in Positions(frames'), x \in FrameHolds(frames'[d]) PROVE x \in Entry
      <4>1. frames'[d] \in FrameType  BY <2>2, <3>2 DEF TypeOK, Positions
      <4> QED  BY <3>2, <4>1, FrameHoldsType
    <3> QED  BY <3>1, <3>2, EntryFields DEF HeldIn
  <2>5. nextId \in Nat  BY DEF TypeOK
  <2> QED  BY <2>3, <2>4, <2>5 DEF New
<1> QED  BY <1>1, <1>2

\* The drain returns when a sweep found nothing.
LEMMA StepDrained ==
    ASSUME TypeOK, QueueInv(queue, nextId), HeldInv, [Next]_vars,
           frames # <<>>, frames[1].kind = "drain", frames' = <<>>,
           NEW x, HeldIn(x, queue', frames')
    PROVE  x.type # "DeferredDelete"
<1>1. Positions(frames') = {}  BY DEF Positions
<1>2. Len(frames) # 0 /\ Len(frames) \in Nat /\ Len(frames) # Len(frames')
  BY TopType DEF TypeOK
<1>a. ASSUME NEW g \in FrameType, SetTop(g) PROVE FALSE
  <2>1. Len(frames') = Len(frames)
    <3>1. frames \in Seq(FrameType) /\ Len(frames) \in 1 .. Len(frames)  BY TopType DEF TypeOK
    <3> QED  BY <1>a, <3>1, ExceptSeq DEF SetTop
  <2> QED  BY <1>2, <2>1
<1>b. ASSUME ClaimSlot, BatchLeft PROVE FALSE
  <2>1. \E g \in FrameType : SetTop(g)  BY <1>b, ClaimSlotFrame
  <2> QED  BY <1>a, <2>1
<1>c. ASSUME NEW z, Strip(z) PROVE FALSE  BY <1>2, <1>c, StripShrinks
<1>3. CASE DrainAgain
  <2>1. PICK q \in Seq(Entry) : q = queue  BY DEF TypeOK
  <2>2. Once(q)  BY <2>1 DEF HeldInv, Held, Owned
  <2>3. queue' = DrainedQueue  BY <1>3 DEF DrainAgain
  <2>4. x \in Elements(queue')  BY <1>1 DEF HeldIn
  <2> QED  BY <2>1, <2>2, <2>3, <2>4, DrainParts
<1>4. CASE EndPass
  <2>1. Len(frames') = Len(frames) - 1  BY <1>4, FrontFrames DEF EndPass
  <2>2. Len(frames) = 1  BY <1>2, <2>1
  <2>3. Top = frames[1] /\ Top.kind = "pass"  BY <1>4, <2>2 DEF Top, EndPass, BetweenDispatches
  <2> QED  BY <2>3
<1>5. CASE NextEvent
  <2>1. BatchLeft /\ ((Preempts /\ Steal) \/ ClaimSlot)  BY <1>5 DEF NextEvent
  <2>2. ASSUME Preempts /\ Steal PROVE FALSE
    <3>1. \E g \in FrameType : SetTop(g)  BY <2>2, StealFrame
    <3> QED  BY <1>a, <3>1
  <2> QED  BY <1>b, <2>1, <2>2
<1>6. CASE NextDeferredDelete  BY <1>6, <1>b DEF NextDeferredDelete
<1>7. CASE NextExpiry
  <2>1. \E g \in FrameType : SetTop(g)  BY <1>7, NextExpiryFrame
  <2> QED  BY <1>a, <2>1
<1>8. CASE EndDispatch
  <2>1. \E g \in FrameType : SetTop(g)  BY <1>8, EndDispatchFrame
  <2> QED  BY <1>a, <2>1
<1>9. CASE Dies \/ \E z \in Receivers : MoveAway(z)
  <2>1. frames' = frames \/ \E z : Strip(z)  BY <1>9, DiesStrips DEF MoveAway
  <2> QED  BY <1>c, <2>1
<1>10. CASE Aims  BY <1>10, AimsAreQuiet
<1>12. ASSUME NEW z \in Receivers, UnregisterTimer(z) PROVE FALSE
  BY <1>2, <1>12, UnregisterShrinks
<1>13. ASSUME NEW due, BeginPass(due) PROVE FALSE
  <2>1. \E m \in Positions(frames') : TRUE  BY <1>13, BeginPassFrame
  <2> QED  BY <1>1, <2>1
<1>14. ASSUME \/ \E p \in Posters, policy \in Policies, prio \in Priorities : PostEvent(p, policy, prio)
              \/ \E p \in Posters, prio \in Priorities : PostEventUnconditionally(p, prio)
              \/ \E z \in Receivers : CreateObject(z) \/ LeaveOrReturn(z) \/ RegisterTimer(z)
              \/ \E c \in Capacities : SetEventQueueCapacity(c)
              \/ Close \/ BeginDrain
              \/ UNCHANGED vars
       PROVE  FALSE
  BY <1>14 DEF PostEvent, PostEventUnconditionally, CreateObject, LeaveOrReturn, RegisterTimer,
               SetEventQueueCapacity, Close, BeginDrain, vars
<1> QED
  BY <1>3, <1>4, <1>5, <1>6, <1>7, <1>8, <1>9, <1>10, <1>12, <1>13, <1>14
  DEF Next, Aims, Dies

\* deleteLater() keeps its word (Object.cpp, EventDispatcherDefault.cpp): in every step, a
\* deferred delete that is in flight is queued, whatever the capacity and the policies, one
\* that is held stays so until it runs or its object leaves, and the final drain ends with
\* none.  (A delete carried to a closed queue, and a reused address, are the exceptions.)
THEOREM DeferredDeletesStay == Spec => DeferredDeletesAreKept
<1> DEFINE Inv == TypeOK /\ QueueInv(queue, nextId) /\ HeldInv
           Kept == \A r \in Receivers :
                        DeferredDeletePendingFor(r) /\ object[r] = "here" /\ object'[r] = "here" =>
                            \/ DeferredDeletePendingFor(r)'
                            \/ CarriedInVain(r)
                            \/ \E d \in Positions(frames) : r \in frames[d].deleted
           Final == /\ (frames # <<>> /\ frames[1].kind = "drain" /\ frames' = <<>>)
                            => \A r \in Receivers : ~DeferredDeleteHeld(r)'
                    /\ \A r \in Receivers :
                            ~accepting /\ ~DeferredDeleteHeld(r) => ~DeferredDeleteHeld(r)'
<1>1. Spec => []Inv  BY AlwaysHeld, PTL
<1>2. Inv /\ Inv' /\ [Next]_vars => Kept
  <2> SUFFICES ASSUME Inv, Inv', [Next]_vars, NEW r \in Receivers,
                      DeferredDeletePendingFor(r), object[r] = "here", object'[r] = "here",
                      ~CarriedInVain(r), ~\E d \in Positions(frames) : r \in frames[d].deleted
               PROVE  DeferredDeletePendingFor(r)'
    OBVIOUS
  <2>a. ASSUME NEW x, HeldIn(x, queue', frames'), Waits(x, r) PROVE DeferredDeletePendingFor(r)'
    <3>1. HeldIn(x, queue, frames)' /\ Waits(x, r)  BY <2>a DEF HeldIn
    <3> QED  BY <3>1, HeldInSlotNext DEF DeferredDeletePendingFor
  <2>1. CASE DeferredDeleteHeld(r)
    <3>1. PICK x : HeldIn(x, queue, frames) /\ Waits(x, r)  BY <2>1, HeldInSlot
    <3> QED  BY <3>1, <2>a, StepKeepsDelete
  <2>2. CASE \E p \in Posters : Carries(p, r)
    <3>1. PICK p \in Posters : Carries(p, r)  BY <2>2
    <3>2. Carries(p, r)' \/ \E x \in Elements(queue') : Waits(x, r)  BY <3>1, StepCarriesDelete
    <3>3. CASE Carries(p, r)'  BY <3>3 DEF Carries, DeferredDeletePendingFor
    <3>4. CASE \E x \in Elements(queue') : Waits(x, r)  BY <3>4, <2>a DEF HeldIn
    <3> QED  BY <3>2, <3>3, <3>4
  <2> QED  BY <2>1, <2>2 DEF DeferredDeletePendingFor, Carries
<1>3. Inv /\ Inv' /\ [Next]_vars => Final
  <2> SUFFICES ASSUME Inv, Inv', [Next]_vars, NEW r \in Receivers, DeferredDeleteHeld(r)'
               PROVE  /\ ~(frames # <<>> /\ frames[1].kind = "drain" /\ frames' = <<>>)
                      /\ ~(~accepting /\ ~DeferredDeleteHeld(r))
    OBVIOUS
  <2>1. \E x : HeldIn(x, queue', frames') /\ Waits(x, r)
    <3>1. (\E x : HeldIn(x, queue, frames) /\ Waits(x, r))'  BY HeldInSlotNext
    <3> QED  BY <3>1 DEF HeldIn
  <2>2. PICK x : HeldIn(x, queue', frames') /\ Waits(x, r)  BY <2>1
  <2>3. x.type = "DeferredDelete"  BY <2>2 DEF Waits
  <2>4. ~(frames # <<>> /\ frames[1].kind = "drain" /\ frames' = <<>>)
    BY <2>2, <2>3, StepDrained
  <2>5. ASSUME ~accepting PROVE DeferredDeleteHeld(r)
    <3>1. HeldIn(x, queue, frames)  BY <2>2, <2>3, <2>5, StepClosed
    <3> QED  BY <2>2, <3>1, HeldInSlot
  <2> QED  BY <2>4, <2>5
<1>4. DeferredDeletesAreKept <=> [][Kept]_vars /\ [][Final]_vars
  BY DEF DeferredDeletesAreKept, DeferredDeleteKept, DrainIsFinal
<1> HIDE DEF Inv, Kept, Final
<1> QED  BY <1>1, <1>2, <1>3, <1>4, PTL DEF Spec
=============================================================================
