-------------------------- MODULE ThreadPoolProofs ---------------------------
(***************************************************************************)
(* What TLAPS proves about ThreadPool, for any number of workers, clients  *)
(* and tasks: a task that was submitted is in one place until it is        *)
(* deleted, and a pool that is gone has deleted them all.                  *)
(***************************************************************************)
EXTENDS ThreadPool, SubsequencesProofs, FiniteSetTheorems, TLAPS

WorkerPlaces == {"ready", "asleep", "running", "finished", "dropping", "ended", "dead"}
ClientPlaces == {"idle", "waiting", "woken", "clearing", "emptying", "stop", "join", "gone"}
Stages == {"none", "queued", "running", "finished", "cancelled"}

EveryoneIsSomewhere ==
    /\ at \in [Workers \cup Clients -> WorkerPlaces \cup ClientPlaces]
    /\ \A w \in Workers : at[w] \in WorkerPlaces
    /\ \A c \in Clients : at[c] \in ClientPlaces

Active == {w \in Workers : at[w] \in {"running", "finished"}}

HandsAreFull ==
    \A w \in Workers :
        /\ task[w] # None <=> at[w] \in {"running", "finished", "dropping"}
        /\ at[w] = "running" => stage[task[w]] = "running"

DropsAreOwned ==
    \A c \in Clients : dropped[c] # <<>> => at[c] \in {"clearing", "emptying"}

\* No task is in two places.
QueueApart ==
    \A i \in 1..Len(queue) :
        /\ queue[i] \in 1..made /\ queue[i] \notin deleted
        /\ \A j \in 1..Len(queue) : i # j => queue[j] # queue[i]
        /\ \A w \in Workers : task[w] # queue[i]
        /\ \A c \in Clients : \A j \in 1..Len(dropped[c]) : dropped[c][j] # queue[i]

HandsApart ==
    \A w \in Workers : task[w] # None =>
        /\ task[w] \in 1..made /\ task[w] \notin deleted
        /\ \A v \in Workers : v # w => task[v] # task[w]
        /\ \A c \in Clients : \A j \in 1..Len(dropped[c]) : dropped[c][j] # task[w]

DropsApart ==
    \A c \in Clients : \A i \in 1..Len(dropped[c]) :
        /\ dropped[c][i] \in 1..made /\ dropped[c][i] \notin deleted
        /\ \A j \in 1..Len(dropped[c]) : i # j => dropped[c][j] # dropped[c][i]
        /\ \A d \in Clients : d # c =>
            \A j \in 1..Len(dropped[d]) : dropped[d][j] # dropped[c][i]

Placed(t) ==
    \/ \E k \in 1..Len(queue) : queue[k] = t
    \/ \E w \in Workers : task[w] = t
    \/ \E c \in Clients : \E k \in 1..Len(dropped[c]) : dropped[c][k] = t

\* Every task is somewhere, or deleted.
AllPlaced ==
    /\ deleted \subseteq 1..made
    /\ \A t \in 1..made : t \in deleted \/ Placed(t)
    /\ Len(queue) <= made /\ \A c \in Clients : Len(dropped[c]) <= made

\* The destructor is alone with the workers, and nothing is queued once they end.
EndsAlone ==
    /\ stopping => at[Owner] \in {"join", "gone"}
    /\ \A c \in Clients \ {Owner} : at[c] \in {"idle", "waiting", "woken", "clearing"}
    /\ Destroying => \A c \in Clients : /\ submitting[c] = None
                                        /\ c # Owner => at[c] = "idle"
    /\ \A w \in Workers : at[w] = "ended" => stopping /\ queue = <<>>
    /\ Destroying /\ (\A w \in Workers : at[w] = "dead") => queue = <<>>
    /\ \A w \in Workers : submitting[w] # None => at[w] = "running"
    /\ at[Owner] = "gone" => \A w \in Workers : at[w] \in {"ended", "dead"}

PoolInv ==
    /\ TypeOK /\ EveryoneIsSomewhere /\ active = Cardinality(Active)
    /\ HandsAreFull /\ DropsAreOwned
    /\ QueueApart /\ HandsApart /\ DropsApart /\ AllPlaced
    /\ EndsAlone
-----------------------------------------------------------------------------
LEMMA Bounds ==
    ASSUME PoolInv
    PROVE  /\ MaxTasks \in Nat /\ made \in Nat /\ made <= MaxTasks /\ 1..made \subseteq Tasks
           /\ None \notin Tasks /\ queue \in Seq(Tasks) /\ Len(queue) \in Nat
           /\ \A c \in Clients : dropped[c] \in Seq(Tasks) /\ Len(dropped[c]) \in Nat
           /\ \A w \in Workers : w \notin Clients
           /\ IsFiniteSet(Workers) /\ Owner \in Clients
<1>1. MaxTasks \in Nat /\ made \in 0..MaxTasks /\ queue \in Seq(Tasks)
      /\ \A c \in Clients : dropped[c] \in Seq(Tasks)
  BY PoolAssumption DEF PoolInv, TypeOK
<1>2. \A c \in Clients : Len(dropped[c]) \in Nat
  BY <1>1
<1>3. QED
  BY <1>1, <1>2, PoolAssumption DEF Tasks, None

LEMMA ActiveIsFinite ==
    ASSUME NEW S \in SUBSET Workers
    PROVE  IsFiniteSet(S) /\ Cardinality(S) \in Nat /\ Cardinality(S) <= Cardinality(Workers)
           /\ Cardinality(Workers) \in Nat
  BY PoolAssumption, FS_Subset, FS_CardinalityType

LEMMA SameActive ==
    ASSUME \A w \in Workers : at'[w] \in {"running", "finished"} <=> at[w] \in {"running", "finished"}
    PROVE  Active' = Active /\ Cardinality(Active') = Cardinality(Active)
<1>1. Active' = Active
  BY DEF Active
<1>2. QED
  BY <1>1, Zenon

LEMMA InitPoolInv == Init => PoolInv
<1> SUFFICES ASSUME Init PROVE PoolInv
  OBVIOUS
<1>1. EveryoneIsSomewhere
  BY PoolAssumption DEF Init, EveryoneIsSomewhere, WorkerPlaces, ClientPlaces
<1>2. active = Cardinality(Active)
  <2>1. Active = {}
    BY PoolAssumption DEF Init, Active
  <2>2. Cardinality({}) = 0
    BY FS_EmptySet
  <2>3. Cardinality(Active) = 0
    BY <2>1, <2>2, Zenon
  <2>4. QED
    BY <2>3 DEF Init
<1>3. TypeOK
  <2>1. active \in 0..Cardinality(Workers)
    BY PoolAssumption, FS_CardinalityType DEF Init
  <2>2. /\ queue \in Seq(Tasks) /\ dropped \in [Clients -> Seq(Tasks)]
        /\ task \in [Workers -> Tasks \cup {None}]
        /\ submitting \in [Workers \cup Clients -> Tasks \cup {None}]
    BY DEF Init
  <2>3. stopping \in BOOLEAN /\ deleted \subseteq Tasks /\ made \in 0..MaxTasks
    <3>1. MaxTasks \in Nat
      BY PoolAssumption
    <3>2. made \in 0..MaxTasks
      BY <3>1 DEF Init
    <3>3. QED
      BY <3>2 DEF Init
  <2>4. stage \in [Tasks -> Stages] /\ priority \in [Tasks -> Priorities \cup {None}]
    BY DEF Init, Stages
  <2>5. QED
    BY <1>1, <2>1, <2>2, <2>3, <2>4
    DEF TypeOK, EveryoneIsSomewhere, WorkerPlaces, ClientPlaces, Stages
<1>4. HandsAreFull /\ DropsAreOwned
  BY PoolAssumption DEF Init, HandsAreFull, DropsAreOwned
<1>5. QueueApart /\ HandsApart /\ DropsApart /\ AllPlaced
  <2>1. Len(queue) = 0 /\ \A c \in Clients : Len(dropped[c]) = 0
    BY DEF Init
  <2>2. QED
    BY <2>1 DEF Init, QueueApart, HandsApart, DropsApart, AllPlaced
<1>6. EndsAlone
  BY PoolAssumption DEF Init, EndsAlone, Destroying
<1>7. QED
  BY <1>1, <1>2, <1>3, <1>4, <1>5, <1>6 DEF PoolInv
-----------------------------------------------------------------------------
\* Nothing but where somebody is changes, and not what that says of tasks.
LEMMA OnlyPlacesChange ==
    ASSUME PoolInv, NEW W \in [Workers \cup Clients -> WorkerPlaces \cup ClientPlaces], at' = W,
           \A w \in Workers :
                /\ W[w] \in WorkerPlaces
                /\ \/ W[w] = at[w]
                   \/ {W[w], at[w]} \subseteq {"ready", "asleep"},
           \A c \in Clients : /\ W[c] \in ClientPlaces
                              /\ dropped[c] # <<>> => W[c] \in {"clearing", "emptying"},
           UNCHANGED <<queue, active, tasks, task, dropped>>,
           submitting' \in [Workers \cup Clients -> Tasks \cup {None}],
           stopping' \in BOOLEAN,
           EndsAlone'
    PROVE  PoolInv'
<1>1. EveryoneIsSomewhere'
  BY DEF EveryoneIsSomewhere
<1>2. Active' = Active /\ Cardinality(Active') = Cardinality(Active)
  BY SameActive
<1>3. TypeOK'
  BY DEF PoolInv, TypeOK, tasks, WorkerPlaces, ClientPlaces
<1>4. HandsAreFull' /\ DropsAreOwned'
  <2>1. \A w \in Workers : (at'[w] \in {"running", "finished", "dropping"} <=>
                                at[w] \in {"running", "finished", "dropping"})
                           /\ (at'[w] = "running" <=> at[w] = "running")
    OBVIOUS
  <2>2. QED
    BY <2>1 DEF PoolInv, HandsAreFull, DropsAreOwned, tasks
<1>5. QueueApart' /\ HandsApart' /\ DropsApart'
  BY DEF PoolInv, QueueApart, HandsApart, DropsApart, tasks
<1>6. AllPlaced'
  BY DEF PoolInv, AllPlaced, Placed, tasks
<1>7. QED
  BY <1>1, <1>2, <1>3, <1>4, <1>5, <1>6 DEF PoolInv

LEMMA AnnounceKeeps ==
    ASSUME PoolInv, NEW p \in Workers \cup Clients, Announce(p)
    PROVE  PoolInv'
<1>1. /\ UNCHANGED <<queue, active, stopping, tasks, task, dropped>>
      /\ submitting' = [submitting EXCEPT ![p] = None]
      /\ at' = at \/ \E w \in Workers : at[w] = "asleep" /\ at' = [at EXCEPT ![w] = "ready"]
  BY DEF Announce
<1>2. /\ at \in [Workers \cup Clients -> WorkerPlaces \cup ClientPlaces]
      /\ \A w \in Workers : at[w] \in WorkerPlaces /\ w \notin Clients
      /\ \A c \in Clients : at[c] \in ClientPlaces
      /\ submitting \in [Workers \cup Clients -> Tasks \cup {None}] /\ Owner \in Clients
      /\ stopping \in BOOLEAN
  BY PoolAssumption DEF PoolInv, TypeOK, EveryoneIsSomewhere
<1>3. /\ \A w \in Workers : at'[w] = at[w] \/ (at[w] = "asleep" /\ at'[w] = "ready")
      /\ \A c \in Clients : at'[c] = at[c]
      /\ at' \in [Workers \cup Clients -> WorkerPlaces \cup ClientPlaces]
  BY <1>1, <1>2 DEF WorkerPlaces
<1>4. \A q \in Workers \cup Clients : submitting'[q] = submitting[q] \/ submitting'[q] = None
  BY <1>1, <1>2
<1>5. EndsAlone'
  BY <1>1, <1>2, <1>3, <1>4 DEF PoolInv, EndsAlone, Destroying
<1>6. \A w \in Workers : at'[w] \in WorkerPlaces
  BY <1>2, <1>3 DEF WorkerPlaces
<1>7. \A c \in Clients : dropped[c] # <<>> => at'[c] \in {"clearing", "emptying"}
  BY <1>3 DEF PoolInv, DropsAreOwned
<1>8. submitting' \in [Workers \cup Clients -> Tasks \cup {None}]
  BY <1>1, <1>2
<1>9. QED
  BY <1>1, <1>2, <1>3, <1>5, <1>6, <1>7, <1>8, OnlyPlacesChange

\* A client that waits, looks again or gives up.
LEMMA WaiterKeeps ==
    ASSUME PoolInv, NEW c \in Clients, WaitForDone(c) \/ LookAgain(c) \/ GiveUp(c)
    PROVE  PoolInv'
<1>1. /\ UNCHANGED <<queue, active, stopping, tasks, task, dropped, submitting>>
      /\ at[c] \in {"idle", "waiting", "woken"}
  <2>1. CASE WaitForDone(c)
    BY <2>1, Bounds DEF WaitForDone, MayCall
  <2>2. CASE LookAgain(c) \/ GiveUp(c)
    BY <2>2 DEF LookAgain, GiveUp
  <2>3. QED
    BY <2>1, <2>2
<1>a. \E s \in {"idle", "waiting"} : at' = [at EXCEPT ![c] = s]
  <2>1. CASE WaitForDone(c)
    BY <2>1 DEF WaitForDone
  <2>2. CASE GiveUp(c)
    BY <2>2 DEF GiveUp
  <2>3. CASE LookAgain(c)
    <3>1. CASE Quiet(active)
      BY <2>3, <3>1 DEF LookAgain
    <3>2. CASE ~Quiet(active)
      BY <2>3, <3>2 DEF LookAgain
    <3>3. QED
      BY <3>1, <3>2
  <2>4. QED
    BY <2>1, <2>2, <2>3
<1>b. ~Destroying
  <2>1. CASE WaitForDone(c)
    BY <2>1, Bounds DEF WaitForDone, MayCall
  <2>2. CASE at[c] \in {"waiting", "woken"}
    BY <2>2 DEF Destroying, PoolInv, EndsAlone
  <2>3. QED
    BY <2>1, <2>2 DEF LookAgain, GiveUp
<1>2. /\ at \in [Workers \cup Clients -> WorkerPlaces \cup ClientPlaces]
      /\ \A w \in Workers : at[w] \in WorkerPlaces /\ w \notin Clients
      /\ \A d \in Clients : at[d] \in ClientPlaces
      /\ submitting \in [Workers \cup Clients -> Tasks \cup {None}] /\ Owner \in Clients
      /\ stopping \in BOOLEAN
  BY PoolAssumption DEF PoolInv, TypeOK, EveryoneIsSomewhere
<1>3. /\ \A w \in Workers : at'[w] = at[w]
      /\ \A d \in Clients : d # c => at'[d] = at[d]
      /\ at'[c] \in {"idle", "waiting"}
      /\ at' \in [Workers \cup Clients -> WorkerPlaces \cup ClientPlaces]
  BY <1>a, <1>2 DEF ClientPlaces
<1>5. EndsAlone'
  <2>1. ~Destroying'
    BY <1>b, <1>2, <1>3 DEF Destroying
  <2>2. ~stopping /\ at'[Owner] # "gone"
    BY <1>b, <2>1 DEF Destroying, PoolInv, EndsAlone
  <2>3. QED
    BY <1>1, <1>2, <1>3, <2>1, <2>2 DEF PoolInv, EndsAlone
<1>6. \A d \in Clients : dropped[d] # <<>> => at'[d] \in {"clearing", "emptying"}
  BY <1>1, <1>3 DEF PoolInv, DropsAreOwned
<1>7. \A d \in Clients : at'[d] \in ClientPlaces
  BY <1>2, <1>3 DEF ClientPlaces
<1>8. QED
  BY <1>1, <1>2, <1>3, <1>5, <1>6, <1>7, OnlyPlacesChange

LEMMA WokenFacts ==
    ASSUME PoolInv
    PROVE  /\ WaitersWoken \in [Workers \cup Clients -> WorkerPlaces \cup ClientPlaces]
           /\ \A w \in Workers : WaitersWoken[w] = at[w]
           /\ \A c \in Clients :
                WaitersWoken[c] = at[c] \/ (at[c] = "waiting" /\ WaitersWoken[c] = "woken")
<1>1. /\ at \in [Workers \cup Clients -> WorkerPlaces \cup ClientPlaces]
      /\ \A w \in Workers : at[w] \in WorkerPlaces
  BY DEF PoolInv, EveryoneIsSomewhere
<1>2. "woken" \in ClientPlaces /\ "waiting" \notin WorkerPlaces
  BY DEF ClientPlaces, WorkerPlaces
<1>3. QED
  BY <1>1, <1>2 DEF WaitersWoken

LEMMA EndClearKeeps ==
    ASSUME PoolInv, NEW c \in Clients, EndClear(c)
    PROVE  PoolInv'
<1> DEFINE s == IF at[c] = "clearing" THEN "idle" ELSE "stop"
<1>1. /\ UNCHANGED <<queue, active, stopping, tasks, task, dropped, submitting>>
      /\ at[c] \in {"clearing", "emptying"} /\ dropped[c] = <<>>
  BY DEF EndClear
<1>2. /\ at \in [Workers \cup Clients -> WorkerPlaces \cup ClientPlaces]
      /\ \A w \in Workers : at[w] \in WorkerPlaces /\ w \notin Clients
      /\ \A d \in Clients : at[d] \in ClientPlaces
      /\ submitting \in [Workers \cup Clients -> Tasks \cup {None}] /\ Owner \in Clients
      /\ stopping \in BOOLEAN
  BY PoolAssumption DEF PoolInv, TypeOK, EveryoneIsSomewhere
<1>3. PICK here \in [Workers \cup Clients -> WorkerPlaces \cup ClientPlaces] :
        /\ at' = [here EXCEPT ![c] = s]
        /\ \A w \in Workers : here[w] = at[w]
        /\ \A d \in Clients : here[d] = at[d] \/ (at[d] = "waiting" /\ here[d] = "woken")
  <2>1. CASE Quiet(active)
    BY <2>1, WokenFacts DEF EndClear
  <2>2. CASE ~Quiet(active)
    BY <1>2, <2>2 DEF EndClear
  <2>3. QED
    BY <2>1, <2>2
<1>4. s \in {"idle", "stop"} /\ (s = "stop" <=> at[c] = "emptying")
  BY <1>1
<1> HIDE DEF s
<1>5. /\ \A w \in Workers : at'[w] = at[w]
      /\ \A d \in Clients : d # c => at'[d] = at[d] \/ (at[d] = "waiting" /\ at'[d] = "woken")
      /\ at'[c] = s
      /\ at' \in [Workers \cup Clients -> WorkerPlaces \cup ClientPlaces]
  BY <1>2, <1>3, <1>4 DEF ClientPlaces
<1>6. /\ Destroying' <=> Destroying
      /\ at'[Owner] = "gone" <=> at[Owner] = "gone"
      /\ stopping => at'[Owner] = at[Owner]
      /\ at'[c] = "stop" => c = Owner
  <2>1. at[c] = "emptying" => c = Owner
    BY <1>2 DEF PoolInv, EndsAlone
  <2>2. CASE c = Owner
    BY <1>1, <1>4, <1>5, <2>2 DEF Destroying, PoolInv, EndsAlone
  <2>3. CASE c # Owner
    BY <1>2, <1>4, <1>5, <2>1, <2>3 DEF Destroying, PoolInv, EndsAlone
  <2>4. QED
    BY <2>2, <2>3
<1>7. EndsAlone'
  <2>1. \A d \in Clients \ {Owner} : at'[d] \in {"idle", "waiting", "woken", "clearing"}
    BY <1>4, <1>5, <1>6 DEF PoolInv, EndsAlone
  <2>2. Destroying => \A d \in Clients : d # Owner => at'[d] = "idle"
    BY <1>1, <1>5 DEF PoolInv, EndsAlone
  <2>3. QED
    BY <1>1, <1>5, <1>6, <2>1, <2>2 DEF PoolInv, EndsAlone
<1>8. \A d \in Clients : dropped[d] # <<>> => at'[d] \in {"clearing", "emptying"}
  BY <1>1, <1>5 DEF PoolInv, DropsAreOwned
<1>9. \A d \in Clients : at'[d] \in ClientPlaces
  BY <1>2, <1>4, <1>5 DEF ClientPlaces
<1>10. QED
  BY <1>1, <1>2, <1>5, <1>7, <1>8, <1>9, OnlyPlacesChange

LEMMA EndKeeps ==
    ASSUME PoolInv, Stop \/ Join
    PROVE  PoolInv'
<1>1. /\ UNCHANGED <<queue, active, tasks, task, dropped, submitting>>
      /\ at[Owner] \in {"stop", "join"} /\ Destroying
  BY DEF Stop, Join, Destroying
<1>2. /\ at \in [Workers \cup Clients -> WorkerPlaces \cup ClientPlaces]
      /\ \A w \in Workers : at[w] \in WorkerPlaces /\ w \notin Clients
      /\ \A d \in Clients : at[d] \in ClientPlaces
      /\ submitting \in [Workers \cup Clients -> Tasks \cup {None}] /\ Owner \in Clients
      /\ stopping \in BOOLEAN
  BY PoolAssumption DEF PoolInv, TypeOK, EveryoneIsSomewhere
<1>3. /\ \A d \in Clients \ {Owner} : at[d] = "idle"
      /\ \A d \in Clients : submitting[d] = None /\ (d # Owner => dropped[d] = <<>>)
      /\ dropped[Owner] = <<>>
  BY <1>1, <1>2 DEF PoolInv, EndsAlone, DropsAreOwned
<1>4. CASE Stop
  <2>1. /\ stopping' = TRUE
        /\ at' = [p \in Workers \cup Clients |-> IF at[p] = "asleep" THEN "ready"
                                                 ELSE IF p = Owner THEN "join" ELSE at[p]]
    BY <1>2, <1>4 DEF Stop
  <2>2. /\ \A w \in Workers : at'[w] = at[w] \/ (at[w] = "asleep" /\ at'[w] = "ready")
        /\ \A d \in Clients \ {Owner} : at'[d] = "idle"
        /\ at'[Owner] = "join"
    BY <1>1, <1>2, <1>3, <2>1
  <2>3. at' \in [Workers \cup Clients -> WorkerPlaces \cup ClientPlaces]
    BY <1>2, <2>1 DEF WorkerPlaces, ClientPlaces
  <2>4. EndsAlone'
    <3>1. Destroying'
      BY <2>2 DEF Destroying
    <3>2. (\A w \in Workers : at'[w] = "dead") => queue = <<>>
      BY <1>1, <2>2 DEF PoolInv, EndsAlone
    <3>3. \A w \in Workers : submitting[w] # None => at'[w] = "running"
      BY <2>2 DEF PoolInv, EndsAlone
    <3>4. \A w \in Workers : at'[w] = "ended" => queue = <<>>
      BY <2>2 DEF PoolInv, EndsAlone
    <3>5. QED
      BY <1>1, <1>3, <2>1, <2>2, <3>1, <3>2, <3>3, <3>4 DEF EndsAlone
  <2>5. /\ \A w \in Workers : at'[w] \in WorkerPlaces
        /\ \A d \in Clients : at'[d] \in ClientPlaces /\ dropped[d] = <<>>
    BY <1>2, <1>3, <2>2 DEF WorkerPlaces, ClientPlaces
  <2>6. QED
    BY <1>1, <1>2, <2>1, <2>2, <2>3, <2>4, <2>5, OnlyPlacesChange
<1>5. CASE Join
  <2>1. /\ at' = [at EXCEPT ![Owner] = "gone"] /\ stopping' = stopping /\ at[Owner] = "join"
        /\ \A w \in Workers : at[w] \in {"ended", "dead"}
    BY <1>5 DEF Join
  <2>2. /\ \A w \in Workers : at'[w] = at[w]
        /\ \A d \in Clients \ {Owner} : at'[d] = "idle"
        /\ at'[Owner] = "gone"
        /\ at' \in [Workers \cup Clients -> WorkerPlaces \cup ClientPlaces]
    BY <1>2, <1>3, <2>1 DEF ClientPlaces
  <2>3. EndsAlone'
    BY <1>1, <1>3, <2>1, <2>2 DEF PoolInv, EndsAlone, Destroying
  <2>4. \A d \in Clients : at'[d] \in ClientPlaces /\ dropped[d] = <<>>
    BY <1>2, <1>3, <2>2 DEF ClientPlaces
  <2>5. QED
    BY <1>1, <1>2, <2>1, <2>2, <2>3, <2>4, OnlyPlacesChange
<1>6. QED
  BY <1>4, <1>5
-----------------------------------------------------------------------------
\* A handle cancels a task that waits to run.
LEMMA CancelKeeps ==
    ASSUME PoolInv, NEW t \in Tasks, Cancel(t)
    PROVE  PoolInv'
<1>1. /\ UNCHANGED <<queue, active, stopping, priority, deleted, made, at, task, dropped,
                     submitting>>
      /\ stage[t] = "queued" /\ stage' = [stage EXCEPT ![t] = "cancelled"]
      /\ stage \in [Tasks -> Stages]
  BY DEF Cancel, PoolInv, TypeOK, Stages
<1>2. stage' \in [Tasks -> Stages]
  BY <1>1 DEF Stages
<1>3. TypeOK'
  BY <1>1, <1>2 DEF PoolInv, TypeOK, Stages
<1>4. Active' = Active /\ Cardinality(Active') = Cardinality(Active)
  BY <1>1, SameActive
<1>5. HandsAreFull'
  <2>1. \A w \in Workers : at[w] = "running" => task[w] # t
    BY <1>1 DEF PoolInv, HandsAreFull
  <2>2. \A w \in Workers : at[w] = "running" => stage'[task[w]] = "running"
    <3>1. \A w \in Workers : at[w] = "running" => task[w] \in Tasks
      BY DEF PoolInv, HandsAreFull, TypeOK
    <3>2. QED
      BY <1>1, <2>1, <3>1 DEF PoolInv, HandsAreFull
  <2>3. QED
    BY <1>1, <2>2 DEF PoolInv, HandsAreFull
<1>6. EveryoneIsSomewhere' /\ DropsAreOwned' /\ QueueApart' /\ HandsApart' /\ DropsApart'
  BY <1>1 DEF PoolInv, EveryoneIsSomewhere, DropsAreOwned, QueueApart, HandsApart, DropsApart
<1>7. AllPlaced' /\ EndsAlone'
  BY <1>1 DEF PoolInv, AllPlaced, Placed, EndsAlone, Destroying
<1>8. QED
  BY <1>1, <1>3, <1>4, <1>5, <1>6, <1>7 DEF PoolInv

LEMMA FinishKeeps ==
    ASSUME PoolInv, NEW w \in Workers, Finish(w)
    PROVE  PoolInv'
<1>1. /\ UNCHANGED <<queue, active, stopping, priority, deleted, made, task, dropped, submitting>>
      /\ at[w] = "running" /\ submitting[w] = None
      /\ at' = [at EXCEPT ![w] = "finished"]
      /\ stage' = [stage EXCEPT ![task[w]] = "finished"]
      /\ stage \in [Tasks -> Stages] /\ task[w] \in Tasks
  BY DEF Finish, PoolInv, TypeOK, Stages, HandsAreFull
<1>2. /\ at \in [Workers \cup Clients -> WorkerPlaces \cup ClientPlaces]
      /\ \A v \in Workers : at[v] \in WorkerPlaces /\ v \notin Clients
      /\ Owner \in Clients /\ \A d \in Clients : at[d] \in ClientPlaces
  BY PoolAssumption DEF PoolInv, EveryoneIsSomewhere
<1>3. /\ at'[w] = "finished" /\ \A v \in Workers : v # w => at'[v] = at[v]
      /\ \A d \in Clients : at'[d] = at[d]
      /\ at' \in [Workers \cup Clients -> WorkerPlaces \cup ClientPlaces]
  BY <1>1, <1>2 DEF WorkerPlaces
<1>4. EveryoneIsSomewhere'
  BY <1>2, <1>3 DEF EveryoneIsSomewhere, WorkerPlaces
<1>5. stage' \in [Tasks -> Stages]
  BY <1>1 DEF Stages
<1>6. TypeOK'
  BY <1>1, <1>4, <1>5
  DEF PoolInv, TypeOK, EveryoneIsSomewhere, WorkerPlaces, ClientPlaces, Stages
<1>7. Active' = Active /\ Cardinality(Active') = Cardinality(Active)
  BY <1>1, <1>3, SameActive
<1>8. HandsAreFull'
  <2>1. ASSUME NEW v \in Workers, at'[v] = "running"
        PROVE  stage'[task[v]] = "running"
    <3>1. v # w /\ at[v] = "running" /\ task[v] \in Tasks /\ task[v] # None
      BY <1>3, <2>1 DEF PoolInv, HandsAreFull, TypeOK
    <3>2. task[v] # task[w]
      BY <3>1 DEF PoolInv, HandsApart
    <3>3. QED
      BY <1>1, <3>1, <3>2 DEF PoolInv, HandsAreFull
  <2>2. QED
    BY <1>1, <1>3, <2>1 DEF PoolInv, HandsAreFull
<1>9. DropsAreOwned' /\ QueueApart' /\ HandsApart' /\ DropsApart' /\ AllPlaced'
  BY <1>1, <1>3, SMTT(30)
  DEF PoolInv, DropsAreOwned, QueueApart, HandsApart, DropsApart, AllPlaced, Placed
<1>10. EndsAlone'
  <2>1. Destroying' <=> Destroying
    BY <1>2, <1>3 DEF Destroying
  <2>2. at[Owner] # "gone"
    BY <1>1 DEF PoolInv, EndsAlone
  <2>3. QED
    BY <1>1, <1>2, <1>3, <2>1, <2>2 DEF PoolInv, EndsAlone
<1>11. QED
  BY <1>1, <1>4, <1>6, <1>7, <1>8, <1>9, <1>10 DEF PoolInv

LEMMA InsertedTask ==
    ASSUME NEW s \in Seq(Tasks), NEW e \in Tasks, NEW k \in 1..Len(s) + 1
    PROVE  /\ InsertAt(s, k, e) \in Seq(Tasks)
           /\ Len(InsertAt(s, k, e)) = Len(s) + 1
           /\ \A i \in 1..Len(s) + 1 :
                InsertAt(s, k, e)[i] = IF i < k THEN s[i] ELSE IF i = k THEN e ELSE s[i - 1]
<1> DEFINE Shifted(S, q, j, x) ==
             /\ InsertAt(q, j, x) \in Seq(S)
             /\ Len(InsertAt(q, j, x)) = Len(q) + 1
             /\ \A i \in 1..Len(q) + 1 :
                  InsertAt(q, j, x)[i] = IF i < j THEN q[i] ELSE IF i = j THEN x ELSE q[i - 1]
<1>1. \A S : \A q \in Seq(S), x \in S : \A j \in 1..Len(q) + 1 : Shifted(S, q, j, x)
  BY InsertAtShifts
<1> HIDE DEF Shifted
<1>2. \A q \in Seq(Tasks), x \in Tasks : \A j \in 1..Len(q) + 1 : Shifted(Tasks, q, j, x)
  BY <1>1, Zenon
<1>3. Shifted(Tasks, s, k, e)
  BY <1>2
<1>4. QED
  BY <1>3 DEF Shifted

\* enqueue() puts the new task between the others and changes nothing about them.
LEMMA QueuedFacts ==
    ASSUME PoolInv, NEW t \in Tasks, NEW rank
    PROVE  /\ Queued(t, rank) \in Seq(Tasks) /\ Len(Queued(t, rank)) = Len(queue) + 1
           /\ \E k \in 1..Len(queue) + 1 : \A i \in 1..Len(queue) + 1 :
                Queued(t, rank)[i] = IF i < k THEN queue[i] ELSE IF i = k THEN t ELSE queue[i - 1]
<1> DEFINE ahead == {k \in DOMAIN queue : priority[queue[k]] >= rank}
           k == 1 + Cardinality(ahead)
<1>1. queue \in Seq(Tasks) /\ Len(queue) \in Nat /\ DOMAIN queue = 1..Len(queue)
  BY Bounds
<1>2. IsFiniteSet(1..Len(queue)) /\ Cardinality(1..Len(queue)) = Len(queue)
  BY <1>1, FS_Interval
<1>3. ahead \subseteq 1..Len(queue)
  BY <1>1
<1> HIDE DEF ahead
<1>4. Cardinality(ahead) \in Nat /\ Cardinality(ahead) <= Len(queue)
  <2>1. IsFiniteSet(ahead) /\ Cardinality(ahead) <= Cardinality(1..Len(queue))
    BY <1>2, <1>3, FS_Subset
  <2>2. Cardinality(ahead) \in Nat
    BY <2>1, FS_CardinalityType
  <2>3. QED
    BY <1>2, <2>1, <2>2
<1>5. k \in 1..Len(queue) + 1
  BY <1>1, <1>4
<1>6. Queued(t, rank) = InsertAt(queue, k, t)
  BY DEF Queued, ahead
<1> HIDE DEF k
<1>7. /\ InsertAt(queue, k, t) \in Seq(Tasks)
      /\ Len(InsertAt(queue, k, t)) = Len(queue) + 1
      /\ \A i \in 1..Len(queue) + 1 : InsertAt(queue, k, t)[i] =
            IF i < k THEN queue[i] ELSE IF i = k THEN t ELSE queue[i - 1]
  BY <1>1, <1>5, InsertedTask
<1> DEFINE q == Queued(t, rank)
<1>8. /\ q \in Seq(Tasks) /\ Len(q) = Len(queue) + 1
      /\ \A i \in 1..Len(queue) + 1 :
            q[i] = IF i < k THEN queue[i] ELSE IF i = k THEN t ELSE queue[i - 1]
  BY <1>6, <1>7
<1> HIDE DEF q
<1>9. \E j \in 1..Len(queue) + 1 : \A i \in 1..Len(queue) + 1 :
        q[i] = IF i < j THEN queue[i] ELSE IF i = j THEN t ELSE queue[i - 1]
  BY <1>5, <1>8
<1>10. QED
  BY <1>8, <1>9 DEF q

LEMMA SubmitKeeps ==
    ASSUME PoolInv, NEW p \in Workers \cup Clients, NEW rank \in Priorities, Submit(p, rank)
    PROVE  PoolInv'
<1> DEFINE t == made + 1
<1>1. /\ made \in Nat /\ made' = t /\ t \in 1..MaxTasks /\ t \in Tasks /\ MaxTasks \in Nat
      /\ t \notin 1..made /\ 1..made' = (1..made) \cup {t}
      /\ queue \in Seq(Tasks) /\ Len(queue) \in Nat
  <2>1. made < MaxTasks /\ made' = made + 1
    BY DEF Submit
  <2>2. QED
    BY <2>1, Bounds DEF Tasks
<1>2. /\ UNCHANGED <<active, stopping, at, task, dropped>> /\ MayCall(p)
      /\ priority' = [priority EXCEPT ![t] = rank]
      /\ priority \in [Tasks -> Priorities \cup {None}] /\ stage \in [Tasks -> Stages]
      /\ deleted \subseteq 1..made
  BY DEF Submit, PoolInv, TypeOK, Stages, AllPlaced
<1>3. PICK outcome \in {"queued", "cancelled"} :
        /\ stage' = [stage EXCEPT ![t] = outcome]
        /\ outcome = "cancelled" => deleted' = deleted \cup {t} /\ UNCHANGED <<queue, submitting>>
        /\ outcome = "queued" => /\ ~stopping /\ Workers # {}
                                 /\ queue' = Queued(t, rank) /\ deleted' = deleted
                                 /\ submitting' = [submitting EXCEPT ![p] = t]
  <2>1. CASE stopping \/ Workers = {}
    <3>1. /\ stage' = [stage EXCEPT ![t] = "cancelled"]
          /\ deleted' = deleted \cup {t} /\ UNCHANGED <<queue, submitting>>
      BY <2>1 DEF Submit
    <3>2. QED
      BY <3>1
  <2>2. CASE ~(stopping \/ Workers = {})
    <3>1. /\ stage' = [stage EXCEPT ![t] = "queued"]
          /\ queue' = Queued(t, rank) /\ deleted' = deleted
          /\ submitting' = [submitting EXCEPT ![p] = t]
      BY <2>2 DEF Submit
    <3>2. QED
      BY <2>2, <3>1
  <2>3. QED
    BY <2>1, <2>2
<1>4. \* Nobody has the new task.
      /\ \A i \in 1..Len(queue) : queue[i] # t /\ queue[i] \in 1..made
      /\ \A w \in Workers : task[w] # t
      /\ \A c \in Clients : \A i \in 1..Len(dropped[c]) : dropped[c][i] # t
      /\ t \notin deleted
  <2>1. \A i \in 1..Len(queue) : queue[i] \in 1..made
    BY DEF PoolInv, QueueApart
  <2>2. \A w \in Workers : task[w] \in 1..made \/ task[w] = None
    BY DEF PoolInv, HandsApart
  <2>3. \A c \in Clients : \A i \in 1..Len(dropped[c]) : dropped[c][i] \in 1..made
    BY DEF PoolInv, DropsApart
  <2>4. t # None
    BY <1>1 DEF None
  <2> HIDE DEF t
  <2>5. QED
    BY <1>1, <1>2, <2>1, <2>2, <2>3, <2>4
<1>5. \* The queue is what it was, or has the new task too.
      /\ queue' \in Seq(Tasks) /\ Len(queue') \in Nat /\ Len(queue') <= Len(queue) + 1
      /\ \A i \in 1..Len(queue') :
            \/ queue'[i] = t /\ outcome = "queued"
            \/ \E j \in 1..Len(queue) : queue'[i] = queue[j]
      /\ \A i, j \in 1..Len(queue') : i # j => queue'[i] # queue'[j]
      /\ \A j \in 1..Len(queue) : \E i \in 1..Len(queue') : queue'[i] = queue[j]
      /\ outcome = "queued" => \E i \in 1..Len(queue') : queue'[i] = t
  <2>1. CASE outcome = "cancelled"
    BY <1>1, <1>3, <2>1 DEF PoolInv, QueueApart
  <2>2. CASE outcome = "queued"
    <3>1. PICK k \in 1..Len(queue) + 1 : \A i \in 1..Len(queue) + 1 :
            queue'[i] = IF i < k THEN queue[i] ELSE IF i = k THEN t ELSE queue[i - 1]
      BY <1>1, <1>3, <2>2, QueuedFacts
    <3>2. queue' \in Seq(Tasks) /\ Len(queue') = Len(queue) + 1
      BY <1>1, <1>3, <2>2, QueuedFacts
    <3> HIDE DEF t
    <3>3. \A i \in 1..Len(queue') :
            \/ (i = k /\ queue'[i] = t)
            \/ (i < k /\ i \in 1..Len(queue) /\ queue'[i] = queue[i])
            \/ (i > k /\ i - 1 \in 1..Len(queue) /\ queue'[i] = queue[i - 1])
      <4> SUFFICES ASSUME NEW i \in 1..Len(queue')
                   PROVE  \/ (i = k /\ queue'[i] = t)
                          \/ (i < k /\ i \in 1..Len(queue) /\ queue'[i] = queue[i])
                          \/ (i > k /\ i - 1 \in 1..Len(queue) /\ queue'[i] = queue[i - 1])
        OBVIOUS
      <4>1. i \in Int /\ k \in Int /\ i \in 1..Len(queue) + 1 /\ k \in 1..Len(queue) + 1
        BY <1>1, <3>2
      <4>2. queue'[i] = IF i < k THEN queue[i] ELSE IF i = k THEN t ELSE queue[i - 1]
        BY <3>1, <4>1
      <4>3. CASE i < k
        BY <1>1, <4>1, <4>2, <4>3
      <4>4. CASE i = k
        BY <4>2, <4>4
      <4>5. CASE i > k
        BY <1>1, <4>1, <4>2, <4>5
      <4>6. QED
        BY <4>1, <4>3, <4>4, <4>5
    <3>4. \A i \in 1..Len(queue') : \/ queue'[i] = t
                                     \/ \E j \in 1..Len(queue) : queue'[i] = queue[j]
      BY <3>3
    <3>5. ASSUME NEW i \in 1..Len(queue'), NEW j \in 1..Len(queue'), i < j
          PROVE  queue'[i] # queue'[j]
      <4>0. i \in Int /\ j \in Int /\ k \in Int
        BY <1>1, <3>2
      <4>1. CASE i < k /\ i \in 1..Len(queue) /\ queue'[i] = queue[i]
        <5>1. CASE j = k /\ queue'[j] = t
          BY <1>4, <4>1, <5>1
        <5>2. CASE j < k /\ j \in 1..Len(queue) /\ queue'[j] = queue[j]
          BY <3>5, <4>0, <4>1, <5>2 DEF PoolInv, QueueApart
        <5>3. CASE j > k /\ j - 1 \in 1..Len(queue) /\ queue'[j] = queue[j - 1]
          <6>1. i # j - 1
            BY <4>0, <4>1, <5>3
          <6>2. QED
            BY <4>1, <5>3, <6>1 DEF PoolInv, QueueApart
        <5>4. QED
          BY <3>3, <5>1, <5>2, <5>3
      <4>2. CASE i >= k
        <5>1. j > k
          BY <3>5, <4>0, <4>2
        <5>2. j - 1 \in 1..Len(queue) /\ queue'[j] = queue[j - 1]
          BY <3>3, <4>0, <5>1
        <5>3. CASE i = k /\ queue'[i] = t
          BY <1>4, <5>2, <5>3
        <5>4. CASE i > k /\ i - 1 \in 1..Len(queue) /\ queue'[i] = queue[i - 1]
          <6>1. i - 1 # j - 1
            BY <3>5, <4>0
          <6>2. QED
            BY <5>2, <5>4, <6>1 DEF PoolInv, QueueApart
        <5>5. QED
          BY <3>3, <4>0, <4>2, <5>3, <5>4
      <4>3. QED
        BY <3>3, <4>0, <4>1, <4>2
    <3>6. \A i, j \in 1..Len(queue') : i # j => queue'[i] # queue'[j]
      <4>1. \A i, j \in 1..Len(queue') : i # j => i < j \/ j < i
        BY <1>1, <3>2
      <4>2. QED
        BY <3>5, <4>1
    <3>7. ASSUME NEW j \in 1..Len(queue)
          PROVE  \E i \in 1..Len(queue') : queue'[i] = queue[j]
      <4>1. CASE j < k
        BY <1>1, <3>1, <3>2, <4>1
      <4>2. CASE j >= k
        <5>1. j + 1 \in 1..Len(queue') /\ queue'[j + 1] = queue[j]
          BY <1>1, <3>1, <3>2, <4>2
        <5>2. QED
          BY <5>1
      <4>3. QED
        BY <1>1, <4>1, <4>2
    <3>8. k \in 1..Len(queue') /\ queue'[k] = t
      BY <1>1, <3>1, <3>2
    <3>9. QED
      BY <1>1, <2>2, <3>2, <3>4, <3>6, <3>7, <3>8
  <2>3. QED
    BY <2>1, <2>2
<1> HIDE DEF t
<1>6. stage' \in [Tasks -> Stages] /\ priority' \in [Tasks -> Priorities \cup {None}]
      /\ made' \in 0..MaxTasks /\ deleted' \subseteq Tasks
      /\ submitting' \in [Workers \cup Clients -> Tasks \cup {None}]
  <2>1. stage' \in [Tasks -> Stages]
    BY <1>2, <1>3 DEF Stages
  <2>2. priority' \in [Tasks -> Priorities \cup {None}]
    BY <1>2
  <2>3. made' \in 0..MaxTasks
    BY <1>1
  <2>4. deleted' \subseteq Tasks
    BY <1>1, <1>3, ZenonT(60) DEF PoolInv, TypeOK
  <2>5. submitting' \in [Workers \cup Clients -> Tasks \cup {None}]
    BY <1>1, <1>3 DEF PoolInv, TypeOK
  <2>6. QED
    BY <2>1, <2>2, <2>3, <2>4, <2>5
<1>7. TypeOK'
  BY <1>2, <1>5, <1>6 DEF PoolInv, TypeOK, Stages
<1>8. EveryoneIsSomewhere' /\ DropsAreOwned'
  BY <1>2 DEF PoolInv, EveryoneIsSomewhere, DropsAreOwned
<1>9. Active' = Active /\ Cardinality(Active') = Cardinality(Active)
  BY <1>2, SameActive
<1>10. HandsAreFull'
  BY <1>2, <1>3, <1>4 DEF PoolInv, HandsAreFull, TypeOK
<1>11. deleted' \subseteq deleted \cup {t} /\ (t \in deleted' => outcome = "cancelled")
       /\ deleted \subseteq deleted'
  BY <1>3, <1>4
<1>12. QueueApart'
  <2>1. ASSUME NEW i \in 1..Len(queue')
        PROVE  /\ queue'[i] \in 1..made' /\ queue'[i] \notin deleted'
               /\ \A w \in Workers : task'[w] # queue'[i]
               /\ \A c \in Clients : \A j \in 1..Len(dropped'[c]) : dropped'[c][j] # queue'[i]
    <3>1. CASE queue'[i] = t /\ outcome = "queued"
      BY <1>1, <1>2, <1>4, <1>11, <3>1
    <3>2. CASE \E j \in 1..Len(queue) : queue'[i] = queue[j]
      <4>1. PICK j \in 1..Len(queue) : queue'[i] = queue[j]
        BY <3>2
      <4>2. QED
        BY <1>1, <1>2, <1>4, <1>11, <4>1 DEF PoolInv, QueueApart
    <3>3. QED
      BY <1>5, <3>1, <3>2
  <2>2. QED
    BY <1>5, <2>1 DEF QueueApart
<1>13. HandsApart' /\ DropsApart'
  <2>1. HandsApart'
    BY <1>1, <1>2, <1>4, <1>11 DEF PoolInv, HandsApart
  <2>2. ASSUME NEW c \in Clients, NEW i \in 1..Len(dropped[c])
        PROVE  dropped[c][i] \in 1..made' /\ dropped[c][i] \notin deleted'
    <3>1. dropped[c][i] \in 1..made /\ dropped[c][i] \notin deleted
      BY DEF PoolInv, DropsApart
    <3>2. dropped[c][i] # t
      BY <1>4
    <3>3. QED
      BY <1>1, <1>11, <3>1, <3>2
  <2>3. DropsApart'
    BY <1>2, <2>2 DEF PoolInv, DropsApart
  <2>4. QED
    BY <2>1, <2>3
<1>14. AllPlaced'
  <2>1. deleted' \subseteq 1..made'
    BY <1>1, <1>2, <1>11
  <2>2. ASSUME NEW x \in 1..made', x \notin deleted'
        PROVE  Placed(x)'
    <3>1. CASE x = t
      <4>1. outcome = "queued"
        BY <1>3, <2>2, <3>1
      <4>2. QED
        BY <1>5, <3>1, <4>1 DEF Placed
    <3>2. CASE x \in 1..made
      <4>1. Placed(x)
        BY <1>11, <2>2, <3>2 DEF PoolInv, AllPlaced
      <4>2. QED
        BY <1>2, <1>5, <4>1 DEF Placed
    <3>3. QED
      BY <1>1, <3>1, <3>2
  <2>3. Len(queue') <= made' /\ \A c \in Clients : Len(dropped'[c]) <= made'
    BY <1>1, <1>2, <1>5, Bounds DEF PoolInv, AllPlaced, t
  <2>4. QED
    BY <2>1, <2>2, <2>3 DEF AllPlaced
<1>15. EndsAlone'
  <2>1. CASE outcome = "cancelled"
    BY <1>2, <1>3, <2>1 DEF PoolInv, EndsAlone, Destroying
  <2>2. CASE outcome = "queued"
    <3>1. /\ ~stopping /\ Destroying' = Destroying
          /\ \A q \in Workers \cup Clients : q # p => submitting'[q] = submitting[q]
      BY <1>2, <1>3, <2>2 DEF Destroying, PoolInv, TypeOK
    <3>2. (p \in Clients /\ at[p] = "idle" /\ ~Destroying) \/ (p \in Workers /\ at[p] = "running")
      BY <1>2 DEF MayCall
    <3>3. Destroying => p \in Workers /\ at[p] = "running" /\ p \notin Clients
      BY <3>2, PoolAssumption
    <3>4. \A w \in Workers : submitting'[w] # None => at[w] = "running"
      BY <3>1, <3>2, PoolAssumption DEF PoolInv, EndsAlone
    <3>5. QED
      BY <1>2, <3>1, <3>2, <3>3, <3>4 DEF PoolInv, EndsAlone
  <2>3. QED
    BY <2>1, <2>2
<1>16. QED
  BY <1>2, <1>7, <1>8, <1>9, <1>10, <1>12, <1>13, <1>14, <1>15 DEF PoolInv
-----------------------------------------------------------------------------
\* clear() and the destructor take the queue out as a whole.
LEMMA TakeOutKeeps ==
    ASSUME PoolInv, NEW c \in Clients, MayCall(c), NEW s \in {"clearing", "emptying"},
           TakeOut(c, s),
           s = "emptying" => c = Owner /\ \A d \in Clients : at[d] = "idle" /\ submitting[d] = None
    PROVE  PoolInv'
<1>1. /\ UNCHANGED <<active, stopping, tasks, task, submitting>>
      /\ dropped' = [dropped EXCEPT ![c] = queue] /\ queue' = <<>>
      /\ at' = [at EXCEPT ![c] = s]
      /\ at[c] = "idle" /\ ~Destroying /\ dropped[c] = <<>>
      /\ dropped \in [Clients -> Seq(Tasks)]
  BY Bounds DEF TakeOut, MayCall, PoolInv, DropsAreOwned, TypeOK
<1>2. /\ at \in [Workers \cup Clients -> WorkerPlaces \cup ClientPlaces]
      /\ \A w \in Workers : at[w] \in WorkerPlaces /\ w \notin Clients
      /\ \A d \in Clients : at[d] \in ClientPlaces
      /\ submitting \in [Workers \cup Clients -> Tasks \cup {None}] /\ Owner \in Clients
      /\ queue \in Seq(Tasks)
  BY PoolAssumption DEF PoolInv, TypeOK, EveryoneIsSomewhere
<1>3. /\ \A w \in Workers : at'[w] = at[w]
      /\ \A d \in Clients : d # c => at'[d] = at[d]
      /\ at'[c] = s
      /\ at' \in [Workers \cup Clients -> WorkerPlaces \cup ClientPlaces]
      /\ \A d \in Clients : at'[d] \in ClientPlaces
  BY <1>1, <1>2 DEF ClientPlaces
<1>4. /\ dropped'[c] = queue /\ \A d \in Clients : d # c => dropped'[d] = dropped[d]
      /\ dropped' \in [Clients -> Seq(Tasks)] /\ Len(queue') = 0
      /\ queue' \in Seq(Tasks)
  BY <1>1, <1>2
<1>5. EveryoneIsSomewhere'
  BY <1>2, <1>3 DEF EveryoneIsSomewhere
<1>6. TypeOK'
  BY <1>1, <1>4, <1>5 DEF PoolInv, TypeOK, EveryoneIsSomewhere, WorkerPlaces, ClientPlaces, tasks
<1>7. Active' = Active /\ Cardinality(Active') = Cardinality(Active)
  BY <1>3, SameActive
<1>8. HandsAreFull' /\ DropsAreOwned' /\ QueueApart'
  <2>1. HandsAreFull'
    BY <1>1, <1>3 DEF PoolInv, HandsAreFull, tasks
  <2>2. DropsAreOwned'
    BY <1>3, <1>4 DEF PoolInv, DropsAreOwned
  <2>3. QED
    BY <1>4, <2>1, <2>2 DEF QueueApart
<1>9. HandsApart'
  <2>1. ASSUME NEW w \in Workers, task[w] # None, NEW d \in Clients,
               NEW j \in 1..Len(dropped'[d])
        PROVE  dropped'[d][j] # task[w]
    <3>1. CASE d = c
      BY <1>4, <2>1, <3>1 DEF PoolInv, QueueApart
    <3>2. CASE d # c
      BY <1>4, <2>1, <3>2 DEF PoolInv, HandsApart
    <3>3. QED
      BY <3>1, <3>2
  <2>2. QED
    BY <1>1, <2>1 DEF PoolInv, HandsApart, tasks
<1>10. DropsApart'
  <2>1. ASSUME NEW d \in Clients, NEW i \in 1..Len(dropped'[d])
        PROVE  /\ dropped'[d][i] \in 1..made /\ dropped'[d][i] \notin deleted
               /\ \A j \in 1..Len(dropped'[d]) : i # j => dropped'[d][j] # dropped'[d][i]
    <3>1. CASE d = c
      BY <1>4, <2>1, <3>1 DEF PoolInv, QueueApart
    <3>2. CASE d # c
      BY <1>4, <2>1, <3>2 DEF PoolInv, DropsApart
    <3>3. QED
      BY <3>1, <3>2
  <2>2. ASSUME NEW d \in Clients, NEW e \in Clients, e # d,
               NEW i \in 1..Len(dropped'[d]), NEW j \in 1..Len(dropped'[e])
        PROVE  dropped'[e][j] # dropped'[d][i]
    <3>1. CASE d = c
      BY <1>4, <2>2, <3>1 DEF PoolInv, QueueApart
    <3>2. CASE e = c
      BY <1>4, <2>2, <3>2 DEF PoolInv, QueueApart
    <3>3. CASE d # c /\ e # c
      BY <1>4, <2>2, <3>3 DEF PoolInv, DropsApart
    <3>4. QED
      BY <3>1, <3>2, <3>3
  <2>3. QED
    BY <1>1, <2>1, <2>2 DEF DropsApart, tasks
<1>11. AllPlaced'
  <2>1. ASSUME NEW t \in 1..made, t \notin deleted
        PROVE  Placed(t)'
    <3>1. Placed(t)
      BY <2>1 DEF PoolInv, AllPlaced
    <3>2. CASE \E k \in 1..Len(queue) : queue[k] = t
      BY <1>4, <3>2 DEF Placed
    <3>3. CASE \E w \in Workers : task[w] = t
      BY <1>1, <3>3 DEF Placed
    <3>4. CASE \E d \in Clients : \E k \in 1..Len(dropped[d]) : dropped[d][k] = t
      <4>0. PICK d \in Clients : \E k \in 1..Len(dropped[d]) : dropped[d][k] = t
        BY <3>4
      <4>1. PICK k \in 1..Len(dropped[d]) : dropped[d][k] = t
        BY <4>0
      <4>2. d # c
        BY <1>1, <4>1
      <4>3. QED
        BY <1>4, <4>1, <4>2 DEF Placed
    <3>5. QED
      BY <3>1, <3>2, <3>3, <3>4 DEF Placed
  <2>2. Len(queue') <= made
    BY <1>4, Bounds
  <2>3. \A d \in Clients : Len(dropped'[d]) <= made
    BY <1>4 DEF PoolInv, AllPlaced
  <2>4. QED
    BY <1>1, <2>1, <2>2, <2>3 DEF PoolInv, AllPlaced, tasks
<1>12. EndsAlone'
  <2>1. ~stopping /\ ~stopping' /\ at[Owner] # "gone"
    BY <1>1 DEF PoolInv, EndsAlone, Destroying
  <2>2. at'[Owner] # "gone"
    <3>1. at'[Owner] = at[Owner] \/ at'[Owner] = s
      BY <1>2, <1>3
    <3>2. QED
      BY <2>1, <3>1
  <2>3. \A d \in Clients \ {Owner} : at'[d] \in {"idle", "waiting", "woken", "clearing"}
    <3>1. \A d \in Clients \ {Owner} : d = c => s = "clearing"
      OBVIOUS
    <3>2. QED
      BY <1>3, <3>1 DEF PoolInv, EndsAlone
  <2>4. Destroying' => \A d \in Clients : submitting'[d] = None /\ (d # Owner => at'[d] = "idle")
    <3>1. Destroying' => s = "emptying"
      BY <1>1, <1>2, <1>3 DEF Destroying
    <3>2. QED
      BY <1>1, <1>3, <3>1
  <2>5. \A w \in Workers : at'[w] # "ended"
    BY <1>3, <2>1 DEF PoolInv, EndsAlone
  <2>6. \A w \in Workers : submitting'[w] # None => at'[w] = "running"
    BY <1>1, <1>3 DEF PoolInv, EndsAlone
  <2>7. QED
    BY <1>1, <2>1, <2>2, <2>3, <2>4, <2>5, <2>6 DEF EndsAlone
<1>13. QED
  BY <1>1, <1>5, <1>6, <1>7, <1>8, <1>9, <1>10, <1>11, <1>12 DEF PoolInv

\* What is left of a sequence of tasks without its first.
LEMMA TailShifts ==
    ASSUME NEW s \in Seq(Tasks), s # <<>>
    PROVE  /\ Tail(s) \in Seq(Tasks) /\ Len(Tail(s)) = Len(s) - 1 /\ Len(s) >= 1
           /\ Head(s) = s[1] /\ Head(s) \in Tasks /\ Len(s) \in Nat
           /\ \A i \in 1..Len(Tail(s)) : i + 1 \in 1..Len(s) /\ Tail(s)[i] = s[i + 1]
           /\ \A i \in 1..Len(s) :
                i = 1 \/ (i - 1 \in 1..Len(Tail(s)) /\ Tail(s)[i - 1] = s[i])
<1>1. Len(s) \in Nat /\ Len(s) >= 1
  OBVIOUS
<1>2. Tail(s) \in Seq(Tasks) /\ Len(Tail(s)) = Len(s) - 1 /\ Head(s) = s[1] /\ s[1] \in Tasks
  BY <1>1
<1>3. \A i \in 1..Len(Tail(s)) : i + 1 \in 1..Len(s) /\ Tail(s)[i] = s[i + 1]
  BY <1>1, <1>2
<1>4. ASSUME NEW i \in 1..Len(s), i # 1
      PROVE  i - 1 \in 1..Len(Tail(s)) /\ Tail(s)[i - 1] = s[i]
  <2>1. i - 1 \in 1..Len(Tail(s)) /\ i - 1 + 1 = i
    BY <1>1, <1>2, <1>4
  <2>2. QED
    BY <1>3, <2>1
<1>5. QED
  BY <1>1, <1>2, <1>3, <1>4

LEMMA DropKeeps ==
    ASSUME PoolInv, NEW c \in Clients, Drop(c)
    PROVE  PoolInv'
<1> DEFINE t == Head(dropped[c])
           rest == Tail(dropped[c])
<1>1. /\ UNCHANGED <<queue, active, stopping, priority, made, at, task, submitting>>
      /\ dropped[c] # <<>> /\ dropped' = [dropped EXCEPT ![c] = rest]
      /\ stage' = [stage EXCEPT ![t] = "cancelled"] /\ deleted' = deleted \cup {t}
      /\ stage \in [Tasks -> Stages] /\ dropped \in [Clients -> Seq(Tasks)]
  BY DEF Drop, PoolInv, TypeOK, Stages
<1>2. /\ rest \in Seq(Tasks) /\ Len(rest) = Len(dropped[c]) - 1 /\ 1 \in 1..Len(dropped[c])
      /\ t = dropped[c][1] /\ t \in Tasks /\ Len(dropped[c]) \in Nat
      /\ \A i \in 1..Len(rest) : i + 1 \in 1..Len(dropped[c]) /\ rest[i] = dropped[c][i + 1]
      /\ \A i \in 1..Len(dropped[c]) :
            i = 1 \/ (i - 1 \in 1..Len(rest) /\ rest[i - 1] = dropped[c][i])
  <2>1. dropped[c] \in Seq(Tasks)
    BY <1>1
  <2>2. QED
    BY <1>1, <2>1, TailShifts
<1> HIDE DEF t, rest
<1>3. /\ dropped'[c] = rest /\ \A d \in Clients : d # c => dropped'[d] = dropped[d]
      /\ dropped' \in [Clients -> Seq(Tasks)]
  BY <1>1, <1>2
<1>4. stage' \in [Tasks -> Stages] /\ deleted' \subseteq Tasks
  BY <1>1, <1>2 DEF Stages, PoolInv, TypeOK
<1>5. TypeOK'
  BY <1>1, <1>3, <1>4 DEF PoolInv, TypeOK, Stages
<1>6. Active' = Active /\ Cardinality(Active') = Cardinality(Active)
  BY <1>1, SameActive
<1>7. \* The task is nowhere else.
      /\ t \in 1..made /\ \A w \in Workers : task[w] # t
      /\ \A i \in 1..Len(queue) : queue[i] # t
      /\ \A i \in 1..Len(rest) : rest[i] # t
      /\ \A d \in Clients : d # c => \A i \in 1..Len(dropped[d]) : dropped[d][i] # t
  <2>1. t \in 1..made /\ \A d \in Clients : d # c => \A i \in 1..Len(dropped[d]) : dropped[d][i] # t
    BY <1>2 DEF PoolInv, DropsApart
  <2>2. \A i \in 1..Len(queue) : queue[i] # t
    BY <1>2 DEF PoolInv, QueueApart
  <2>3. ASSUME NEW i \in 1..Len(rest)
        PROVE  rest[i] # t
    <3>1. i + 1 \in 1..Len(dropped[c]) /\ rest[i] = dropped[c][i + 1] /\ i + 1 # 1
      BY <1>2
    <3>2. QED
      BY <1>2, <3>1 DEF PoolInv, DropsApart
  <2>4. ASSUME NEW w \in Workers
        PROVE  task[w] # t
    <3>1. CASE task[w] = None
      BY <1>2, <3>1, Bounds
    <3>2. CASE task[w] # None
      BY <1>2, <3>2 DEF PoolInv, HandsApart
    <3>3. QED
      BY <3>1, <3>2
  <2>5. QED
    BY <2>1, <2>2, <2>3, <2>4
<1>8. HandsAreFull'
  <2>1. ASSUME NEW w \in Workers, at[w] = "running"
        PROVE  stage'[task[w]] = "running"
    <3>1. task[w] \in Tasks /\ task[w] # t /\ stage[task[w]] = "running"
      BY <1>7, <2>1 DEF PoolInv, HandsAreFull, TypeOK
    <3>2. QED
      BY <1>1, <3>1
  <2>2. QED
    BY <1>1, <2>1 DEF PoolInv, HandsAreFull
<1>9. EveryoneIsSomewhere' /\ DropsAreOwned'
  BY <1>1, <1>3 DEF PoolInv, EveryoneIsSomewhere, DropsAreOwned
<1>10. \* What is in a clear() was in the same one.
       \A d \in Clients : \A i \in 1..Len(dropped'[d]) :
            \E j \in 1..Len(dropped[d]) : dropped'[d][i] = dropped[d][j] /\ dropped'[d][i] # t
  <2>1. ASSUME NEW d \in Clients, NEW i \in 1..Len(dropped'[d])
        PROVE  \E j \in 1..Len(dropped[d]) : dropped'[d][i] = dropped[d][j] /\ dropped'[d][i] # t
    <3>1. CASE d = c
      BY <1>2, <1>3, <1>7, <3>1
    <3>2. CASE d # c
      BY <1>3, <1>7, <3>2
    <3>3. QED
      BY <3>1, <3>2
  <2>2. QED
    BY <2>1
<1>11. QueueApart'
  <2>1. ASSUME NEW i \in 1..Len(queue), NEW d \in Clients, NEW j \in 1..Len(dropped'[d])
        PROVE  dropped'[d][j] # queue[i]
    <3>1. PICK k \in 1..Len(dropped[d]) : dropped'[d][j] = dropped[d][k]
      BY <1>10
    <3>2. QED
      BY <3>1 DEF PoolInv, QueueApart
  <2>2. QED
    BY <1>1, <1>7, <2>1 DEF PoolInv, QueueApart
<1>12. HandsApart'
  <2>1. ASSUME NEW w \in Workers, task[w] # None, NEW d \in Clients, NEW j \in 1..Len(dropped'[d])
        PROVE  dropped'[d][j] # task[w]
    BY <1>10, <2>1 DEF PoolInv, HandsApart
  <2>2. QED
    BY <1>1, <1>7, <2>1 DEF PoolInv, HandsApart
<1>13. DropsApart'
  <2>1. ASSUME NEW d \in Clients, NEW i \in 1..Len(dropped'[d])
        PROVE  /\ dropped'[d][i] \in 1..made /\ dropped'[d][i] \notin deleted'
               /\ \A e \in Clients : e # d =>
                    \A j \in 1..Len(dropped'[e]) : dropped'[e][j] # dropped'[d][i]
    <3>1. PICK k \in 1..Len(dropped[d]) : dropped'[d][i] = dropped[d][k] /\ dropped'[d][i] # t
      BY <1>10
    <3>2. ASSUME NEW e \in Clients, e # d, NEW j \in 1..Len(dropped'[e])
          PROVE  dropped'[e][j] # dropped'[d][i]
      <4>1. PICK m \in 1..Len(dropped[e]) : dropped'[e][j] = dropped[e][m]
        BY <1>10
      <4>2. QED
        BY <3>1, <3>2, <4>1 DEF PoolInv, DropsApart
    <3>3. QED
      BY <1>1, <3>1, <3>2 DEF PoolInv, DropsApart
  <2>2. ASSUME NEW d \in Clients, NEW i \in 1..Len(dropped'[d]), NEW j \in 1..Len(dropped'[d]), i # j
        PROVE  dropped'[d][j] # dropped'[d][i]
    <3>1. CASE d = c
      <4>1. /\ i + 1 \in 1..Len(dropped[c]) /\ j + 1 \in 1..Len(dropped[c]) /\ i + 1 # j + 1
            /\ dropped'[d][i] = dropped[c][i + 1] /\ dropped'[d][j] = dropped[c][j + 1]
        BY <1>2, <1>3, <2>2, <3>1
      <4>2. QED
        BY <4>1 DEF PoolInv, DropsApart
    <3>2. CASE d # c
      BY <1>3, <2>2, <3>2 DEF PoolInv, DropsApart
    <3>3. QED
      BY <3>1, <3>2
  <2>3. QED
    BY <1>1, <2>1, <2>2 DEF DropsApart
<1>14. AllPlaced'
  <2>1. ASSUME NEW x \in 1..made, x \notin deleted'
        PROVE  Placed(x)'
    <3>1. Placed(x) /\ x # t
      BY <1>1, <2>1 DEF PoolInv, AllPlaced
    <3>2. CASE \E k \in 1..Len(queue) : queue[k] = x
      BY <1>1, <3>2 DEF Placed
    <3>3. CASE \E w \in Workers : task[w] = x
      BY <1>1, <3>3 DEF Placed
    <3>4. CASE \E d \in Clients : \E k \in 1..Len(dropped[d]) : dropped[d][k] = x
      <4>0. PICK d \in Clients : \E k \in 1..Len(dropped[d]) : dropped[d][k] = x
        BY <3>4
      <4>1. PICK k \in 1..Len(dropped[d]) : dropped[d][k] = x
        BY <4>0
      <4>2. CASE d = c
        <5>1. k - 1 \in 1..Len(rest) /\ rest[k - 1] = x
          BY <1>2, <3>1, <4>1, <4>2
        <5>2. QED
          BY <1>3, <4>2, <5>1 DEF Placed
      <4>3. CASE d # c
        BY <1>3, <4>1, <4>3 DEF Placed
      <4>4. QED
        BY <4>2, <4>3
    <3>5. QED
      BY <3>1, <3>2, <3>3, <3>4 DEF Placed
  <2>2. ASSUME NEW d \in Clients
        PROVE  Len(dropped'[d]) <= made
    <3>1. CASE d = c
      <4>1. Len(dropped[c]) <= made /\ made \in Nat
        BY Bounds DEF PoolInv, AllPlaced
      <4>2. QED
        BY <1>2, <1>3, <3>1, <4>1
    <3>2. CASE d # c
      BY <1>3, <3>2 DEF PoolInv, AllPlaced
    <3>3. QED
      BY <3>1, <3>2
  <2>3. QED
    BY <1>1, <1>7, <2>1, <2>2 DEF PoolInv, AllPlaced
<1>15. EndsAlone'
  BY <1>1 DEF PoolInv, EndsAlone, Destroying
<1>16. QED
  BY <1>1, <1>5, <1>6, <1>8, <1>9, <1>11, <1>12, <1>13, <1>14, <1>15 DEF PoolInv
-----------------------------------------------------------------------------
\* What a worker that lets go of its task and picks the next one changes: t is the task
\* it gets, if any, and place where that leaves it.
Picks(w, n, here, t, place) ==
    /\ t \in Tasks \cup {None} /\ place \in {"running", "dropping", "ended", "asleep"}
    /\ t # None <=> place \in {"running", "dropping"}
    /\ task' = [task EXCEPT ![w] = t]
    /\ at' = [here EXCEPT ![w] = place]
    /\ active' = n + (IF place = "running" THEN 1 ELSE 0)
    /\ stage' \in [Tasks -> Stages]
    /\ \A x \in Tasks : x # t => stage'[x] = stage[x]
    /\ place = "running" => stage'[t] = "running"
    /\ place = "ended" => stopping /\ queue' = <<>>
    /\ queue' \in Seq(Tasks) /\ Len(queue') <= Len(queue) /\ (queue = <<>> => queue' = <<>>)
    /\ t # None => 1 \in 1..Len(queue) /\ t = queue[1]
    /\ \A i \in 1..Len(queue') : i + 1 \in 1..Len(queue) /\ queue'[i] = queue[i + 1]
    /\ \A i \in 1..Len(queue) :
        queue[i] = t \/ (i - 1 \in 1..Len(queue') /\ queue'[i - 1] = queue[i])

LEMMA PickFacts ==
    ASSUME PoolInv, NEW w \in Workers, NEW n, NEW here, Pick(w, n, here), n \in Int
    PROVE  \E t, place : Picks(w, n, here, t, place)
<1>1. queue \in Seq(Tasks) /\ Len(queue) \in Nat /\ stage \in [Tasks -> Stages] /\ None \notin Tasks
  BY Bounds DEF PoolInv, TypeOK, Stages
<1>2. CASE queue # <<>>
  <2> DEFINE t == Head(queue)
  <2>1. /\ Tail(queue) \in Seq(Tasks) /\ Len(Tail(queue)) = Len(queue) - 1 /\ Len(queue) >= 1
        /\ t = queue[1] /\ t \in Tasks
        /\ \A i \in 1..Len(Tail(queue)) : i + 1 \in 1..Len(queue) /\ Tail(queue)[i] = queue[i + 1]
        /\ \A i \in 1..Len(queue) :
            i = 1 \/ (i - 1 \in 1..Len(Tail(queue)) /\ Tail(queue)[i - 1] = queue[i])
    BY <1>1, <1>2, TailShifts
  <2>2. queue' = Tail(queue) /\ task' = [task EXCEPT ![w] = t]
    BY <1>2 DEF Pick
  <2>3. PICK place \in {"running", "dropping"} :
          /\ at' = [here EXCEPT ![w] = place]
          /\ active' = n + (IF place = "running" THEN 1 ELSE 0)
          /\ place = "running" => stage' = [stage EXCEPT ![t] = "running"]
          /\ place = "dropping" => stage' = stage
    <3>1. CASE stage[t] = "queued"
      BY <1>2, <3>1 DEF Pick
    <3>2. CASE stage[t] # "queued"
      <4>1. active' = n + 0 /\ at' = [here EXCEPT ![w] = "dropping"] /\ stage' = stage
        BY <1>2, <3>2 DEF Pick
      <4>2. QED
        BY <4>1
    <3>3. QED
      BY <3>1, <3>2
  <2> HIDE DEF t
  <2>4. stage' \in [Tasks -> Stages] /\ (place = "running" => stage'[t] = "running")
        /\ \A x \in Tasks : x # t => stage'[x] = stage[x]
    BY <1>1, <2>1, <2>3 DEF Stages
  <2>5. t # None /\ 1 \in 1..Len(queue) /\ Len(queue') <= Len(queue)
    BY <1>1, <2>1, <2>2
  <2>6. \A i \in 1..Len(queue) :
            queue[i] = t \/ (i - 1 \in 1..Len(queue') /\ queue'[i - 1] = queue[i])
    BY <2>1, <2>2
  <2>7. /\ queue' \in Seq(Tasks)
        /\ \A i \in 1..Len(queue') : i + 1 \in 1..Len(queue) /\ queue'[i] = queue[i + 1]
    BY <2>1, <2>2
  <2>8. Picks(w, n, here, t, place)
    BY <1>2, <2>1, <2>2, <2>3, <2>4, <2>5, <2>6, <2>7 DEF Picks
  <2>9. QED
    BY <2>8
<1>3. CASE queue = <<>>
  <2>1. PICK place \in {"ended", "asleep"} :
          at' = [here EXCEPT ![w] = place] /\ (place = "ended" => stopping)
    BY <1>3 DEF Pick
  <2>2. task' = [task EXCEPT ![w] = None] /\ active' = n + 0 /\ UNCHANGED <<queue, stage>>
    BY <1>3 DEF Pick
  <2>3. Len(queue) = 0 /\ 1..Len(queue) = {}
    BY <1>3
  <2>4. Picks(w, n, here, None, place)
    BY <1>1, <1>3, <2>1, <2>2, <2>3 DEF Picks
  <2>5. QED
    BY <2>4
<1>4. QED
  BY <1>2, <1>3

LEMMA PickKeeps ==
    ASSUME PoolInv, NEW w \in Workers, at[w] \in {"ready", "finished", "dropping"},
           NEW n, n = Cardinality(Active \ {w}),
           NEW here \in [Workers \cup Clients -> WorkerPlaces \cup ClientPlaces],
           \A v \in Workers : here[v] = at[v],
           \A c \in Clients : here[c] = at[c] \/ (at[c] = "waiting" /\ here[c] = "woken"),
           Pick(w, n, here),
           task[w] = None => deleted' = deleted,
           task[w] # None => deleted' = deleted \cup {task[w]},
           UNCHANGED <<stopping, priority, made, dropped, submitting>>
    PROVE  PoolInv'
<1> DEFINE old == task[w]
<1>1. n \in Nat
  BY ActiveIsFinite DEF Active
<1>2. PICK t, place : Picks(w, n, here, t, place)
  BY <1>1, PickFacts
<1>3. /\ t \in Tasks \cup {None} /\ place \in {"running", "dropping", "ended", "asleep"}
      /\ t # None <=> place \in {"running", "dropping"}
      /\ task' = [task EXCEPT ![w] = t] /\ at' = [here EXCEPT ![w] = place]
      /\ active' = n + (IF place = "running" THEN 1 ELSE 0)
      /\ stage' \in [Tasks -> Stages] /\ \A x \in Tasks : x # t => stage'[x] = stage[x]
      /\ place = "running" => stage'[t] = "running"
      /\ place = "ended" => stopping /\ queue' = <<>>
  BY <1>2 DEF Picks
<1>4. /\ queue' \in Seq(Tasks) /\ Len(queue') <= Len(queue) /\ (queue = <<>> => queue' = <<>>)
      /\ t # None => 1 \in 1..Len(queue) /\ t = queue[1]
      /\ \A i \in 1..Len(queue') : i + 1 \in 1..Len(queue) /\ queue'[i] = queue[i + 1]
      /\ \A i \in 1..Len(queue) :
            queue[i] = t \/ (i - 1 \in 1..Len(queue') /\ queue'[i - 1] = queue[i])
  BY <1>2 DEF Picks
<1>5. /\ at \in [Workers \cup Clients -> WorkerPlaces \cup ClientPlaces]
      /\ \A v \in Workers : at[v] \in WorkerPlaces /\ v \notin Clients
      /\ \A c \in Clients : at[c] \in ClientPlaces
      /\ task \in [Workers -> Tasks \cup {None}] /\ Owner \in Clients
      /\ None \notin Tasks /\ 1..made \subseteq Tasks
  BY Bounds DEF PoolInv, TypeOK, EveryoneIsSomewhere
<1>6. /\ at'[w] = place /\ \A v \in Workers : v # w => at'[v] = at[v]
      /\ \A c \in Clients : at'[c] = at[c] \/ (at[c] = "waiting" /\ at'[c] = "woken")
      /\ at' \in [Workers \cup Clients -> WorkerPlaces \cup ClientPlaces]
      /\ task'[w] = t /\ \A v \in Workers : v # w => task'[v] = task[v]
      /\ task' \in [Workers -> Tasks \cup {None}]
  <2>1. at'[w] = place /\ \A v \in Workers : v # w => at'[v] = at[v]
    BY <1>3, <1>5
  <2>2. \A c \in Clients : at'[c] = here[c]
    BY <1>3, <1>5
  <2>3. place \in WorkerPlaces
    BY <1>3 DEF WorkerPlaces
  <2>4. at' \in [Workers \cup Clients -> WorkerPlaces \cup ClientPlaces]
    BY <1>3, <2>3
  <2>5. task'[w] = t /\ (\A v \in Workers : v # w => task'[v] = task[v])
        /\ task' \in [Workers -> Tasks \cup {None}]
    BY <1>3, <1>5
  <2>6. QED
    BY <2>1, <2>2, <2>4, <2>5
<1>7. EveryoneIsSomewhere'
  <2>1. \A v \in Workers : at'[v] \in WorkerPlaces
    BY <1>3, <1>5, <1>6 DEF WorkerPlaces
  <2>2. \A c \in Clients : at'[c] \in ClientPlaces
    BY <1>5, <1>6 DEF ClientPlaces
  <2>3. QED
    BY <1>6, <2>1, <2>2 DEF EveryoneIsSomewhere
<1>8. active' = Cardinality(Active') /\ active' \in 0..Cardinality(Workers)
  <2>1. IsFiniteSet(Active \ {w})
    BY ActiveIsFinite DEF Active
  <2>2. CASE place = "running"
    <3>1. Active' = (Active \ {w}) \cup {w}
      BY <1>6, <2>2 DEF Active
    <3>2. Cardinality((Active \ {w}) \cup {w}) = Cardinality(Active \ {w}) + 1
      BY <2>1, FS_AddElement
    <3>3. Cardinality(Active') = Cardinality(Active \ {w}) + 1
      BY <3>1, <3>2, Zenon
    <3>4. Cardinality(Active') \in 0..Cardinality(Workers)
      <4>1. Active' \in SUBSET Workers
        BY DEF Active
      <4>2. QED
        BY <4>1, ActiveIsFinite
    <3>5. QED
      BY <1>1, <1>3, <2>2, <3>3, <3>4
  <2>3. CASE place # "running"
    <3>1. Active' = Active \ {w}
      BY <1>3, <1>6, <2>3 DEF Active
    <3>2. Cardinality(Active') = Cardinality(Active \ {w})
      BY <3>1, Zenon
    <3>3. Cardinality(Active') \in 0..Cardinality(Workers)
      <4>1. Active' \in SUBSET Workers
        BY DEF Active
      <4>2. QED
        BY <4>1, ActiveIsFinite
    <3>4. QED
      BY <1>1, <1>3, <2>3, <3>2, <3>3
  <2>4. QED
    BY <2>2, <2>3
<1>9. TypeOK'
  <2>1. deleted' \subseteq Tasks
    BY <1>5 DEF PoolInv, TypeOK
  <2>2. QED
    BY <1>3, <1>4, <1>6, <1>7, <1>8, <2>1
    DEF PoolInv, TypeOK, EveryoneIsSomewhere, WorkerPlaces, ClientPlaces, Stages
<1>10. \* The new task is in nobody else's hands.
       t # None => /\ t \in 1..made /\ t \notin deleted
                   /\ \A v \in Workers : task[v] # t
                   /\ \A c \in Clients : \A j \in 1..Len(dropped[c]) : dropped[c][j] # t
  BY <1>4 DEF PoolInv, QueueApart
<1>11. HandsAreFull'
  <2>1. ASSUME NEW v \in Workers
        PROVE  task'[v] # None <=> at'[v] \in {"running", "finished", "dropping"}
    BY <1>3, <1>6 DEF PoolInv, HandsAreFull
  <2>2. ASSUME NEW v \in Workers, at'[v] = "running"
        PROVE  stage'[task'[v]] = "running"
    <3>1. CASE v = w
      BY <1>3, <1>6, <2>2, <3>1
    <3>2. CASE v # w
      <4>1. at[v] = "running" /\ task'[v] = task[v] /\ task[v] \in Tasks /\ stage[task[v]] = "running"
        BY <1>5, <1>6, <2>2, <3>2 DEF PoolInv, HandsAreFull
      <4>2. task[v] # t
        BY <1>5, <1>10, <4>1
      <4>3. QED
        BY <1>3, <4>1, <4>2
    <3>3. QED
      BY <3>1, <3>2
  <2>3. QED
    BY <2>1, <2>2 DEF HandsAreFull
<1>12. DropsAreOwned'
  BY <1>6 DEF PoolInv, DropsAreOwned
<1>13. \* The old one was in nobody else's.
       /\ old # None => /\ \A v \in Workers : v # w => task[v] # old
                        /\ \A c \in Clients : \A j \in 1..Len(dropped[c]) : dropped[c][j] # old
                        /\ old \in 1..made
       /\ \A i \in 1..Len(queue) : queue[i] # old
       /\ deleted' \subseteq deleted \cup {old} /\ deleted \subseteq deleted'
       /\ old = None \/ old \in deleted'
  BY DEF PoolInv, HandsApart, QueueApart
<1> HIDE DEF old
<1>14. QueueApart'
  <2>1. ASSUME NEW i \in 1..Len(queue')
        PROVE  /\ queue'[i] \in 1..made' /\ queue'[i] \notin deleted'
               /\ \A v \in Workers : task'[v] # queue'[i]
               /\ \A c \in Clients : \A j \in 1..Len(dropped'[c]) : dropped'[c][j] # queue'[i]
    <3>1. i + 1 \in 1..Len(queue) /\ queue'[i] = queue[i + 1]
      BY <1>4
    <3>2. queue'[i] \in 1..made /\ queue'[i] \notin deleted /\ queue'[i] # old
      BY <1>13, <3>1 DEF PoolInv, QueueApart
    <3>3. t # queue'[i]
      <4>1. CASE t = None
        BY <1>5, <3>2, <4>1
      <4>2. CASE t # None
        <5>1. 1 \in 1..Len(queue) /\ t = queue[1] /\ i + 1 # 1
          BY <1>4, <4>2
        <5>2. QED
          BY <3>1, <5>1 DEF PoolInv, QueueApart
      <4>3. QED
        BY <4>1, <4>2
    <3>4. \A v \in Workers : task'[v] # queue'[i]
      BY <1>6, <3>1, <3>3 DEF PoolInv, QueueApart
    <3>5. \A c \in Clients : \A j \in 1..Len(dropped'[c]) : dropped'[c][j] # queue'[i]
      BY <3>1 DEF PoolInv, QueueApart
    <3>6. QED
      BY <1>13, <3>2, <3>4, <3>5
  <2>2. ASSUME NEW i \in 1..Len(queue'), NEW j \in 1..Len(queue'), i # j
        PROVE  queue'[j] # queue'[i]
    <3>1. /\ i + 1 \in 1..Len(queue) /\ queue'[i] = queue[i + 1]
          /\ j + 1 \in 1..Len(queue) /\ queue'[j] = queue[j + 1] /\ i + 1 # j + 1
      BY <1>4, <2>2
    <3>2. QED
      BY <3>1 DEF PoolInv, QueueApart
  <2>3. QED
    BY <2>1, <2>2 DEF QueueApart
<1>15. HandsApart'
  <2>1. ASSUME NEW v \in Workers, task'[v] # None
        PROVE  /\ task'[v] \in 1..made' /\ task'[v] \notin deleted'
               /\ \A u \in Workers : u # v => task'[u] # task'[v]
               /\ \A c \in Clients : \A j \in 1..Len(dropped'[c]) : dropped'[c][j] # task'[v]
    <3>1. CASE v = w
      <4>1. task'[v] = t /\ t # None /\ t # old
        <5>1. task'[v] = t /\ t # None
          BY <1>6, <2>1, <3>1
        <5>2. QED
          BY <1>4, <1>13, <5>1
      <4>2. \A u \in Workers : u # v => task'[u] # t
        BY <1>6, <1>10, <3>1, <4>1
      <4>3. QED
        BY <1>10, <1>13, <4>1, <4>2
    <3>2. CASE v # w
      <4>1. /\ task'[v] = task[v] /\ task[v] # None /\ task[v] # old
            /\ task[v] \in 1..made /\ task[v] \notin deleted
        <5>1. task'[v] = task[v] /\ task[v] # None
          BY <1>6, <2>1, <3>2
        <5>2. QED
          BY <1>13, <3>2, <5>1 DEF PoolInv, HandsApart
      <4>2. ASSUME NEW u \in Workers, u # v
            PROVE  task'[u] # task[v]
        <5>1. CASE u = w
          BY <1>6, <1>10, <4>1, <5>1
        <5>2. CASE u # w
          BY <1>6, <4>1, <4>2, <5>2 DEF PoolInv, HandsApart
        <5>3. QED
          BY <5>1, <5>2
      <4>3. \A c \in Clients : \A j \in 1..Len(dropped'[c]) : dropped'[c][j] # task[v]
        BY <4>1 DEF PoolInv, HandsApart
      <4>4. QED
        BY <1>13, <4>1, <4>2, <4>3
    <3>3. QED
      BY <3>1, <3>2
  <2>2. QED
    BY <2>1 DEF HandsApart
<1>16. DropsApart'
  <2>1. ASSUME NEW c \in Clients, NEW i \in 1..Len(dropped[c])
        PROVE  dropped[c][i] \notin deleted'
    <3>1. dropped[c][i] \notin deleted /\ dropped[c][i] \in 1..made
      BY DEF PoolInv, DropsApart
    <3>2. dropped[c][i] # old
      BY <1>5, <1>13, <3>1
    <3>3. QED
      BY <1>13, <3>1, <3>2
  <2>2. QED
    BY <2>1 DEF PoolInv, DropsApart
<1>17. AllPlaced'
  <2>1. deleted' \subseteq 1..made'
    <3>1. deleted \subseteq 1..made
      BY DEF PoolInv, AllPlaced
    <3>2. CASE old = None
      BY <3>1, <3>2 DEF old
    <3>3. CASE old # None
      BY <1>13, <3>1, <3>3
    <3>4. QED
      BY <3>2, <3>3
  <2>2. ASSUME NEW x \in 1..made, x \notin deleted'
        PROVE  Placed(x)'
    <3>1. Placed(x) /\ x # old
      <4>1. x # None
        BY <1>5
      <4>2. QED
        BY <1>13, <2>2, <4>1 DEF PoolInv, AllPlaced
    <3>2. CASE \E k \in 1..Len(queue) : queue[k] = x
      <4>1. PICK k \in 1..Len(queue) : queue[k] = x
        BY <3>2
      <4>2. CASE queue[k] = t
        BY <1>6, <4>1, <4>2 DEF Placed
      <4>3. CASE k - 1 \in 1..Len(queue') /\ queue'[k - 1] = queue[k]
        BY <4>1, <4>3 DEF Placed
      <4>4. QED
        BY <1>4, <4>2, <4>3
    <3>3. CASE \E v \in Workers : task[v] = x
      <4>1. PICK v \in Workers : task[v] = x
        BY <3>3
      <4>2. v # w
        BY <3>1, <4>1 DEF old
      <4>3. QED
        BY <1>6, <4>1, <4>2 DEF Placed
    <3>4. CASE \E c \in Clients : \E k \in 1..Len(dropped[c]) : dropped[c][k] = x
      BY <3>4 DEF Placed
    <3>5. QED
      BY <3>1, <3>2, <3>3, <3>4 DEF Placed
  <2>3. Len(queue') <= made'
    <3>1. Len(queue) <= made /\ made \in Nat /\ Len(queue) \in Nat /\ Len(queue') \in Nat
      BY <1>4, Bounds DEF PoolInv, AllPlaced
    <3>2. QED
      BY <1>4, <3>1
  <2>4. QED
    BY <2>1, <2>2, <2>3 DEF PoolInv, AllPlaced
<1>18. EndsAlone'
  <2>1. Destroying' <=> Destroying
    BY <1>5, <1>6 DEF Destroying
  <2>2. stopping' => at'[Owner] \in {"join", "gone"}
    BY <1>5, <1>6 DEF PoolInv, EndsAlone
  <2>3. \A c \in Clients \ {Owner} : at'[c] \in {"idle", "waiting", "woken", "clearing"}
    BY <1>6 DEF PoolInv, EndsAlone
  <2>4. Destroying => \A c \in Clients : submitting'[c] = None /\ (c # Owner => at'[c] = "idle")
    BY <1>6 DEF PoolInv, EndsAlone
  <2>5. \A v \in Workers : at'[v] = "ended" => stopping' /\ queue' = <<>>
    BY <1>3, <1>4, <1>6 DEF PoolInv, EndsAlone
  <2>6. at'[w] # "dead"
    BY <1>3, <1>6
  <2>7. \A v \in Workers : submitting'[v] # None => at'[v] = "running"
    BY <1>6 DEF PoolInv, EndsAlone
  <2>8. at'[Owner] # "gone"
    <3>1. at[Owner] # "gone"
      BY DEF PoolInv, EndsAlone
    <3>2. QED
      BY <1>5, <1>6, <3>1
  <2>9. QED
    BY <2>1, <2>2, <2>3, <2>4, <2>5, <2>6, <2>7, <2>8 DEF EndsAlone
<1>19. QED
  BY <1>7, <1>8, <1>9, <1>11, <1>12, <1>14, <1>15, <1>16, <1>17, <1>18 DEF PoolInv

LEMMA WorkerStepKeeps ==
    ASSUME PoolInv, NEW w \in Workers, Look(w) \/ EndTask(w) \/ EndDrop(w)
    PROVE  PoolInv'
<1>1. at[w] \in {"ready", "finished", "dropping"}
      /\ UNCHANGED <<stopping, priority, made, dropped, submitting>>
  BY DEF Look, EndTask, EndDrop, Relock
<1>2. /\ at \in [Workers \cup Clients -> WorkerPlaces \cup ClientPlaces]
      /\ IsFiniteSet(Active) /\ active = Cardinality(Active) /\ active \in Int
  BY ActiveIsFinite DEF PoolInv, EveryoneIsSomewhere, Active
<1>3. PICK n \in Int, here \in [Workers \cup Clients -> WorkerPlaces \cup ClientPlaces] :
        /\ Pick(w, n, here) /\ n = Cardinality(Active \ {w})
        /\ \A v \in Workers : here[v] = at[v]
        /\ \A c \in Clients : here[c] = at[c] \/ (at[c] = "waiting" /\ here[c] = "woken")
  <2>1. CASE Look(w)
    <3>1. Active \ {w} = Active
      BY <2>1 DEF Look, Active
    <3>2. Cardinality(Active \ {w}) = Cardinality(Active)
      BY <3>1, Zenon
    <3>3. Pick(w, active, at)
      BY <2>1 DEF Look
    <3>4. QED
      BY <1>2, <3>2, <3>3
  <2>2. ASSUME NEW n \in Int, Relock(w, n), n = Cardinality(Active \ {w})
        PROVE  \E here \in [Workers \cup Clients -> WorkerPlaces \cup ClientPlaces] :
                /\ Pick(w, n, here)
                /\ \A v \in Workers : here[v] = at[v]
                /\ \A c \in Clients : here[c] = at[c] \/ (at[c] = "waiting" /\ here[c] = "woken")
    <3>1. CASE Quiet(n)
      <4>1. Pick(w, n, WaitersWoken)
        BY <2>2, <3>1 DEF Relock
      <4>2. QED
        BY <4>1, WokenFacts
    <3>2. CASE ~Quiet(n)
      <4>1. Pick(w, n, at)
        BY <2>2, <3>2 DEF Relock
      <4>2. QED
        BY <1>2, <4>1
    <3>3. QED
      BY <3>1, <3>2
  <2>3. CASE EndTask(w)
    <3>1. w \in Active /\ Relock(w, active - 1)
      BY <2>3 DEF EndTask, Active
    <3>2. Cardinality(Active \ {w}) = Cardinality(Active) - 1
      BY <1>2, <3>1, FS_RemoveElement
    <3>3. active - 1 \in Int /\ active - 1 = Cardinality(Active \ {w})
      BY <1>2, <3>2
    <3>4. QED
      BY <2>2, <3>1, <3>3
  <2>4. CASE EndDrop(w)
    <3>1. Relock(w, active) /\ Active \ {w} = Active
      BY <2>4 DEF EndDrop, Active
    <3>2. Cardinality(Active \ {w}) = Cardinality(Active)
      BY <3>1, Zenon
    <3>3. QED
      BY <1>2, <2>2, <3>1, <3>2
  <2>5. QED
    BY <2>1, <2>3, <2>4
<1>4. (task[w] = None => deleted' = deleted) /\ (task[w] # None => deleted' = deleted \cup {task[w]})
  <2>1. CASE Look(w)
    <3>1. task[w] = None
      BY <2>1 DEF Look, PoolInv, HandsAreFull
    <3>2. QED
      BY <2>1, <3>1 DEF Look
  <2>2. CASE EndTask(w) \/ EndDrop(w)
    <3>1. task[w] # None /\ deleted' = deleted \cup {task[w]}
      BY <2>2 DEF EndTask, EndDrop, Relock, PoolInv, HandsAreFull
    <3>2. QED
      BY <3>1
  <2>3. QED
    BY <2>1, <2>2
<1>5. QED
  BY <1>1, <1>3, <1>4, PickKeeps
-----------------------------------------------------------------------------
LEMMA StepKeepsPool == PoolInv /\ [Next]_vars => PoolInv'
<1> SUFFICES ASSUME PoolInv, [Next]_vars PROVE PoolInv'
  OBVIOUS
<1>1. ASSUME NEW p \in Workers \cup Clients, Announce(p) \/ \E rank \in Priorities : Submit(p, rank)
      PROVE  PoolInv'
  BY <1>1, AnnounceKeeps, SubmitKeeps
<1>2. ASSUME NEW t \in Tasks, Cancel(t)
      PROVE  PoolInv'
  BY <1>2, CancelKeeps
<1>3. ASSUME NEW w \in Workers, WorkerStep(w)
      PROVE  PoolInv'
  BY <1>3, WorkerStepKeeps, FinishKeeps DEF WorkerStep
<1>4. ASSUME NEW c \in Clients, ClientStep(c) \/ WaitForDone(c) \/ GiveUp(c)
      PROVE  PoolInv'
  BY <1>4, WaiterKeeps, DropKeeps, EndClearKeeps DEF ClientStep
<1>5. ASSUME NEW c \in Clients, Clear(c)
      PROVE  PoolInv'
  <2>1. MayCall(c) /\ TakeOut(c, "clearing")
    BY <1>5 DEF Clear
  <2>2. QED
    BY <2>1, TakeOutKeeps
<1>6. CASE Destroy
  <2>1. /\ MayCall(Owner) /\ TakeOut(Owner, "emptying") /\ Owner \in Clients
        /\ \A d \in Clients : at[d] = "idle" /\ submitting[d] = None
    BY <1>6, Bounds DEF Destroy
  <2>2. QED
    BY <2>1, TakeOutKeeps
<1>7. CASE Stop \/ Join
  BY <1>7, EndKeeps
<1>8. CASE UNCHANGED vars
  <2>1. Active' = Active /\ Cardinality(Active') = Cardinality(Active)
    BY <1>8, SameActive DEF vars
  <2>2. TypeOK' /\ EveryoneIsSomewhere' /\ HandsAreFull' /\ DropsAreOwned'
    BY <1>8 DEF vars, tasks, PoolInv, TypeOK, EveryoneIsSomewhere, HandsAreFull, DropsAreOwned
  <2>3. QueueApart' /\ HandsApart' /\ DropsApart'
    BY <1>8 DEF vars, tasks, PoolInv, QueueApart, HandsApart, DropsApart
  <2>4. AllPlaced' /\ EndsAlone'
    BY <1>8 DEF vars, tasks, PoolInv, AllPlaced, Placed, EndsAlone, Destroying
  <2>5. QED
    BY <1>8, <2>1, <2>2, <2>3, <2>4 DEF vars, PoolInv
<1>9. QED
  BY <1>1, <1>2, <1>3, <1>4, <1>5, <1>6, <1>7, <1>8 DEF Next
-----------------------------------------------------------------------------
\* A set with one element, or with none.
LEMMA AtMostOne ==
    ASSUME NEW S, \A x, y \in S : x = y
    PROVE  /\ S = {} => Cardinality(S) = 0
           /\ S # {} => Cardinality(S) = 1
<1>1. ASSUME S = {} PROVE Cardinality(S) = 0
  BY <1>1, FS_EmptySet, Zenon
<1>2. ASSUME S # {} PROVE Cardinality(S) = 1
  <2>1. PICK x : x \in S
    BY <1>2
  <2>2. S = {x}
    BY <2>1
  <2>3. Cardinality({x}) = 1
    BY FS_Singleton
  <2>4. QED
    BY <2>2, <2>3, Zenon
<1>3. QED
  BY <1>1, <1>2

LEMMA PoolInvLosesNothing == PoolInv => NothingIsLost
<1> SUFFICES ASSUME PoolInv PROVE NothingIsLost
  OBVIOUS
<1>1. ASSUME NEW t \in 1..made
      PROVE  Cardinality({k \in DOMAIN queue : queue[k] = t}) + Cardinality(Busy(t))
                + Cardinality({p \in Clients \X Tasks :
                                  p[2] \in DOMAIN dropped[p[1]] /\ dropped[p[1]][p[2]] = t})
                = IF t \in deleted THEN 0 ELSE 1
  <2> DEFINE A == {k \in DOMAIN queue : queue[k] = t}
             B == Busy(t)
             C == {p \in Clients \X Tasks :
                      p[2] \in DOMAIN dropped[p[1]] /\ dropped[p[1]][p[2]] = t}
  <2>1. /\ DOMAIN queue = 1..Len(queue) /\ t # None
        /\ \A c \in Clients : DOMAIN dropped[c] = 1..Len(dropped[c]) /\ 1..Len(dropped[c]) \subseteq Tasks
    <3>1. t # None /\ DOMAIN queue = 1..Len(queue)
      BY Bounds
    <3>2. ASSUME NEW c \in Clients
          PROVE  DOMAIN dropped[c] = 1..Len(dropped[c]) /\ 1..Len(dropped[c]) \subseteq Tasks
      <4>1. dropped[c] \in Seq(Tasks) /\ Len(dropped[c]) \in Nat /\ Len(dropped[c]) <= made
            /\ made \in Nat /\ made <= MaxTasks /\ MaxTasks \in Nat
        BY Bounds DEF PoolInv, AllPlaced
      <4>2. QED
        BY <4>1 DEF Tasks
    <3>3. QED
      BY <3>1, <3>2
  <2>2. \A x, y \in A : x = y
    BY <2>1 DEF PoolInv, QueueApart
  <2>3. \A x, y \in B : x = y
    BY <2>1 DEF Busy, PoolInv, HandsApart
  <2>4. \A x, y \in C : x = y
    <3> SUFFICES ASSUME NEW x \in C, NEW y \in C PROVE x = y
      OBVIOUS
    <3>1. /\ x \in Clients \X Tasks /\ x[1] \in Clients /\ x[2] \in 1..Len(dropped[x[1]])
          /\ dropped[x[1]][x[2]] = t
          /\ y \in Clients \X Tasks /\ y[1] \in Clients /\ y[2] \in 1..Len(dropped[y[1]])
          /\ dropped[y[1]][y[2]] = t
      BY <2>1
    <3>2. x[1] = y[1]
      BY <3>1 DEF PoolInv, DropsApart
    <3>3. x[2] = y[2]
      BY <3>1, <3>2 DEF PoolInv, DropsApart
    <3>4. QED
      BY <3>1, <3>2, <3>3
  <2>5. C # {} <=> \E c \in Clients : \E k \in 1..Len(dropped[c]) : dropped[c][k] = t
    <3>1. ASSUME NEW c \in Clients, NEW k \in 1..Len(dropped[c]), dropped[c][k] = t
          PROVE  C # {}
      <4>1. <<c, k>> \in C
        BY <2>1, <3>1
      <4>2. QED
        BY <4>1
    <3>2. ASSUME C # {}
          PROVE  \E c \in Clients : \E k \in 1..Len(dropped[c]) : dropped[c][k] = t
      BY <2>1, <3>2
    <3>3. QED
      BY <3>1, <3>2
  <2>6. A # {} <=> \E k \in 1..Len(queue) : queue[k] = t
    BY <2>1
  <2>7. B # {} <=> \E w \in Workers : task[w] = t
    BY DEF Busy
  <2>8. /\ ~(A # {} /\ B # {}) /\ ~(A # {} /\ C # {}) /\ ~(B # {} /\ C # {})
        /\ t \in deleted => A = {} /\ B = {} /\ C = {}
        /\ t \notin deleted => A # {} \/ B # {} \/ C # {}
    <3> HIDE DEF A, B, C
    <3>1. ~(A # {} /\ B # {}) /\ ~(A # {} /\ C # {})
      BY <2>5, <2>6, <2>7 DEF PoolInv, QueueApart
    <3>2. ~(B # {} /\ C # {})
      BY <2>1, <2>5, <2>7 DEF PoolInv, HandsApart
    <3>3. t \in deleted => A = {} /\ B = {} /\ C = {}
      <4>1. t \in deleted => A = {}
        BY <2>6 DEF PoolInv, QueueApart
      <4>2. t \in deleted => B = {}
        BY <2>1, <2>7 DEF PoolInv, HandsApart
      <4>3. t \in deleted => C = {}
        BY <2>5 DEF PoolInv, DropsApart
      <4>4. QED
        BY <4>1, <4>2, <4>3
    <3>4. t \notin deleted => A # {} \/ B # {} \/ C # {}
      BY <2>5, <2>6, <2>7 DEF PoolInv, AllPlaced, Placed
    <3>5. QED
      BY <3>1, <3>2, <3>3, <3>4
  <2> HIDE DEF A, B, C
  <2>9. /\ A = {} => Cardinality(A) = 0
        /\ A # {} => Cardinality(A) = 1
    BY <2>2, AtMostOne
  <2>10. /\ B = {} => Cardinality(B) = 0
         /\ B # {} => Cardinality(B) = 1
    BY <2>3, AtMostOne
  <2>11. /\ C = {} => Cardinality(C) = 0
         /\ C # {} => Cardinality(C) = 1
    BY <2>4, AtMostOne
  <2>12. Cardinality(A) + Cardinality(B) + Cardinality(C) = IF t \in deleted THEN 0 ELSE 1
    BY <2>8, <2>9, <2>10, <2>11
  <2>13. QED
    BY <2>12 DEF A, B, C
<1>2. \A w \in Workers : at[w] = "running" => stage[task[w]] = "running"
  BY DEF PoolInv, HandsAreFull
<1>3. at[Owner] = "gone" => deleted = 1..made
  <2> SUFFICES ASSUME at[Owner] = "gone" PROVE deleted = 1..made
    OBVIOUS
  <2>1. Destroying /\ \A w \in Workers : at[w] \in {"ended", "dead"}
    BY DEF Destroying, PoolInv, EndsAlone
  <2>2. queue = <<>> /\ Len(queue) = 0
    <3>1. CASE \E w \in Workers : at[w] = "ended"
      BY <3>1 DEF PoolInv, EndsAlone
    <3>2. CASE \A w \in Workers : at[w] # "ended"
      BY <2>1, <3>2 DEF PoolInv, EndsAlone
    <3>3. QED
      BY <3>1, <3>2
  <2>3. \A w \in Workers : task[w] = None
    BY <2>1 DEF PoolInv, HandsAreFull
  <2>4. \A c \in Clients : dropped[c] = <<>> /\ Len(dropped[c]) = 0
    BY <2>1 DEF PoolInv, EndsAlone, DropsAreOwned
  <2>5. \A t \in 1..made : t # None
    BY Bounds
  <2>6. \A t \in 1..made : ~Placed(t)
    BY <2>2, <2>3, <2>4, <2>5 DEF Placed
  <2>7. QED
    BY <2>6 DEF PoolInv, AllPlaced
<1>4. QED
  BY <1>1, <1>2, <1>3 DEF NothingIsLost, PoolInv

\* However many workers and callers there are, and however submissions, cancellations,
\* clear() and the destructor interleave with the workers: a submitted task is in one
\* place until the pool deletes it and in none afterwards, nobody runs a cancelled one,
\* and a pool that is gone has deleted them all (ThreadPool.cpp's queue, workerLoop(),
\* clear() and destructor).
THEOREM NoTaskIsLost == Spec => []NothingIsLost
<1>1. Init => PoolInv
  BY InitPoolInv
<1>2. PoolInv /\ [Next]_vars => PoolInv'
  BY StepKeepsPool
<1>3. PoolInv => NothingIsLost
  BY PoolInvLosesNothing
<1>4. QED
  BY <1>1, <1>2, <1>3, PTL DEF Spec
=============================================================================
