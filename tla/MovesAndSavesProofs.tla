------------------------- MODULE MovesAndSavesProofs -------------------------
(***************************************************************************)
(* What TLAPS proves about Affinity and about SettingsFile.                *)
(*                                                                         *)
(* Affinity, in an application that keeps the rules of Allowed and         *)
(* MayKill: AffinityInv, of which the two properties are consequences.     *)
(* Every event and every registered timer is worth some items (a call, a   *)
(* timer of an object, a node of an object), and every item is carried in  *)
(* one of five lanes of one thread: its queue, what is parked, what it has *)
(* taken, what it has in hand, and its clock.  A step moves items from a   *)
(* lane to a lane, makes some or settles some; that the lanes stay apart,  *)
(* and that what is carried is what is open, running or pending, is shown  *)
(* of each kind of step once, and each action is such a step.              *)
(*                                                                         *)
(* SettingsFile: any number of processes, names, keys and values, and any  *)
(* number of calls and crashes.                                            *)
(***************************************************************************)
EXTENDS Affinity, SettingsFile, SubsequencesProofs, FiniteSetTheorems

(* What the events, the timers and the nodes are worth: each call, timer and node is carried    *)
(* once, in one lane.                                                                           *)

CallItem(c) == [kind |-> "call", of |-> None, id |-> c]
TimerItem(o, i) == [kind |-> "timer", of |-> o, id |-> i]
LaterItem(o, n) == [kind |-> "later", of |-> o, id |-> n]

\* What an event carries,
Cargo(e) ==
    IF e.kind = "call" THEN {CallItem(e.arg)}
    ELSE IF e.kind = "later" THEN {LaterItem(e.to, e.arg)}
    ELSE IF e.kind = "timers" THEN {TimerItem(e.to, i) : i \in e.arg}
    ELSE {}

\* and a sequence of them,
Load(s) == UNION {Cargo(s[k]) : k \in DOMAIN s}

\* and what a thread has in hand: the event it posts, the node it asks for or gives up, the
\* timers it takes along.
Posting == {"resolve", "fetch", "land"}
Travelling == {"swap", "sweep", "repost", "forget"}
Hand(m) ==
    IF m.at \in Posting \cup {"unlist"} \/ (m.at = "arm" /\ m.fresh) THEN Cargo(m.ev)
    ELSE {TimerItem(m.ev.to, i) : i \in m.timers}

Clock(c) == {TimerItem(c[i], i) : i \in {j \in TimerIds : c[j] # None}}

Lanes == {"queued", "parked", "taken", "hand", "clock"} \X Threads
Lane(p) ==
    IF p[1] = "queued" THEN Load(queue[p[2]])
    ELSE IF p[1] = "parked" THEN Load(parked[p[2]])
    ELSE IF p[1] = "taken" THEN Load(op[p[2]].taken)
    ELSE IF p[1] = "hand" THEN Hand(op[p[2]])
    ELSE Clock(timerAt[p[2]])

Apart == \A p, q \in Lanes : p # q => Lane(p) \cap Lane(q) = {}
Carried == UNION {Lane(p) : p \in Lanes}

\* No two events of a sequence carry one thing.
Single(s) == \A j, k \in DOMAIN s : j # k => Cargo(s[j]) \cap Cargo(s[k]) = {}
AllSingle == \A t \in Threads : Single(queue[t]) /\ Single(parked[t]) /\ Single(op[t].taken)

\* The calls on their way are those nobody has settled, the timers those that run, and a pending
\* node is on its way unless a move has deleted its event.
CallsAreOpen ==
    \A c \in Nat : CallItem(c) \in Carried <=> c \in DOMAIN outcome /\ outcome[c] = "open"
TimersRun == \A o \in Objects, i \in TimerIds : TimerItem(o, i) \in Carried <=> i \in ids[o]
NodesGo ==
    /\ \A o \in Objects : pending[o] # None =>
          pending[o] \in abandoned \/ LaterItem(o, pending[o]) \in Carried
    /\ \A o \in Objects, n \in Nat : LaterItem(o, n) \in Carried =>
          n <= later /\ \A p \in Objects : pending[p] = n => p = o

IdsAreOnce ==
    /\ \A o, p \in Objects : o # p => ids[o] \cap ids[p] = {}
    /\ \A i \in TimerIds : i \in pool <=> \A o \in Objects : i \notin ids[o]

(* What the steps have in hand.                                                                 *)

StepIsSound(t) ==
    LET m == op[t] IN
    /\ m.at = "idle" => m = Idle
    /\ m.at # "idle" => loop[t] = "up"
    /\ m.taken # <<>> <=> m.at = "repost"
    /\ \A e \in ToSet(m.taken) : e.to = m.ev.to
    /\ m.at = "swap" => m.sweeps = 0
    /\ m.at \notin Travelling => m.timers = {}
    /\ m.at \in Travelling => m.ev \in {Event(o, "move", 0) : o \in Objects}
    /\ m.at \in Posting => m.ev \in Events
    /\ m.at \in {"fetch", "land"} => m.data \in Threads
    /\ m.at \in {"arm", "unlist", "disarm"} => m.ev \in Events /\ m.ev.kind = "later" /\ m.ev.arg <= later
    /\ m.at = "arm" => m.value \in 1 .. later
    /\ m.at = "land" => loop[m.data] = "up"

Sound == \A t \in Threads : StepIsSound(t) /\ (loop[t] = "up" => parked[t] = <<>>)

\* A node that is emptied is nobody's, and one that is pending and was given its call has one.
NodesHaveCalls ==
    /\ \A o, p \in Objects : pending[o] = pending[p] /\ pending[o] # None => o = p
    /\ \A o \in Objects : pending[o] # None => pending[o] <= later
    /\ \A t \in Threads : op[t].at = "arm" => \A o \in Objects : pending[o] = op[t].ev.arg => o = op[t].ev.to
    /\ \A t \in Threads : op[t].at = "disarm" => \A o \in Objects : pending[o] # op[t].ev.arg
    /\ \A o \in Objects : pending[o] # None /\ Arming(pending[o]) = {} => invoker[pending[o]] # 0

(* An object that moves.                                                                        *)

Busy(o) == Moving(o) \cup HandingTimers(o)
OneMover == \A o \in Objects : \A t, u \in Busy(o) : t = u

Fresh(s, o) == \E k \in DOMAIN s : s[k].to = o /\ ~s[k].stray
TimerEvents(s, o) == \E k \in DOMAIN s : s[k].to = o /\ s[k].kind = "timers"

MoverIsSound(t) ==
    LET m == op[t]
        o == m.ev.to
    IN
    /\ m.at = "swap" => /\ home[o] \in {t, None}
                        /\ moves[o] < MaxMoves
                        /\ m.data # home[o]
                        /\ home[o] = None => m.data = t /\ m.timers = {}
                        /\ \A u \in Threads : RegisteredAt(u, o) = {}
    /\ m.at \in {"sweep", "repost"} => home[o] = m.data /\ m.data # t
    /\ m.at = "forget" => home[o] = None
    /\ m.at \in {"repost", "forget"} \/ (m.at = "sweep" /\ m.sweeps > 0) => ~Fresh(queue[t], o)
    /\ m.at \in {"swap", "sweep", "repost"} /\ m.data = None => ids[o] \subseteq m.timers
    /\ m.at \in {"swap", "sweep", "repost"} /\ m.data # None /\ ids[o] # {} => loop[m.data] # "unstarted"
    /\ m.at \in Posting /\ m.ev.kind = "timers" => home[o] \in Threads /\ loop[home[o]] # "unstarted"
    /\ m.at \in {"fetch", "land"} /\ m.ev.kind = "timers" => m.data = home[o]

TimerEventsFollow ==
    \A t \in Threads : \A e \in ToSet(queue[t]) \cup ToSet(parked[t]) : e.kind = "timers" => ~e.stray

TimersAtHome == \A t \in Threads, i \in TimerIds : timerAt[t][i] # None => home[timerAt[t][i]] = t

TimersInEvents ==
    \A t \in Threads : \A e \in Held(t) : e.kind = "timers" => e.arg # {}

MovesAreSound ==
    /\ OneMover /\ \A t \in Threads : MoverIsSound(t)
    /\ TimerEventsFollow /\ TimersAtHome /\ TimersInEvents /\ EventsFollow

AffinityInv ==
    /\ AffinityTypeOK /\ Sound
    /\ Apart /\ AllSingle /\ CallsAreOpen /\ TimersRun /\ NodesGo /\ IdsAreOnce
    /\ NodesHaveCalls
    /\ MovesAreSound

-----------------------------------------------------------------------------
(* What is carried where.                                                                       *)

LEMMA ItemsDiffer ==
    /\ \A c, d : CallItem(c) = CallItem(d) => c = d
    /\ \A o, p, i, j : TimerItem(o, i) = TimerItem(p, j) => o = p /\ i = j
    /\ \A o, p, m, n : LaterItem(o, m) = LaterItem(p, n) => o = p /\ m = n
    /\ \A c, o, i : CallItem(c) # TimerItem(o, i)
    /\ \A c, o, n : CallItem(c) # LaterItem(o, n)
    /\ \A o, i, p, n : TimerItem(o, i) # LaterItem(p, n)
<1>1. \A c, d : CallItem(c) = CallItem(d) => c = d
  <2> SUFFICES ASSUME NEW c, NEW d, CallItem(c) = CallItem(d) PROVE c = d
    OBVIOUS
  <2>1. CallItem(c).id = c /\ CallItem(d).id = d
    BY DEF CallItem
  <2> QED
    BY <2>1
<1>2. \A o, p, i, j : TimerItem(o, i) = TimerItem(p, j) => o = p /\ i = j
  <2> SUFFICES ASSUME NEW o, NEW p, NEW i, NEW j, TimerItem(o, i) = TimerItem(p, j)
               PROVE  o = p /\ i = j
    OBVIOUS
  <2>1. TimerItem(o, i).id = i /\ TimerItem(p, j).id = j /\ TimerItem(o, i).of = o /\ TimerItem(p, j).of = p
    BY DEF TimerItem
  <2> QED
    BY <2>1
<1>3. \A o, p, i, j : LaterItem(o, i) = LaterItem(p, j) => o = p /\ i = j
  <2> SUFFICES ASSUME NEW o, NEW p, NEW i, NEW j, LaterItem(o, i) = LaterItem(p, j)
               PROVE  o = p /\ i = j
    OBVIOUS
  <2>1. LaterItem(o, i).id = i /\ LaterItem(p, j).id = j /\ LaterItem(o, i).of = o /\ LaterItem(p, j).of = p
    BY DEF LaterItem
  <2> QED
    BY <2>1
<1>4. \A c, o, i : CallItem(c).kind = "call" /\ TimerItem(o, i).kind = "timer" /\ LaterItem(o, i).kind = "later"
  BY DEF CallItem, TimerItem, LaterItem
<1>5. "call" # "timer" /\ "call" # "later" /\ "timer" # "later"
  OBVIOUS
<1>6. /\ \A c, o, i : CallItem(c) # TimerItem(o, i)
      /\ \A c, o, n : CallItem(c) # LaterItem(o, n)
      /\ \A o, i, p, n : TimerItem(o, i) # LaterItem(p, n)
  BY <1>4, <1>5
<1> QED
  BY <1>1, <1>2, <1>3, <1>6

LEMMA EventTypes ==
    ASSUME NEW e \in Events
    PROVE  /\ e.to \in Objects /\ e.stray \in BOOLEAN
           /\ e.kind \in {"call", "later", "timers"}
           /\ e.kind = "call" => e.arg \in 1 .. MaxPosts
           /\ e.kind = "later" => e.arg \in 1 .. MaxLater
           /\ e.kind = "timers" => e.arg \in SUBSET TimerIds
           /\ \A b \in BOOLEAN : [e EXCEPT !.stray = b] \in Events
BY DEF Events

LEMMA LandedIsEvent ==
    ASSUME NEW e \in Events, NEW t
    PROVE  /\ Landed(e, t) \in Events /\ Cargo(Landed(e, t)) = Cargo(e)
           /\ Landed(e, t).to = e.to /\ Landed(e, t).kind = e.kind /\ Landed(e, t).arg = e.arg
           /\ Landed(e, t).stray <=> home[e.to] # t
<1>1. /\ Landed(e, t).to = e.to /\ Landed(e, t).kind = e.kind /\ Landed(e, t).arg = e.arg
      /\ Landed(e, t).stray = (home[e.to] # t)
  BY DEF Landed, Events
<1>2. Landed(e, t) \in Events
  BY EventTypes DEF Landed
<1> QED
  BY <1>1, <1>2 DEF Cargo

\* A load's events.
LEMMA InLoad ==
    ASSUME NEW s, NEW x
    PROVE  x \in Load(s) <=> \E k \in DOMAIN s : x \in Cargo(s[k])
BY DEF Load

LEMMA EmptyLoad ==
    Load(<<>>) = {} /\ Single(<<>>)
BY DEF Load, Single

LEMMA LoadOfAppend ==
    ASSUME NEW S, NEW s \in Seq(S), NEW e \in S
    PROVE  /\ Load(Append(s, e)) = Load(s) \cup Cargo(e)
           /\ Single(s) /\ Cargo(e) \cap Load(s) = {} => Single(Append(s, e))
<1> DEFINE r == Append(s, e)
<1>1. /\ Len(s) \in Nat /\ DOMAIN s = 1 .. Len(s) /\ DOMAIN r = 1 .. Len(s) + 1
      /\ r[Len(s) + 1] = e /\ \A k \in 1 .. Len(s) : r[k] = s[k]
  OBVIOUS
<1> HIDE DEF r
<1>2. \A k \in DOMAIN r : (k \in DOMAIN s /\ r[k] = s[k]) \/ k = Len(s) + 1
  BY ONLY <1>1
<1>3. \A k \in DOMAIN s : k \in DOMAIN r /\ r[k] = s[k]
  BY ONLY <1>1
<1>4. Len(s) + 1 \in DOMAIN r
  BY ONLY <1>1
<1>5. Load(r) = Load(s) \cup Cargo(e)
  <2>1. ASSUME NEW x PROVE x \in Load(r) <=> x \in Load(s) \cup Cargo(e)
    <3>1. x \in Load(r) <=> \E k \in DOMAIN r : x \in Cargo(r[k])
      BY InLoad
    <3>2. x \in Load(s) <=> \E k \in DOMAIN s : x \in Cargo(s[k])
      BY InLoad
    <3> QED
      BY ONLY <1>1, <1>2, <1>3, <1>4, <3>1, <3>2, Zenon
  <2> QED
    BY <2>1
<1>6. ASSUME Single(s), Cargo(e) \cap Load(s) = {} PROVE Single(r)
  <2>1. \A k \in DOMAIN s : Cargo(s[k]) \cap Cargo(e) = {}
    BY <1>6, InLoad
  <2>2. SUFFICES ASSUME NEW j \in DOMAIN r, NEW k \in DOMAIN r, j # k
                 PROVE  Cargo(r[j]) \cap Cargo(r[k]) = {}
    BY DEF Single
  <2>3. CASE j \in DOMAIN s /\ k \in DOMAIN s
    BY <1>3, <1>6, <2>2, <2>3 DEF Single
  <2>4. CASE j \in DOMAIN s /\ k = Len(s) + 1
    BY <1>1, <1>3, <2>1, <2>4
  <2>5. CASE k \in DOMAIN s /\ j = Len(s) + 1
    BY <1>1, <1>3, <2>1, <2>5
  <2> QED
    BY <1>2, <2>2, <2>3, <2>4, <2>5
<1> QED
  BY <1>5, <1>6 DEF r

LEMMA LoadOfTail ==
    ASSUME NEW S, NEW s \in Seq(S), s # <<>>, Single(s)
    PROVE  /\ Cargo(Head(s)) \subseteq Load(s)
           /\ Load(Tail(s)) = Load(s) \ Cargo(Head(s))
           /\ Single(Tail(s))
<1> DEFINE r == Tail(s)
<1>1. /\ Len(s) \in Nat /\ Len(s) > 0 /\ DOMAIN s = 1 .. Len(s) /\ DOMAIN r = 1 .. Len(s) - 1
      /\ Head(s) = s[1] /\ \A k \in 1 .. Len(s) - 1 : r[k] = s[k + 1]
  OBVIOUS
<1> HIDE DEF r
<1>2. \A k \in DOMAIN r : k + 1 \in DOMAIN s /\ k + 1 # 1 /\ r[k] = s[k + 1]
  BY ONLY <1>1
<1>3. \A k \in DOMAIN s : k # 1 => k - 1 \in DOMAIN r /\ r[k - 1] = s[k]
  BY ONLY <1>1
<1>4. 1 \in DOMAIN s
  BY ONLY <1>1
<1>5. Cargo(Head(s)) \subseteq Load(s)
  BY <1>1, <1>4 DEF Load
<1>6. Load(r) = Load(s) \ Cargo(Head(s))
  <2>1. ASSUME NEW x PROVE x \in Load(r) <=> x \in Load(s) \ Cargo(Head(s))
    <3>1. x \in Load(r) <=> \E k \in DOMAIN r : x \in Cargo(r[k])
      BY InLoad
    <3>2. x \in Load(s) <=> \E k \in DOMAIN s : x \in Cargo(s[k])
      BY InLoad
    <3>3. \A k \in DOMAIN s : k # 1 => Cargo(s[k]) \cap Cargo(s[1]) = {}
      BY <1>4 DEF Single
    <3> QED
      BY ONLY <1>1, <1>2, <1>3, <1>4, <3>1, <3>2, <3>3
  <2> QED
    BY <2>1
<1>7. Single(r)
  <2>1. \A j, k \in DOMAIN r : j # k => j + 1 # k + 1
    BY ONLY <1>1
  <2>2. \A j, k \in DOMAIN s : j # k => Cargo(s[j]) \cap Cargo(s[k]) = {}
    BY DEF Single
  <2>3. \A j, k \in DOMAIN r : j # k => Cargo(r[j]) \cap Cargo(r[k]) = {}
    BY ONLY <1>2, <2>1, <2>2
  <2> QED
    BY <2>3 DEF Single
<1> QED
  BY <1>1, <1>5, <1>6, <1>7 DEF r

LEMMA LoadOfConcat ==
    ASSUME NEW S, NEW s \in Seq(S), NEW r \in Seq(S)
    PROVE  /\ Load(s \o r) = Load(s) \cup Load(r)
           /\ Single(s) /\ Single(r) /\ Load(s) \cap Load(r) = {} => Single(s \o r)
<1> DEFINE u == s \o r
<1>1. /\ Len(s) \in Nat /\ Len(r) \in Nat /\ DOMAIN s = 1 .. Len(s) /\ DOMAIN r = 1 .. Len(r)
      /\ DOMAIN u = 1 .. Len(s) + Len(r)
      /\ \A k \in 1 .. Len(s) : u[k] = s[k]
      /\ \A k \in 1 .. Len(r) : u[Len(s) + k] = r[k]
  OBVIOUS
<1> HIDE DEF u
<1>2. \A k \in DOMAIN u : \/ k \in DOMAIN s /\ u[k] = s[k]
                          \/ k - Len(s) \in DOMAIN r /\ u[k] = r[k - Len(s)] /\ k \notin DOMAIN s
  <2> TAKE k \in DOMAIN u
  <2>1. CASE k <= Len(s)
    BY ONLY <1>1, <2>1, k \in DOMAIN u
  <2>2. CASE k > Len(s)
    <3>1. k \in Nat /\ k - Len(s) \in 1 .. Len(r) /\ Len(s) + (k - Len(s)) = k
      BY ONLY <1>1, <2>2, k \in DOMAIN u
    <3> QED
      BY <1>1, <2>2, <3>1
  <2> QED
    BY <1>1, <2>1, <2>2
<1>3. /\ \A k \in DOMAIN s : k \in DOMAIN u /\ u[k] = s[k]
      /\ \A k \in DOMAIN r : Len(s) + k \in DOMAIN u /\ u[Len(s) + k] = r[k]
  BY ONLY <1>1
<1>4. Load(u) = Load(s) \cup Load(r)
  <2>1. ASSUME NEW x PROVE x \in Load(u) <=> x \in Load(s) \cup Load(r)
    <3>1. x \in Load(u) <=> \E k \in DOMAIN u : x \in Cargo(u[k])
      BY InLoad
    <3>2. x \in Load(s) <=> \E k \in DOMAIN s : x \in Cargo(s[k])
      BY InLoad
    <3>3. x \in Load(r) <=> \E k \in DOMAIN r : x \in Cargo(r[k])
      BY InLoad
    <3> QED
      BY ONLY <1>2, <1>3, <3>1, <3>2, <3>3, Zenon
  <2> QED
    BY <2>1
<1>5. ASSUME Single(s), Single(r), Load(s) \cap Load(r) = {} PROVE Single(u)
  <2>1. \A j \in DOMAIN s, k \in DOMAIN r : Cargo(s[j]) \cap Cargo(r[k]) = {}
    BY <1>5, InLoad
  <2>2. SUFFICES ASSUME NEW j \in DOMAIN u, NEW k \in DOMAIN u, j # k
                 PROVE  Cargo(u[j]) \cap Cargo(u[k]) = {}
    BY DEF Single
  <2>3. CASE j \in DOMAIN s /\ k \in DOMAIN s
    BY <1>3, <1>5, <2>2, <2>3 DEF Single
  <2>4. CASE j \in DOMAIN s /\ k \notin DOMAIN s
    BY <1>2, <1>3, <2>1, <2>4
  <2>5. CASE k \in DOMAIN s /\ j \notin DOMAIN s
    BY <1>2, <1>3, <2>1, <2>5
  <2>6. CASE k \notin DOMAIN s /\ j \notin DOMAIN s
    <3>1. j - Len(s) # k - Len(s)
      BY <1>1, <2>2
    <3> QED
      BY <1>2, <1>5, <2>6, <3>1 DEF Single
  <2> QED
    BY <2>3, <2>4, <2>5, <2>6
<1> QED
  BY <1>4, <1>5 DEF u

\* What is picked, and what is left.
LEMMA LoadOfPicked ==
    ASSUME NEW S, NEW s \in Seq(S), Single(s), NEW P, NEW Q,
           P \cup Q = Positions(s), P \cap Q = {}
    PROVE  /\ Picked(s, P) \in Seq(S) /\ Picked(s, Q) \in Seq(S)
           /\ Single(Picked(s, P)) /\ Single(Picked(s, Q))
           /\ Load(Picked(s, P)) \subseteq Load(s)
           /\ Load(Picked(s, Q)) = Load(s) \ Load(Picked(s, P))
<1> DEFINE a == Picked(s, P)
           b == Picked(s, Q)
<1>1. PICK f : a \in Seq(S) /\ Embeds(a, s, P, Len(s), f)
  BY PickedEmbeds
<1>2. PICK g : b \in Seq(S) /\ Embeds(b, s, Q, Len(s), g)
  BY PickedEmbeds
<1> HIDE DEF a, b
<1>3. /\ Len(a) \in Nat /\ Len(b) \in Nat /\ DOMAIN a = 1 .. Len(a) /\ DOMAIN b = 1 .. Len(b)
      /\ DOMAIN s = 1 .. Len(s) /\ Len(s) \in Nat
  BY <1>1, <1>2
<1>4. /\ \A i \in DOMAIN a : f[i] \in P /\ f[i] \in DOMAIN s /\ a[i] = s[f[i]]
      /\ \A i \in DOMAIN b : g[i] \in Q /\ g[i] \in DOMAIN s /\ b[i] = s[g[i]]
  BY <1>1, <1>2, <1>3 DEF Embeds
<1>5. /\ \A k \in P : \E i \in DOMAIN a : f[i] = k
      /\ \A k \in Q : \E i \in DOMAIN b : g[i] = k
  BY <1>1, <1>2, <1>3 DEF Embeds, Positions
<1>6. /\ \A i, j \in DOMAIN a : i # j => f[i] # f[j]
      /\ \A i, j \in DOMAIN b : i # j => g[i] # g[j]
  <2>1. \A i, j \in DOMAIN a : i < j => f[i] < f[j]
    BY <1>1, <1>3 DEF Embeds
  <2>2. \A i, j \in DOMAIN b : i < j => g[i] < g[j]
    BY <1>2, <1>3 DEF Embeds
  <2> QED
    BY ONLY <1>3, <1>4, <2>1, <2>2
<1>7. Single(a) /\ Single(b)
  <2>1. \A j, k \in DOMAIN s : j # k => Cargo(s[j]) \cap Cargo(s[k]) = {}
    BY DEF Single
  <2>2. \A i, j \in DOMAIN a : i # j => Cargo(a[i]) \cap Cargo(a[j]) = {}
    BY ONLY <1>4, <1>6, <2>1
  <2>3. \A i, j \in DOMAIN b : i # j => Cargo(b[i]) \cap Cargo(b[j]) = {}
    BY ONLY <1>4, <1>6, <2>1
  <2> QED
    BY <2>2, <2>3 DEF Single
<1>8. \A x : /\ x \in Load(a) <=> \E k \in P : k \in DOMAIN s /\ x \in Cargo(s[k])
             /\ x \in Load(b) <=> \E k \in Q : k \in DOMAIN s /\ x \in Cargo(s[k])
  BY <1>4, <1>5, InLoad
<1>9. \A x : x \in Load(b) <=> x \in Load(s) /\ x \notin Load(a)
  <2>1. \A x : x \in Load(s) <=> \E k \in DOMAIN s : x \in Cargo(s[k])
    BY InLoad
  <2>2. \A k \in DOMAIN s : k \in P \/ k \in Q
    BY <1>3 DEF Positions
  <2>3. \A j, k \in DOMAIN s : j # k => Cargo(s[j]) \cap Cargo(s[k]) = {}
    BY DEF Single
  <2>4. \A k : ~(k \in P /\ k \in Q)
    OBVIOUS
  <2> QED
    BY ONLY <1>8, <2>1, <2>2, <2>3, <2>4
<1>10. Load(a) \subseteq Load(s)
  BY <1>8 DEF Load
<1> QED
  BY <1>1, <1>2, <1>7, <1>9, <1>10 DEF a, b

\* The events of a sequence that changed.
LEMMA EventsOfAppend ==
    ASSUME NEW S, NEW s \in Seq(S), NEW e \in S
    PROVE  ToSet(Append(s, e)) = ToSet(s) \cup {e}
<1>1. /\ Len(s) \in Nat /\ DOMAIN s = 1 .. Len(s) /\ DOMAIN Append(s, e) = 1 .. Len(s) + 1
      /\ Append(s, e)[Len(s) + 1] = e /\ \A k \in 1 .. Len(s) : Append(s, e)[k] = s[k]
  OBVIOUS
<1> QED
  BY <1>1 DEF ToSet

LEMMA EventsOfTail ==
    ASSUME NEW S, NEW s \in Seq(S), s # <<>>
    PROVE  /\ ToSet(Tail(s)) \subseteq ToSet(s) /\ Head(s) \in ToSet(s) /\ Head(s) \in S
           /\ \A e \in ToSet(s) : e = Head(s) \/ e \in ToSet(Tail(s))
<1> DEFINE r == Tail(s)
<1>1. /\ Len(s) \in Nat /\ Len(s) > 0 /\ DOMAIN s = 1 .. Len(s) /\ DOMAIN r = 1 .. Len(s) - 1
      /\ Head(s) = s[1] /\ \A k \in 1 .. Len(s) - 1 : r[k] = s[k + 1]
  OBVIOUS
<1>2. Head(s) \in S
  OBVIOUS
<1> HIDE DEF r
<1>3. /\ \A k \in DOMAIN s : k # 1 => k - 1 \in DOMAIN r /\ r[k - 1] = s[k]
      /\ \A k \in DOMAIN r : k + 1 \in DOMAIN s /\ r[k] = s[k + 1]
      /\ 1 \in DOMAIN s
  BY ONLY <1>1
<1>4. ToSet(r) \subseteq ToSet(s)
  BY ONLY <1>3 DEF ToSet
<1>5. \A e \in ToSet(s) : e = s[1] \/ e \in ToSet(r)
  BY ONLY <1>3 DEF ToSet
<1>6. s[1] \in ToSet(s)
  BY ONLY <1>3 DEF ToSet
<1> QED
  BY <1>1, <1>2, <1>4, <1>5, <1>6 DEF r

LEMMA EventsOfConcat ==
    ASSUME NEW S, NEW s \in Seq(S), NEW r \in Seq(S)
    PROVE  ToSet(s \o r) \subseteq ToSet(s) \cup ToSet(r)
<1>1. /\ Len(s) \in Nat /\ Len(r) \in Nat /\ DOMAIN s = 1 .. Len(s) /\ DOMAIN r = 1 .. Len(r)
      /\ DOMAIN (s \o r) = 1 .. Len(s) + Len(r)
      /\ \A k \in 1 .. Len(s) + Len(r) : (s \o r)[k] = IF k <= Len(s) THEN s[k] ELSE r[k - Len(s)]
  OBVIOUS
<1> QED
  BY <1>1 DEF ToSet

LEMMA EventsOfPicked ==
    ASSUME NEW S, NEW s \in Seq(S), NEW P
    PROVE  /\ ToSet(Picked(s, P)) \subseteq {s[k] : k \in P \cap DOMAIN s}
           /\ Picked(s, P) = <<>> => P \cap DOMAIN s = {}
<1> DEFINE a == Picked(s, P)
<1>1. PICK f : a \in Seq(S) /\ Embeds(a, s, P, Len(s), f)
  BY PickedEmbeds
<1> HIDE DEF a
<1>2. /\ DOMAIN a = 1 .. Len(a) /\ DOMAIN s = 1 .. Len(s) /\ (a = <<>> => Len(a) = 0)
  BY <1>1
<1>3. \A i \in DOMAIN a : f[i] \in P /\ f[i] \in DOMAIN s /\ a[i] = s[f[i]]
  BY <1>1, <1>2 DEF Embeds
<1>4. \A k \in DOMAIN s : k \in P => \E i \in DOMAIN a : f[i] = k
  BY <1>1, <1>2 DEF Embeds
<1>5. a = <<>> => P \cap DOMAIN s = {}
  BY <1>2, <1>4
<1> QED
  BY <1>3, <1>5 DEF a, ToSet

-----------------------------------------------------------------------------
(* How what is carried moves from lane to lane.                                                 *)

LEMMA LanesStay ==
    ASSUME Apart, \A r \in Lanes : Lane(r)' = Lane(r)
    PROVE  Apart' /\ Carried' = Carried
BY DEF Apart, Carried

LEMMA LaneMoves ==
    ASSUME Apart, NEW p \in Lanes, NEW q \in Lanes, p # q, NEW X, X \subseteq Lane(p),
           Lane(p)' = Lane(p) \ X, Lane(q)' = Lane(q) \cup X,
           \A r \in Lanes : r # p /\ r # q => Lane(r)' = Lane(r)
    PROVE  Apart' /\ Carried' = Carried
<1> DEFINE H(r) == Lane(r)
           G(r) == Lane(r)'
<1>1. \A r, s \in Lanes : r # s => H(r) \cap H(s) = {}
  BY DEF Apart
<1>2. /\ X \subseteq H(p) /\ G(p) = H(p) \ X /\ G(q) = H(q) \cup X
      /\ \A r \in Lanes : r # p /\ r # q => G(r) = H(r)
  OBVIOUS
<1>3. Apart' <=> \A r, s \in Lanes : r # s => G(r) \cap G(s) = {}
  BY DEF Apart
<1>4. /\ \A x : x \in Carried <=> \E r \in Lanes : x \in H(r)
      /\ \A x : x \in Carried' <=> \E r \in Lanes : x \in G(r)
  BY DEF Carried
<1> HIDE DEF H, G
<1>5. \A r, s \in Lanes : r # s => G(r) \cap G(s) = {}
  <2> SUFFICES ASSUME NEW r \in Lanes, NEW s \in Lanes, r # s, NEW x, x \in G(r), x \in G(s)
               PROVE  FALSE
    OBVIOUS
  <2>1. \A u \in Lanes : x \in G(u) => x \in H(u) \/ (u = q /\ x \in X)
    BY ONLY <1>2, p \in Lanes, q \in Lanes
  <2>2. \A u \in Lanes : x \in H(u) /\ x \in X => u = p
    BY ONLY <1>1, <1>2, p \in Lanes
  <2>3. ~(x \in G(p) /\ x \in X)
    BY ONLY <1>2
  <2> QED
    BY ONLY <1>1, <2>1, <2>2, <2>3, r \in Lanes, s \in Lanes, r # s, x \in G(r), x \in G(s)
<1>6. \A x : (\E r \in Lanes : x \in H(r)) <=> \E r \in Lanes : x \in G(r)
  BY ONLY <1>2, p \in Lanes, q \in Lanes
<1>7. \A x : x \in Carried' <=> x \in Carried
  BY ONLY <1>4, <1>6
<1> QED
  BY <1>3, <1>5, <1>7

LEMMA LaneGains ==
    ASSUME Apart, NEW q \in Lanes, NEW X, X \cap Carried = {}, Lane(q)' = Lane(q) \cup X,
           \A r \in Lanes : r # q => Lane(r)' = Lane(r)
    PROVE  Apart' /\ Carried' = Carried \cup X
<1> DEFINE H(r) == Lane(r)
           G(r) == Lane(r)'
<1>1. \A r, s \in Lanes : r # s => H(r) \cap H(s) = {}
  BY DEF Apart
<1>2. /\ G(q) = H(q) \cup X
      /\ \A r \in Lanes : r # q => G(r) = H(r)
  OBVIOUS
<1>3. Apart' <=> \A r, s \in Lanes : r # s => G(r) \cap G(s) = {}
  BY DEF Apart
<1>4. /\ \A x : x \in Carried <=> \E r \in Lanes : x \in H(r)
      /\ \A x : x \in Carried' <=> \E r \in Lanes : x \in G(r)
  BY DEF Carried
<1> HIDE DEF H, G
<1>5. \A r \in Lanes : H(r) \cap X = {}
  BY <1>4
<1>6. \A r, s \in Lanes : r # s => G(r) \cap G(s) = {}
  <2> SUFFICES ASSUME NEW r \in Lanes, NEW s \in Lanes, r # s, NEW x, x \in G(r), x \in G(s)
               PROVE  FALSE
    OBVIOUS
  <2> QED
    BY ONLY <1>1, <1>2, <1>5, r \in Lanes, s \in Lanes, r # s, x \in G(r), x \in G(s)
<1>7. \A x : x \in Carried' <=> x \in Carried \/ x \in X
  BY ONLY <1>2, <1>4, q \in Lanes
<1> QED
  BY <1>3, <1>6, <1>7

LEMMA LaneLoses ==
    ASSUME Apart, NEW p \in Lanes, NEW X, X \subseteq Lane(p), Lane(p)' = Lane(p) \ X,
           \A r \in Lanes : r # p => Lane(r)' = Lane(r)
    PROVE  Apart' /\ Carried' = Carried \ X
<1> DEFINE H(r) == Lane(r)
           G(r) == Lane(r)'
<1>1. \A r, s \in Lanes : r # s => H(r) \cap H(s) = {}
  BY DEF Apart
<1>2. /\ X \subseteq H(p) /\ G(p) = H(p) \ X
      /\ \A r \in Lanes : r # p => G(r) = H(r)
  OBVIOUS
<1>3. Apart' <=> \A r, s \in Lanes : r # s => G(r) \cap G(s) = {}
  BY DEF Apart
<1>4. /\ \A x : x \in Carried <=> \E r \in Lanes : x \in H(r)
      /\ \A x : x \in Carried' <=> \E r \in Lanes : x \in G(r)
  BY DEF Carried
<1> HIDE DEF H, G
<1>5. \A r, s \in Lanes : r # s => G(r) \cap G(s) = {}
  <2> SUFFICES ASSUME NEW r \in Lanes, NEW s \in Lanes, r # s, NEW x, x \in G(r), x \in G(s)
               PROVE  FALSE
    OBVIOUS
  <2> QED
    BY ONLY <1>1, <1>2, r \in Lanes, s \in Lanes, r # s, x \in G(r), x \in G(s)
<1>6. \A x : x \in Carried' <=> x \in Carried /\ x \notin X
  BY ONLY <1>1, <1>2, <1>4, p \in Lanes
<1> QED
  BY <1>3, <1>5, <1>6

\* The lanes, one by one.
LEMMA LaneIs ==
    ASSUME NEW t \in Threads
    PROVE  /\ Lane(<<"queued", t>>) = Load(queue[t]) /\ Lane(<<"parked", t>>) = Load(parked[t])
           /\ Lane(<<"taken", t>>) = Load(op[t].taken) /\ Lane(<<"hand", t>>) = Hand(op[t])
           /\ Lane(<<"clock", t>>) = Clock(timerAt[t])
           /\ Lane(<<"queued", t>>)' = Load(queue'[t]) /\ Lane(<<"parked", t>>)' = Load(parked'[t])
           /\ Lane(<<"taken", t>>)' = Load(op'[t].taken) /\ Lane(<<"hand", t>>)' = Hand(op'[t])
           /\ Lane(<<"clock", t>>)' = Clock(timerAt'[t])
BY DEF Lane

LEMMA LaneNames ==
    ASSUME NEW t \in Threads
    PROVE  {<<"queued", t>>, <<"parked", t>>, <<"taken", t>>, <<"hand", t>>, <<"clock", t>>}
               \subseteq Lanes
BY DEF Lanes

\* A lane is one of five, of a thread.
LEMMA LaneCases ==
    ASSUME NEW r \in Lanes
    PROVE  \E t \in Threads : \/ r = <<"queued", t>> \/ r = <<"parked", t>> \/ r = <<"taken", t>>
                              \/ r = <<"hand", t>> \/ r = <<"clock", t>>
BY DEF Lanes

\* Lanes that keep what they hold.
LEMMA SameLanes ==
    /\ \A t \in Threads : queue'[t] = queue[t] => Lane(<<"queued", t>>)' = Lane(<<"queued", t>>)
    /\ \A t \in Threads : parked'[t] = parked[t] => Lane(<<"parked", t>>)' = Lane(<<"parked", t>>)
    /\ \A t \in Threads : op'[t].taken = op[t].taken => Lane(<<"taken", t>>)' = Lane(<<"taken", t>>)
    /\ \A t \in Threads : Hand(op'[t]) = Hand(op[t]) => Lane(<<"hand", t>>)' = Lane(<<"hand", t>>)
    /\ \A t \in Threads : timerAt'[t] = timerAt[t] => Lane(<<"clock", t>>)' = Lane(<<"clock", t>>)
BY LaneIs

-----------------------------------------------------------------------------
(* Types, and what the steps have in hand.                                                      *)

Ats == {"idle", "resolve", "fetch", "land", "arm", "unlist", "disarm", "swap", "sweep",
        "repost", "forget"}
OpEvents == Events \cup {NoEvent} \cup {Event(o, "move", 0) : o \in Objects}

LEMMA AtNames ==
    /\ "idle" \in Ats /\ "resolve" \in Ats /\ "fetch" \in Ats /\ "land" \in Ats /\ "arm" \in Ats
    /\ "unlist" \in Ats /\ "disarm" \in Ats /\ "swap" \in Ats /\ "sweep" \in Ats
    /\ "repost" \in Ats /\ "forget" \in Ats
BY DEF Ats

LEMMA OpTypes ==
    ASSUME NEW m \in OpRecords
    PROVE  /\ m.at \in Ats /\ m.ev \in OpEvents /\ m.data \in Threads \cup {None}
           /\ m.taken \in Seq(Events) /\ m.timers \in SUBSET TimerIds
           /\ m.sweeps \in 0 .. MaxSweeps /\ m.fresh \in BOOLEAN /\ m.value \in 0 .. MaxLater
BY DEF OpRecords, Ats, OpEvents

LEMMA IdleTypes ==
    /\ Idle \in OpRecords /\ Idle.at = "idle" /\ Idle.ev = NoEvent /\ Idle.taken = <<>>
    /\ Idle.timers = {} /\ Idle.data = None /\ Idle.sweeps = 0 /\ Idle.fresh = FALSE /\ Idle.value = 0
BY AffinityAssumption DEF OpRecords, Idle

\* A record of an operation, field by field.
LEMMA OpIs ==
    ASSUME NEW m, NEW step \in Ats, NEW ev \in OpEvents, NEW data \in Threads \cup {None},
           NEW taken \in Seq(Events), NEW timers \in SUBSET TimerIds, NEW sweeps \in 0 .. MaxSweeps,
           NEW fresh \in BOOLEAN, NEW value \in 0 .. MaxLater,
           m = [at |-> step, ev |-> ev, data |-> data, taken |-> taken, timers |-> timers,
                sweeps |-> sweeps, fresh |-> fresh, value |-> value]
    PROVE  m \in OpRecords
BY DEF OpRecords, Ats, OpEvents

\* Records of eight fields, whatever their sets.
LEMMA EightFields ==
    ASSUME NEW A1, NEW A2, NEW A3, NEW A4, NEW A5, NEW A6, NEW A7, NEW A8,
           NEW m, NEW n,
           m \in [at : A1, ev : A2, data : A3, taken : A4, timers : A5, sweeps : A6, fresh : A7, value : A8],
           DOMAIN n = DOMAIN m, n = [x \in DOMAIN m |-> n[x]],
           n.at \in A1, n.ev \in A2, n.data \in A3, n.taken \in A4,
           n.timers \in A5, n.sweeps \in A6, n.fresh \in A7, n.value \in A8
    PROVE  n \in [at : A1, ev : A2, data : A3, taken : A4, timers : A5, sweeps : A6, fresh : A7, value : A8]
OBVIOUS

LEMMA OpRecordsAre ==
    OpRecords = [at : Ats, ev : OpEvents, data : Threads \cup {None}, taken : Seq(Events),
                 timers : SUBSET TimerIds, sweeps : 0 .. MaxSweeps, fresh : BOOLEAN,
                 value : 0 .. MaxLater]
BY DEF OpRecords, Ats, OpEvents

LEMMA OpHas ==
    ASSUME NEW m \in OpRecords
    PROVE  /\ m = [at |-> m.at, ev |-> m.ev, data |-> m.data, taken |-> m.taken,
                   timers |-> m.timers, sweeps |-> m.sweeps, fresh |-> m.fresh, value |-> m.value]
           /\ m.at \in Ats /\ m.ev \in OpEvents /\ m.data \in Threads \cup {None}
           /\ m.taken \in Seq(Events) /\ m.timers \in SUBSET TimerIds
           /\ m.sweeps \in 0 .. MaxSweeps /\ m.fresh \in BOOLEAN /\ m.value \in 0 .. MaxLater
BY OpRecordsAre

\* Changes of some of its fields.
WithAt(m, s) == [m EXCEPT !.at = s]
WithAtData(m, s, d) == [m EXCEPT !.at = s, !.data = d]
WithAtEv(m, s, e) == [m EXCEPT !.at = s, !.ev = e]
WithTaken(m, r) == [m EXCEPT !.taken = r]
WithSwept(m, s, r, k) == [m EXCEPT !.at = s, !.taken = r, !.sweeps = k]
WithTimers(m, s, e, f) == [m EXCEPT !.at = s, !.ev = e, !.timers = f]
WithMove(m, s, e, f, d) == [m EXCEPT !.at = s, !.ev = e, !.data = d, !.timers = f]
WithArm(m, s, e, b, k) == [m EXCEPT !.at = s, !.ev = e, !.fresh = b, !.value = k]

LEMMA OpAt ==
    ASSUME NEW m \in OpRecords, NEW s \in Ats
    PROVE  /\ WithAt(m, s).at = s /\ WithAt(m, s).ev = m.ev
           /\ WithAt(m, s).data = m.data /\ WithAt(m, s).taken = m.taken
           /\ WithAt(m, s).timers = m.timers /\ WithAt(m, s).sweeps = m.sweeps
           /\ WithAt(m, s).fresh = m.fresh /\ WithAt(m, s).value = m.value
<1> DEFINE n == WithAt(m, s)
<1>0. m = [at |-> m.at, ev |-> m.ev, data |-> m.data, taken |-> m.taken,
           timers |-> m.timers, sweeps |-> m.sweeps, fresh |-> m.fresh, value |-> m.value]
  BY OpHas
<1>1. /\ n.at = s /\ n.ev = m.ev /\ n.data = m.data /\ n.taken = m.taken
      /\ n.timers = m.timers /\ n.sweeps = m.sweeps /\ n.fresh = m.fresh /\ n.value = m.value
  BY ONLY <1>0 DEF WithAt
<1> QED
  BY <1>1 DEF n

LEMMA OpAtType ==
    ASSUME NEW m \in OpRecords, NEW s \in Ats
    PROVE  WithAt(m, s) \in OpRecords
<1> DEFINE n == WithAt(m, s)
<1>0. m = [at |-> m.at, ev |-> m.ev, data |-> m.data, taken |-> m.taken,
           timers |-> m.timers, sweeps |-> m.sweeps, fresh |-> m.fresh, value |-> m.value]
  BY OpHas
<1>1. /\ n.at = s /\ n.ev = m.ev /\ n.data = m.data /\ n.taken = m.taken
      /\ n.timers = m.timers /\ n.sweeps = m.sweeps /\ n.fresh = m.fresh /\ n.value = m.value
      /\ DOMAIN n = DOMAIN m /\ n = [x \in DOMAIN m |-> n[x]]
  BY ONLY <1>0 DEF WithAt
<1> HIDE DEF n
<1>2. n \in OpRecords
  BY OpHas, OpRecordsAre, EightFields, <1>1
<1> QED
  BY <1>2 DEF n

LEMMA OpAtData ==
    ASSUME NEW m \in OpRecords, NEW s \in Ats, NEW d \in Threads \cup {None}
    PROVE  /\ WithAtData(m, s, d).at = s /\ WithAtData(m, s, d).ev = m.ev
           /\ WithAtData(m, s, d).data = d /\ WithAtData(m, s, d).taken = m.taken
           /\ WithAtData(m, s, d).timers = m.timers /\ WithAtData(m, s, d).sweeps = m.sweeps
           /\ WithAtData(m, s, d).fresh = m.fresh /\ WithAtData(m, s, d).value = m.value
<1> DEFINE n == WithAtData(m, s, d)
<1>0. m = [at |-> m.at, ev |-> m.ev, data |-> m.data, taken |-> m.taken,
           timers |-> m.timers, sweeps |-> m.sweeps, fresh |-> m.fresh, value |-> m.value]
  BY OpHas
<1>1. /\ n.at = s /\ n.ev = m.ev /\ n.data = d /\ n.taken = m.taken
      /\ n.timers = m.timers /\ n.sweeps = m.sweeps /\ n.fresh = m.fresh /\ n.value = m.value
  BY ONLY <1>0 DEF WithAtData
<1> QED
  BY <1>1 DEF n

LEMMA OpAtDataType ==
    ASSUME NEW m \in OpRecords, NEW s \in Ats, NEW d \in Threads \cup {None}
    PROVE  WithAtData(m, s, d) \in OpRecords
<1> DEFINE n == WithAtData(m, s, d)
<1>0. m = [at |-> m.at, ev |-> m.ev, data |-> m.data, taken |-> m.taken,
           timers |-> m.timers, sweeps |-> m.sweeps, fresh |-> m.fresh, value |-> m.value]
  BY OpHas
<1>1. /\ n.at = s /\ n.ev = m.ev /\ n.data = d /\ n.taken = m.taken
      /\ n.timers = m.timers /\ n.sweeps = m.sweeps /\ n.fresh = m.fresh /\ n.value = m.value
      /\ DOMAIN n = DOMAIN m /\ n = [x \in DOMAIN m |-> n[x]]
  BY ONLY <1>0 DEF WithAtData
<1> HIDE DEF n
<1>2. n \in OpRecords
  BY OpHas, OpRecordsAre, EightFields, <1>1
<1> QED
  BY <1>2 DEF n

LEMMA OpAtEv ==
    ASSUME NEW m \in OpRecords, NEW s \in Ats, NEW e \in OpEvents
    PROVE  /\ WithAtEv(m, s, e).at = s /\ WithAtEv(m, s, e).ev = e
           /\ WithAtEv(m, s, e).data = m.data /\ WithAtEv(m, s, e).taken = m.taken
           /\ WithAtEv(m, s, e).timers = m.timers /\ WithAtEv(m, s, e).sweeps = m.sweeps
           /\ WithAtEv(m, s, e).fresh = m.fresh /\ WithAtEv(m, s, e).value = m.value
<1> DEFINE n == WithAtEv(m, s, e)
<1>0. m = [at |-> m.at, ev |-> m.ev, data |-> m.data, taken |-> m.taken,
           timers |-> m.timers, sweeps |-> m.sweeps, fresh |-> m.fresh, value |-> m.value]
  BY OpHas
<1>1. /\ n.at = s /\ n.ev = e /\ n.data = m.data /\ n.taken = m.taken
      /\ n.timers = m.timers /\ n.sweeps = m.sweeps /\ n.fresh = m.fresh /\ n.value = m.value
  BY ONLY <1>0 DEF WithAtEv
<1> QED
  BY <1>1 DEF n

LEMMA OpAtEvType ==
    ASSUME NEW m \in OpRecords, NEW s \in Ats, NEW e \in OpEvents
    PROVE  WithAtEv(m, s, e) \in OpRecords
<1> DEFINE n == WithAtEv(m, s, e)
<1>0. m = [at |-> m.at, ev |-> m.ev, data |-> m.data, taken |-> m.taken,
           timers |-> m.timers, sweeps |-> m.sweeps, fresh |-> m.fresh, value |-> m.value]
  BY OpHas
<1>1. /\ n.at = s /\ n.ev = e /\ n.data = m.data /\ n.taken = m.taken
      /\ n.timers = m.timers /\ n.sweeps = m.sweeps /\ n.fresh = m.fresh /\ n.value = m.value
      /\ DOMAIN n = DOMAIN m /\ n = [x \in DOMAIN m |-> n[x]]
  BY ONLY <1>0 DEF WithAtEv
<1> HIDE DEF n
<1>2. n \in OpRecords
  BY OpHas, OpRecordsAre, EightFields, <1>1
<1> QED
  BY <1>2 DEF n

LEMMA OpTaken ==
    ASSUME NEW m \in OpRecords, NEW r \in Seq(Events)
    PROVE  /\ WithTaken(m, r).at = m.at /\ WithTaken(m, r).ev = m.ev
           /\ WithTaken(m, r).data = m.data /\ WithTaken(m, r).taken = r
           /\ WithTaken(m, r).timers = m.timers /\ WithTaken(m, r).sweeps = m.sweeps
           /\ WithTaken(m, r).fresh = m.fresh /\ WithTaken(m, r).value = m.value
<1> DEFINE n == WithTaken(m, r)
<1>0. m = [at |-> m.at, ev |-> m.ev, data |-> m.data, taken |-> m.taken,
           timers |-> m.timers, sweeps |-> m.sweeps, fresh |-> m.fresh, value |-> m.value]
  BY OpHas
<1>1. /\ n.at = m.at /\ n.ev = m.ev /\ n.data = m.data /\ n.taken = r
      /\ n.timers = m.timers /\ n.sweeps = m.sweeps /\ n.fresh = m.fresh /\ n.value = m.value
  BY ONLY <1>0 DEF WithTaken
<1> QED
  BY <1>1 DEF n

LEMMA OpTakenType ==
    ASSUME NEW m \in OpRecords, NEW r \in Seq(Events)
    PROVE  WithTaken(m, r) \in OpRecords
<1> DEFINE n == WithTaken(m, r)
<1>0. m = [at |-> m.at, ev |-> m.ev, data |-> m.data, taken |-> m.taken,
           timers |-> m.timers, sweeps |-> m.sweeps, fresh |-> m.fresh, value |-> m.value]
  BY OpHas
<1>1. /\ n.at = m.at /\ n.ev = m.ev /\ n.data = m.data /\ n.taken = r
      /\ n.timers = m.timers /\ n.sweeps = m.sweeps /\ n.fresh = m.fresh /\ n.value = m.value
      /\ DOMAIN n = DOMAIN m /\ n = [x \in DOMAIN m |-> n[x]]
  BY ONLY <1>0 DEF WithTaken
<1> HIDE DEF n
<1>2. n \in OpRecords
  BY OpHas, OpRecordsAre, EightFields, <1>1
<1> QED
  BY <1>2 DEF n

LEMMA OpSwept ==
    ASSUME NEW m \in OpRecords, NEW s \in Ats, NEW r \in Seq(Events), NEW k \in 0 .. MaxSweeps
    PROVE  /\ WithSwept(m, s, r, k).at = s /\ WithSwept(m, s, r, k).ev = m.ev
           /\ WithSwept(m, s, r, k).data = m.data /\ WithSwept(m, s, r, k).taken = r
           /\ WithSwept(m, s, r, k).timers = m.timers /\ WithSwept(m, s, r, k).sweeps = k
           /\ WithSwept(m, s, r, k).fresh = m.fresh /\ WithSwept(m, s, r, k).value = m.value
<1> DEFINE n == WithSwept(m, s, r, k)
<1>0. m = [at |-> m.at, ev |-> m.ev, data |-> m.data, taken |-> m.taken,
           timers |-> m.timers, sweeps |-> m.sweeps, fresh |-> m.fresh, value |-> m.value]
  BY OpHas
<1>1. /\ n.at = s /\ n.ev = m.ev /\ n.data = m.data /\ n.taken = r
      /\ n.timers = m.timers /\ n.sweeps = k /\ n.fresh = m.fresh /\ n.value = m.value
  BY ONLY <1>0 DEF WithSwept
<1> QED
  BY <1>1 DEF n

LEMMA OpSweptType ==
    ASSUME NEW m \in OpRecords, NEW s \in Ats, NEW r \in Seq(Events), NEW k \in 0 .. MaxSweeps
    PROVE  WithSwept(m, s, r, k) \in OpRecords
<1> DEFINE n == WithSwept(m, s, r, k)
<1>0. m = [at |-> m.at, ev |-> m.ev, data |-> m.data, taken |-> m.taken,
           timers |-> m.timers, sweeps |-> m.sweeps, fresh |-> m.fresh, value |-> m.value]
  BY OpHas
<1>1. /\ n.at = s /\ n.ev = m.ev /\ n.data = m.data /\ n.taken = r
      /\ n.timers = m.timers /\ n.sweeps = k /\ n.fresh = m.fresh /\ n.value = m.value
      /\ DOMAIN n = DOMAIN m /\ n = [x \in DOMAIN m |-> n[x]]
  BY ONLY <1>0 DEF WithSwept
<1> HIDE DEF n
<1>2. n \in OpRecords
  BY OpHas, OpRecordsAre, EightFields, <1>1
<1> QED
  BY <1>2 DEF n

LEMMA OpTimers ==
    ASSUME NEW m \in OpRecords, NEW s \in Ats, NEW e \in OpEvents, NEW f \in SUBSET TimerIds
    PROVE  /\ WithTimers(m, s, e, f).at = s /\ WithTimers(m, s, e, f).ev = e
           /\ WithTimers(m, s, e, f).data = m.data /\ WithTimers(m, s, e, f).taken = m.taken
           /\ WithTimers(m, s, e, f).timers = f /\ WithTimers(m, s, e, f).sweeps = m.sweeps
           /\ WithTimers(m, s, e, f).fresh = m.fresh /\ WithTimers(m, s, e, f).value = m.value
<1> DEFINE n == WithTimers(m, s, e, f)
<1>0. m = [at |-> m.at, ev |-> m.ev, data |-> m.data, taken |-> m.taken,
           timers |-> m.timers, sweeps |-> m.sweeps, fresh |-> m.fresh, value |-> m.value]
  BY OpHas
<1>1. /\ n.at = s /\ n.ev = e /\ n.data = m.data /\ n.taken = m.taken
      /\ n.timers = f /\ n.sweeps = m.sweeps /\ n.fresh = m.fresh /\ n.value = m.value
  BY ONLY <1>0 DEF WithTimers
<1> QED
  BY <1>1 DEF n

LEMMA OpTimersType ==
    ASSUME NEW m \in OpRecords, NEW s \in Ats, NEW e \in OpEvents, NEW f \in SUBSET TimerIds
    PROVE  WithTimers(m, s, e, f) \in OpRecords
<1> DEFINE n == WithTimers(m, s, e, f)
<1>0. m = [at |-> m.at, ev |-> m.ev, data |-> m.data, taken |-> m.taken,
           timers |-> m.timers, sweeps |-> m.sweeps, fresh |-> m.fresh, value |-> m.value]
  BY OpHas
<1>1. /\ n.at = s /\ n.ev = e /\ n.data = m.data /\ n.taken = m.taken
      /\ n.timers = f /\ n.sweeps = m.sweeps /\ n.fresh = m.fresh /\ n.value = m.value
      /\ DOMAIN n = DOMAIN m /\ n = [x \in DOMAIN m |-> n[x]]
  BY ONLY <1>0 DEF WithTimers
<1> HIDE DEF n
<1>2. n \in OpRecords
  BY OpHas, OpRecordsAre, EightFields, <1>1
<1> QED
  BY <1>2 DEF n

LEMMA OpMove ==
    ASSUME NEW m \in OpRecords, NEW s \in Ats, NEW e \in OpEvents, NEW f \in SUBSET TimerIds,
           NEW d \in Threads \cup {None}
    PROVE  /\ WithMove(m, s, e, f, d).at = s /\ WithMove(m, s, e, f, d).ev = e
           /\ WithMove(m, s, e, f, d).data = d /\ WithMove(m, s, e, f, d).taken = m.taken
           /\ WithMove(m, s, e, f, d).timers = f /\ WithMove(m, s, e, f, d).sweeps = m.sweeps
           /\ WithMove(m, s, e, f, d).fresh = m.fresh /\ WithMove(m, s, e, f, d).value = m.value
<1> DEFINE n == WithMove(m, s, e, f, d)
<1>0. m = [at |-> m.at, ev |-> m.ev, data |-> m.data, taken |-> m.taken,
           timers |-> m.timers, sweeps |-> m.sweeps, fresh |-> m.fresh, value |-> m.value]
  BY OpHas
<1>1. /\ n.at = s /\ n.ev = e /\ n.data = d /\ n.taken = m.taken
      /\ n.timers = f /\ n.sweeps = m.sweeps /\ n.fresh = m.fresh /\ n.value = m.value
  BY ONLY <1>0 DEF WithMove
<1> QED
  BY <1>1 DEF n

LEMMA OpMoveType ==
    ASSUME NEW m \in OpRecords, NEW s \in Ats, NEW e \in OpEvents, NEW f \in SUBSET TimerIds,
           NEW d \in Threads \cup {None}
    PROVE  WithMove(m, s, e, f, d) \in OpRecords
<1> DEFINE n == WithMove(m, s, e, f, d)
<1>0. m = [at |-> m.at, ev |-> m.ev, data |-> m.data, taken |-> m.taken,
           timers |-> m.timers, sweeps |-> m.sweeps, fresh |-> m.fresh, value |-> m.value]
  BY OpHas
<1>1. /\ n.at = s /\ n.ev = e /\ n.data = d /\ n.taken = m.taken
      /\ n.timers = f /\ n.sweeps = m.sweeps /\ n.fresh = m.fresh /\ n.value = m.value
      /\ DOMAIN n = DOMAIN m /\ n = [x \in DOMAIN m |-> n[x]]
  BY ONLY <1>0 DEF WithMove
<1> HIDE DEF n
<1>2. n \in OpRecords
  BY OpHas, OpRecordsAre, EightFields, <1>1
<1> QED
  BY <1>2 DEF n

LEMMA OpArm ==
    ASSUME NEW m \in OpRecords, NEW s \in Ats, NEW e \in OpEvents, NEW b \in BOOLEAN, NEW k \in 0 .. MaxLater
    PROVE  /\ WithArm(m, s, e, b, k).at = s /\ WithArm(m, s, e, b, k).ev = e
           /\ WithArm(m, s, e, b, k).data = m.data /\ WithArm(m, s, e, b, k).taken = m.taken
           /\ WithArm(m, s, e, b, k).timers = m.timers /\ WithArm(m, s, e, b, k).sweeps = m.sweeps
           /\ WithArm(m, s, e, b, k).fresh = b /\ WithArm(m, s, e, b, k).value = k
<1> DEFINE n == WithArm(m, s, e, b, k)
<1>0. m = [at |-> m.at, ev |-> m.ev, data |-> m.data, taken |-> m.taken,
           timers |-> m.timers, sweeps |-> m.sweeps, fresh |-> m.fresh, value |-> m.value]
  BY OpHas
<1>1. /\ n.at = s /\ n.ev = e /\ n.data = m.data /\ n.taken = m.taken
      /\ n.timers = m.timers /\ n.sweeps = m.sweeps /\ n.fresh = b /\ n.value = k
  BY ONLY <1>0 DEF WithArm
<1> QED
  BY <1>1 DEF n

LEMMA OpArmType ==
    ASSUME NEW m \in OpRecords, NEW s \in Ats, NEW e \in OpEvents, NEW b \in BOOLEAN, NEW k \in 0 .. MaxLater
    PROVE  WithArm(m, s, e, b, k) \in OpRecords
<1> DEFINE n == WithArm(m, s, e, b, k)
<1>0. m = [at |-> m.at, ev |-> m.ev, data |-> m.data, taken |-> m.taken,
           timers |-> m.timers, sweeps |-> m.sweeps, fresh |-> m.fresh, value |-> m.value]
  BY OpHas
<1>1. /\ n.at = s /\ n.ev = e /\ n.data = m.data /\ n.taken = m.taken
      /\ n.timers = m.timers /\ n.sweeps = m.sweeps /\ n.fresh = b /\ n.value = k
      /\ DOMAIN n = DOMAIN m /\ n = [x \in DOMAIN m |-> n[x]]
  BY ONLY <1>0 DEF WithArm
<1> HIDE DEF n
<1>2. n \in OpRecords
  BY OpHas, OpRecordsAre, EightFields, <1>1
<1> QED
  BY <1>2 DEF n


-----------------------------------------------------------------------------
(* What each step does with what its thread has in hand.                                        *)

LEMMA GoesTo ==
    ASSUME AffinityTypeOK, NEW t \in Threads, NEW m \in OpRecords, op' = [op EXCEPT ![t] = m]
    PROVE  /\ op' \in [Threads -> OpRecords] /\ op'[t] = m
           /\ \A u \in Threads : u # t => op'[u] = op[u]
BY DEF AffinityTypeOK

\* The constants' types, and the state's.
LEMMA Numbers ==
    MaxPosts \in Nat /\ MaxLater \in Nat /\ MaxMoves \in Nat /\ MaxSweeps \in Nat /\ MaxSweeps > 0
    /\ None \notin Threads /\ None \notin Objects /\ None \notin TimerIds
    /\ None \notin Nat
BY AffinityAssumption

LEMMA OpOf ==
    ASSUME AffinityInv, NEW t \in Threads
    PROVE  /\ op[t] \in OpRecords /\ StepIsSound(t) /\ op \in [Threads -> OpRecords]
           /\ op[t].at \in Ats /\ op[t].ev \in OpEvents /\ op[t].data \in Threads \cup {None}
           /\ op[t].taken \in Seq(Events) /\ op[t].timers \in SUBSET TimerIds
           /\ op[t].sweeps \in 0 .. MaxSweeps /\ op[t].fresh \in BOOLEAN
           /\ op[t].value \in 0 .. MaxLater
           /\ op[t].at = "sweep" => op[t].sweeps < MaxSweeps
<1>1. op \in [Threads -> OpRecords] /\ (op[t].at = "sweep" => op[t].sweeps < MaxSweeps)
  BY DEF AffinityInv, AffinityTypeOK
<1>2. op[t] \in OpRecords
  BY <1>1
<1>3. StepIsSound(t)
  BY DEF AffinityInv, Sound
<1> QED
  BY <1>1, <1>2, <1>3, OpTypes

LEMMA EventFields ==
    \A o, k, a : /\ Event(o, k, a).to = o /\ Event(o, k, a).kind = k
                 /\ Event(o, k, a).arg = a /\ Event(o, k, a).stray = FALSE
BY DEF Event

LEMMA EventIs ==
    ASSUME NEW o \in Objects
    PROVE  /\ \A c \in 1 .. MaxPosts : Event(o, "call", c) \in Events
           /\ \A n \in 1 .. MaxLater : Event(o, "later", n) \in Events
           /\ \A f \in SUBSET TimerIds : Event(o, "timers", f) \in Events
<1>1. \A c \in 1 .. MaxPosts : Event(o, "call", c) \in Events
  BY DEF Event, Events
<1>2. \A n \in 1 .. MaxLater : Event(o, "later", n) \in Events
  BY DEF Event, Events
<1>3. \A f \in SUBSET TimerIds : Event(o, "timers", f) \in Events
  BY DEF Event, Events
<1> QED
  BY <1>1, <1>2, <1>3

LEMMA EventsAreOps ==
    /\ \A e \in Events : e \in OpEvents
    /\ \A o \in Objects : Event(o, "move", 0) \in OpEvents
    /\ NoEvent \in OpEvents /\ None \in Threads \cup {None} /\ \A t \in Threads : t \in Threads \cup {None}
BY DEF OpEvents

\* The thread becomes idle, or gives up a node.
LEMMA RefusedDoes ==
    ASSUME AffinityInv, NEW t \in Threads, op[t].at \in Posting, Refused(t)
    PROVE  /\ op' \in [Threads -> OpRecords] /\ \A u \in Threads : u # t => op'[u] = op[u]
           /\ op[t].ev.kind # "later" => op'[t] = Idle
           /\ op[t].ev.kind = "later" =>
                 /\ op'[t].at = "unlist" /\ op'[t].ev = op[t].ev /\ op'[t].taken = op[t].taken
                 /\ op'[t].timers = op[t].timers
           /\ outcome' = IF op[t].ev.kind = "call" THEN [outcome EXCEPT ![op[t].ev.arg] = "refused"]
                         ELSE outcome
<1> DEFINE m == WithAt(op[t], "unlist")
<1> HIDE DEF m
<1>1. /\ m \in OpRecords /\ m.at = "unlist" /\ m.ev = op[t].ev /\ m.taken = op[t].taken
      /\ m.timers = op[t].timers
  <2>1. m \in OpRecords
    BY OpOf, OpAtType, AtNames DEF m
  <2>2. /\ m.at = "unlist" /\ m.ev = op[t].ev /\ m.taken = op[t].taken
        /\ m.timers = op[t].timers
    BY OpOf, OpAt, AtNames DEF m
  <2> QED
    BY <2>1, <2>2
<1>2. op' = [op EXCEPT ![t] = IF op[t].ev.kind = "later" THEN m ELSE Idle]
  BY DEF Refused, Goes, m, WithAt
<1>3. (IF op[t].ev.kind = "later" THEN m ELSE Idle) \in OpRecords
  BY <1>1, IdleTypes
<1>4. /\ op' \in [Threads -> OpRecords] /\ op'[t] = IF op[t].ev.kind = "later" THEN m ELSE Idle
      /\ \A u \in Threads : u # t => op'[u] = op[u]
  BY <1>2, <1>3, GoesTo DEF AffinityInv
<1>5. outcome' = IF op[t].ev.kind = "call" THEN [outcome EXCEPT ![op[t].ev.arg] = "refused"] ELSE outcome
  BY DEF Refused, Settle
<1> QED
  BY <1>1, <1>4, <1>5

LEMMA DoneDoes ==
    ASSUME AffinityInv, NEW t \in Threads, Done(t)
    PROVE  /\ op' \in [Threads -> OpRecords] /\ op'[t] = Idle
           /\ \A u \in Threads : u # t => op'[u] = op[u]
BY GoesTo, IdleTypes DEF Done, Goes, AffinityInv

LEMMA BeginPostDoes ==
    ASSUME AffinityInv, NEW t \in Threads, NEW o \in Objects, BeginPost(t, o)
    PROVE  /\ op' \in [Threads -> OpRecords] /\ \A u \in Threads : u # t => op'[u] = op[u]
           /\ op[t] = Idle /\ loop[t] = "up" /\ Len(outcome) + 1 \in 1 .. MaxPosts
           /\ op'[t].at = "resolve" /\ op'[t].ev = Event(o, "call", Len(outcome) + 1)
           /\ op'[t].taken = <<>> /\ op'[t].timers = {}
<1>1. Len(outcome) + 1 \in 1 .. MaxPosts
  BY Numbers DEF BeginPost, AffinityInv, AffinityTypeOK
<1> DEFINE e == Event(o, "call", Len(outcome) + 1)
           m == WithAtEv(Idle, "resolve", e)
<1>2. e \in OpEvents
  BY <1>1, EventIs, EventsAreOps
<1> HIDE DEF e
<1> HIDE DEF m
<1>3. m \in OpRecords /\ m.at = "resolve" /\ m.ev = e /\ m.taken = <<>> /\ m.timers = {}
  <2>1. m \in OpRecords
    BY <1>2, IdleTypes, OpAtEvType, AtNames DEF m
  <2>2. m.at = "resolve" /\ m.ev = e /\ m.taken = <<>> /\ m.timers = {}
    BY <1>2, IdleTypes, OpAtEv, AtNames DEF m
  <2> QED
    BY <2>1, <2>2
<1>4. op' = [op EXCEPT ![t] = m]
  BY DEF BeginPost, Goes, m, e, WithAtEv
<1>5. op[t] = Idle /\ loop[t] = "up"
  BY OpOf DEF BeginPost, Calling, StepIsSound
<1> QED
  BY <1>1, <1>3, <1>4, <1>5, GoesTo DEF AffinityInv, e

LEMMA ResolveDoes ==
    ASSUME AffinityInv, NEW t \in Threads, Resolve(t), home[op[t].ev.to] # None
    PROVE  /\ op' \in [Threads -> OpRecords] /\ \A u \in Threads : u # t => op'[u] = op[u]
           /\ op[t].ev \in Events /\ home[op[t].ev.to] \in Threads
           /\ op'[t].at = "fetch" /\ op'[t].ev = op[t].ev /\ op'[t].data = home[op[t].ev.to]
           /\ op'[t].taken = op[t].taken /\ op'[t].timers = op[t].timers
           /\ outcome' = outcome
<1>1. op[t].ev \in Events /\ op[t].at = "resolve"
  BY OpOf DEF Resolve, StepIsSound, Posting
<1>2. home[op[t].ev.to] \in Threads
  BY <1>1, EventTypes DEF AffinityInv, AffinityTypeOK
<1> DEFINE d == home[op[t].ev.to]
           m == WithAtData(op[t], "fetch", d)
<1>3. op' = [op EXCEPT ![t] = m] /\ outcome' = outcome
  BY DEF Resolve, Goes, WithAtData
<1> HIDE DEF d
<1> HIDE DEF m
<1>4. /\ m \in OpRecords /\ m.at = "fetch" /\ m.ev = op[t].ev /\ m.data = d
      /\ m.taken = op[t].taken /\ m.timers = op[t].timers
  <2>1. m \in OpRecords
    BY <1>2, OpOf, OpAtDataType, AtNames DEF d, m
  <2>2. /\ m.at = "fetch" /\ m.ev = op[t].ev /\ m.data = d
        /\ m.taken = op[t].taken /\ m.timers = op[t].timers
    BY <1>2, OpOf, OpAtData, AtNames DEF d, m
  <2> QED
    BY <2>1, <2>2
<1> QED
  BY <1>1, <1>2, <1>3, <1>4, GoesTo DEF AffinityInv, d

LEMMA FetchDoes ==
    ASSUME AffinityInv, NEW t \in Threads, Fetch(t), loop[op[t].data] = "up"
    PROVE  /\ op' \in [Threads -> OpRecords] /\ \A u \in Threads : u # t => op'[u] = op[u]
           /\ op'[t].at = "land" /\ op'[t].ev = op[t].ev /\ op'[t].data = op[t].data
           /\ op'[t].taken = op[t].taken /\ op'[t].timers = op[t].timers
           /\ parked' = parked /\ outcome' = outcome
<1> DEFINE m == WithAt(op[t], "land")
<1>1. op' = [op EXCEPT ![t] = m] /\ parked' = parked /\ outcome' = outcome
  BY DEF Fetch, Goes, WithAt
<1> HIDE DEF m
<1>2. /\ m \in OpRecords /\ m.at = "land" /\ m.ev = op[t].ev /\ m.data = op[t].data
      /\ m.taken = op[t].taken /\ m.timers = op[t].timers
  <2>1. m \in OpRecords
    BY OpOf, OpAtType, AtNames DEF m
  <2>2. /\ m.at = "land" /\ m.ev = op[t].ev /\ m.data = op[t].data
        /\ m.taken = op[t].taken /\ m.timers = op[t].timers
    BY OpOf, OpAt, AtNames DEF m
  <2> QED
    BY <2>1, <2>2
<1> QED
  BY <1>1, <1>2, GoesTo DEF AffinityInv

LEMMA CallLaterDoes ==
    ASSUME AffinityInv, NEW t \in Threads, NEW o \in Objects, CallLater(t, o)
    PROVE  /\ op' \in [Threads -> OpRecords] /\ \A u \in Threads : u # t => op'[u] = op[u]
           /\ op[t] = Idle /\ loop[t] = "up" /\ later' = later + 1 /\ later' \in 1 .. MaxLater
           /\ pending' = [pending EXCEPT ![o] = pending'[o]] /\ pending'[o] \in 1 .. MaxLater
           /\ pending'[o] = IF pending[o] = None THEN later' ELSE pending[o]
           /\ op'[t].at = "arm" /\ op'[t].ev = Event(o, "later", pending'[o])
           /\ op'[t].fresh = (pending[o] = None) /\ op'[t].value = later'
           /\ op'[t].taken = <<>> /\ op'[t].timers = {} /\ op'[t].ev \in Events
<1>1. later' = later + 1 /\ later' \in 1 .. MaxLater
  BY Numbers DEF CallLater, AffinityInv, AffinityTypeOK
<1>2. pending' = [pending EXCEPT ![o] = IF pending[o] = None THEN later' ELSE pending[o]]
  BY DEF CallLater
<1>3. pending'[o] = IF pending[o] = None THEN later' ELSE pending[o]
  BY <1>2 DEF AffinityInv, AffinityTypeOK
<1>4. pending'[o] \in 1 .. MaxLater
  BY <1>1, <1>3 DEF AffinityInv, AffinityTypeOK
<1> DEFINE e == Event(o, "later", pending'[o])
           b == pending[o] = None
           m == WithArm(Idle, "arm", e, b, later')
<1>5. e \in Events /\ e \in OpEvents /\ b \in BOOLEAN /\ later' \in 0 .. MaxLater
  <2>1. e \in Events
    BY <1>4, EventIs
  <2>2. e \in OpEvents
    BY <2>1, EventsAreOps
  <2>3. b \in BOOLEAN
    OBVIOUS
  <2>4. later' \in 0 .. MaxLater
    BY ONLY <1>1, Numbers
  <2> QED
    BY <2>1, <2>2, <2>3, <2>4
<1>6. op' = [op EXCEPT ![t] = m]
  BY <1>1 DEF CallLater, Goes, WithArm
<1> HIDE DEF e, b
<1> HIDE DEF m
<1>7. /\ m \in OpRecords /\ m.at = "arm" /\ m.ev = e /\ m.fresh = b /\ m.value = later'
      /\ m.taken = <<>> /\ m.timers = {}
  <2>1. m \in OpRecords
    BY <1>5, IdleTypes, OpArmType, AtNames DEF m
  <2>2. /\ m.at = "arm" /\ m.ev = e /\ m.fresh = b /\ m.value = later'
        /\ m.taken = <<>> /\ m.timers = {}
    BY <1>5, IdleTypes, OpArm, AtNames DEF m
  <2> QED
    BY <2>1, <2>2
<1>8. op[t] = Idle /\ loop[t] = "up"
  BY OpOf DEF CallLater, Calling, StepIsSound
<1> QED
  BY <1>1, <1>2, <1>3, <1>4, <1>5, <1>6, <1>7, <1>8, GoesTo DEF AffinityInv, e, b

LEMMA ArmDoes ==
    ASSUME AffinityInv, NEW t \in Threads, Arm(t)
    PROVE  /\ op' \in [Threads -> OpRecords] /\ \A u \in Threads : u # t => op'[u] = op[u]
           /\ op[t].fresh => /\ op'[t].at = "resolve" /\ op'[t].ev = op[t].ev
                             /\ op'[t].taken = <<>> /\ op'[t].timers = {}
           /\ ~op[t].fresh => op'[t] = Idle
<1> DEFINE m == WithAtEv(Idle, "resolve", op[t].ev)
<1>1. op' = [op EXCEPT ![t] = IF op[t].fresh THEN m ELSE Idle]
  BY DEF Arm, Goes, Done, WithAtEv
<1> HIDE DEF m
<1>2. m \in OpRecords /\ m.at = "resolve" /\ m.ev = op[t].ev /\ m.taken = <<>> /\ m.timers = {}
  <2>1. m \in OpRecords
    BY OpOf, IdleTypes, OpAtEvType, AtNames DEF m
  <2>2. m.at = "resolve" /\ m.ev = op[t].ev /\ m.taken = <<>> /\ m.timers = {}
    BY OpOf, IdleTypes, OpAtEv, AtNames DEF m
  <2> QED
    BY <2>1, <2>2
<1>3. (IF op[t].fresh THEN m ELSE Idle) \in OpRecords
  BY <1>2, IdleTypes
<1> QED
  BY <1>1, <1>2, <1>3, GoesTo DEF AffinityInv

\* What the loop takes next.
LEMMA TakesDoes ==
    ASSUME AffinityInv, NEW t \in Threads, NEW k, Takes(t, k)
    PROVE  /\ op[t] = Idle /\ loop[t] = "up" /\ queue[t] \in Seq(Events) /\ queue[t] # <<>>
           /\ Head(queue[t]) \in Events /\ Head(queue[t]).kind = k
           /\ queue' = [queue EXCEPT ![t] = Tail(queue[t])] /\ queue' \in [Threads -> Seq(Events)]
           /\ queue'[t] = Tail(queue[t]) /\ \A u \in Threads : u # t => queue'[u] = queue[u]
<1>1. queue \in [Threads -> Seq(Events)]
  BY DEF AffinityInv, AffinityTypeOK
<1>2. /\ queue[t] # <<>> /\ Head(queue[t]).kind = k /\ queue' = [queue EXCEPT ![t] = Tail(queue[t])]
      /\ op[t].at = "idle" /\ loop[t] = "up"
  BY DEF Takes, Calling
<1>3. op[t] = Idle
  BY <1>2, OpOf DEF StepIsSound
<1>4. queue[t] \in Seq(Events) /\ Head(queue[t]) \in Events /\ Tail(queue[t]) \in Seq(Events)
  BY <1>1, <1>2
<1> QED
  BY <1>1, <1>2, <1>3, <1>4

LEMMA DeliverLaterDoes ==
    ASSUME AffinityInv, NEW t \in Threads, DeliverLater(t)
    PROVE  /\ op' \in [Threads -> OpRecords] /\ \A u \in Threads : u # t => op'[u] = op[u]
           /\ op'[t].at = "disarm" /\ op'[t].ev = Head(queue[t])
           /\ op'[t].taken = <<>> /\ op'[t].timers = {}
<1> DEFINE e == Head(queue[t])
           m == WithAtEv(Idle, "disarm", e)
<1>1. e \in OpEvents
  BY TakesDoes, EventsAreOps DEF DeliverLater
<1>2. op' = [op EXCEPT ![t] = m]
  BY DEF DeliverLater, Goes, WithAtEv
<1> HIDE DEF e
<1> HIDE DEF m
<1>3. m \in OpRecords /\ m.at = "disarm" /\ m.ev = e /\ m.taken = <<>> /\ m.timers = {}
  <2>1. m \in OpRecords
    BY <1>1, IdleTypes, OpAtEvType, AtNames DEF m
  <2>2. m.at = "disarm" /\ m.ev = e /\ m.taken = <<>> /\ m.timers = {}
    BY <1>1, IdleTypes, OpAtEv, AtNames DEF m
  <2> QED
    BY <2>1, <2>2
<1> QED
  BY <1>2, <1>3, GoesTo DEF AffinityInv, e

LEMMA BeginMoveDoes ==
    ASSUME AffinityInv, NEW t \in Threads, NEW o \in Objects, NEW d \in Threads \cup {None},
           BeginMove(t, o, d)
    PROVE  /\ op' \in [Threads -> OpRecords] /\ \A u \in Threads : u # t => op'[u] = op[u]
           /\ op[t] = Idle /\ loop[t] = "up"
           /\ op'[t].at = "swap" /\ op'[t].ev = Event(o, "move", 0) /\ op'[t].data = d
           /\ op'[t].taken = <<>> /\ op'[t].sweeps = 0
           /\ op'[t].timers = IF home[o] = t THEN RegisteredAt(t, o) ELSE {}
<1> DEFINE e == Event(o, "move", 0)
           f == IF home[o] = t THEN RegisteredAt(t, o) ELSE {}
           m == WithMove(Idle, "swap", e, f, d)
<1>1. e \in OpEvents /\ f \in SUBSET TimerIds
  BY EventsAreOps DEF RegisteredAt
<1>2. op' = [op EXCEPT ![t] = m]
  BY DEF BeginMove, Goes, WithMove
<1> HIDE DEF e, f
<1> HIDE DEF m
<1>3. /\ m \in OpRecords /\ m.at = "swap" /\ m.ev = e /\ m.data = d /\ m.timers = f
      /\ m.taken = <<>> /\ m.sweeps = 0
  <2>1. m \in OpRecords
    BY <1>1, IdleTypes, OpMoveType, AtNames DEF m
  <2>2. /\ m.at = "swap" /\ m.ev = e /\ m.data = d /\ m.timers = f
        /\ m.taken = <<>> /\ m.sweeps = 0
    BY <1>1, IdleTypes, OpMove, AtNames DEF m
  <2> QED
    BY <2>1, <2>2
<1>4. op[t] = Idle /\ loop[t] = "up"
  BY OpOf DEF BeginMove, Calling, StepIsSound
<1> QED
  BY <1>2, <1>3, <1>4, GoesTo DEF AffinityInv, e, f

\* What comes after the sweeps.
LEMMA AfterSweepsIs ==
    ASSUME AffinityInv, NEW t \in Threads, op[t].at \in Travelling
    PROVE  /\ AfterSweeps(t) \in OpRecords /\ AfterSweeps(t).taken = <<>>
           /\ op[t].timers = {} => AfterSweeps(t) = Idle
           /\ op[t].timers # {} /\ op[t].data = None =>
                 /\ AfterSweeps(t).at = "forget" /\ AfterSweeps(t).ev = op[t].ev
                 /\ AfterSweeps(t).timers = op[t].timers
           /\ op[t].timers # {} /\ op[t].data # None =>
                 /\ AfterSweeps(t).at = "resolve" /\ AfterSweeps(t).timers = {}
                 /\ AfterSweeps(t).ev = Event(op[t].ev.to, "timers", op[t].timers)
                 /\ AfterSweeps(t).ev \in Events
<1> DEFINE o == op[t].ev.to
           e == Event(o, "timers", op[t].timers)
           m == WithTimers(Idle, "forget", op[t].ev, op[t].timers)
           n == WithAtEv(Idle, "resolve", e)
<1>1. o \in Objects
  <2>1. PICK p \in Objects : op[t].ev = Event(p, "move", 0)
    BY OpOf DEF StepIsSound
  <2> QED
    BY <2>1, EventFields
<1> HIDE DEF o
<1>2. e \in Events /\ e \in OpEvents /\ op[t].ev \in OpEvents
  BY <1>1, OpOf, EventIs, EventsAreOps
<1>3. AfterSweeps(t) = IF op[t].timers = {} THEN Idle ELSE IF op[t].data = None THEN m ELSE n
  BY DEF AfterSweeps, o, WithAtEv, WithTimers
<1> HIDE DEF e
<1> HIDE DEF m
<1>4. m \in OpRecords /\ m.at = "forget" /\ m.ev = op[t].ev /\ m.timers = op[t].timers /\ m.taken = <<>>
  <2>1. m \in OpRecords
    BY <1>2, OpOf, IdleTypes, OpTimersType, AtNames DEF m
  <2>2. m.at = "forget" /\ m.ev = op[t].ev /\ m.timers = op[t].timers /\ m.taken = <<>>
    BY <1>2, OpOf, IdleTypes, OpTimers, AtNames DEF m
  <2> QED
    BY <2>1, <2>2
<1> HIDE DEF n
<1>5. n \in OpRecords /\ n.at = "resolve" /\ n.ev = e /\ n.timers = {} /\ n.taken = <<>>
  <2>1. n \in OpRecords
    BY <1>2, IdleTypes, OpAtEvType, AtNames DEF n
  <2>2. n.at = "resolve" /\ n.ev = e /\ n.timers = {} /\ n.taken = <<>>
    BY <1>2, IdleTypes, OpAtEv, AtNames DEF n
  <2> QED
    BY <2>1, <2>2
<1> QED
  BY <1>2, <1>3, <1>4, <1>5, IdleTypes DEF e, o

\* An object under way.
LEMMA Traveller ==
    ASSUME AffinityInv, NEW t \in Threads, op[t].at \in Travelling
    PROVE  op[t].ev.to \in Objects /\ op[t].ev = Event(op[t].ev.to, "move", 0) /\ op[t].ev.kind = "move"
<1>1. PICK p \in Objects : op[t].ev = Event(p, "move", 0)
  BY OpOf DEF StepIsSound
<1>2. Event(p, "move", 0).to = p /\ Event(p, "move", 0).kind = "move"
  BY EventFields
<1> QED
  BY <1>1, <1>2

LEMMA SwapDoes ==
    ASSUME AffinityInv, NEW t \in Threads, Swap(t)
    PROVE  /\ op' \in [Threads -> OpRecords] /\ \A u \in Threads : u # t => op'[u] = op[u]
           /\ home[op[t].ev.to] = None => op'[t] = AfterSweeps(t)
           /\ home[op[t].ev.to] # None =>
                 /\ op'[t].at = "sweep" /\ op'[t].ev = op[t].ev /\ op'[t].data = op[t].data
                 /\ op'[t].taken = op[t].taken /\ op'[t].timers = op[t].timers
                 /\ op'[t].sweeps = op[t].sweeps
<1> DEFINE m == WithAt(op[t], "sweep")
           n == IF home[op[t].ev.to] = None THEN AfterSweeps(t) ELSE m
<1>1. op' = [op EXCEPT ![t] = n] /\ op[t].at \in Travelling
  BY DEF Swap, Goes, Travelling, WithAt
<1> HIDE DEF m
<1>2. /\ m \in OpRecords /\ m.at = "sweep" /\ m.ev = op[t].ev /\ m.data = op[t].data
      /\ m.taken = op[t].taken /\ m.timers = op[t].timers /\ m.sweeps = op[t].sweeps
  <2>1. m \in OpRecords
    BY OpOf, OpAtType, AtNames DEF m
  <2>2. /\ m.at = "sweep" /\ m.ev = op[t].ev /\ m.data = op[t].data
        /\ m.taken = op[t].taken /\ m.timers = op[t].timers /\ m.sweeps = op[t].sweeps
    BY OpOf, OpAt, AtNames DEF m
  <2> QED
    BY <2>1, <2>2
<1>3. n \in OpRecords
  BY <1>1, <1>2, AfterSweepsIs
<1> QED
  BY <1>1, <1>2, <1>3, GoesTo DEF AffinityInv

Ours(t) == {k \in Positions(queue[t]) : queue[t][k].to = op[t].ev.to}
Swept(t) == Picked(queue[t], Ours(t))

LEMMA SweepDoes ==
    ASSUME AffinityInv, NEW t \in Threads, Sweep(t)
    PROVE  /\ op' \in [Threads -> OpRecords] /\ \A u \in Threads : u # t => op'[u] = op[u]
           /\ Swept(t) \in Seq(Events) /\ queue' \in [Threads -> Seq(Events)]
           /\ queue'[t] = Picked(queue[t], Positions(queue[t]) \ Ours(t))
           /\ \A u \in Threads : u # t => queue'[u] = queue[u]
           /\ Swept(t) = <<>> => op'[t] = AfterSweeps(t)
           /\ Swept(t) # <<>> =>
                 /\ op'[t].at = "repost" /\ op'[t].ev = op[t].ev /\ op'[t].data = op[t].data
                 /\ op'[t].taken = Swept(t) /\ op'[t].timers = op[t].timers
                 /\ op'[t].sweeps = op[t].sweeps + 1
<1>1. queue \in [Threads -> Seq(Events)] /\ queue[t] \in Seq(Events)
  BY DEF AffinityInv, AffinityTypeOK
<1>2. Swept(t) \in Seq(Events) /\ Picked(queue[t], Positions(queue[t]) \ Ours(t)) \in Seq(Events)
  BY <1>1, PickedEmbeds DEF Swept
<1> DEFINE s == Swept(t)
           k == op[t].sweeps + 1
           m == WithSwept(op[t], "repost", s, k)
           n == IF s = <<>> THEN AfterSweeps(t) ELSE m
<1>3. /\ op' = [op EXCEPT ![t] = n] /\ op[t].at = "sweep"
      /\ queue' = [queue EXCEPT ![t] = Picked(queue[t], Positions(queue[t]) \ Ours(t))]
  BY DEF Sweep, Goes, Swept, Ours, WithSwept
<1>4. k \in 0 .. MaxSweeps
  BY <1>3, OpOf, Numbers
<1> HIDE DEF s, k
<1> HIDE DEF m
<1>5. /\ m \in OpRecords /\ m.at = "repost" /\ m.ev = op[t].ev /\ m.data = op[t].data
      /\ m.taken = s /\ m.timers = op[t].timers /\ m.sweeps = k
  <2>1. m \in OpRecords
    BY <1>2, <1>4, OpOf, OpSweptType, AtNames DEF s, m
  <2>2. /\ m.at = "repost" /\ m.ev = op[t].ev /\ m.data = op[t].data
        /\ m.taken = s /\ m.timers = op[t].timers /\ m.sweeps = k
    BY <1>2, <1>4, OpOf, OpSwept, AtNames DEF s, m
  <2> QED
    BY <2>1, <2>2
<1>6. n \in OpRecords
  BY <1>3, <1>5, AfterSweepsIs DEF Travelling
<1> HIDE DEF n
<1>7. op' \in [Threads -> OpRecords] /\ op'[t] = n /\ \A u \in Threads : u # t => op'[u] = op[u]
  BY <1>3, <1>6, GoesTo DEF AffinityInv, n
<1>8. /\ queue' \in [Threads -> Seq(Events)]
      /\ queue'[t] = Picked(queue[t], Positions(queue[t]) \ Ours(t))
      /\ \A u \in Threads : u # t => queue'[u] = queue[u]
  BY <1>1, <1>2, <1>3
<1> QED
  BY <1>2, <1>5, <1>7, <1>8 DEF n, s, k

\* One event less of those taken.
LEMMA AfterRepostIs ==
    ASSUME AffinityInv, NEW t \in Threads, op[t].at = "repost"
    PROVE  /\ AfterRepost(t) \in OpRecords /\ op[t].taken # <<>> /\ Head(op[t].taken) \in Events
           /\ Tail(op[t].taken) \in Seq(Events) /\ AfterRepost(t).taken = Tail(op[t].taken)
           /\ \/ /\ AfterRepost(t).at = "repost" /\ Tail(op[t].taken) # <<>>
                 /\ AfterRepost(t).ev = op[t].ev /\ AfterRepost(t).data = op[t].data
                 /\ AfterRepost(t).timers = op[t].timers /\ AfterRepost(t).sweeps = op[t].sweeps
              \/ /\ AfterRepost(t).at = "sweep" /\ Tail(op[t].taken) = <<>>
                 /\ op[t].sweeps < MaxSweeps
                 /\ AfterRepost(t).ev = op[t].ev /\ AfterRepost(t).data = op[t].data
                 /\ AfterRepost(t).timers = op[t].timers /\ AfterRepost(t).sweeps = op[t].sweeps
              \/ AfterRepost(t) = AfterSweeps(t) /\ Tail(op[t].taken) = <<>>
<1>1. op[t].taken # <<>> /\ op[t].taken \in Seq(Events) /\ op[t].at \in Travelling
  BY OpOf DEF StepIsSound, Travelling
<1>2. Head(op[t].taken) \in Events /\ Tail(op[t].taken) \in Seq(Events)
  BY <1>1
<1> DEFINE r == Tail(op[t].taken)
           m == WithTaken(op[t], r)
           n == WithAt(m, "sweep")
<1>3. AfterRepost(t) = IF m.taken # <<>> THEN m ELSE IF m.sweeps < MaxSweeps THEN n ELSE AfterSweeps(t)
  BY DEF AfterRepost, WithAt, WithTaken
<1> HIDE DEF r
<1> HIDE DEF m
<1>4. /\ m \in OpRecords /\ m.at = "repost" /\ m.ev = op[t].ev /\ m.data = op[t].data
      /\ m.taken = r /\ m.timers = op[t].timers /\ m.sweeps = op[t].sweeps
  <2>1. m \in OpRecords
    BY <1>2, OpOf, OpTakenType DEF r, m
  <2>2. /\ m.at = "repost" /\ m.ev = op[t].ev /\ m.data = op[t].data
        /\ m.taken = r /\ m.timers = op[t].timers /\ m.sweeps = op[t].sweeps
    BY <1>2, OpOf, OpTaken DEF r, m
  <2> QED
    BY <2>1, <2>2
<1> HIDE DEF n
<1>5. /\ n \in OpRecords /\ n.at = "sweep" /\ n.ev = op[t].ev /\ n.data = op[t].data
      /\ n.taken = r /\ n.timers = op[t].timers /\ n.sweeps = op[t].sweeps
  <2>1. n \in OpRecords
    BY <1>4, OpAtType, AtNames DEF n
  <2>2. /\ n.at = "sweep" /\ n.ev = op[t].ev /\ n.data = op[t].data
        /\ n.taken = r /\ n.timers = op[t].timers /\ n.sweeps = op[t].sweeps
    BY <1>4, OpAt, AtNames DEF n
  <2> QED
    BY <2>1, <2>2
<1>6. AfterSweeps(t) \in OpRecords /\ AfterSweeps(t).taken = <<>>
  BY <1>1, AfterSweepsIs
<1>7. CASE r # <<>>
  BY <1>1, <1>2, <1>3, <1>4, <1>7 DEF r
<1>8. CASE r = <<>> /\ op[t].sweeps < MaxSweeps
  BY <1>1, <1>2, <1>3, <1>4, <1>5, <1>8 DEF r
<1>9. CASE r = <<>> /\ ~(op[t].sweeps < MaxSweeps)
  BY <1>1, <1>2, <1>3, <1>4, <1>6, <1>9 DEF r
<1> QED
  BY <1>7, <1>8, <1>9

LEMMA AfterRepostDoes ==
    ASSUME AffinityInv, NEW t \in Threads, op[t].at = "repost", Goes(t, AfterRepost(t))
    PROVE  /\ op' \in [Threads -> OpRecords] /\ op'[t] = AfterRepost(t)
           /\ \A u \in Threads : u # t => op'[u] = op[u]
BY AfterRepostIs, GoesTo DEF Goes, AffinityInv

-----------------------------------------------------------------------------
(* What is carried.                                                                             *)

LEMMA LaneIsCarried ==
    ASSUME NEW p \in Lanes
    PROVE  Lane(p) \subseteq Carried
BY DEF Carried

LEMMA CargoIs ==
    ASSUME NEW e
    PROVE  /\ e.kind = "call" => Cargo(e) = {CallItem(e.arg)}
           /\ e.kind = "later" => Cargo(e) = {LaterItem(e.to, e.arg)}
           /\ e.kind = "timers" => Cargo(e) = {TimerItem(e.to, i) : i \in e.arg}
           /\ e.kind \notin {"call", "later", "timers"} => Cargo(e) = {}
BY DEF Cargo

LEMMA HandIs ==
    ASSUME NEW m
    PROVE  /\ m.at \in Posting => Hand(m) = Cargo(m.ev)
           /\ m.at = "unlist" => Hand(m) = Cargo(m.ev)
           /\ m.at = "arm" /\ m.fresh => Hand(m) = Cargo(m.ev)
           /\ m.at \in Travelling => Hand(m) = {TimerItem(m.ev.to, i) : i \in m.timers}
           /\ m.at \in {"idle", "arm", "disarm"} /\ ~(m.at = "arm" /\ m.fresh) /\ m.timers = {} => Hand(m) = {}
BY DEF Hand, Posting, Travelling

\* A node that an event names.
LEMMA NodeIsKnown ==
    ASSUME AffinityInv, NEW e \in Events, e.kind = "later", Cargo(e) \subseteq Carried
    PROVE  /\ LaterItem(e.to, e.arg) \in Carried /\ e.arg \in Nat /\ e.arg <= later
           /\ \A p \in Objects : pending[p] = e.arg => p = e.to
<1>1. LaterItem(e.to, e.arg) \in Carried
  BY CargoIs
<1>2. e.to \in Objects /\ e.arg \in Nat
  BY EventTypes
<1> QED
  BY <1>1, <1>2 DEF AffinityInv, NodesGo

LEMMA HandIsCarried ==
    ASSUME NEW t \in Threads
    PROVE  Hand(op[t]) \subseteq Carried
BY LaneIs, LaneNames, LaneIsCarried

LEMMA QueuedIsCarried ==
    ASSUME AffinityInv, NEW t \in Threads
    PROVE  /\ Load(queue[t]) \subseteq Carried /\ Load(parked[t]) \subseteq Carried
           /\ Load(op[t].taken) \subseteq Carried
           /\ queue[t] # <<>> => Cargo(Head(queue[t])) \subseteq Carried
<1>1. /\ Load(queue[t]) \subseteq Carried /\ Load(parked[t]) \subseteq Carried
      /\ Load(op[t].taken) \subseteq Carried
  BY LaneIs, LaneNames, LaneIsCarried
<1>2. queue[t] \in Seq(Events) /\ Single(queue[t])
  BY DEF AffinityInv, AffinityTypeOK, AllSingle
<1>3. queue[t] # <<>> => Cargo(Head(queue[t])) \subseteq Load(queue[t])
  BY <1>2, LoadOfTail
<1> QED
  BY <1>1, <1>3

LEMMA LaterIsKnown ==
    ASSUME AffinityInv, NEW t \in Threads, op[t].at \in Posting \cup {"unlist"}, op[t].ev \in Events,
           op[t].ev.kind = "later"
    PROVE  /\ LaterItem(op[t].ev.to, op[t].ev.arg) \in Carried
           /\ op[t].ev.arg \in Nat /\ op[t].ev.arg <= later
           /\ \A p \in Objects : pending[p] = op[t].ev.arg => p = op[t].ev.to
<1>1. Cargo(op[t].ev) \subseteq Carried
  BY HandIs, HandIsCarried
<1> QED
  BY <1>1, NodeIsKnown

-----------------------------------------------------------------------------
(* Types, and what the steps have in hand, are kept.                                            *)

LEMMA Typed ==
    ASSUME AffinityInv
    PROVE  /\ loop \in [Threads -> {"unstarted", "coming", "up"}]
           /\ home \in [Objects -> Threads \cup {None}]
           /\ queue \in [Threads -> Seq(Events)] /\ parked \in [Threads -> Seq(Events)]
           /\ timerAt \in [Threads -> [TimerIds -> Objects \cup {None}]]
           /\ ids \in [Objects -> SUBSET TimerIds] /\ pool \subseteq TimerIds
           /\ pending \in [Objects -> 1 .. MaxLater \cup {None}]
           /\ invoker \in [1 .. MaxLater -> 0 .. MaxLater]
           /\ outcome \in Seq({"open", "ran", "refused", "dropped"}) /\ Len(outcome) <= MaxPosts
           /\ later \in 0 .. MaxLater /\ moves \in [Objects -> 0 .. MaxMoves]
           /\ abandoned \subseteq 1 .. MaxLater
           /\ \A u \in Threads : loop[u] = "up" => parked[u] = <<>>
BY DEF AffinityInv, AffinityTypeOK, Sound

LEMMA NoEvents ==
    ToSet(<<>>) = {}
BY DEF ToSet

LEMMA StepStays ==
    ASSUME AffinityInv, NEW u \in Threads, op'[u] = op[u],
           \A v \in Threads : loop[v] = "up" => loop'[v] = "up",
           later' \in 0 .. MaxLater, later <= later'
    PROVE  StepIsSound(u)'
<1>1. StepIsSound(u) /\ later \in Nat /\ later' \in Nat
  BY OpOf, Typed
<1>2. op[u].ev \in Events /\ op[u].ev.kind = "later" /\ op[u].ev.arg <= later => op[u].ev.arg <= later'
  <2>1. op[u].ev \in Events /\ op[u].ev.kind = "later" => op[u].ev.arg \in Nat
    BY EventTypes
  <2> QED
    BY ONLY <1>1, <2>1, later <= later'
<1>3. op[u].value \in 1 .. later => op[u].value \in 1 .. later'
  BY ONLY <1>1, later <= later'
<1> QED
  BY <1>1, <1>2, <1>3 DEF StepIsSound

OpsTyped == op \in [Threads -> OpRecords] /\ \A t \in Threads : op[t].at = "sweep" => op[t].sweeps < MaxSweeps

LEMMA SoundStays ==
    ASSUME AffinityInv, NEW t \in Threads, op' \in [Threads -> OpRecords],
           \A u \in Threads : u # t => op'[u] = op[u],
           op'[t].at = "sweep" => op'[t].sweeps < MaxSweeps,
           loop' = loop, later' \in 0 .. MaxLater, later <= later', StepIsSound(t)',
           \A u \in Threads : loop[u] = "up" => parked'[u] = <<>>
    PROVE  OpsTyped' /\ Sound'
<1>1. \A u \in Threads : u # t => StepIsSound(u)'
  BY StepStays
<1>2. OpsTyped'
  BY OpOf DEF OpsTyped
<1> QED
  BY <1>1, <1>2 DEF Sound

\* Where nobody parks or makes a node.
LEMMA SoundIsKept ==
    ASSUME AffinityInv, NEW t \in Threads, op' \in [Threads -> OpRecords],
           \A u \in Threads : u # t => op'[u] = op[u],
           op'[t].at = "sweep" => op'[t].sweeps < MaxSweeps,
           loop' = loop, later' = later, StepIsSound(t)', parked' = parked
    PROVE  OpsTyped' /\ Sound'
<1>1. later' \in 0 .. MaxLater /\ later <= later'
  BY Typed
<1>2. \A u \in Threads : loop[u] = "up" => parked'[u] = <<>>
  BY Typed
<1> QED
  BY <1>1, <1>2, SoundStays

LEMMA StepsStay ==
    ASSUME AffinityInv, op' = op, \A v \in Threads : loop[v] = "up" => loop'[v] = "up", later' = later
    PROVE  \A u \in Threads : StepIsSound(u)'
<1> TAKE u \in Threads
<1>1. later \in 0 .. MaxLater /\ later <= later
  BY Typed
<1>2. op'[u] = op[u]
  OBVIOUS
<1> QED
  BY <1>1, <1>2, StepStays

LEMMA SoundStaysStill ==
    ASSUME AffinityInv, op' = op, loop' = loop, later' = later, parked' = parked
    PROVE  OpsTyped' /\ Sound'
<1>1. \A u \in Threads : StepIsSound(u)'
  BY StepsStay
<1>2. OpsTyped'
  BY DEF OpsTyped, AffinityInv, AffinityTypeOK
<1> QED
  BY <1>1, <1>2, Typed DEF Sound

LEMMA IdleIsSound ==
    ASSUME NEW t \in Threads, op'[t] = Idle
    PROVE  StepIsSound(t)'
BY IdleTypes, NoEvents DEF StepIsSound, Travelling, Posting

\* A thread that is done.
LEMMA SoundWhenDone ==
    ASSUME AffinityInv, NEW t \in Threads, Done(t), loop' = loop, later' = later, parked' = parked
    PROVE  OpsTyped' /\ Sound'
<1>1. op' \in [Threads -> OpRecords] /\ op'[t] = Idle /\ \A u \in Threads : u # t => op'[u] = op[u]
  BY DoneDoes
<1>2. op'[t].at # "sweep" /\ StepIsSound(t)'
  BY <1>1, IdleIsSound, IdleTypes
<1> QED
  BY <1>1, <1>2, SoundIsKept

\* What a thread posts.
LEMMA PostingIsSound ==
    ASSUME NEW t \in Threads, op'[t].at \in Posting, loop'[t] = "up", op'[t].ev \in Events,
           op'[t].taken = <<>>, op'[t].timers = {},
           op'[t].at \in {"fetch", "land"} => op'[t].data \in Threads,
           op'[t].at = "land" => loop'[op'[t].data] = "up"
    PROVE  StepIsSound(t)'
BY NoEvents DEF StepIsSound, Travelling, Posting

LEMMA HandlingIsSound ==
    ASSUME NEW t \in Threads, op'[t].at \in {"arm", "unlist", "disarm"}, loop'[t] = "up",
           op'[t].ev \in Events, op'[t].ev.kind = "later", op'[t].ev.arg <= later',
           op'[t].taken = <<>>, op'[t].timers = {},
           op'[t].at = "arm" => op'[t].value \in 1 .. later'
    PROVE  StepIsSound(t)'
BY NoEvents DEF StepIsSound, Travelling, Posting

LEMMA TravellingIsSound ==
    ASSUME NEW t \in Threads, op'[t].at \in Travelling, loop'[t] = "up",
           op'[t].ev \in {Event(o, "move", 0) : o \in Objects},
           op'[t].taken # <<>> <=> op'[t].at = "repost",
           \A e \in ToSet(op'[t].taken) : e.to = op'[t].ev.to,
           op'[t].at = "swap" => op'[t].sweeps = 0
    PROVE  StepIsSound(t)'
BY DEF StepIsSound, Travelling, Posting

LEMMA StartTypes ==
    ASSUME AffinityInv, NEW t \in Threads, Start(t)
    PROVE  AffinityTypeOK' /\ Sound'
<1>1. /\ loop[t] = "unstarted" /\ loop' = [loop EXCEPT ![t] = "coming"] /\ op' = op
      /\ later' = later /\ parked' = parked
  BY DEF Start, posted, registry
<1>2. loop' \in [Threads -> {"unstarted", "coming", "up"}] /\ \A v \in Threads : loop[v] = "up" <=> loop'[v] = "up"
  BY <1>1, Typed
<1>3. \A u \in Threads : StepIsSound(u)'
  BY <1>1, <1>2, StepsStay
<1>4. Sound'
  BY <1>1, <1>2, <1>3, Typed DEF Sound
<1> QED
  BY <1>1, <1>2, <1>4, OpOf, Typed DEF Start, AffinityTypeOK, posted, clocks, registry

LEMMA InstallTypes ==
    ASSUME AffinityInv, NEW t \in Threads, Install(t)
    PROVE  AffinityTypeOK' /\ Sound'
<1>1. /\ loop[t] = "coming" /\ loop' = [loop EXCEPT ![t] = "up"] /\ op' = op
      /\ later' = later /\ parked' = [parked EXCEPT ![t] = <<>>]
      /\ queue' = [queue EXCEPT ![t] = queue[t] \o parked[t]]
  BY DEF Install, registry
<1>2. loop' \in [Threads -> {"unstarted", "coming", "up"}] /\ \A v \in Threads : loop[v] = "up" => loop'[v] = "up"
  BY <1>1, Typed
<1>3. /\ queue' \in [Threads -> Seq(Events)] /\ parked' \in [Threads -> Seq(Events)]
      /\ \A u \in Threads : loop'[u] = "up" => parked'[u] = <<>>
  BY <1>1, Typed
<1>4. \A u \in Threads : StepIsSound(u)'
  BY <1>1, <1>2, StepsStay
<1>5. Sound'
  BY <1>3, <1>4 DEF Sound
<1> QED
  BY <1>1, <1>2, <1>3, <1>5, OpOf, Typed DEF Install, AffinityTypeOK, clocks, registry

\* An outcome of a call.
LEMMA SettledIsTyped ==
    ASSUME AffinityInv, NEW c, NEW how \in {"ran", "refused", "dropped"},
           outcome' = [outcome EXCEPT ![c] = how]
    PROVE  /\ outcome' \in Seq({"open", "ran", "refused", "dropped"}) /\ Len(outcome') <= MaxPosts
           /\ DOMAIN outcome' = DOMAIN outcome
           /\ c \in DOMAIN outcome => outcome'[c] = how
           /\ \A d \in DOMAIN outcome : d # c => outcome'[d] = outcome[d]
<1>1. outcome \in Seq({"open", "ran", "refused", "dropped"}) /\ Len(outcome) <= MaxPosts
  BY Typed
<1>2. outcome' \in Seq({"open", "ran", "refused", "dropped"}) /\ Len(outcome') = Len(outcome)
  <2> DEFINE S == {"open", "ran", "refused", "dropped"}
             n == Len(outcome)
  <2>1. n \in Nat /\ outcome \in [1 .. n -> S] /\ how \in S
    BY <1>1
  <2>2. outcome' \in [1 .. n -> S]
    BY <2>1
  <2> HIDE DEF n, S
  <2>3. outcome' \in Seq(S) /\ Len(outcome') = n
    BY <2>1, <2>2
  <2> QED
    BY <2>3 DEF n, S
<1>3. /\ DOMAIN outcome' = DOMAIN outcome
      /\ c \in DOMAIN outcome => outcome'[c] = how
      /\ \A d \in DOMAIN outcome : d # c => outcome'[d] = outcome[d]
  BY <1>1
<1> QED
  BY <1>1, <1>2, <1>3

LEMMA RefusedTypes ==
    ASSUME AffinityInv, NEW t \in Threads, op[t].at \in Posting, Refused(t), loop' = loop,
           later' = later, parked' = parked
    PROVE  /\ OpsTyped' /\ Sound' /\ Len(outcome') <= MaxPosts
           /\ outcome' \in Seq({"open", "ran", "refused", "dropped"})
<1>1. /\ op[t].ev \in Events /\ loop[t] = "up" /\ op[t].taken = <<>> /\ op[t].timers = {}
  BY OpOf DEF StepIsSound, Posting, Travelling
<1>2. /\ outcome' \in Seq({"open", "ran", "refused", "dropped"}) /\ Len(outcome') <= MaxPosts
  BY RefusedDoes, SettledIsTyped, Typed
<1>3. CASE op[t].ev.kind # "later"
  <2>1. op'[t] = Idle
    BY <1>3, RefusedDoes
  <2>2. StepIsSound(t)' /\ op'[t].at # "sweep"
    BY <2>1, IdleIsSound, IdleTypes
  <2>3. op' \in [Threads -> OpRecords] /\ \A u \in Threads : u # t => op'[u] = op[u]
    BY RefusedDoes
  <2> QED
    BY <1>2, <2>2, <2>3, SoundIsKept
<1>4. CASE op[t].ev.kind = "later"
  <2>1. /\ op'[t].at = "unlist" /\ op'[t].ev = op[t].ev /\ op'[t].taken = <<>> /\ op'[t].timers = {}
    BY <1>1, <1>4, RefusedDoes
  <2>2. op[t].ev.arg <= later'
    BY <1>1, <1>4, LaterIsKnown
  <2>3. StepIsSound(t)' /\ op'[t].at # "sweep"
    BY <1>1, <1>4, <2>1, <2>2, HandlingIsSound
  <2>4. op' \in [Threads -> OpRecords] /\ \A u \in Threads : u # t => op'[u] = op[u]
    BY RefusedDoes
  <2> QED
    BY <1>2, <2>3, <2>4, SoundIsKept
<1> QED
  BY <1>3, <1>4

LEMMA BeginPostTypes ==
    ASSUME AffinityInv, NEW t \in Threads, NEW o \in Objects, BeginPost(t, o)
    PROVE  AffinityTypeOK' /\ Sound'
<1>1. /\ op' \in [Threads -> OpRecords] /\ \A u \in Threads : u # t => op'[u] = op[u]
      /\ loop[t] = "up" /\ Len(outcome) + 1 \in 1 .. MaxPosts
      /\ op'[t].at = "resolve" /\ op'[t].ev = Event(o, "call", Len(outcome) + 1)
      /\ op'[t].taken = <<>> /\ op'[t].timers = {}
  BY BeginPostDoes
<1>2. op'[t].ev \in Events
  BY <1>1, EventIs
<1>3. loop' = loop /\ later' = later /\ parked' = parked
  BY DEF BeginPost, posted, registry
<1>4. StepIsSound(t)' /\ op'[t].at # "sweep"
  BY <1>1, <1>2, <1>3, PostingIsSound DEF Posting
<1>5. OpsTyped' /\ Sound'
  BY <1>1, <1>3, <1>4, SoundIsKept
<1>6. outcome' \in Seq({"open", "ran", "refused", "dropped"}) /\ Len(outcome') <= MaxPosts
  BY <1>1, Typed, Numbers DEF BeginPost
<1> QED
  BY <1>5, <1>6, Typed DEF BeginPost, AffinityTypeOK, OpsTyped, posted, clocks, registry

LEMMA ResolveTypes ==
    ASSUME AffinityInv, NEW t \in Threads, Resolve(t)
    PROVE  AffinityTypeOK' /\ Sound'
<1>1. loop' = loop /\ later' = later /\ parked' = parked /\ op[t].at = "resolve" /\ op[t].at \in Posting
  BY DEF Resolve, posted, registry, Posting
<1>2. CASE home[op[t].ev.to] = None
  <2>1. Refused(t)
    BY <1>2 DEF Resolve
  <2>2. OpsTyped' /\ Sound' /\ Len(outcome') <= MaxPosts /\ outcome' \in Seq({"open", "ran", "refused", "dropped"})
    BY <1>1, <2>1, RefusedTypes
  <2> QED
    BY <2>2, Typed DEF Resolve, AffinityTypeOK, OpsTyped, posted, clocks, registry
<1>3. CASE home[op[t].ev.to] # None
  <2>1. /\ op' \in [Threads -> OpRecords] /\ \A u \in Threads : u # t => op'[u] = op[u]
        /\ op[t].ev \in Events /\ home[op[t].ev.to] \in Threads
        /\ op'[t].at = "fetch" /\ op'[t].ev = op[t].ev /\ op'[t].data = home[op[t].ev.to]
        /\ op'[t].taken = op[t].taken /\ op'[t].timers = op[t].timers
        /\ outcome' = outcome
    BY <1>3, ResolveDoes
  <2>2. op[t].taken = <<>> /\ op[t].timers = {} /\ loop[t] = "up"
    BY <1>1, OpOf DEF StepIsSound, Travelling
  <2>3. StepIsSound(t)' /\ op'[t].at # "sweep"
    BY <1>1, <2>1, <2>2, PostingIsSound DEF Posting
  <2>4. OpsTyped' /\ Sound'
    BY <1>1, <2>1, <2>3, SoundIsKept
  <2> QED
    BY <2>1, <2>4, Typed DEF Resolve, AffinityTypeOK, OpsTyped, posted, clocks, registry
<1> QED
  BY <1>2, <1>3

LEMMA FetchTypes ==
    ASSUME AffinityInv, NEW t \in Threads, Fetch(t)
    PROVE  AffinityTypeOK' /\ Sound'
<1>1. loop' = loop /\ later' = later /\ op[t].at = "fetch" /\ op[t].at \in Posting
  BY DEF Fetch, registry, Posting
<1>2. /\ op[t].data \in Threads /\ op[t].ev \in Events /\ op[t].taken = <<>> /\ op[t].timers = {}
      /\ loop[t] = "up"
  BY <1>1, OpOf DEF StepIsSound, Travelling
<1>3. CASE loop[op[t].data] = "up"
  <2>1. /\ op' \in [Threads -> OpRecords] /\ \A u \in Threads : u # t => op'[u] = op[u]
        /\ op'[t].at = "land" /\ op'[t].ev = op[t].ev /\ op'[t].data = op[t].data
        /\ op'[t].taken = op[t].taken /\ op'[t].timers = op[t].timers
        /\ parked' = parked /\ outcome' = outcome
    BY <1>3, FetchDoes
  <2>2. StepIsSound(t)' /\ op'[t].at # "sweep"
    BY <1>1, <1>2, <1>3, <2>1, PostingIsSound DEF Posting
  <2>3. OpsTyped' /\ Sound'
    BY <1>1, <2>1, <2>2, SoundIsKept
  <2> QED
    BY <2>1, <2>3, Typed DEF Fetch, AffinityTypeOK, OpsTyped, clocks, registry
<1>4. CASE loop[op[t].data] = "coming"
  <2>1. /\ Done(t) /\ outcome' = outcome
        /\ parked' = [parked EXCEPT ![op[t].data] = Append(@, Landed(op[t].ev, op[t].data))]
    BY <1>4 DEF Fetch
  <2>2. parked' \in [Threads -> Seq(Events)] /\ \A u \in Threads : loop[u] = "up" => parked'[u] = <<>>
    BY <1>2, <1>4, <2>1, LandedIsEvent, Typed
  <2>3. op' \in [Threads -> OpRecords] /\ op'[t] = Idle /\ \A u \in Threads : u # t => op'[u] = op[u]
    BY <2>1, DoneDoes
  <2>4. StepIsSound(t)' /\ op'[t].at # "sweep"
    BY <2>3, IdleIsSound, IdleTypes
  <2>5. later' \in 0 .. MaxLater /\ later <= later'
    BY <1>1, Typed
  <2>6. OpsTyped' /\ Sound'
    BY <1>1, <2>2, <2>3, <2>4, <2>5, SoundStays
  <2> QED
    BY <2>1, <2>2, <2>6, Typed DEF Fetch, AffinityTypeOK, OpsTyped, clocks, registry
<1>5. CASE loop[op[t].data] = "unstarted"
  <2>1. Refused(t) /\ parked' = parked
    BY <1>5 DEF Fetch
  <2>2. OpsTyped' /\ Sound' /\ Len(outcome') <= MaxPosts /\ outcome' \in Seq({"open", "ran", "refused", "dropped"})
    BY <1>1, <2>1, RefusedTypes
  <2> QED
    BY <2>1, <2>2, Typed DEF Fetch, AffinityTypeOK, OpsTyped, clocks, registry
<1> QED
  BY <1>2, <1>3, <1>4, <1>5, Typed

LEMMA LandTypes ==
    ASSUME AffinityInv, NEW t \in Threads, Land(t)
    PROVE  AffinityTypeOK' /\ Sound'
<1>1. op[t].data \in Threads /\ op[t].ev \in Events
  BY OpOf DEF Land, StepIsSound, Posting
<1>2. queue' \in [Threads -> Seq(Events)]
  BY <1>1, LandedIsEvent, Typed DEF Land
<1>3. OpsTyped' /\ Sound'
  BY SoundWhenDone DEF Land, registry
<1> QED
  BY <1>2, <1>3, Typed DEF Land, AffinityTypeOK, OpsTyped, clocks, registry

LEMMA CallLaterTypes ==
    ASSUME AffinityInv, NEW t \in Threads, NEW o \in Objects, CallLater(t, o)
    PROVE  AffinityTypeOK' /\ Sound'
<1>1. /\ op' \in [Threads -> OpRecords] /\ \A u \in Threads : u # t => op'[u] = op[u]
      /\ loop[t] = "up" /\ later' = later + 1 /\ later' \in 1 .. MaxLater
      /\ pending' = [pending EXCEPT ![o] = pending'[o]] /\ pending'[o] \in 1 .. MaxLater
      /\ pending'[o] = IF pending[o] = None THEN later' ELSE pending[o]
      /\ op'[t].at = "arm" /\ op'[t].ev = Event(o, "later", pending'[o])
      /\ op'[t].value = later' /\ op'[t].taken = <<>> /\ op'[t].timers = {} /\ op'[t].ev \in Events
  BY CallLaterDoes
<1>2. loop' = loop /\ parked' = parked
  BY DEF CallLater, posted
<1>3. later \in Nat /\ later <= later' /\ later' \in Nat /\ later' \in 0 .. MaxLater /\ later' \in 1 .. later'
  BY <1>1, Typed
<1>4. pending[o] # None => pending[o] <= later
  BY DEF AffinityInv, NodesHaveCalls
<1>5. pending'[o] <= later'
  <2>1. CASE pending[o] = None
    BY <1>1, <1>3, <2>1
  <2>2. CASE pending[o] # None
    <3>1. pending[o] \in Nat
      BY <1>1, <2>2, Typed
    <3> QED
      BY <1>1, <1>3, <1>4, <2>2, <3>1
  <2> QED
    BY <2>1, <2>2
<1>6. op'[t].ev.kind = "later" /\ op'[t].ev.arg <= later'
  BY <1>1, <1>5, EventFields
<1>7. StepIsSound(t)' /\ op'[t].at # "sweep"
  BY <1>1, <1>2, <1>3, <1>6, HandlingIsSound
<1>8. \A u \in Threads : loop[u] = "up" => parked'[u] = <<>>
  BY <1>2, Typed
<1>9. OpsTyped' /\ Sound'
  BY <1>1, <1>2, <1>3, <1>7, <1>8, SoundStays
<1>10. pending' \in [Objects -> 1 .. MaxLater \cup {None}]
  BY <1>1, Typed
<1> QED
  BY <1>3, <1>9, <1>10, Typed DEF CallLater, AffinityTypeOK, OpsTyped, posted, clocks

LEMMA ArmTypes ==
    ASSUME AffinityInv, NEW t \in Threads, Arm(t)
    PROVE  AffinityTypeOK' /\ Sound'
<1>1. op[t].at = "arm" /\ loop' = loop /\ later' = later /\ parked' = parked
  BY DEF Arm, posted
<1>2. op[t].ev \in Events /\ op[t].ev.kind = "later" /\ loop[t] = "up" /\ op[t].value \in 0 .. MaxLater
  BY <1>1, OpOf DEF StepIsSound
<1>3. /\ op' \in [Threads -> OpRecords] /\ \A u \in Threads : u # t => op'[u] = op[u]
      /\ op[t].fresh => /\ op'[t].at = "resolve" /\ op'[t].ev = op[t].ev
                        /\ op'[t].taken = <<>> /\ op'[t].timers = {}
      /\ ~op[t].fresh => op'[t] = Idle
  BY ArmDoes
<1>4. StepIsSound(t)' /\ op'[t].at # "sweep"
  <2>1. CASE op[t].fresh
    BY <1>1, <1>2, <1>3, <2>1, PostingIsSound DEF Posting
  <2>2. CASE ~op[t].fresh
    BY <1>3, <2>2, IdleIsSound, IdleTypes
  <2> QED
    BY <2>1, <2>2
<1>5. OpsTyped' /\ Sound'
  BY <1>1, <1>3, <1>4, SoundIsKept
<1>6. invoker' \in [1 .. MaxLater -> 0 .. MaxLater]
  BY <1>2, Typed DEF Arm
<1> QED
  BY <1>5, <1>6, Typed DEF Arm, AffinityTypeOK, OpsTyped, posted, clocks

LEMMA UnlistTypes ==
    ASSUME AffinityInv, NEW t \in Threads, Unlist(t)
    PROVE  AffinityTypeOK' /\ Sound'
<1>1. pending' \in [Objects -> 1 .. MaxLater \cup {None}]
  BY Typed DEF Unlist
<1>2. OpsTyped' /\ Sound'
  BY SoundWhenDone DEF Unlist, posted
<1> QED
  BY <1>1, <1>2, Typed DEF Unlist, AffinityTypeOK, OpsTyped, posted, clocks

LEMMA DisarmTypes ==
    ASSUME AffinityInv, NEW t \in Threads, Disarm(t)
    PROVE  AffinityTypeOK' /\ Sound'
<1>1. invoker' \in [1 .. MaxLater -> 0 .. MaxLater]
  <2>1. invoker \in [1 .. MaxLater -> 0 .. MaxLater] /\ 0 \in 0 .. MaxLater
    BY Typed, Numbers
  <2>2. invoker' = [invoker EXCEPT ![op[t].ev.arg] = 0]
    BY DEF Disarm
  <2> QED
    BY ONLY <2>1, <2>2
<1>2. OpsTyped' /\ Sound'
  BY SoundWhenDone DEF Disarm, posted
<1> QED
  BY <1>1, <1>2, Typed DEF Disarm, AffinityTypeOK, OpsTyped, posted, clocks

LEMMA DeliverTypes ==
    ASSUME AffinityInv, NEW t \in Threads, Deliver(t)
    PROVE  AffinityTypeOK' /\ Sound'
<1>1. queue' \in [Threads -> Seq(Events)]
  BY TakesDoes DEF Deliver
<1>2. OpsTyped' /\ Sound'
  BY SoundStaysStill DEF Deliver, registry
<1>3. outcome' \in Seq({"open", "ran", "refused", "dropped"}) /\ Len(outcome') <= MaxPosts
  BY SettledIsTyped DEF Deliver, Settle
<1> QED
  BY <1>1, <1>2, <1>3, Typed DEF Deliver, AffinityTypeOK, OpsTyped, clocks, registry

LEMMA DeliverLaterTypes ==
    ASSUME AffinityInv, NEW t \in Threads, DeliverLater(t)
    PROVE  AffinityTypeOK' /\ Sound'
<1>1. /\ loop[t] = "up" /\ queue[t] # <<>> /\ Head(queue[t]) \in Events
      /\ Head(queue[t]).kind = "later" /\ queue' \in [Threads -> Seq(Events)]
  BY TakesDoes DEF DeliverLater
<1>2. loop' = loop /\ later' = later /\ parked' = parked
  BY DEF DeliverLater
<1>3. /\ op' \in [Threads -> OpRecords] /\ \A u \in Threads : u # t => op'[u] = op[u]
      /\ op'[t].at = "disarm" /\ op'[t].ev = Head(queue[t]) /\ op'[t].taken = <<>> /\ op'[t].timers = {}
  BY DeliverLaterDoes
<1>4. Head(queue[t]).arg <= later'
  BY <1>1, <1>2, QueuedIsCarried, NodeIsKnown
<1>5. StepIsSound(t)' /\ op'[t].at # "sweep"
  BY <1>1, <1>2, <1>3, <1>4, HandlingIsSound
<1>6. OpsTyped' /\ Sound'
  BY <1>2, <1>3, <1>5, SoundIsKept
<1>7. pending' \in [Objects -> 1 .. MaxLater \cup {None}]
  BY Typed DEF DeliverLater
<1> QED
  BY <1>1, <1>6, <1>7, Typed DEF DeliverLater, AffinityTypeOK, OpsTyped, clocks

LEMMA DeliverTimersTypes ==
    ASSUME AffinityInv, NEW t \in Threads, DeliverTimers(t)
    PROVE  AffinityTypeOK' /\ Sound'
<1>1. queue' \in [Threads -> Seq(Events)] /\ Head(queue[t]) \in Events
  BY TakesDoes DEF DeliverTimers
<1>2. OpsTyped' /\ Sound'
  BY SoundStaysStill DEF DeliverTimers, registry
<1>3. timerAt' \in [Threads -> [TimerIds -> Objects \cup {None}]]
  <2> DEFINE e == Head(queue[t])
             h == home[e.to]
             f == [i \in TimerIds |-> IF i \in e.arg THEN e.to ELSE timerAt[h][i]]
  <2>1. e.to \in Objects
    BY <1>1, EventTypes
  <2>2. CASE h # None /\ loop[h] = "up"
    <3>1. h \in Threads
      BY <2>1, <2>2, Typed
    <3>2. f \in [TimerIds -> Objects \cup {None}]
      BY <2>1, <3>1, Typed
    <3>3. timerAt' = [timerAt EXCEPT ![h] = f]
      BY <2>2 DEF DeliverTimers
    <3> QED
      BY ONLY <3>2, <3>3, Typed, AffinityInv
  <2>3. CASE ~(h # None /\ loop[h] = "up")
    BY <2>3, Typed DEF DeliverTimers
  <2> QED
    BY <2>2, <2>3
<1> QED
  BY <1>1, <1>2, <1>3, Typed DEF DeliverTimers, AffinityTypeOK, OpsTyped, registry

LEMMA StartTimerTypes ==
    ASSUME AffinityInv, NEW t \in Threads, NEW o \in Objects, NEW i \in TimerIds, StartTimer(t, o, i)
    PROVE  AffinityTypeOK' /\ Sound'
<1>1. OpsTyped' /\ Sound'
  BY SoundStaysStill DEF StartTimer, posted, registry
<1>2. timerAt' \in [Threads -> [TimerIds -> Objects \cup {None}]]
  BY Typed DEF StartTimer
<1>3. ids' \in [Objects -> SUBSET TimerIds] /\ pool' \subseteq TimerIds
  BY Typed DEF StartTimer
<1> QED
  BY <1>1, <1>2, <1>3, Typed DEF StartTimer, AffinityTypeOK, OpsTyped, posted, registry

LEMMA KillTimerTypes ==
    ASSUME AffinityInv, NEW t \in Threads, NEW o \in Objects, NEW i \in TimerIds, KillTimer(t, o, i)
    PROVE  AffinityTypeOK' /\ Sound'
<1>1. OpsTyped' /\ Sound'
  BY SoundStaysStill DEF KillTimer, posted, registry
<1>2. timerAt' \in [Threads -> [TimerIds -> Objects \cup {None}]]
  BY Typed DEF KillTimer
<1>3. ids' \in [Objects -> SUBSET TimerIds] /\ pool' \subseteq TimerIds
  BY Typed DEF KillTimer
<1> QED
  BY <1>1, <1>2, <1>3, Typed DEF KillTimer, AffinityTypeOK, OpsTyped, posted, registry

LEMMA BeginMoveTypes ==
    ASSUME AffinityInv, NEW t \in Threads, NEW o \in Objects, NEW d \in Threads \cup {None},
           BeginMove(t, o, d)
    PROVE  AffinityTypeOK' /\ Sound'
<1>1. /\ op' \in [Threads -> OpRecords] /\ \A u \in Threads : u # t => op'[u] = op[u]
      /\ loop[t] = "up" /\ op'[t].at = "swap" /\ op'[t].ev = Event(o, "move", 0)
      /\ op'[t].taken = <<>> /\ op'[t].sweeps = 0
  BY BeginMoveDoes
<1>2. loop' = loop /\ later' = later /\ parked' = parked
  BY DEF BeginMove, posted, registry
<1>3. StepIsSound(t)' /\ op'[t].at # "sweep"
  BY <1>1, <1>2, TravellingIsSound, NoEvents DEF Travelling
<1>4. OpsTyped' /\ Sound'
  BY <1>1, <1>2, <1>3, SoundIsKept
<1>5. timerAt' \in [Threads -> [TimerIds -> Objects \cup {None}]]
  <2> DEFINE f == [i \in TimerIds |-> IF home[o] = t /\ i \in RegisteredAt(t, o) THEN None ELSE timerAt[t][i]]
  <2>1. f \in [TimerIds -> Objects \cup {None}]
    BY Typed
  <2>2. timerAt' = [timerAt EXCEPT ![t] = f]
    BY DEF BeginMove
  <2> QED
    BY ONLY <2>1, <2>2, Typed, AffinityInv
<1> QED
  BY <1>4, <1>5, Typed DEF BeginMove, AffinityTypeOK, OpsTyped, posted, registry

\* What comes after the sweeps is sound.
LEMMA AfterSweepsIsSound ==
    ASSUME AffinityInv, NEW t \in Threads, op[t].at \in Travelling, op'[t] = AfterSweeps(t), loop' = loop
    PROVE  StepIsSound(t)' /\ op'[t].at # "sweep"
<1>1. loop[t] = "up" /\ op[t].ev \in {Event(o, "move", 0) : o \in Objects}
  BY OpOf DEF StepIsSound, Travelling
<1>2. CASE op[t].timers = {}
  BY <1>2, AfterSweepsIs, IdleIsSound, IdleTypes
<1>3. CASE op[t].timers # {} /\ op[t].data = None
  <2>1. op'[t].at = "forget" /\ op'[t].ev = op[t].ev /\ op'[t].taken = <<>>
    BY <1>3, AfterSweepsIs
  <2> QED
    BY <1>1, <2>1, TravellingIsSound, NoEvents DEF Travelling
<1>4. CASE op[t].timers # {} /\ op[t].data # None
  <2>1. op'[t].at = "resolve" /\ op'[t].timers = {} /\ op'[t].ev \in Events /\ op'[t].taken = <<>>
    BY <1>4, AfterSweepsIs
  <2> QED
    BY <1>1, <2>1, PostingIsSound DEF Posting
<1> QED
  BY <1>2, <1>3, <1>4

LEMMA SwapTypes ==
    ASSUME AffinityInv, NEW t \in Threads, Swap(t)
    PROVE  AffinityTypeOK' /\ Sound'
<1>1. /\ op[t].at = "swap" /\ op[t].at \in Travelling /\ loop' = loop /\ later' = later /\ parked' = parked
      /\ home' = [home EXCEPT ![op[t].ev.to] = op[t].data]
      /\ moves' = [moves EXCEPT ![op[t].ev.to] = @ + 1]
  BY DEF Swap, posted, registry, Travelling
<1>2. /\ op' \in [Threads -> OpRecords] /\ \A u \in Threads : u # t => op'[u] = op[u]
      /\ home[op[t].ev.to] = None => op'[t] = AfterSweeps(t)
      /\ home[op[t].ev.to] # None =>
            /\ op'[t].at = "sweep" /\ op'[t].ev = op[t].ev /\ op'[t].data = op[t].data
            /\ op'[t].taken = op[t].taken /\ op'[t].timers = op[t].timers
            /\ op'[t].sweeps = op[t].sweeps
  BY SwapDoes
<1>3. /\ loop[t] = "up" /\ op[t].ev \in {Event(o, "move", 0) : o \in Objects} /\ op[t].taken = <<>>
      /\ op[t].sweeps = 0 /\ op[t].data \in Threads \cup {None}
  BY <1>1, OpOf DEF StepIsSound, Travelling
<1>4. StepIsSound(t)' /\ (op'[t].at = "sweep" => op'[t].sweeps < MaxSweeps)
  <2>1. CASE home[op[t].ev.to] = None
    BY <1>1, <1>2, <2>1, AfterSweepsIsSound
  <2>2. CASE home[op[t].ev.to] # None
    BY <1>1, <1>2, <1>3, <2>2, TravellingIsSound, NoEvents, Numbers DEF Travelling
  <2> QED
    BY <2>1, <2>2
<1>5. OpsTyped' /\ Sound'
  BY <1>1, <1>2, <1>4, SoundIsKept
<1>6. home' \in [Objects -> Threads \cup {None}]
  BY <1>1, <1>3, Typed
<1>7. moves' \in [Objects -> 0 .. MaxMoves]
  <2>1. moves[op[t].ev.to] < MaxMoves
    BY <1>1 DEF AffinityInv, MovesAreSound, MoverIsSound
  <2>2. moves \in [Objects -> 0 .. MaxMoves] /\ moves' = [moves EXCEPT ![op[t].ev.to] = @ + 1] /\ MaxMoves \in Nat
    BY <1>1, Typed, Numbers
  <2>3. op[t].ev.to \in Objects
    BY <1>1, Traveller
  <2>4. ASSUME NEW o \in Objects, NEW f \in [Objects -> 0 .. MaxMoves], f[o] < MaxMoves, MaxMoves \in Nat
        PROVE  [f EXCEPT ![o] = @ + 1] \in [Objects -> 0 .. MaxMoves]
    BY ONLY <2>4
  <2> QED
    BY <2>1, <2>2, <2>3, <2>4
<1> QED
  BY <1>5, <1>6, <1>7, Typed DEF Swap, AffinityTypeOK, OpsTyped, posted, clocks, registry

LEMMA SweepTypes ==
    ASSUME AffinityInv, NEW t \in Threads, Sweep(t)
    PROVE  AffinityTypeOK' /\ Sound'
<1>1. op[t].at = "sweep" /\ op[t].at \in Travelling /\ loop' = loop /\ later' = later /\ parked' = parked
  BY DEF Sweep, registry, Travelling
<1>2. /\ op' \in [Threads -> OpRecords] /\ \A u \in Threads : u # t => op'[u] = op[u]
      /\ queue' \in [Threads -> Seq(Events)]
      /\ Swept(t) = <<>> => op'[t] = AfterSweeps(t)
      /\ Swept(t) # <<>> =>
            /\ op'[t].at = "repost" /\ op'[t].ev = op[t].ev /\ op'[t].taken = Swept(t)
  BY SweepDoes
<1>3. loop[t] = "up" /\ op[t].ev \in {Event(o, "move", 0) : o \in Objects}
  BY <1>1, OpOf DEF StepIsSound
<1>4. \A e \in ToSet(Swept(t)) : e.to = op[t].ev.to
  <2>1. ToSet(Swept(t)) \subseteq {queue[t][k] : k \in Ours(t) \cap DOMAIN queue[t]}
    BY EventsOfPicked, Typed DEF Swept
  <2> QED
    BY <2>1 DEF Ours
<1>5. StepIsSound(t)' /\ op'[t].at # "sweep"
  <2>1. CASE Swept(t) = <<>>
    BY <1>1, <1>2, <2>1, AfterSweepsIsSound
  <2>2. CASE Swept(t) # <<>>
    BY <1>1, <1>2, <1>3, <1>4, <2>2, TravellingIsSound DEF Travelling
  <2> QED
    BY <2>1, <2>2
<1>6. OpsTyped' /\ Sound'
  BY <1>1, <1>2, <1>5, SoundIsKept
<1> QED
  BY <1>2, <1>6, Typed DEF Sweep, AffinityTypeOK, OpsTyped, clocks, registry

LEMMA AfterRepostIsSound ==
    ASSUME AffinityInv, NEW t \in Threads, op[t].at = "repost", Goes(t, AfterRepost(t)), loop' = loop
    PROVE  StepIsSound(t)' /\ (op'[t].at = "sweep" => op'[t].sweeps < MaxSweeps)
<1>1. op'[t] = AfterRepost(t)
  BY AfterRepostDoes
<1>2. /\ loop[t] = "up" /\ op[t].ev \in {Event(o, "move", 0) : o \in Objects}
      /\ \A e \in ToSet(op[t].taken) : e.to = op[t].ev.to
      /\ op[t].taken # <<>> /\ op[t].taken \in Seq(Events)
  BY OpOf DEF StepIsSound, Travelling
<1>3. ToSet(Tail(op[t].taken)) \subseteq ToSet(op[t].taken)
  BY <1>2, EventsOfTail
<1>4. AfterRepost(t).taken = Tail(op[t].taken)
  BY AfterRepostIs
<1>5. CASE /\ AfterRepost(t).at = "repost" /\ Tail(op[t].taken) # <<>>
           /\ AfterRepost(t).ev = op[t].ev
  BY <1>1, <1>2, <1>3, <1>4, <1>5, TravellingIsSound DEF Travelling
<1>6. CASE /\ AfterRepost(t).at = "sweep" /\ Tail(op[t].taken) = <<>>
           /\ op[t].sweeps < MaxSweeps
           /\ AfterRepost(t).ev = op[t].ev /\ AfterRepost(t).sweeps = op[t].sweeps
  BY <1>1, <1>2, <1>4, <1>6, TravellingIsSound, NoEvents DEF Travelling
<1>7. CASE AfterRepost(t) = AfterSweeps(t)
  BY <1>1, <1>7, AfterSweepsIsSound DEF Travelling
<1> QED
  BY <1>5, <1>6, <1>7, AfterRepostIs

LEMMA RepostTypes ==
    ASSUME AffinityInv, NEW t \in Threads, Repost(t)
    PROVE  AffinityTypeOK' /\ Sound'
<1>1. /\ op[t].at = "repost" /\ loop' = loop /\ later' = later /\ Goes(t, AfterRepost(t))
      /\ op[t].data # None /\ op[t].data \in Threads
  BY OpOf DEF Repost, registry
<1>2. /\ op' \in [Threads -> OpRecords] /\ \A u \in Threads : u # t => op'[u] = op[u]
  BY <1>1, AfterRepostDoes
<1>3. StepIsSound(t)' /\ (op'[t].at = "sweep" => op'[t].sweeps < MaxSweeps)
  BY <1>1, AfterRepostIsSound
<1>4. Landed(Head(op[t].taken), op[t].data) \in Events
  BY <1>1, AfterRepostIs, LandedIsEvent
<1>5. /\ queue' \in [Threads -> Seq(Events)] /\ parked' \in [Threads -> Seq(Events)]
      /\ \A u \in Threads : loop[u] = "up" => parked'[u] = <<>>
  <2>1. CASE loop[op[t].data] = "up"
    <3>1. queue' = [queue EXCEPT ![op[t].data] = Append(@, Landed(Head(op[t].taken), op[t].data))] /\ parked' = parked
      BY <2>1 DEF Repost
    <3> QED
      BY <1>1, <1>4, <3>1, Typed
  <2>2. CASE loop[op[t].data] # "up"
    <3>1. parked' = [parked EXCEPT ![op[t].data] = Append(@, Landed(Head(op[t].taken), op[t].data))] /\ queue' = queue
      BY <2>2 DEF Repost
    <3> QED
      BY <1>1, <1>4, <2>2, <3>1, Typed
  <2> QED
    BY <2>1, <2>2
<1>6. later' \in 0 .. MaxLater /\ later <= later'
  BY <1>1, Typed
<1>7. OpsTyped' /\ Sound'
  BY <1>1, <1>2, <1>3, <1>5, <1>6, SoundStays
<1> QED
  BY <1>5, <1>7, Typed DEF Repost, AffinityTypeOK, OpsTyped, clocks, registry

LEMMA DropTypes ==
    ASSUME AffinityInv, NEW t \in Threads, Drop(t)
    PROVE  AffinityTypeOK' /\ Sound'
<1>1. /\ op[t].at = "repost" /\ loop' = loop /\ later' = later /\ parked' = parked
      /\ Goes(t, AfterRepost(t))
  BY DEF Drop, posted
<1>2. /\ op' \in [Threads -> OpRecords] /\ \A u \in Threads : u # t => op'[u] = op[u]
  BY <1>1, AfterRepostDoes
<1>3. StepIsSound(t)' /\ (op'[t].at = "sweep" => op'[t].sweeps < MaxSweeps)
  BY <1>1, AfterRepostIsSound
<1>4. OpsTyped' /\ Sound'
  BY <1>1, <1>2, <1>3, SoundIsKept
<1>5. outcome' \in Seq({"open", "ran", "refused", "dropped"}) /\ Len(outcome') <= MaxPosts
  <2>1. CASE Head(op[t].taken).kind = "call"
    BY <2>1, SettledIsTyped DEF Drop, Settle
  <2>2. CASE Head(op[t].taken).kind # "call"
    BY <2>2, Typed DEF Drop
  <2> QED
    BY <2>1, <2>2
<1>6. abandoned' \subseteq 1 .. MaxLater
  <2>1. Head(op[t].taken) \in Events
    BY <1>1, AfterRepostIs
  <2>2. Head(op[t].taken).kind = "later" => Head(op[t].taken).arg \in 1 .. MaxLater
    BY <2>1, EventTypes
  <2> QED
    BY <2>2, Typed DEF Drop
<1> QED
  BY <1>4, <1>5, <1>6, Typed DEF Drop, AffinityTypeOK, OpsTyped, posted, clocks

LEMMA ForgetTimersTypes ==
    ASSUME AffinityInv, NEW t \in Threads, ForgetTimers(t)
    PROVE  AffinityTypeOK' /\ Sound'
<1>1. ids' \in [Objects -> SUBSET TimerIds]
  BY Typed DEF ForgetTimers
<1>2. pool' \subseteq TimerIds
  BY OpOf, Typed DEF ForgetTimers
<1>3. OpsTyped' /\ Sound'
  BY SoundWhenDone DEF ForgetTimers, posted, registry
<1> QED
  BY <1>1, <1>2, <1>3, Typed DEF ForgetTimers, AffinityTypeOK, OpsTyped, posted, registry

-----------------------------------------------------------------------------
(* What is on its way is what is open, what runs and what is pending.                           *)

Counts == CallsAreOpen /\ TimersRun /\ NodesGo /\ IdsAreOnce

LEMMA CountsStay ==
    ASSUME AffinityInv, Carried' = Carried, outcome' = outcome, ids' = ids, pool' = pool,
           pending' = pending, later' = later, abandoned' = abandoned
    PROVE  Counts'
BY DEF AffinityInv, Counts, CallsAreOpen, TimersRun, NodesGo, IdsAreOnce, CallItem, TimerItem, LaterItem

\* The counts, each for itself.
LEMMA CountsAre ==
    ASSUME AffinityInv
    PROVE  /\ \A c \in Nat : CallItem(c) \in Carried <=> c \in DOMAIN outcome /\ outcome[c] = "open"
           /\ \A o \in Objects, i \in TimerIds : TimerItem(o, i) \in Carried <=> i \in ids[o]
           /\ \A o \in Objects : pending[o] # None =>
                 pending[o] \in abandoned \/ LaterItem(o, pending[o]) \in Carried
           /\ \A o \in Objects, n \in Nat : LaterItem(o, n) \in Carried => n <= later
           /\ \A o \in Objects, n \in Nat : LaterItem(o, n) \in Carried =>
                 \A p \in Objects : pending[p] = n => p = o
           /\ \A o, p \in Objects : o # p => ids[o] \cap ids[p] = {}
           /\ \A i \in TimerIds : i \in pool <=> \A o \in Objects : i \notin ids[o]
BY DEF AffinityInv, CallsAreOpen, TimersRun, NodesGo, IdsAreOnce

LEMMA CallsStay ==
    ASSUME AffinityInv, \A c \in Nat : CallItem(c) \in Carried' <=> CallItem(c) \in Carried,
           outcome' = outcome
    PROVE  CallsAreOpen'
BY DEF AffinityInv, CallsAreOpen, CallItem

LEMMA TimersStay ==
    ASSUME AffinityInv,
           \A o \in Objects, i \in TimerIds : TimerItem(o, i) \in Carried' <=> TimerItem(o, i) \in Carried,
           ids' = ids, pool' = pool
    PROVE  TimersRun' /\ IdsAreOnce'
BY DEF AffinityInv, TimersRun, IdsAreOnce, TimerItem

LEMMA NodesStay ==
    ASSUME AffinityInv, \A o \in Objects : \A n : LaterItem(o, n) \in Carried' <=> LaterItem(o, n) \in Carried,
           pending' = pending, later' = later, abandoned' = abandoned
    PROVE  NodesGo'
BY DEF AffinityInv, NodesGo, LaterItem

\* A call that is settled.
LEMMA CallSettled ==
    ASSUME AffinityInv, NEW c \in Nat, CallItem(c) \in Carried, Carried' = Carried \ {CallItem(c)},
           NEW how \in {"ran", "refused", "dropped"}, outcome' = [outcome EXCEPT ![c] = how],
           ids' = ids, pool' = pool, pending' = pending, later' = later, abandoned' = abandoned
    PROVE  Counts'
<1>1. c \in DOMAIN outcome
  BY CountsAre
<1>2. /\ DOMAIN outcome' = DOMAIN outcome /\ outcome'[c] = how
      /\ \A d \in DOMAIN outcome : d # c => outcome'[d] = outcome[d]
  BY <1>1, SettledIsTyped
<1>3. ASSUME NEW d \in Nat
      PROVE  CallItem(d) \in Carried' <=> d \in DOMAIN outcome' /\ outcome'[d] = "open"
  <2>1. CallItem(d) \in Carried <=> d \in DOMAIN outcome /\ outcome[d] = "open"
    BY CountsAre
  <2>2. CASE d = c
    BY <1>2, <2>2
  <2>3. CASE d # c
    BY <1>2, <2>1, <2>3, ItemsDiffer
  <2> QED
    BY <2>2, <2>3
<1>4. CallsAreOpen'
  BY <1>3 DEF CallsAreOpen, CallItem
<1>5. \A o \in Objects, i \in TimerIds : TimerItem(o, i) \in Carried' <=> TimerItem(o, i) \in Carried
  BY ItemsDiffer
<1>6. \A o \in Objects : \A n : LaterItem(o, n) \in Carried' <=> LaterItem(o, n) \in Carried
  BY ItemsDiffer
<1> QED
  BY <1>4, <1>5, <1>6, TimersStay, NodesStay DEF Counts

\* A call that is made.
LEMMA CallMade ==
    ASSUME AffinityInv, Carried' = Carried \cup {CallItem(Len(outcome) + 1)},
           outcome' = Append(outcome, "open"),
           ids' = ids, pool' = pool, pending' = pending, later' = later, abandoned' = abandoned
    PROVE  Counts'
<1> DEFINE c == Len(outcome) + 1
<1>1. /\ c \in Nat /\ DOMAIN outcome' = DOMAIN outcome \cup {c} /\ outcome'[c] = "open"
      /\ \A d \in DOMAIN outcome : d # c /\ outcome'[d] = outcome[d]
  BY Typed
<1>2. Carried' = Carried \cup {CallItem(c)}
  OBVIOUS
<1> HIDE DEF c
<1>3. ASSUME NEW d \in Nat
      PROVE  CallItem(d) \in Carried' <=> d \in DOMAIN outcome' /\ outcome'[d] = "open"
  <2>1. CallItem(d) \in Carried <=> d \in DOMAIN outcome /\ outcome[d] = "open"
    BY CountsAre
  <2>2. CASE d = c
    BY <1>1, <1>2, <2>2
  <2>3. CASE d # c
    BY <1>1, <1>2, <2>1, <2>3, ItemsDiffer
  <2> QED
    BY <2>2, <2>3
<1>4. CallsAreOpen'
  BY <1>3 DEF CallsAreOpen, CallItem
<1>5. \A o \in Objects, i \in TimerIds : TimerItem(o, i) \in Carried' <=> TimerItem(o, i) \in Carried
  BY <1>2, ItemsDiffer
<1>6. \A o \in Objects : \A n : LaterItem(o, n) \in Carried' <=> LaterItem(o, n) \in Carried
  BY <1>2, ItemsDiffer
<1> QED
  BY <1>4, <1>5, <1>6, TimersStay, NodesStay DEF Counts

\* A node whose key is freed.
LEMMA NodeFreed ==
    ASSUME AffinityInv, NEW o \in Objects, NEW n \in Nat, Carried' = Carried \ {LaterItem(o, n)},
           pending' = [pending EXCEPT ![o] = None],
           outcome' = outcome, ids' = ids, pool' = pool, later' = later, abandoned' = abandoned
    PROVE  Counts'
<1>1. \A c \in Nat : CallItem(c) \in Carried' <=> CallItem(c) \in Carried
  BY ItemsDiffer
<1>2. \A p \in Objects, i \in TimerIds : TimerItem(p, i) \in Carried' <=> TimerItem(p, i) \in Carried
  BY ItemsDiffer
<1>3. pending'[o] = None /\ \A p \in Objects : p # o => pending'[p] = pending[p]
  BY Typed
<1>4. ASSUME NEW p \in Objects, pending'[p] # None
      PROVE  pending'[p] \in abandoned' \/ LaterItem(p, pending'[p]) \in Carried'
  <2>1. p # o /\ pending'[p] = pending[p]
    BY <1>3, <1>4
  <2>2. LaterItem(p, pending[p]) # LaterItem(o, n)
    BY <2>1, ItemsDiffer
  <2> QED
    BY <1>4, <2>1, <2>2, CountsAre
<1>5. ASSUME NEW p \in Objects, NEW m \in Nat, LaterItem(p, m) \in Carried'
      PROVE  m <= later' /\ \A q \in Objects : pending'[q] = m => q = p
  <2>1. LaterItem(p, m) \in Carried
    BY <1>5
  <2>2. m <= later /\ \A q \in Objects : pending[q] = m => q = p
    BY <2>1, CountsAre
  <2>3. ASSUME NEW q \in Objects, pending'[q] = m, q # p PROVE FALSE
    <3>1. q = o
      BY <1>3, <2>2, <2>3
    <3> QED
      BY <1>3, <2>3, <3>1, Numbers
  <2> QED
    BY <2>2, <2>3
<1>6. NodesGo'
  BY <1>4, <1>5 DEF NodesGo, LaterItem
<1> QED
  BY <1>1, <1>2, <1>6, CallsStay, TimersStay DEF Counts

\* A node whose event is deleted.
LEMMA NodeDropped ==
    ASSUME AffinityInv, NEW o \in Objects, NEW n \in Nat, Carried' = Carried \ {LaterItem(o, n)},
           abandoned' = abandoned \cup {n},
           outcome' = outcome, ids' = ids, pool' = pool, later' = later, pending' = pending
    PROVE  Counts'
<1>1. \A c \in Nat : CallItem(c) \in Carried' <=> CallItem(c) \in Carried
  BY ItemsDiffer
<1>2. \A p \in Objects, i \in TimerIds : TimerItem(p, i) \in Carried' <=> TimerItem(p, i) \in Carried
  BY ItemsDiffer
<1>3. ASSUME NEW p \in Objects, pending'[p] # None
      PROVE  pending'[p] \in abandoned' \/ LaterItem(p, pending'[p]) \in Carried'
  <2>1. pending[p] \in abandoned \/ LaterItem(p, pending[p]) \in Carried
    BY <1>3, CountsAre
  <2>2. LaterItem(p, pending[p]) = LaterItem(o, n) => pending[p] = n
    BY ItemsDiffer
  <2> QED
    BY <2>1, <2>2
<1>4. ASSUME NEW p \in Objects, NEW m \in Nat, LaterItem(p, m) \in Carried'
      PROVE  m <= later' /\ \A q \in Objects : pending'[q] = m => q = p
  <2>1. LaterItem(p, m) \in Carried
    BY <1>4
  <2> QED
    BY <2>1, CountsAre
<1>5. NodesGo'
  BY <1>3, <1>4 DEF NodesGo, LaterItem
<1> QED
  BY <1>1, <1>2, <1>5, CallsStay, TimersStay DEF Counts

\* A node that is made,
LEMMA NodeMade ==
    ASSUME AffinityInv, NEW o \in Objects, Carried' = Carried \cup {LaterItem(o, later')},
           later' = later + 1, pending' = [pending EXCEPT ![o] = later'],
           outcome' = outcome, ids' = ids, pool' = pool, abandoned' = abandoned
    PROVE  Counts'
<1> DEFINE n == later'
<1>1. \A c \in Nat : CallItem(c) \in Carried' <=> CallItem(c) \in Carried
  BY ItemsDiffer
<1>2. \A p \in Objects, i \in TimerIds : TimerItem(p, i) \in Carried' <=> TimerItem(p, i) \in Carried
  BY ItemsDiffer
<1>3. pending'[o] = n /\ \A p \in Objects : p # o => pending'[p] = pending[p]
  BY Typed
<1>4. later \in Nat /\ n \in Nat /\ later <= n /\ ~(n <= later)
  BY Typed
<1>5. Carried' = Carried \cup {LaterItem(o, n)}
  OBVIOUS
<1>6. ASSUME NEW p \in Objects, pending[p] = n PROVE FALSE
  <2>1. pending[p] # None
    BY <1>4, <1>6, Numbers
  <2>2. pending[p] <= later
    BY <2>1 DEF AffinityInv, NodesHaveCalls
  <2> QED
    BY <1>4, <1>6, <2>2
<1>7. later' = n
  OBVIOUS
<1> HIDE DEF n
<1>8. ASSUME NEW p \in Objects, pending'[p] # None
      PROVE  pending'[p] \in abandoned' \/ LaterItem(p, pending'[p]) \in Carried'
  BY <1>3, <1>5, <1>8, CountsAre
<1>9. ASSUME NEW p \in Objects, NEW m \in Nat, LaterItem(p, m) \in Carried'
      PROVE  m <= later' /\ \A q \in Objects : pending'[q] = m => q = p
  <2>1. CASE LaterItem(p, m) \in Carried
    <3>1. m <= later /\ \A q \in Objects : pending[q] = m => q = p
      BY <2>1, CountsAre
    <3>2. m <= n /\ m # n
      BY ONLY <1>4, <3>1, m \in Nat
    <3> QED
      BY <1>3, <1>7, <3>1, <3>2
  <2>2. CASE LaterItem(p, m) = LaterItem(o, n)
    <3>1. p = o /\ m = n
      BY <2>2, ItemsDiffer
    <3>2. m <= n
      BY <1>4, <3>1
    <3> QED
      BY <1>3, <1>6, <1>7, <3>1, <3>2
  <2> QED
    BY <1>5, <1>9, <2>1, <2>2
<1>10. NodesGo'
  BY <1>8, <1>9 DEF NodesGo, LaterItem
<1> QED
  BY <1>1, <1>2, <1>10, CallsStay, TimersStay DEF Counts

\* or asked for again.
LEMMA NodeAsked ==
    ASSUME AffinityInv, Carried' = Carried, later' = later + 1, pending' = pending,
           outcome' = outcome, ids' = ids, pool' = pool, abandoned' = abandoned
    PROVE  Counts'
<1>1. later \in Nat /\ \A m \in Nat : m <= later => m <= later'
  BY Typed
<1>2. ASSUME NEW p \in Objects, NEW m \in Nat, LaterItem(p, m) \in Carried
      PROVE  m <= later' /\ \A q \in Objects : pending[q] = m => q = p
  BY <1>1, <1>2, CountsAre
<1>3. NodesGo'
  BY <1>2, CountsAre DEF NodesGo, LaterItem
<1> QED
  BY <1>3, CallsStay, TimersStay DEF Counts

\* A timer that is started.
LEMMA TimerMade ==
    ASSUME AffinityInv, NEW o \in Objects, NEW i \in pool, Carried' = Carried \cup {TimerItem(o, i)},
           ids' = [ids EXCEPT ![o] = @ \cup {i}], pool' = pool \ {i},
           outcome' = outcome, pending' = pending, later' = later, abandoned' = abandoned
    PROVE  Counts'
<1>1. \A c \in Nat : CallItem(c) \in Carried' <=> CallItem(c) \in Carried
  BY ItemsDiffer
<1>2. \A p \in Objects : \A n : LaterItem(p, n) \in Carried' <=> LaterItem(p, n) \in Carried
  BY ItemsDiffer
<1>3. i \in TimerIds /\ ids'[o] = ids[o] \cup {i} /\ \A p \in Objects : p # o => ids'[p] = ids[p]
  BY Typed
<1>4. \A p \in Objects : i \notin ids[p]
  BY <1>3, CountsAre
<1>5. ASSUME NEW p \in Objects, NEW j \in TimerIds
      PROVE  TimerItem(p, j) \in Carried' <=> j \in ids'[p]
  <2>1. TimerItem(p, j) \in Carried <=> j \in ids[p]
    BY CountsAre
  <2>2. TimerItem(p, j) = TimerItem(o, i) <=> p = o /\ j = i
    BY ItemsDiffer
  <2> QED
    BY <1>3, <2>1, <2>2
<1>6. TimersRun'
  BY <1>5 DEF TimersRun, TimerItem
<1>7. \A p, q \in Objects : p # q => ids'[p] \cap ids'[q] = {}
  BY <1>3, <1>4, CountsAre
<1>8. \A j \in TimerIds : j \in pool' <=> \A p \in Objects : j \notin ids'[p]
  BY <1>3, <1>4, CountsAre
<1> QED
  BY <1>1, <1>2, <1>6, <1>7, <1>8, CallsStay, NodesStay DEF Counts, IdsAreOnce

\* Timers that are killed or given up.
LEMMA TimersGone ==
    ASSUME AffinityInv, NEW o \in Objects, NEW F, F \subseteq ids[o],
           Carried' = Carried \ {TimerItem(o, i) : i \in F},
           ids' = [ids EXCEPT ![o] = @ \ F], pool' = pool \cup F,
           outcome' = outcome, pending' = pending, later' = later, abandoned' = abandoned
    PROVE  Counts'
<1>1. \A c \in Nat : CallItem(c) \in Carried' <=> CallItem(c) \in Carried
  BY ItemsDiffer
<1>2. \A p \in Objects : \A n : LaterItem(p, n) \in Carried' <=> LaterItem(p, n) \in Carried
  BY ItemsDiffer
<1>3. F \subseteq TimerIds /\ ids'[o] = ids[o] \ F /\ \A p \in Objects : p # o => ids'[p] = ids[p]
  BY Typed
<1>4. \A p \in Objects : p # o => ids[p] \cap F = {}
  BY CountsAre
<1>5. ASSUME NEW p \in Objects, NEW j \in TimerIds
      PROVE  TimerItem(p, j) \in Carried' <=> j \in ids'[p]
  <2>1. TimerItem(p, j) \in Carried <=> j \in ids[p]
    BY CountsAre
  <2>2. TimerItem(p, j) \in {TimerItem(o, i) : i \in F} <=> p = o /\ j \in F
    BY ItemsDiffer
  <2> QED
    BY <1>3, <2>1, <2>2
<1>6. TimersRun'
  BY <1>5 DEF TimersRun, TimerItem
<1>7. \A p, q \in Objects : p # q => ids'[p] \cap ids'[q] = {}
  BY <1>3, CountsAre
<1>8. ASSUME NEW j \in TimerIds
      PROVE  j \in pool' <=> \A p \in Objects : j \notin ids'[p]
  <2>1. j \in pool <=> \A p \in Objects : j \notin ids[p]
    BY CountsAre
  <2>2. CASE j \in F
    BY <1>3, <1>4, <2>2
  <2>3. CASE j \notin F
    BY <1>3, <2>1, <2>3
  <2> QED
    BY <2>2, <2>3
<1> QED
  BY <1>1, <1>2, <1>6, <1>7, <1>8, CallsStay, NodesStay DEF Counts, IdsAreOnce

-----------------------------------------------------------------------------
(* How the steps move what is carried.                                                          *)

LaneInv == Apart /\ AllSingle /\ Counts

LEMMA LanesAre ==
    ASSUME AffinityInv
    PROVE  /\ Apart /\ AllSingle /\ Counts
           /\ \A u \in Threads : Single(queue[u]) /\ Single(parked[u]) /\ Single(op[u].taken)
BY DEF AffinityInv, AllSingle, Counts

\* All lanes but some.
LEMMA OtherLanes ==
    ASSUME NEW T,
           \A u \in Threads : <<"queued", u>> \in T \/ queue'[u] = queue[u],
           \A u \in Threads : <<"parked", u>> \in T \/ parked'[u] = parked[u],
           \A u \in Threads : <<"taken", u>> \in T \/ op'[u].taken = op[u].taken,
           \A u \in Threads : <<"hand", u>> \in T \/ Hand(op'[u]) = Hand(op[u]),
           \A u \in Threads : <<"clock", u>> \in T \/ timerAt'[u] = timerAt[u]
    PROVE  \A r \in Lanes : r \notin T => Lane(r)' = Lane(r)
<1>1. SUFFICES ASSUME NEW r \in Lanes, r \notin T PROVE Lane(r)' = Lane(r)
  OBVIOUS
<1>2. PICK t \in Threads : \/ r = <<"queued", t>> \/ r = <<"parked", t>> \/ r = <<"taken", t>>
                           \/ r = <<"hand", t>> \/ r = <<"clock", t>>
  BY LaneCases
<1>3. CASE r = <<"queued", t>>
  <2>1. queue'[t] = queue[t]
    BY <1>1, <1>3
  <2> QED
    BY <1>3, <2>1, LaneIs
<1>4. CASE r = <<"parked", t>>
  <2>1. parked'[t] = parked[t]
    BY <1>1, <1>4
  <2> QED
    BY <1>4, <2>1, LaneIs
<1>5. CASE r = <<"taken", t>>
  <2>1. op'[t].taken = op[t].taken
    BY <1>1, <1>5
  <2> QED
    BY <1>5, <2>1, LaneIs
<1>6. CASE r = <<"hand", t>>
  <2>1. Hand(op'[t]) = Hand(op[t])
    BY <1>1, <1>6
  <2> QED
    BY <1>6, <2>1, LaneIs
<1>7. CASE r = <<"clock", t>>
  <2>1. timerAt'[t] = timerAt[t]
    BY <1>1, <1>7
  <2> QED
    BY <1>7, <2>1, LaneIs
<1> QED
  BY <1>2, <1>3, <1>4, <1>5, <1>6, <1>7

LEMMA AllSingleStays ==
    ASSUME AffinityInv,
           \A u \in Threads : queue'[u] = queue[u] \/ Single(queue'[u]),
           \A u \in Threads : parked'[u] = parked[u] \/ Single(parked'[u]),
           \A u \in Threads : op'[u].taken = op[u].taken \/ Single(op'[u].taken)
    PROVE  AllSingle'
<1>1. ASSUME NEW u \in Threads PROVE Single(queue'[u]) /\ Single(parked'[u]) /\ Single(op'[u].taken)
  BY LanesAre
<1>2. \A u \in Threads : Single(queue[u])' /\ Single(parked[u])' /\ Single(op[u].taken)'
  BY <1>1 DEF Single, Cargo, CallItem, LaterItem, TimerItem
<1> QED
  BY <1>2 DEF AllSingle

\* Nothing moves.
LEMMA StillLanes ==
    ASSUME AffinityInv, NEW t \in Threads, \A u \in Threads : u # t => op'[u] = op[u],
           op'[t].taken = op[t].taken, Hand(op'[t]) = Hand(op[t]),
           queue' = queue, parked' = parked, timerAt' = timerAt
    PROVE  Apart' /\ AllSingle' /\ Carried' = Carried
<1>1. \A r \in Lanes : r \notin {<<"hand", t>>} => Lane(r)' = Lane(r)
  BY OtherLanes
<1>2. Lane(<<"hand", t>>)' = Lane(<<"hand", t>>)
  BY LaneIs
<1>3. \A r \in Lanes : Lane(r)' = Lane(r)
  BY <1>1, <1>2
<1>4. Apart' /\ Carried' = Carried
  BY <1>3, LanesStay, LanesAre
<1>5. AllSingle'
  BY AllSingleStays
<1> QED
  BY <1>4, <1>5

\* A hand that is emptied.
LEMMA HandEmptied ==
    ASSUME AffinityInv, NEW t \in Threads, \A u \in Threads : u # t => op'[u] = op[u],
           op'[t].taken = op[t].taken, Hand(op'[t]) = {},
           queue' = queue, parked' = parked, timerAt' = timerAt
    PROVE  Apart' /\ AllSingle' /\ Carried' = Carried \ Hand(op[t])
<1>1. \A r \in Lanes : r \notin {<<"hand", t>>} => Lane(r)' = Lane(r)
  BY OtherLanes
<1> DEFINE p == <<"hand", t>>
<1>2. p \in Lanes /\ Lane(p) = Hand(op[t]) /\ Lane(p)' = {}
  BY LaneIs, LaneNames
<1>3. Apart' /\ Carried' = Carried \ Hand(op[t])
  BY <1>1, <1>2, LaneLoses, LanesAre
<1>4. AllSingle'
  BY AllSingleStays
<1> QED
  BY <1>3, <1>4

\* A hand that is filled.
LEMMA HandFilled ==
    ASSUME AffinityInv, NEW t \in Threads, \A u \in Threads : u # t => op'[u] = op[u],
           op'[t].taken = op[t].taken, Hand(op[t]) = {}, Hand(op'[t]) \cap Carried = {},
           queue' = queue, parked' = parked, timerAt' = timerAt
    PROVE  Apart' /\ AllSingle' /\ Carried' = Carried \cup Hand(op'[t])
<1>1. \A r \in Lanes : r \notin {<<"hand", t>>} => Lane(r)' = Lane(r)
  BY OtherLanes
<1> DEFINE p == <<"hand", t>>
<1>2. p \in Lanes /\ Lane(p) = {} /\ Lane(p)' = Hand(op'[t])
  BY LaneIs, LaneNames
<1>3. Apart' /\ Carried' = Carried \cup Hand(op'[t])
  BY <1>1, <1>2, LaneGains, LanesAre
<1>4. AllSingle'
  BY AllSingleStays
<1> QED
  BY <1>3, <1>4

\* An event that is queued or parked.
LEMMA LandsInQueue ==
    ASSUME AffinityInv, NEW d \in Threads, NEW e \in Events, NEW p \in Lanes, p # <<"queued", d>>,
           Cargo(e) \subseteq Lane(p), queue' = [queue EXCEPT ![d] = Append(@, e)]
    PROVE  /\ queue' \in [Threads -> Seq(Events)] /\ Single(queue'[d])
           /\ \A u \in Threads : u # d => queue'[u] = queue[u]
           /\ Lane(<<"queued", d>>)' = Lane(<<"queued", d>>) \cup Cargo(e)
<1>1. queue[d] \in Seq(Events) /\ queue \in [Threads -> Seq(Events)]
  BY Typed
<1>2. /\ queue' \in [Threads -> Seq(Events)] /\ queue'[d] = Append(queue[d], e)
      /\ \A u \in Threads : u # d => queue'[u] = queue[u]
  BY <1>1
<1>3. Lane(p) \cap Lane(<<"queued", d>>) = {}
  BY LaneNames, LanesAre DEF Apart
<1>4. Cargo(e) \cap Load(queue[d]) = {}
  BY <1>3, LaneIs
<1>5. Single(queue[d])
  BY LanesAre
<1>6. Load(Append(queue[d], e)) = Load(queue[d]) \cup Cargo(e) /\ Single(Append(queue[d], e))
  BY <1>1, <1>4, <1>5, LoadOfAppend
<1> QED
  BY <1>2, <1>6, LaneIs

LEMMA LandsInParked ==
    ASSUME AffinityInv, NEW d \in Threads, NEW e \in Events, NEW p \in Lanes, p # <<"parked", d>>,
           Cargo(e) \subseteq Lane(p), parked' = [parked EXCEPT ![d] = Append(@, e)]
    PROVE  /\ parked' \in [Threads -> Seq(Events)] /\ Single(parked'[d])
           /\ \A u \in Threads : u # d => parked'[u] = parked[u]
           /\ Lane(<<"parked", d>>)' = Lane(<<"parked", d>>) \cup Cargo(e)
<1>1. parked[d] \in Seq(Events) /\ parked \in [Threads -> Seq(Events)]
  BY Typed
<1>2. /\ parked' \in [Threads -> Seq(Events)] /\ parked'[d] = Append(parked[d], e)
      /\ \A u \in Threads : u # d => parked'[u] = parked[u]
  BY <1>1
<1>3. Lane(p) \cap Lane(<<"parked", d>>) = {}
  BY LaneNames, LanesAre DEF Apart
<1>4. Cargo(e) \cap Load(parked[d]) = {}
  BY <1>3, LaneIs
<1>5. Single(parked[d])
  BY LanesAre
<1>6. Load(Append(parked[d], e)) = Load(parked[d]) \cup Cargo(e) /\ Single(Append(parked[d], e))
  BY <1>1, <1>4, <1>5, LoadOfAppend
<1> QED
  BY <1>2, <1>6, LaneIs

LEMMA HandQueued ==
    ASSUME AffinityInv, NEW t \in Threads, \A u \in Threads : u # t => op'[u] = op[u],
           op'[t].taken = op[t].taken, Hand(op'[t]) = {}, NEW d \in Threads, NEW e \in Events,
           Cargo(e) = Hand(op[t]), queue' = [queue EXCEPT ![d] = Append(@, e)],
           parked' = parked, timerAt' = timerAt
    PROVE  Apart' /\ AllSingle' /\ Carried' = Carried
<1> DEFINE p == <<"hand", t>>
           q == <<"queued", d>>
<1>1. /\ p \in Lanes /\ q \in Lanes /\ p # q
      /\ Cargo(e) \subseteq Lane(p) /\ Lane(p)' = Lane(p) \ Cargo(e)
  BY LaneIs, LaneNames
<1>2. /\ Single(queue'[d]) /\ \A u \in Threads : u # d => queue'[u] = queue[u]
      /\ Lane(q)' = Lane(q) \cup Cargo(e)
  BY <1>1, LandsInQueue
<1>3. \A r \in Lanes : r \notin {p, q} => Lane(r)' = Lane(r)
  BY <1>2, OtherLanes
<1>4. \A r \in Lanes : r # p /\ r # q => Lane(r)' = Lane(r)
  BY <1>3
<1>5. Apart' /\ Carried' = Carried
  <2> HIDE DEF p, q
  <2> QED
    BY <1>1, <1>2, <1>4, LaneMoves, LanesAre
<1>6. AllSingle'
  BY <1>2, AllSingleStays
<1> QED
  BY <1>5, <1>6

LEMMA HandParked ==
    ASSUME AffinityInv, NEW t \in Threads, \A u \in Threads : u # t => op'[u] = op[u],
           op'[t].taken = op[t].taken, Hand(op'[t]) = {}, NEW d \in Threads, NEW e \in Events,
           Cargo(e) = Hand(op[t]), parked' = [parked EXCEPT ![d] = Append(@, e)],
           queue' = queue, timerAt' = timerAt
    PROVE  Apart' /\ AllSingle' /\ Carried' = Carried
<1> DEFINE p == <<"hand", t>>
           q == <<"parked", d>>
<1>1. /\ p \in Lanes /\ q \in Lanes /\ p # q
      /\ Cargo(e) \subseteq Lane(p) /\ Lane(p)' = Lane(p) \ Cargo(e)
  BY LaneIs, LaneNames
<1>2. /\ Single(parked'[d]) /\ \A u \in Threads : u # d => parked'[u] = parked[u]
      /\ Lane(q)' = Lane(q) \cup Cargo(e)
  BY <1>1, LandsInParked
<1>3. \A r \in Lanes : r \notin {p, q} => Lane(r)' = Lane(r)
  BY <1>2, OtherLanes
<1>4. \A r \in Lanes : r # p /\ r # q => Lane(r)' = Lane(r)
  BY <1>3
<1>5. Apart' /\ Carried' = Carried
  <2> HIDE DEF p, q
  <2> QED
    BY <1>1, <1>2, <1>4, LaneMoves, LanesAre
<1>6. AllSingle'
  BY <1>2, AllSingleStays
<1> QED
  BY <1>5, <1>6

\* An event that is taken off a queue,
LEMMA QueueLoses ==
    ASSUME AffinityInv, NEW t \in Threads, queue[t] # <<>>, queue' = [queue EXCEPT ![t] = Tail(@)]
    PROVE  /\ Cargo(Head(queue[t])) \subseteq Lane(<<"queued", t>>)
           /\ Lane(<<"queued", t>>)' = Lane(<<"queued", t>>) \ Cargo(Head(queue[t]))
           /\ Single(queue'[t]) /\ \A u \in Threads : u # t => queue'[u] = queue[u]
<1>1. queue[t] \in Seq(Events) /\ Single(queue[t])
  BY Typed, LanesAre
<1>2. queue'[t] = Tail(queue[t]) /\ \A u \in Threads : u # t => queue'[u] = queue[u]
  BY Typed
<1>3. /\ Cargo(Head(queue[t])) \subseteq Load(queue[t])
      /\ Load(Tail(queue[t])) = Load(queue[t]) \ Cargo(Head(queue[t]))
      /\ Single(Tail(queue[t]))
  BY <1>1, LoadOfTail
<1> QED
  BY <1>2, <1>3, LaneIs

LEMMA QueueDelivers ==
    ASSUME AffinityInv, NEW t \in Threads, queue[t] # <<>>, queue' = [queue EXCEPT ![t] = Tail(@)],
           \A u \in Threads : u # t => op'[u] = op[u],
           op'[t].taken = op[t].taken, Hand(op'[t]) = Hand(op[t]),
           parked' = parked, timerAt' = timerAt
    PROVE  Apart' /\ AllSingle' /\ Carried' = Carried \ Cargo(Head(queue[t]))
<1> DEFINE p == <<"queued", t>>
           X == Cargo(Head(queue[t]))
<1>1. /\ X \subseteq Lane(p) /\ Lane(p)' = Lane(p) \ X /\ p \in Lanes
      /\ Single(queue'[t]) /\ \A u \in Threads : u # t => queue'[u] = queue[u]
  BY QueueLoses, LaneNames
<1>2. \A r \in Lanes : r \notin {p} => Lane(r)' = Lane(r)
  BY <1>1, OtherLanes
<1>3. Apart' /\ Carried' = Carried \ X
  <2> HIDE DEF X, p
  <2> QED
    BY <1>1, <1>2, LaneLoses, LanesAre
<1>4. AllSingle'
  BY <1>1, AllSingleStays
<1> QED
  BY <1>3, <1>4

\* or of those a mover has taken.
LEMMA TakenLoses ==
    ASSUME AffinityInv, NEW t \in Threads, op[t].at = "repost", op'[t].taken = Tail(op[t].taken)
    PROVE  /\ Cargo(Head(op[t].taken)) \subseteq Lane(<<"taken", t>>)
           /\ Lane(<<"taken", t>>)' = Lane(<<"taken", t>>) \ Cargo(Head(op[t].taken))
           /\ Single(op'[t].taken)
<1>1. op[t].taken \in Seq(Events) /\ op[t].taken # <<>> /\ Single(op[t].taken)
  BY OpOf, AfterRepostIs, LanesAre
<1>2. /\ Cargo(Head(op[t].taken)) \subseteq Load(op[t].taken)
      /\ Load(Tail(op[t].taken)) = Load(op[t].taken) \ Cargo(Head(op[t].taken))
      /\ Single(Tail(op[t].taken))
  BY <1>1, LoadOfTail
<1> QED
  BY <1>2, LaneIs

LEMMA TakenQueued ==
    ASSUME AffinityInv, NEW t \in Threads, \A u \in Threads : u # t => op'[u] = op[u],
           op[t].at = "repost", op'[t].taken = Tail(op[t].taken), Hand(op'[t]) = Hand(op[t]),
           NEW d \in Threads, NEW e \in Events, Cargo(e) = Cargo(Head(op[t].taken)),
           queue' = [queue EXCEPT ![d] = Append(@, e)], parked' = parked, timerAt' = timerAt
    PROVE  Apart' /\ AllSingle' /\ Carried' = Carried
<1> DEFINE p == <<"taken", t>>
           q == <<"queued", d>>
<1>1. /\ p \in Lanes /\ q \in Lanes /\ p # q /\ Single(op'[t].taken)
      /\ Cargo(e) \subseteq Lane(p) /\ Lane(p)' = Lane(p) \ Cargo(e)
  BY TakenLoses, LaneNames
<1>2. /\ Single(queue'[d]) /\ \A u \in Threads : u # d => queue'[u] = queue[u]
      /\ Lane(q)' = Lane(q) \cup Cargo(e)
  BY <1>1, LandsInQueue
<1>3. \A r \in Lanes : r \notin {p, q} => Lane(r)' = Lane(r)
  BY <1>2, OtherLanes
<1>4. \A r \in Lanes : r # p /\ r # q => Lane(r)' = Lane(r)
  BY <1>3
<1>5. Apart' /\ Carried' = Carried
  <2> HIDE DEF p, q
  <2> QED
    BY <1>1, <1>2, <1>4, LaneMoves, LanesAre
<1>6. AllSingle'
  BY <1>1, <1>2, AllSingleStays
<1> QED
  BY <1>5, <1>6

LEMMA TakenParked ==
    ASSUME AffinityInv, NEW t \in Threads, \A u \in Threads : u # t => op'[u] = op[u],
           op[t].at = "repost", op'[t].taken = Tail(op[t].taken), Hand(op'[t]) = Hand(op[t]),
           NEW d \in Threads, NEW e \in Events, Cargo(e) = Cargo(Head(op[t].taken)),
           parked' = [parked EXCEPT ![d] = Append(@, e)], queue' = queue, timerAt' = timerAt
    PROVE  Apart' /\ AllSingle' /\ Carried' = Carried
<1> DEFINE p == <<"taken", t>>
           q == <<"parked", d>>
<1>1. /\ p \in Lanes /\ q \in Lanes /\ p # q /\ Single(op'[t].taken)
      /\ Cargo(e) \subseteq Lane(p) /\ Lane(p)' = Lane(p) \ Cargo(e)
  BY TakenLoses, LaneNames
<1>2. /\ Single(parked'[d]) /\ \A u \in Threads : u # d => parked'[u] = parked[u]
      /\ Lane(q)' = Lane(q) \cup Cargo(e)
  BY <1>1, LandsInParked
<1>3. \A r \in Lanes : r \notin {p, q} => Lane(r)' = Lane(r)
  BY <1>2, OtherLanes
<1>4. \A r \in Lanes : r # p /\ r # q => Lane(r)' = Lane(r)
  BY <1>3
<1>5. Apart' /\ Carried' = Carried
  <2> HIDE DEF p, q
  <2> QED
    BY <1>1, <1>2, <1>4, LaneMoves, LanesAre
<1>6. AllSingle'
  BY <1>1, <1>2, AllSingleStays
<1> QED
  BY <1>5, <1>6

\* A mover that deletes what it has taken.
LEMMA TakenDropped ==
    ASSUME AffinityInv, NEW t \in Threads, \A u \in Threads : u # t => op'[u] = op[u],
           op[t].at = "repost", op'[t].taken = Tail(op[t].taken), Hand(op'[t]) = Hand(op[t]),
           queue' = queue, parked' = parked, timerAt' = timerAt
    PROVE  Apart' /\ AllSingle' /\ Carried' = Carried \ Cargo(Head(op[t].taken))
<1> DEFINE p == <<"taken", t>>
           X == Cargo(Head(op[t].taken))
<1>1. p \in Lanes /\ Single(op'[t].taken) /\ X \subseteq Lane(p) /\ Lane(p)' = Lane(p) \ X
  BY TakenLoses, LaneNames
<1>2. \A r \in Lanes : r \notin {p} => Lane(r)' = Lane(r)
  BY OtherLanes
<1>3. Apart' /\ Carried' = Carried \ X
  <2> HIDE DEF X, p
  <2> QED
    BY <1>1, <1>2, LaneLoses, LanesAre
<1>4. AllSingle'
  BY <1>1, AllSingleStays
<1> QED
  BY <1>3, <1>4

\* What was parked is handed over.
LEMMA ParkedQueued ==
    ASSUME AffinityInv, NEW t \in Threads, op' = op, timerAt' = timerAt,
           queue' = [queue EXCEPT ![t] = @ \o parked[t]], parked' = [parked EXCEPT ![t] = <<>>]
    PROVE  Apart' /\ AllSingle' /\ Carried' = Carried
<1> DEFINE p == <<"parked", t>>
           q == <<"queued", t>>
           X == Load(parked[t])
<1>1. /\ queue[t] \in Seq(Events) /\ parked[t] \in Seq(Events)
      /\ queue'[t] = queue[t] \o parked[t] /\ parked'[t] = <<>>
      /\ \A u \in Threads : u # t => queue'[u] = queue[u] /\ parked'[u] = parked[u]
  BY Typed
<1>2. p \in Lanes /\ q \in Lanes /\ p # q /\ Lane(p) = X /\ Lane(q) = Load(queue[t])
  BY LaneIs, LaneNames
<1>3. Load(queue[t]) \cap Load(parked[t]) = {}
  BY <1>2, LanesAre DEF Apart
<1>4. Load(queue'[t]) = Load(queue[t]) \cup X /\ Single(queue'[t])
  <2>1. Single(queue[t]) /\ Single(parked[t])
    BY LanesAre
  <2>2. /\ Load(queue[t] \o parked[t]) = Load(queue[t]) \cup Load(parked[t])
        /\ Single(queue[t] \o parked[t])
    BY <1>1, <1>3, <2>1, LoadOfConcat
  <2> QED
    BY <1>1, <2>2
<1>5. Load(parked'[t]) = {} /\ Single(parked'[t])
  BY <1>1, EmptyLoad
<1>6. Lane(p)' = {} /\ Lane(q)' = Load(queue[t]) \cup X
  BY <1>4, <1>5, LaneIs
<1>7. X \subseteq Lane(p) /\ Lane(p)' = Lane(p) \ X /\ Lane(q)' = Lane(q) \cup X
  BY <1>2, <1>6
<1>8. \A r \in Lanes : r \notin {p, q} => Lane(r)' = Lane(r)
  BY <1>1, OtherLanes
<1>9. \A r \in Lanes : r # p /\ r # q => Lane(r)' = Lane(r)
  BY <1>8
<1>10. Apart' /\ Carried' = Carried
  <2> HIDE DEF p, q, X
  <2> QED
    BY <1>2, <1>7, <1>9, LaneMoves, LanesAre
<1>11. AllSingle'
  BY <1>1, <1>4, <1>5, AllSingleStays
<1> QED
  BY <1>10, <1>11

\* What a sweep finds is taken.
LEMMA QueueSwept ==
    ASSUME AffinityInv, NEW t \in Threads, NEW P \in SUBSET Positions(queue[t]),
           \A u \in Threads : u # t => op'[u] = op[u] /\ queue'[u] = queue[u],
           op[t].taken = <<>>, op'[t].taken = Picked(queue[t], P), Hand(op'[t]) = Hand(op[t]),
           queue'[t] = Picked(queue[t], Positions(queue[t]) \ P), parked' = parked, timerAt' = timerAt
    PROVE  Apart' /\ AllSingle' /\ Carried' = Carried
<1> DEFINE p == <<"queued", t>>
           q == <<"taken", t>>
           Q == Positions(queue[t]) \ P
           X == Load(Picked(queue[t], P))
<1>1. queue[t] \in Seq(Events) /\ Single(queue[t])
  BY Typed, LanesAre
<1>2. P \cup Q = Positions(queue[t]) /\ P \cap Q = {}
  OBVIOUS
<1>3. /\ Single(Picked(queue[t], P)) /\ Single(Picked(queue[t], Q))
      /\ X \subseteq Load(queue[t]) /\ Load(Picked(queue[t], Q)) = Load(queue[t]) \ X
  <2> HIDE DEF Q
  <2> QED
    BY <1>1, <1>2, LoadOfPicked
<1>4. /\ p \in Lanes /\ q \in Lanes /\ p # q /\ Lane(p) = Load(queue[t]) /\ Lane(q) = {}
      /\ Lane(p)' = Load(queue[t]) \ X /\ Lane(q)' = X
  BY <1>3, LaneIs, LaneNames, EmptyLoad
<1>5. X \subseteq Lane(p) /\ Lane(p)' = Lane(p) \ X /\ Lane(q)' = Lane(q) \cup X
  BY <1>3, <1>4
<1>6. \A r \in Lanes : r \notin {p, q} => Lane(r)' = Lane(r)
  BY OtherLanes
<1>7. \A r \in Lanes : r # p /\ r # q => Lane(r)' = Lane(r)
  BY <1>6
<1>8. Apart' /\ Carried' = Carried
  <2> HIDE DEF p, q, X
  <2> QED
    BY <1>4, <1>5, <1>7, LaneMoves, LanesAre
<1>9. AllSingle'
  BY <1>3, AllSingleStays
<1> QED
  BY <1>8, <1>9

-----------------------------------------------------------------------------
(* The dispatchers' timers.                                                                     *)

LEMMA InClock ==
    ASSUME NEW c, NEW x
    PROVE  x \in Clock(c) <=> \E i \in TimerIds : c[i] # None /\ x = TimerItem(c[i], i)
BY DEF Clock

LEMMA ClockHas ==
    ASSUME NEW c, NEW o, NEW i \in TimerIds, o # None
    PROVE  TimerItem(o, i) \in Clock(c) <=> c[i] = o
<1>1. TimerItem(o, i) \in Clock(c) <=> \E j \in TimerIds : c[j] # None /\ TimerItem(o, i) = TimerItem(c[j], j)
  BY InClock
<1>2. \A j \in TimerIds : TimerItem(o, i) = TimerItem(c[j], j) <=> c[j] = o /\ j = i
  BY ItemsDiffer
<1> QED
  BY <1>1, <1>2

TimerItems(o, F) == {TimerItem(o, i) : i \in F}

\* Timers of one object that are registered,
LEMMA ClockGains ==
    ASSUME NEW c, NEW b, NEW o, o # None, NEW F \in SUBSET TimerIds, \A i \in F : c[i] = None,
           \A i \in TimerIds : b[i] = IF i \in F THEN o ELSE c[i]
    PROVE  Clock(b) = Clock(c) \cup TimerItems(o, F)
<1>1. ASSUME NEW x PROVE x \in Clock(b) <=> x \in Clock(c) \/ \E i \in F : x = TimerItem(o, i)
  <2>1. x \in Clock(b) <=> \E i \in TimerIds : b[i] # None /\ x = TimerItem(b[i], i)
    BY InClock
  <2>2. x \in Clock(c) <=> \E i \in TimerIds : c[i] # None /\ x = TimerItem(c[i], i)
    BY InClock
  <2>3. ASSUME NEW i \in TimerIds
        PROVE  b[i] # None /\ x = TimerItem(b[i], i) <=>
                 \/ c[i] # None /\ x = TimerItem(c[i], i)
                 \/ i \in F /\ x = TimerItem(o, i)
    <3>1. CASE i \in F
      BY <3>1
    <3>2. CASE i \notin F
      BY <3>2
    <3> QED
      BY <3>1, <3>2
  <2> QED
    BY <2>1, <2>2, <2>3
<1> QED
  BY <1>1 DEF TimerItems

LEMMA ClockGainsAt ==
    ASSUME NEW t \in Threads, NEW o, o # None, NEW F \in SUBSET TimerIds, \A i \in F : timerAt[t][i] = None,
           \A i \in TimerIds : timerAt'[t][i] = IF i \in F THEN o ELSE timerAt[t][i]
    PROVE  Clock(timerAt'[t]) = Clock(timerAt[t]) \cup TimerItems(o, F)
<1> DEFINE c == timerAt[t]
           b == timerAt'[t]
<1>1. \A i \in F : c[i] = None
  OBVIOUS
<1>2. \A i \in TimerIds : b[i] = IF i \in F THEN o ELSE c[i]
  OBVIOUS
<1> HIDE DEF b, c
<1>3. Clock(b) = Clock(c) \cup TimerItems(o, F)
  BY <1>1, <1>2, ClockGains
<1> QED
  BY <1>3 DEF b, c

\* and that are unregistered.
LEMMA ClockLoses ==
    ASSUME NEW c, NEW b, NEW o, o # None, NEW F \in SUBSET TimerIds, \A i \in F : c[i] = o,
           \A i \in TimerIds : b[i] = IF i \in F THEN None ELSE c[i]
    PROVE  Clock(b) = Clock(c) \ TimerItems(o, F) /\ TimerItems(o, F) \subseteq Clock(c)
<1>1. \A i \in F : TimerItem(o, i) \in Clock(c)
  BY ClockHas
<1>2. ASSUME NEW x PROVE x \in Clock(b) <=> x \in Clock(c) /\ \A i \in F : x # TimerItem(o, i)
  <2>1. x \in Clock(b) <=> \E i \in TimerIds : b[i] # None /\ x = TimerItem(b[i], i)
    BY InClock
  <2>2. x \in Clock(c) <=> \E i \in TimerIds : c[i] # None /\ x = TimerItem(c[i], i)
    BY InClock
  <2>3. ASSUME NEW i \in TimerIds, c[i] # None, x = TimerItem(c[i], i), i \notin F, NEW j \in F
        PROVE  x # TimerItem(o, j)
    BY <2>3, ItemsDiffer
  <2>4. ASSUME NEW i \in TimerIds, c[i] # None, x = TimerItem(c[i], i), \A j \in F : x # TimerItem(o, j)
        PROVE  i \notin F
    BY <2>4
  <2>5. \A i \in TimerIds : b[i] # None <=> i \notin F /\ c[i] # None
    OBVIOUS
  <2>6. \A i \in TimerIds : i \notin F => b[i] = c[i]
    OBVIOUS
  <2> QED
    BY <2>1, <2>2, <2>3, <2>4, <2>5, <2>6
<1> QED
  BY <1>1, <1>2 DEF TimerItems

LEMMA ClockLosesAt ==
    ASSUME NEW t \in Threads, NEW o, o # None, NEW F \in SUBSET TimerIds, \A i \in F : timerAt[t][i] = o,
           \A i \in TimerIds : timerAt'[t][i] = IF i \in F THEN None ELSE timerAt[t][i]
    PROVE  /\ Clock(timerAt'[t]) = Clock(timerAt[t]) \ TimerItems(o, F)
           /\ TimerItems(o, F) \subseteq Clock(timerAt[t])
<1> DEFINE c == timerAt[t]
           b == timerAt'[t]
<1>1. \A i \in F : c[i] = o
  OBVIOUS
<1>2. \A i \in TimerIds : b[i] = IF i \in F THEN None ELSE c[i]
  OBVIOUS
<1> HIDE DEF b, c
<1>3. Clock(b) = Clock(c) \ TimerItems(o, F) /\ TimerItems(o, F) \subseteq Clock(c)
  BY <1>1, <1>2, ClockLoses
<1> QED
  BY <1>3 DEF b, c

-----------------------------------------------------------------------------
(* Each step carries what it should.                                                            *)

LEMMA IdleHand ==
    Hand(Idle) = {} /\ Idle.taken = <<>>
BY IdleTypes, HandIs

LEMMA StartLanes ==
    ASSUME AffinityInv, NEW t \in Threads, Start(t)
    PROVE  LaneInv'
<1>1. /\ op' = op /\ queue' = queue /\ parked' = parked /\ timerAt' = timerAt
      /\ outcome' = outcome /\ ids' = ids /\ pool' = pool /\ pending' = pending
      /\ later' = later /\ abandoned' = abandoned
  BY DEF Start, posted, clocks, registry
<1>2. Apart' /\ AllSingle' /\ Carried' = Carried
  BY <1>1, StillLanes
<1> QED
  BY <1>1, <1>2, CountsStay DEF LaneInv

LEMMA InstallLanes ==
    ASSUME AffinityInv, NEW t \in Threads, Install(t)
    PROVE  LaneInv'
<1>1. /\ op' = op /\ timerAt' = timerAt
      /\ queue' = [queue EXCEPT ![t] = @ \o parked[t]] /\ parked' = [parked EXCEPT ![t] = <<>>]
      /\ outcome' = outcome /\ ids' = ids /\ pool' = pool /\ pending' = pending
      /\ later' = later /\ abandoned' = abandoned
  BY DEF Install, clocks, registry
<1>2. Apart' /\ AllSingle' /\ Carried' = Carried
  BY <1>1, ParkedQueued
<1> QED
  BY <1>1, <1>2, CountsStay DEF LaneInv

LEMMA BeginPostLanes ==
    ASSUME AffinityInv, NEW t \in Threads, NEW o \in Objects, BeginPost(t, o)
    PROVE  LaneInv'
<1>1. /\ queue' = queue /\ parked' = parked /\ timerAt' = timerAt
      /\ outcome' = Append(outcome, "open") /\ ids' = ids /\ pool' = pool /\ pending' = pending
      /\ later' = later /\ abandoned' = abandoned
  BY DEF BeginPost, posted, clocks, registry
<1>2. /\ \A u \in Threads : u # t => op'[u] = op[u]
      /\ op[t] = Idle /\ op'[t].at = "resolve" /\ op'[t].ev = Event(o, "call", Len(outcome) + 1)
      /\ op'[t].taken = <<>>
  BY BeginPostDoes
<1>3. op'[t].ev.kind = "call" /\ op'[t].ev.arg = Len(outcome) + 1
  BY <1>2, EventFields
<1>4. Hand(op'[t]) = {CallItem(Len(outcome) + 1)}
  BY <1>2, <1>3, HandIs, CargoIs DEF Posting
<1>5. CallItem(Len(outcome) + 1) \notin Carried
  <2>1. Len(outcome) + 1 \in Nat /\ Len(outcome) + 1 \notin DOMAIN outcome
    BY Typed
  <2> QED
    BY <2>1, CountsAre
<1>6. Apart' /\ AllSingle' /\ Carried' = Carried \cup {CallItem(Len(outcome) + 1)}
  <2>1. Hand(op'[t]) \cap Carried = {} /\ Hand(op[t]) = {} /\ op'[t].taken = op[t].taken
    BY <1>2, <1>4, <1>5, IdleHand
  <2> QED
    BY <1>1, <1>2, <1>4, <2>1, HandFilled
<1> QED
  BY <1>1, <1>6, CallMade DEF LaneInv

LEMMA RefusedLanes ==
    ASSUME AffinityInv, NEW t \in Threads, op[t].at \in Posting, Refused(t),
           op[t].ev.kind # "timers",
           queue' = queue, parked' = parked, timerAt' = timerAt, ids' = ids, pool' = pool,
           pending' = pending, later' = later, abandoned' = abandoned
    PROVE  LaneInv'
<1>1. op[t].ev \in Events /\ op[t].ev.kind \in {"call", "later"} /\ op[t].taken = <<>>
  <2>1. op[t].ev \in Events /\ op[t].taken = <<>>
    BY OpOf DEF StepIsSound, Posting
  <2> QED
    BY <2>1, EventTypes
<1>2. \A u \in Threads : u # t => op'[u] = op[u]
  BY RefusedDoes
<1>3. Hand(op[t]) = Cargo(op[t].ev)
  BY HandIs
<1>4. CASE op[t].ev.kind = "call"
  <2> DEFINE c == op[t].ev.arg
  <2>1. op'[t] = Idle /\ outcome' = [outcome EXCEPT ![c] = "refused"]
    BY <1>4, RefusedDoes
  <2>2. Cargo(op[t].ev) = {CallItem(c)}
    BY <1>4, CargoIs
  <2>3. Apart' /\ AllSingle' /\ Carried' = Carried \ {CallItem(c)}
    BY <1>1, <1>2, <1>3, <2>1, <2>2, IdleHand, HandEmptied
  <2>4. CallItem(c) \in Carried
    BY <1>3, <2>2, HandIsCarried
  <2>5. c \in Nat
    BY <1>1, <1>4, EventTypes
  <2> HIDE DEF c
  <2> QED
    BY <2>1, <2>3, <2>4, <2>5, CallSettled DEF LaneInv
<1>5. CASE op[t].ev.kind = "later"
  <2>1. op'[t].at = "unlist" /\ op'[t].ev = op[t].ev /\ op'[t].taken = op[t].taken /\ outcome' = outcome
    BY <1>5, RefusedDoes
  <2>2. Hand(op'[t]) = Hand(op[t])
    BY <1>3, <2>1, HandIs
  <2>3. Apart' /\ AllSingle' /\ Carried' = Carried
    BY <1>2, <2>1, <2>2, StillLanes
  <2> QED
    BY <2>1, <2>3, CountsStay DEF LaneInv
<1> QED
  BY <1>1, <1>4, <1>5

\* Timers are not refused: their object lives on a thread that was started.
LEMMA TimersArePosted ==
    ASSUME AffinityInv, NEW t \in Threads, op[t].at \in Posting, op[t].ev.kind = "timers"
    PROVE  /\ home[op[t].ev.to] \in Threads /\ loop[home[op[t].ev.to]] # "unstarted"
           /\ op[t].at \in {"fetch", "land"} => op[t].data = home[op[t].ev.to]
BY DEF AffinityInv, MovesAreSound, MoverIsSound

LEMMA ResolveLanes ==
    ASSUME AffinityInv, NEW t \in Threads, Resolve(t)
    PROVE  LaneInv'
<1>1. /\ queue' = queue /\ parked' = parked /\ timerAt' = timerAt
      /\ ids' = ids /\ pool' = pool /\ pending' = pending
      /\ later' = later /\ abandoned' = abandoned /\ op[t].at = "resolve" /\ op[t].at \in Posting
  BY DEF Resolve, posted, clocks, registry, Posting
<1>2. CASE home[op[t].ev.to] = None
  <2>1. Refused(t)
    BY <1>2 DEF Resolve
  <2>2. op[t].ev.kind # "timers"
    BY <1>1, <1>2, TimersArePosted, Numbers
  <2> QED
    BY <1>1, <2>1, <2>2, RefusedLanes
<1>3. CASE home[op[t].ev.to] # None
  <2>1. /\ \A u \in Threads : u # t => op'[u] = op[u]
        /\ op'[t].at = "fetch" /\ op'[t].ev = op[t].ev /\ op'[t].taken = op[t].taken
        /\ outcome' = outcome
    BY <1>3, ResolveDoes
  <2>2. Hand(op'[t]) = Hand(op[t])
    BY <1>1, <2>1, HandIs DEF Posting
  <2>3. Apart' /\ AllSingle' /\ Carried' = Carried
    BY <1>1, <2>1, <2>2, StillLanes
  <2> QED
    BY <1>1, <2>1, <2>3, CountsStay DEF LaneInv
<1> QED
  BY <1>2, <1>3

LEMMA FetchLanes ==
    ASSUME AffinityInv, NEW t \in Threads, Fetch(t)
    PROVE  LaneInv'
<1>1. /\ queue' = queue /\ timerAt' = timerAt
      /\ ids' = ids /\ pool' = pool /\ pending' = pending
      /\ later' = later /\ abandoned' = abandoned /\ op[t].at = "fetch" /\ op[t].at \in Posting
  BY DEF Fetch, clocks, registry, Posting
<1>2. op[t].data \in Threads /\ op[t].ev \in Events /\ op[t].taken = <<>>
  BY <1>1, OpOf DEF StepIsSound
<1>3. CASE loop[op[t].data] = "up"
  <2>1. /\ \A u \in Threads : u # t => op'[u] = op[u]
        /\ op'[t].at = "land" /\ op'[t].ev = op[t].ev /\ op'[t].taken = op[t].taken
        /\ parked' = parked /\ outcome' = outcome
    BY <1>3, FetchDoes
  <2>2. Hand(op'[t]) = Hand(op[t])
    BY <1>1, <2>1, HandIs DEF Posting
  <2>3. Apart' /\ AllSingle' /\ Carried' = Carried
    BY <1>1, <2>1, <2>2, StillLanes
  <2> QED
    BY <1>1, <2>1, <2>3, CountsStay DEF LaneInv
<1>4. CASE loop[op[t].data] = "coming"
  <2>1. /\ Done(t) /\ outcome' = outcome
        /\ parked' = [parked EXCEPT ![op[t].data] = Append(@, Landed(op[t].ev, op[t].data))]
    BY <1>4 DEF Fetch
  <2>2. op'[t] = Idle /\ \A u \in Threads : u # t => op'[u] = op[u]
    BY <2>1, DoneDoes
  <2>3. /\ Landed(op[t].ev, op[t].data) \in Events
        /\ Cargo(Landed(op[t].ev, op[t].data)) = Hand(op[t])
    BY <1>1, <1>2, LandedIsEvent, HandIs
  <2>4. Hand(op'[t]) = {} /\ op'[t].taken = op[t].taken
    BY <1>2, <2>2, IdleHand
  <2>5. Apart' /\ AllSingle' /\ Carried' = Carried
    BY <1>1, <1>2, <2>1, <2>2, <2>3, <2>4, HandParked
  <2> QED
    BY <1>1, <2>1, <2>5, CountsStay DEF LaneInv
<1>5. CASE loop[op[t].data] = "unstarted"
  <2>1. Refused(t) /\ parked' = parked
    BY <1>5 DEF Fetch
  <2>2. op[t].ev.kind # "timers"
    BY <1>1, <1>5, TimersArePosted
  <2> QED
    BY <1>1, <2>1, <2>2, RefusedLanes
<1> QED
  BY <1>2, <1>3, <1>4, <1>5, Typed

LEMMA LandLanes ==
    ASSUME AffinityInv, NEW t \in Threads, Land(t)
    PROVE  LaneInv'
<1>1. /\ parked' = parked /\ timerAt' = timerAt /\ outcome' = outcome
      /\ ids' = ids /\ pool' = pool /\ pending' = pending
      /\ later' = later /\ abandoned' = abandoned /\ op[t].at = "land" /\ op[t].at \in Posting
      /\ queue' = [queue EXCEPT ![op[t].data] = Append(@, Landed(op[t].ev, op[t].data))]
      /\ Done(t)
  BY DEF Land, clocks, registry, Posting
<1>2. op[t].data \in Threads /\ op[t].ev \in Events /\ op[t].taken = <<>>
  BY <1>1, OpOf DEF StepIsSound
<1>3. op'[t] = Idle /\ \A u \in Threads : u # t => op'[u] = op[u]
  BY <1>1, DoneDoes
<1>4. /\ Landed(op[t].ev, op[t].data) \in Events
      /\ Cargo(Landed(op[t].ev, op[t].data)) = Hand(op[t])
  BY <1>1, <1>2, LandedIsEvent, HandIs
<1>5. Hand(op'[t]) = {} /\ op'[t].taken = op[t].taken
  BY <1>2, <1>3, IdleHand
<1>6. Apart' /\ AllSingle' /\ Carried' = Carried
  BY <1>1, <1>2, <1>3, <1>4, <1>5, HandQueued
<1> QED
  BY <1>1, <1>6, CountsStay DEF LaneInv

LEMMA CallLaterLanes ==
    ASSUME AffinityInv, NEW t \in Threads, NEW o \in Objects, CallLater(t, o)
    PROVE  LaneInv'
<1>1. /\ queue' = queue /\ parked' = parked /\ timerAt' = timerAt /\ outcome' = outcome
      /\ ids' = ids /\ pool' = pool /\ abandoned' = abandoned
  BY DEF CallLater, posted, clocks
<1>2. /\ \A u \in Threads : u # t => op'[u] = op[u]
      /\ op[t] = Idle /\ later' = later + 1
      /\ pending' = [pending EXCEPT ![o] = pending'[o]]
      /\ pending'[o] = IF pending[o] = None THEN later' ELSE pending[o]
      /\ op'[t].at = "arm" /\ op'[t].ev = Event(o, "later", pending'[o])
      /\ op'[t].fresh = (pending[o] = None) /\ op'[t].taken = <<>> /\ op'[t].timers = {}
  BY CallLaterDoes
<1>3. Hand(op[t]) = {} /\ op'[t].taken = op[t].taken
  BY <1>2, IdleHand
<1>4. CASE pending[o] = None
  <2>1. op'[t].ev.to = o /\ op'[t].ev.kind = "later" /\ op'[t].ev.arg = later'
    BY <1>2, <1>4, EventFields
  <2>2. Hand(op'[t]) = {LaterItem(o, later')}
    BY <1>2, <1>4, <2>1, HandIs, CargoIs
  <2>3. LaterItem(o, later') \notin Carried
    <3>1. later' \in Nat /\ ~(later' <= later)
      BY <1>2, Typed
    <3> QED
      BY <3>1, CountsAre
  <2>4. Apart' /\ AllSingle' /\ Carried' = Carried \cup {LaterItem(o, later')}
    BY <1>1, <1>2, <1>3, <2>2, <2>3, HandFilled
  <2>5. pending' = [pending EXCEPT ![o] = later']
    BY <1>2, <1>4
  <2> QED
    BY <1>1, <1>2, <2>4, <2>5, NodeMade DEF LaneInv
<1>5. CASE pending[o] # None
  <2>1. ~op'[t].fresh
    BY <1>2, <1>5
  <2>2. Hand(op'[t]) = {}
    BY <1>2, <2>1, HandIs
  <2>3. Apart' /\ AllSingle' /\ Carried' = Carried
    BY <1>1, <1>2, <1>3, <2>2, StillLanes
  <2>4. pending' = pending
    <3>1. pending \in [Objects -> 1 .. MaxLater \cup {None}]
      BY Typed
    <3>2. pending' = [pending EXCEPT ![o] = pending[o]]
      BY <1>2, <1>5
    <3> QED
      BY ONLY <3>1, <3>2
  <2> QED
    BY <1>1, <1>2, <2>3, <2>4, NodeAsked DEF LaneInv
<1> QED
  BY <1>4, <1>5

LEMMA ArmLanes ==
    ASSUME AffinityInv, NEW t \in Threads, Arm(t)
    PROVE  LaneInv'
<1>1. /\ queue' = queue /\ parked' = parked /\ timerAt' = timerAt /\ outcome' = outcome
      /\ ids' = ids /\ pool' = pool /\ abandoned' = abandoned /\ pending' = pending /\ later' = later
      /\ op[t].at = "arm"
  BY DEF Arm, posted, clocks
<1>2. /\ \A u \in Threads : u # t => op'[u] = op[u]
      /\ op[t].fresh => op'[t].at = "resolve" /\ op'[t].ev = op[t].ev /\ op'[t].taken = <<>>
      /\ ~op[t].fresh => op'[t] = Idle
  BY ArmDoes
<1>3. op[t].taken = <<>> /\ op[t].timers = {}
  BY <1>1, OpOf DEF StepIsSound, Travelling
<1>4. Hand(op'[t]) = Hand(op[t]) /\ op'[t].taken = op[t].taken
  <2>1. CASE op[t].fresh
    BY <1>1, <1>2, <1>3, <2>1, HandIs DEF Posting
  <2>2. CASE ~op[t].fresh
    BY <1>1, <1>2, <1>3, <2>2, HandIs, IdleHand
  <2> QED
    BY <2>1, <2>2
<1>5. Apart' /\ AllSingle' /\ Carried' = Carried
  BY <1>1, <1>2, <1>4, StillLanes
<1> QED
  BY <1>1, <1>5, CountsStay DEF LaneInv

LEMMA UnlistLanes ==
    ASSUME AffinityInv, NEW t \in Threads, Unlist(t)
    PROVE  LaneInv'
<1>1. /\ queue' = queue /\ parked' = parked /\ timerAt' = timerAt /\ outcome' = outcome
      /\ ids' = ids /\ pool' = pool /\ abandoned' = abandoned /\ later' = later
      /\ op[t].at = "unlist" /\ Done(t) /\ pending' = [pending EXCEPT ![op[t].ev.to] = None]
  BY DEF Unlist, posted, clocks
<1>2. op'[t] = Idle /\ \A u \in Threads : u # t => op'[u] = op[u]
  BY <1>1, DoneDoes
<1>3. op[t].ev \in Events /\ op[t].ev.kind = "later" /\ op[t].taken = <<>>
  BY <1>1, OpOf DEF StepIsSound
<1>4. op[t].ev.to \in Objects /\ op[t].ev.arg \in Nat
  BY <1>3, EventTypes
<1>5. Hand(op[t]) = {LaterItem(op[t].ev.to, op[t].ev.arg)}
  BY <1>1, <1>3, HandIs, CargoIs
<1>6. Apart' /\ AllSingle' /\ Carried' = Carried \ {LaterItem(op[t].ev.to, op[t].ev.arg)}
  BY <1>1, <1>2, <1>3, <1>5, IdleHand, HandEmptied
<1> QED
  BY <1>1, <1>4, <1>6, NodeFreed DEF LaneInv

LEMMA DisarmLanes ==
    ASSUME AffinityInv, NEW t \in Threads, Disarm(t)
    PROVE  LaneInv'
<1>1. /\ queue' = queue /\ parked' = parked /\ timerAt' = timerAt /\ outcome' = outcome
      /\ ids' = ids /\ pool' = pool /\ abandoned' = abandoned /\ later' = later
      /\ op[t].at = "disarm" /\ Done(t) /\ pending' = pending
  BY DEF Disarm, posted, clocks
<1>2. op'[t] = Idle /\ \A u \in Threads : u # t => op'[u] = op[u]
  BY <1>1, DoneDoes
<1>3. op[t].taken = <<>> /\ op[t].timers = {}
  BY <1>1, OpOf DEF StepIsSound, Travelling
<1>4. Hand(op'[t]) = Hand(op[t]) /\ op'[t].taken = op[t].taken
  BY <1>1, <1>2, <1>3, HandIs, IdleHand
<1>5. Apart' /\ AllSingle' /\ Carried' = Carried
  BY <1>1, <1>2, <1>4, StillLanes
<1> QED
  BY <1>1, <1>5, CountsStay DEF LaneInv

LEMMA DeliverLanes ==
    ASSUME AffinityInv, NEW t \in Threads, Deliver(t)
    PROVE  LaneInv'
<1>1. /\ parked' = parked /\ timerAt' = timerAt /\ op' = op
      /\ ids' = ids /\ pool' = pool /\ abandoned' = abandoned /\ later' = later /\ pending' = pending
      /\ Takes(t, "call") /\ outcome' = [outcome EXCEPT ![Head(queue[t]).arg] = "ran"]
  BY DEF Deliver, clocks, registry, Settle
<1>2. /\ queue[t] # <<>> /\ Head(queue[t]) \in Events /\ Head(queue[t]).kind = "call"
      /\ queue' = [queue EXCEPT ![t] = Tail(queue[t])]
  BY <1>1, TakesDoes
<1> DEFINE c == Head(queue[t]).arg
<1>3. Cargo(Head(queue[t])) = {CallItem(c)} /\ c \in Nat
  BY <1>2, CargoIs, EventTypes
<1>4. Apart' /\ AllSingle' /\ Carried' = Carried \ {CallItem(c)}
  BY <1>1, <1>2, <1>3, QueueDelivers
<1>5. CallItem(c) \in Carried
  BY <1>2, <1>3, QueuedIsCarried
<1>6. outcome' = [outcome EXCEPT ![c] = "ran"]
  BY <1>1
<1> HIDE DEF c
<1> QED
  BY <1>1, <1>3, <1>4, <1>5, <1>6, CallSettled DEF LaneInv

LEMMA DeliverLaterLanes ==
    ASSUME AffinityInv, NEW t \in Threads, DeliverLater(t)
    PROVE  LaneInv'
<1>1. /\ parked' = parked /\ timerAt' = timerAt /\ outcome' = outcome
      /\ ids' = ids /\ pool' = pool /\ abandoned' = abandoned /\ later' = later
      /\ Takes(t, "later") /\ pending' = [pending EXCEPT ![Head(queue[t]).to] = None]
  BY DEF DeliverLater, clocks
<1>2. /\ queue[t] # <<>> /\ Head(queue[t]) \in Events /\ Head(queue[t]).kind = "later"
      /\ queue' = [queue EXCEPT ![t] = Tail(queue[t])] /\ op[t] = Idle
  BY <1>1, TakesDoes
<1>3. /\ \A u \in Threads : u # t => op'[u] = op[u]
      /\ op'[t].at = "disarm" /\ op'[t].taken = <<>> /\ op'[t].timers = {}
  BY DeliverLaterDoes
<1>4. Hand(op'[t]) = Hand(op[t]) /\ op'[t].taken = op[t].taken
  BY <1>2, <1>3, IdleHand, HandIs
<1> DEFINE o == Head(queue[t]).to
           n == Head(queue[t]).arg
<1>5. Cargo(Head(queue[t])) = {LaterItem(o, n)} /\ o \in Objects /\ n \in Nat
  BY <1>2, CargoIs, EventTypes
<1>6. Apart' /\ AllSingle' /\ Carried' = Carried \ {LaterItem(o, n)}
  BY <1>1, <1>2, <1>3, <1>4, <1>5, QueueDelivers
<1> QED
  BY <1>1, <1>5, <1>6, NodeFreed DEF LaneInv

\* Timers that are delivered are registered where they are: their object lives there.
LEMMA TimersReturn ==
    ASSUME AffinityInv, NEW t \in Threads, DeliverTimers(t)
    PROVE  LET e == Head(queue[t]) IN
           /\ e \in Events /\ e \in ToSet(queue[t]) /\ e.kind = "timers" /\ home[e.to] = t
           /\ op[t] = Idle /\ queue' = [queue EXCEPT ![t] = Tail(queue[t])]
           /\ timerAt' = [timerAt EXCEPT ![t] = [i \in TimerIds |-> IF i \in e.arg THEN e.to ELSE timerAt[t][i]]]
<1> DEFINE e == Head(queue[t])
<1>1. /\ op[t] = Idle /\ loop[t] = "up" /\ queue[t] \in Seq(Events) /\ queue[t] # <<>>
      /\ e \in Events /\ e.kind = "timers" /\ queue' = [queue EXCEPT ![t] = Tail(queue[t])]
  BY TakesDoes DEF DeliverTimers
<1>2. e \in ToSet(queue[t])
  BY <1>1, EventsOfTail
<1> HIDE DEF e
<1>3. ~e.stray /\ (~e.stray => home[e.to] = t \/ t \in Moving(e.to))
  BY <1>1, <1>2 DEF AffinityInv, MovesAreSound, TimerEventsFollow, EventsFollow
<1>4. t \notin Moving(e.to)
  BY <1>1, IdleTypes DEF Moving
<1>5. home[e.to] = t /\ t # None
  BY <1>3, <1>4, Numbers
<1>6. timerAt' = [timerAt EXCEPT ![t] = [i \in TimerIds |-> IF i \in e.arg THEN e.to ELSE timerAt[t][i]]]
  BY <1>1, <1>5 DEF DeliverTimers, e
<1> QED
  BY <1>1, <1>2, <1>5, <1>6 DEF e

LEMMA ObjectsAreThere ==
    \A o \in Objects : o # None
BY Numbers

\* Clocks that keep what is carried apart.
LEMMA ClockIsCarried ==
    ASSUME AffinityInv, NEW t \in Threads, NEW o \in Objects, NEW i \in TimerIds, timerAt[t][i] = o
    PROVE  TimerItem(o, i) \in Lane(<<"clock", t>>) /\ TimerItem(o, i) \in Carried /\ i \in ids[o]
<1>1. TimerItem(o, i) \in Clock(timerAt[t])
  BY ClockHas, Numbers
<1>2. TimerItem(o, i) \in Lane(<<"clock", t>>) /\ TimerItem(o, i) \in Carried
  BY <1>1, LaneIs, LaneNames, LaneIsCarried
<1> QED
  BY <1>2, CountsAre

LEMMA DeliverTimersLanes ==
    ASSUME AffinityInv, NEW t \in Threads, DeliverTimers(t)
    PROVE  LaneInv'
<1> DEFINE e == Head(queue[t])
           o == e.to
           F == e.arg
           X == Cargo(e)
           p == <<"queued", t>>
           q == <<"clock", t>>
<1>1. /\ e \in Events /\ e.kind = "timers" /\ queue' = [queue EXCEPT ![t] = Tail(queue[t])]
      /\ timerAt' = [timerAt EXCEPT ![t] = [i \in TimerIds |-> IF i \in F THEN o ELSE timerAt[t][i]]]
  BY TimersReturn
<1>2. /\ parked' = parked /\ op' = op /\ outcome' = outcome /\ queue[t] # <<>>
      /\ ids' = ids /\ pool' = pool /\ abandoned' = abandoned /\ later' = later /\ pending' = pending
  BY DEF DeliverTimers, registry, Takes
<1>3. X = {TimerItem(o, i) : i \in F} /\ F \in SUBSET TimerIds /\ o \in Objects
  BY <1>1, CargoIs, EventTypes
<1>4. /\ X \subseteq Lane(p) /\ Lane(p)' = Lane(p) \ X
      /\ Single(queue'[t]) /\ \A u \in Threads : u # t => queue'[u] = queue[u]
  BY <1>1, <1>2, QueueLoses
<1>5. p \in Lanes /\ q \in Lanes /\ p # q
  BY LaneNames
<1>6. ASSUME NEW i \in F, timerAt[t][i] # None PROVE FALSE
  <2> DEFINE r == timerAt[t][i]
  <2>1. i \in TimerIds /\ r \in Objects
    BY <1>3, <1>6, Typed
  <2>2. TimerItem(r, i) \in Lane(q) /\ i \in ids[r]
    BY <2>1, ClockIsCarried
  <2>3. TimerItem(o, i) \in Lane(p)
    BY <1>3, <1>4
  <2>4. TimerItem(o, i) \in Carried
    BY <1>5, <2>3, LaneIsCarried
  <2>5. i \in ids[o]
    BY <1>3, <2>1, <2>4, CountsAre
  <2>6. r = o
    BY <1>3, <2>1, <2>2, <2>5, CountsAre
  <2>7. Lane(p) \cap Lane(q) = {}
    BY <1>5, LanesAre DEF Apart
  <2> QED
    BY <2>2, <2>3, <2>6, <2>7
<1>7. /\ timerAt'[t] = [i \in TimerIds |-> IF i \in F THEN o ELSE timerAt[t][i]]
      /\ \A u \in Threads : u # t => timerAt'[u] = timerAt[u]
  <2> HIDE DEF F, o
  <2> QED
    BY <1>1, Typed
<1>8. Clock(timerAt'[t]) = Clock(timerAt[t]) \cup TimerItems(o, F)
  <2>1. \A i \in TimerIds : timerAt'[t][i] = IF i \in F THEN o ELSE timerAt[t][i]
    BY <1>7
  <2>2. \A i \in F : timerAt[t][i] = None
    BY <1>6
  <2>3. o # None
    BY <1>3, ObjectsAreThere
  <2> HIDE DEF F, o
  <2> QED
    BY <1>3, <2>1, <2>2, <2>3, ClockGainsAt
<1>9. Lane(q)' = Lane(q) \cup X
  BY <1>3, <1>8, LaneIs DEF TimerItems
<1>10. \A r \in Lanes : r \notin {p, q} => Lane(r)' = Lane(r)
  BY <1>2, <1>4, <1>7, OtherLanes
<1>11. \A r \in Lanes : r # p /\ r # q => Lane(r)' = Lane(r)
  BY <1>10
<1>12. Apart' /\ Carried' = Carried
  <2> HIDE DEF p, q, X
  <2> QED
    BY <1>4, <1>5, <1>9, <1>11, LaneMoves, LanesAre
<1>13. AllSingle'
  BY <1>2, <1>4, AllSingleStays
<1> QED
  BY <1>2, <1>12, <1>13, CountsStay DEF LaneInv

LEMMA StartTimerLanes ==
    ASSUME AffinityInv, NEW t \in Threads, NEW o \in Objects, NEW i \in TimerIds, StartTimer(t, o, i)
    PROVE  LaneInv'
<1> DEFINE q == <<"clock", t>>
           X == {TimerItem(o, i)}
<1>1. /\ queue' = queue /\ parked' = parked /\ op' = op /\ outcome' = outcome
      /\ i \in pool /\ timerAt' = [timerAt EXCEPT ![t][i] = o] /\ pool' = pool \ {i}
      /\ ids' = [ids EXCEPT ![o] = @ \cup {i}]
      /\ abandoned' = abandoned /\ later' = later /\ pending' = pending
  BY DEF StartTimer, posted, registry
<1>2. timerAt[t][i] = None
  <2>1. \A r \in Objects : i \notin ids[r]
    BY <1>1, CountsAre
  <2>2. timerAt[t][i] \in Objects \cup {None}
    BY Typed
  <2>3. timerAt[t][i] \in Objects => i \in ids[timerAt[t][i]]
    BY ClockIsCarried
  <2> QED
    BY <2>1, <2>2, <2>3
<1>3. /\ \A j \in TimerIds : timerAt'[t][j] = IF j \in {i} THEN o ELSE timerAt[t][j]
      /\ \A u \in Threads : u # t => timerAt'[u] = timerAt[u]
  BY <1>1, Typed
<1>4. Clock(timerAt'[t]) = Clock(timerAt[t]) \cup TimerItems(o, {i})
  <2>1. {i} \in SUBSET TimerIds /\ o # None /\ \A j \in {i} : timerAt[t][j] = None
    BY <1>2, ObjectsAreThere
  <2> QED
    BY <1>3, <2>1, ClockGainsAt
<1>5. q \in Lanes /\ Lane(q)' = Lane(q) \cup X
  <2>1. TimerItems(o, {i}) = X
    BY DEF TimerItems
  <2> QED
    BY <1>4, <2>1, LaneIs, LaneNames
<1>6. \A r \in Lanes : r \notin {q} => Lane(r)' = Lane(r)
  BY <1>1, <1>3, OtherLanes
<1>7. X \cap Carried = {}
  BY <1>1, CountsAre
<1>8. Apart' /\ Carried' = Carried \cup X
  <2> HIDE DEF q, X
  <2> QED
    BY <1>5, <1>6, <1>7, LaneGains, LanesAre
<1>9. AllSingle'
  BY <1>1, AllSingleStays
<1> QED
  BY <1>1, <1>8, <1>9, TimerMade DEF LaneInv

LEMMA KillTimerLanes ==
    ASSUME AffinityInv, Careful, NEW t \in Threads, NEW o \in Objects, NEW i \in TimerIds, KillTimer(t, o, i)
    PROVE  LaneInv'
<1> DEFINE q == <<"clock", t>>
           F == {i}
           X == TimerItems(o, F)
<1>1. /\ queue' = queue /\ parked' = parked /\ op' = op /\ outcome' = outcome
      /\ timerAt[t][i] = o /\ timerAt' = [timerAt EXCEPT ![t][i] = None]
      /\ ids' = [ids EXCEPT ![o] = @ \ F] /\ pool' = IF i \in ids[o] THEN pool \cup F ELSE pool
      /\ abandoned' = abandoned /\ later' = later /\ pending' = pending
  BY DEF KillTimer, MayKill, posted, registry
<1>2. i \in ids[o]
  BY <1>1, ClockIsCarried
<1>3. /\ \A j \in TimerIds : timerAt'[t][j] = IF j \in F THEN None ELSE timerAt[t][j]
      /\ \A u \in Threads : u # t => timerAt'[u] = timerAt[u]
  BY <1>1, Typed
<1>4. Clock(timerAt'[t]) = Clock(timerAt[t]) \ X /\ X \subseteq Clock(timerAt[t])
  <2>1. \A j \in F : timerAt[t][j] = o
    BY <1>1
  <2>2. F \in SUBSET TimerIds /\ o # None
    BY ObjectsAreThere
  <2> HIDE DEF F
  <2> QED
    BY <1>3, <2>1, <2>2, ClockLosesAt
<1>5. q \in Lanes /\ Lane(q)' = Lane(q) \ X /\ X \subseteq Lane(q)
  BY <1>4, LaneIs, LaneNames
<1>6. \A r \in Lanes : r \notin {q} => Lane(r)' = Lane(r)
  BY <1>1, <1>3, OtherLanes
<1>7. Apart' /\ Carried' = Carried \ X
  <2> HIDE DEF q, X
  <2> QED
    BY <1>5, <1>6, LaneLoses, LanesAre
<1>8. AllSingle'
  BY <1>1, AllSingleStays
<1>9. pool' = pool \cup F /\ F \subseteq ids[o]
  BY <1>1, <1>2
<1>10. Carried' = Carried \ {TimerItem(o, j) : j \in F}
  BY <1>7 DEF TimerItems
<1> HIDE DEF F
<1> QED
  BY <1>1, <1>8, <1>7, <1>9, <1>10, TimersGone DEF LaneInv

LEMMA BeginMoveLanes ==
    ASSUME AffinityInv, NEW t \in Threads, NEW o \in Objects, NEW d \in Threads \cup {None},
           BeginMove(t, o, d)
    PROVE  LaneInv'
<1> DEFINE F == IF home[o] = t THEN RegisteredAt(t, o) ELSE {}
           X == TimerItems(o, F)
           p == <<"clock", t>>
           q == <<"hand", t>>
<1>1. /\ queue' = queue /\ parked' = parked /\ outcome' = outcome /\ ids' = ids /\ pool' = pool
      /\ abandoned' = abandoned /\ later' = later /\ pending' = pending
      /\ timerAt' = [timerAt EXCEPT ![t] = [i \in TimerIds |-> IF i \in F THEN None ELSE timerAt[t][i]]]
  BY DEF BeginMove, posted, registry
<1>2. /\ \A u \in Threads : u # t => op'[u] = op[u]
      /\ op[t] = Idle /\ op'[t].at = "swap" /\ op'[t].ev = Event(o, "move", 0)
      /\ op'[t].taken = <<>> /\ op'[t].timers = F
  BY BeginMoveDoes
<1>3. F \in SUBSET TimerIds /\ \A i \in F : timerAt[t][i] = o
  BY DEF RegisteredAt
<1> HIDE DEF F
<1>4. /\ \A i \in TimerIds : timerAt'[t][i] = IF i \in F THEN None ELSE timerAt[t][i]
      /\ \A u \in Threads : u # t => timerAt'[u] = timerAt[u]
  BY <1>1, Typed
<1>5. Clock(timerAt'[t]) = Clock(timerAt[t]) \ X /\ X \subseteq Clock(timerAt[t])
  BY <1>3, <1>4, ObjectsAreThere, ClockLosesAt
<1>6. Hand(op'[t]) = X /\ Hand(op[t]) = {}
  BY <1>2, HandIs, EventFields, IdleHand DEF Travelling, TimerItems
<1>7. /\ p \in Lanes /\ q \in Lanes /\ p # q /\ X \subseteq Lane(p)
      /\ Lane(p)' = Lane(p) \ X /\ Lane(q)' = Lane(q) \cup X
  BY <1>5, <1>6, LaneIs, LaneNames
<1>8. \A r \in Lanes : r \notin {p, q} => Lane(r)' = Lane(r)
  BY <1>1, <1>2, <1>4, IdleHand, OtherLanes
<1>9. \A r \in Lanes : r # p /\ r # q => Lane(r)' = Lane(r)
  BY <1>8
<1>10. Apart' /\ Carried' = Carried
  <2> HIDE DEF p, q, X
  <2> QED
    BY <1>7, <1>9, LaneMoves, LanesAre
<1>11. \A u \in Threads : op'[u].taken = op[u].taken
  BY <1>2, IdleHand
<1>12. AllSingle'
  BY <1>1, <1>11, AllSingleStays
<1> QED
  BY <1>1, <1>10, <1>12, CountsStay DEF LaneInv

\* What comes after the sweeps has the same timers in hand.
LEMMA AfterSweepsHand ==
    ASSUME AffinityInv, NEW t \in Threads, op[t].at \in Travelling
    PROVE  Hand(AfterSweeps(t)) = Hand(op[t])
<1>1. Hand(op[t]) = {TimerItem(op[t].ev.to, i) : i \in op[t].timers}
  BY HandIs
<1>2. CASE op[t].timers = {}
  BY <1>1, <1>2, AfterSweepsIs, IdleHand
<1>3. CASE op[t].timers # {} /\ op[t].data = None
  BY <1>1, <1>3, AfterSweepsIs, HandIs DEF Travelling
<1>4. CASE op[t].timers # {} /\ op[t].data # None
  <2> DEFINE e == Event(op[t].ev.to, "timers", op[t].timers)
  <2>1. AfterSweeps(t).at = "resolve" /\ AfterSweeps(t).ev = e
    BY <1>4, AfterSweepsIs
  <2>2. e.to = op[t].ev.to /\ e.kind = "timers" /\ e.arg = op[t].timers
    BY EventFields
  <2> HIDE DEF e
  <2>3. Hand(AfterSweeps(t)) = Cargo(e)
    BY <2>1, HandIs DEF Posting
  <2>4. Cargo(e) = {TimerItem(e.to, i) : i \in e.arg}
    BY <2>2, CargoIs
  <2> QED
    BY <1>1, <2>2, <2>3, <2>4
<1> QED
  BY <1>2, <1>3, <1>4

LEMMA TravelsOn ==
    ASSUME NEW m, NEW n, m.at \in Travelling, n.at \in Travelling, m.ev = n.ev, m.timers = n.timers
    PROVE  Hand(m) = Hand(n)
<1>1. Hand(m) = {TimerItem(m.ev.to, i) : i \in m.timers}
  BY HandIs
<1>2. Hand(n) = {TimerItem(n.ev.to, i) : i \in n.timers}
  BY HandIs
<1> QED
  BY <1>1, <1>2

LEMMA SwapLanes ==
    ASSUME AffinityInv, NEW t \in Threads, Swap(t)
    PROVE  LaneInv'
<1>1. /\ queue' = queue /\ parked' = parked /\ timerAt' = timerAt /\ outcome' = outcome
      /\ ids' = ids /\ pool' = pool /\ abandoned' = abandoned /\ later' = later /\ pending' = pending
      /\ op[t].at = "swap" /\ op[t].at \in Travelling
  BY DEF Swap, posted, clocks, registry, Travelling
<1>2. /\ \A u \in Threads : u # t => op'[u] = op[u]
      /\ home[op[t].ev.to] = None => op'[t] = AfterSweeps(t)
      /\ home[op[t].ev.to] # None =>
            op'[t].at = "sweep" /\ op'[t].ev = op[t].ev /\ op'[t].taken = op[t].taken /\ op'[t].timers = op[t].timers
  BY SwapDoes
<1>3. op[t].taken = <<>>
  BY <1>1, OpOf DEF StepIsSound
<1>4. Hand(op'[t]) = Hand(op[t]) /\ op'[t].taken = op[t].taken
  <2>1. CASE home[op[t].ev.to] = None
    BY <1>1, <1>2, <1>3, <2>1, AfterSweepsHand, AfterSweepsIs
  <2>2. CASE home[op[t].ev.to] # None
    BY <1>1, <1>2, <2>2, TravelsOn DEF Travelling
  <2> QED
    BY <2>1, <2>2
<1>5. Apart' /\ AllSingle' /\ Carried' = Carried
  BY <1>1, <1>2, <1>4, StillLanes
<1> QED
  BY <1>1, <1>5, CountsStay DEF LaneInv

LEMMA SweepLanes ==
    ASSUME AffinityInv, NEW t \in Threads, Sweep(t)
    PROVE  LaneInv'
<1>1. /\ parked' = parked /\ timerAt' = timerAt /\ outcome' = outcome
      /\ ids' = ids /\ pool' = pool /\ abandoned' = abandoned /\ later' = later /\ pending' = pending
      /\ op[t].at = "sweep" /\ op[t].at \in Travelling
  BY DEF Sweep, clocks, registry, Travelling
<1>2. /\ \A u \in Threads : u # t => op'[u] = op[u]
      /\ queue'[t] = Picked(queue[t], Positions(queue[t]) \ Ours(t))
      /\ \A u \in Threads : u # t => queue'[u] = queue[u]
      /\ Swept(t) = <<>> => op'[t] = AfterSweeps(t)
      /\ Swept(t) # <<>> =>
            op'[t].at = "repost" /\ op'[t].ev = op[t].ev /\ op'[t].taken = Swept(t) /\ op'[t].timers = op[t].timers
  BY SweepDoes
<1>3. op[t].taken = <<>> /\ Ours(t) \in SUBSET Positions(queue[t])
  BY <1>1, OpOf DEF StepIsSound, Ours
<1>4. Hand(op'[t]) = Hand(op[t]) /\ op'[t].taken = Picked(queue[t], Ours(t))
  <2>1. CASE Swept(t) = <<>>
    BY <1>1, <1>2, <2>1, AfterSweepsHand, AfterSweepsIs DEF Swept
  <2>2. CASE Swept(t) # <<>>
    BY <1>1, <1>2, <2>2, TravelsOn DEF Travelling, Swept
  <2> QED
    BY <2>1, <2>2
<1>5. Apart' /\ AllSingle' /\ Carried' = Carried
  <2>1. \A u \in Threads : u # t => op'[u] = op[u] /\ queue'[u] = queue[u]
    BY <1>2
  <2> QED
    BY <1>1, <1>2, <1>3, <1>4, <2>1, QueueSwept
<1> QED
  BY <1>1, <1>5, CountsStay DEF LaneInv

LEMMA AfterRepostHand ==
    ASSUME AffinityInv, NEW t \in Threads, op[t].at = "repost", Goes(t, AfterRepost(t))
    PROVE  /\ Hand(op'[t]) = Hand(op[t]) /\ op'[t].taken = Tail(op[t].taken)
           /\ \A u \in Threads : u # t => op'[u] = op[u]
<1>1. op'[t] = AfterRepost(t) /\ \A u \in Threads : u # t => op'[u] = op[u]
  BY AfterRepostDoes
<1>2. AfterRepost(t).taken = Tail(op[t].taken)
  BY AfterRepostIs
<1>3. CASE /\ AfterRepost(t).at \in {"repost", "sweep"}
           /\ AfterRepost(t).ev = op[t].ev /\ AfterRepost(t).timers = op[t].timers
  BY <1>1, <1>2, <1>3, HandIs DEF Travelling
<1>4. CASE AfterRepost(t) = AfterSweeps(t)
  BY <1>1, <1>2, <1>4, AfterSweepsHand DEF Travelling
<1> QED
  BY <1>3, <1>4, AfterRepostIs

LEMMA RepostLanes ==
    ASSUME AffinityInv, NEW t \in Threads, Repost(t)
    PROVE  LaneInv'
<1> DEFINE d == op[t].data
           e == Landed(Head(op[t].taken), d)
<1>1. /\ timerAt' = timerAt /\ outcome' = outcome
      /\ ids' = ids /\ pool' = pool /\ abandoned' = abandoned /\ later' = later /\ pending' = pending
      /\ op[t].at = "repost" /\ Goes(t, AfterRepost(t)) /\ d \in Threads
  BY OpOf DEF Repost, clocks, registry
<1>2. /\ Hand(op'[t]) = Hand(op[t]) /\ op'[t].taken = Tail(op[t].taken)
      /\ \A u \in Threads : u # t => op'[u] = op[u]
  BY <1>1, AfterRepostHand
<1>3. e \in Events /\ Cargo(e) = Cargo(Head(op[t].taken))
  BY <1>1, AfterRepostIs, LandedIsEvent
<1>4. CASE loop[d] = "up"
  <2>1. queue' = [queue EXCEPT ![d] = Append(@, e)] /\ parked' = parked
    BY <1>4 DEF Repost
  <2> HIDE DEF d, e
  <2>2. Apart' /\ AllSingle' /\ Carried' = Carried
    BY <1>1, <1>2, <1>3, <2>1, TakenQueued
  <2> QED
    BY <1>1, <2>2, CountsStay DEF LaneInv
<1>5. CASE loop[d] # "up"
  <2>1. parked' = [parked EXCEPT ![d] = Append(@, e)] /\ queue' = queue
    BY <1>5 DEF Repost
  <2> HIDE DEF d, e
  <2>2. Apart' /\ AllSingle' /\ Carried' = Carried
    BY <1>1, <1>2, <1>3, <2>1, TakenParked
  <2> QED
    BY <1>1, <2>2, CountsStay DEF LaneInv
<1> QED
  BY <1>4, <1>5

\* A move to no thread has all the timers in hand: no event it deletes has any.
LEMMA NoTimersDropped ==
    ASSUME AffinityInv, NEW t \in Threads, op[t].at = "repost", op[t].data = None
    PROVE  Head(op[t].taken).kind # "timers"
<1> DEFINE e == Head(op[t].taken)
           o == op[t].ev.to
<1>1. /\ e \in Events /\ op[t].taken # <<>> /\ op[t].taken \in Seq(Events) /\ Single(op[t].taken)
  BY AfterRepostIs, OpOf, LanesAre
<1>2. e \in ToSet(op[t].taken) /\ Cargo(e) \subseteq Load(op[t].taken)
  BY <1>1, LoadOfTail, EventsOfTail
<1>3. e.to = o /\ o \in Objects /\ ids[o] \subseteq op[t].timers
  <2>1. e.to = o
    BY <1>2, OpOf DEF StepIsSound
  <2>2. o \in Objects
    BY Traveller DEF Travelling
  <2>3. ids[o] \subseteq op[t].timers
    BY DEF AffinityInv, MovesAreSound, MoverIsSound
  <2> QED
    BY <2>1, <2>2, <2>3
<1> SUFFICES ASSUME e.kind = "timers" PROVE FALSE
  OBVIOUS
<1>4. PICK i \in e.arg : i \in TimerIds
  <2>1. e \in Held(t)
    <3>1. Line(t)["taken"] = op[t].taken
      BY DEF Line
    <3> QED
      BY <1>2, <3>1 DEF Held, Lines
  <2>2. e.arg # {} /\ e.arg \in SUBSET TimerIds
    BY <1>1, <2>1, EventTypes DEF AffinityInv, MovesAreSound, TimersInEvents
  <2> QED
    BY <2>2
<1>5. TimerItem(o, i) \in Cargo(e)
  BY <1>3, CargoIs
<1>6. TimerItem(o, i) \in Lane(<<"taken", t>>)
  BY <1>2, <1>5, LaneIs
<1>7. i \in op[t].timers
  <2>1. TimerItem(o, i) \in Carried
    BY <1>6, LaneNames, LaneIsCarried
  <2>2. i \in ids[o]
    BY <1>3, <1>4, <2>1, CountsAre
  <2> QED
    BY <1>3, <2>2
<1>8. TimerItem(o, i) \in Lane(<<"hand", t>>)
  BY <1>7, HandIs, LaneIs DEF Travelling
<1> QED
  BY <1>6, <1>8, LaneNames, LanesAre DEF Apart

LEMMA DropLanes ==
    ASSUME AffinityInv, NEW t \in Threads, Drop(t)
    PROVE  LaneInv'
<1> DEFINE e == Head(op[t].taken)
<1>1. /\ queue' = queue /\ parked' = parked /\ timerAt' = timerAt
      /\ ids' = ids /\ pool' = pool /\ later' = later /\ pending' = pending
      /\ op[t].at = "repost" /\ op[t].data = None /\ Goes(t, AfterRepost(t))
  BY DEF Drop, posted, clocks
<1>2. /\ Hand(op'[t]) = Hand(op[t]) /\ op'[t].taken = Tail(op[t].taken)
      /\ \A u \in Threads : u # t => op'[u] = op[u]
  BY <1>1, AfterRepostHand
<1>3. Apart' /\ AllSingle' /\ Carried' = Carried \ Cargo(e)
  BY <1>1, <1>2, TakenDropped
<1>4. e \in Events /\ e.kind \in {"call", "later"}
  <2>1. e \in Events
    BY <1>1, AfterRepostIs
  <2> QED
    BY <1>1, <2>1, EventTypes, NoTimersDropped
<1>5. Cargo(e) \subseteq Carried
  BY <1>1, TakenLoses, LaneNames, LaneIsCarried, <1>2
<1>6. CASE e.kind = "call"
  <2> DEFINE c == e.arg
  <2>1. outcome' = [outcome EXCEPT ![c] = "dropped"] /\ abandoned' = abandoned
    BY <1>6 DEF Drop, Settle
  <2>2. Cargo(e) = {CallItem(c)} /\ c \in Nat
    BY <1>4, <1>6, CargoIs, EventTypes
  <2> HIDE DEF c, e
  <2>3. Carried' = Carried \ {CallItem(c)} /\ CallItem(c) \in Carried
    BY <1>3, <1>5, <2>2
  <2> QED
    BY <1>1, <1>3, <2>1, <2>2, <2>3, CallSettled DEF LaneInv
<1>7. CASE e.kind = "later"
  <2> DEFINE o == e.to
             n == e.arg
  <2>1. outcome' = outcome /\ abandoned' = abandoned \cup {n}
    BY <1>7 DEF Drop
  <2>2. Cargo(e) = {LaterItem(o, n)} /\ o \in Objects /\ n \in Nat
    BY <1>4, <1>7, CargoIs, EventTypes
  <2> HIDE DEF o, n, e
  <2>3. Carried' = Carried \ {LaterItem(o, n)}
    BY <1>3, <2>2
  <2> QED
    BY <1>1, <1>3, <2>1, <2>2, <2>3, NodeDropped DEF LaneInv
<1> QED
  BY <1>4, <1>6, <1>7

LEMMA ForgetTimersLanes ==
    ASSUME AffinityInv, NEW t \in Threads, ForgetTimers(t)
    PROVE  LaneInv'
<1> DEFINE o == op[t].ev.to
           F == op[t].timers
<1>1. /\ queue' = queue /\ parked' = parked /\ timerAt' = timerAt /\ outcome' = outcome
      /\ pending' = pending /\ later' = later /\ abandoned' = abandoned
      /\ ids' = [ids EXCEPT ![o] = @ \ F] /\ pool' = pool \cup F
      /\ op[t].at = "forget" /\ op[t].at \in Travelling /\ Done(t)
  BY DEF ForgetTimers, posted, registry, Travelling
<1>2. op'[t] = Idle /\ \A u \in Threads : u # t => op'[u] = op[u]
  BY <1>1, DoneDoes
<1>3. op[t].taken = <<>> /\ o \in Objects /\ F \in SUBSET TimerIds
  BY <1>1, OpOf, Traveller DEF StepIsSound
<1>4. Hand(op[t]) = {TimerItem(o, i) : i \in F}
  BY <1>1, HandIs
<1>5. F \subseteq ids[o]
  <2>1. ASSUME NEW i \in F PROVE i \in ids[o]
    <3>1. TimerItem(o, i) \in Carried
      BY <1>4, HandIsCarried
    <3> QED
      BY <1>3, <3>1, CountsAre
  <2> QED
    BY <2>1
<1>6. Apart' /\ AllSingle' /\ Carried' = Carried \ Hand(op[t])
  BY <1>1, <1>2, <1>3, IdleHand, HandEmptied
<1> HIDE DEF o, F
<1> QED
  BY <1>1, <1>3, <1>4, <1>5, <1>6, TimersGone DEF LaneInv

-----------------------------------------------------------------------------
(* A pending node keeps its call.                                                               *)

\* The threads about to arm a node.
Armers(f, n) == {u \in Threads : f[u].at = "arm" /\ f[u].fresh /\ f[u].ev.kind = "later" /\ f[u].ev.arg = n}

LEMMA NodesAre ==
    ASSUME AffinityInv
    PROVE  /\ \A o, p \in Objects : pending[o] = pending[p] /\ pending[o] # None => o = p
           /\ \A o \in Objects : pending[o] # None => pending[o] <= later
           /\ \A u \in Threads : op[u].at = "arm" =>
                 \A o \in Objects : pending[o] = op[u].ev.arg => o = op[u].ev.to
           /\ \A u \in Threads : op[u].at = "disarm" => \A o \in Objects : pending[o] # op[u].ev.arg
           /\ \A o \in Objects : pending[o] # None /\ Armers(op, pending[o]) = {} => invoker[pending[o]] # 0
BY DEF AffinityInv, NodesHaveCalls, Arming, Handles, Armers

LEMMA NodesWillBe ==
    ASSUME \A o, p \in Objects : pending'[o] = pending'[p] /\ pending'[o] # None => o = p,
           \A o \in Objects : pending'[o] # None => pending'[o] <= later',
           \A u \in Threads : op'[u].at = "arm" =>
              \A o \in Objects : pending'[o] = op'[u].ev.arg => o = op'[u].ev.to,
           \A u \in Threads : op'[u].at = "disarm" => \A o \in Objects : pending'[o] # op'[u].ev.arg,
           \A o \in Objects : pending'[o] # None /\ Armers(op', pending'[o]) = {} => invoker'[pending'[o]] # 0
    PROVE  NodesHaveCalls'
BY DEF NodesHaveCalls, Arming, Handles, Armers

\* The threads about to arm a node go on doing so.
LEMMA ArmersStay ==
    ASSUME NEW n, \A u \in Threads : op[u].at = "arm" /\ op[u].fresh /\ op[u].ev.arg = n => op'[u] = op[u],
           Armers(op', n) = {}
    PROVE  Armers(op, n) = {}
<1>1. ASSUME NEW u \in Threads, u \in Armers(op, n) PROVE FALSE
  <2>1. op[u].at = "arm" /\ op[u].fresh /\ op[u].ev.kind = "later" /\ op[u].ev.arg = n
    BY <1>1 DEF Armers
  <2>2. op'[u] = op[u]
    BY <2>1
  <2>3. u \in Armers(op', n)
    BY <2>1, <2>2 DEF Armers
  <2> QED
    BY <2>3
<1>2. Armers(op, n) \subseteq Threads
  BY DEF Armers
<1> QED
  BY <1>1, <1>2

\* What an entry of the registry is, and a node in hand.
LEMMA NodeTypes ==
    ASSUME AffinityInv
    PROVE  /\ \A o \in Objects : pending[o] # None => pending[o] \in 1 .. MaxLater
           /\ \A u \in Threads : op[u].at \in {"arm", "unlist", "disarm"} =>
                 /\ op[u].ev \in Events /\ op[u].ev.kind = "later" /\ op[u].ev.to \in Objects
                 /\ op[u].ev.arg \in 1 .. MaxLater /\ op[u].ev.arg \in Nat /\ op[u].ev.arg <= later
<1>1. \A o \in Objects : pending[o] # None => pending[o] \in 1 .. MaxLater
  BY Typed
<1>2. ASSUME NEW u \in Threads, op[u].at \in {"arm", "unlist", "disarm"}
      PROVE  /\ op[u].ev \in Events /\ op[u].ev.kind = "later" /\ op[u].ev.to \in Objects
             /\ op[u].ev.arg \in 1 .. MaxLater /\ op[u].ev.arg \in Nat /\ op[u].ev.arg <= later
  <2>1. op[u].ev \in Events /\ op[u].ev.kind = "later" /\ op[u].ev.arg <= later
    BY <1>2, OpOf DEF StepIsSound
  <2>2. op[u].ev.to \in Objects /\ op[u].ev.arg \in 1 .. MaxLater /\ op[u].ev.arg \in Nat
    BY <2>1, EventTypes
  <2> QED
    BY <2>1, <2>2
<1> QED
  BY <1>1, <1>2

\* Entries are taken out, or left alone.
LEMMA NodesKeep ==
    ASSUME AffinityInv, later' = later, invoker' = invoker,
           \A p \in Objects : pending'[p] = pending[p] \/ pending'[p] = None,
           \A u \in Threads : op[u].at = "arm" /\ op[u].fresh => op'[u] = op[u],
           \A u \in Threads : op'[u].at = "arm" => op'[u] = op[u],
           \A u \in Threads : op'[u].at = "disarm" =>
              op'[u] = op[u] \/ \A p \in Objects : pending'[p] # op'[u].ev.arg
    PROVE  NodesHaveCalls'
<1>1. \A o, p \in Objects : pending'[o] = pending'[p] /\ pending'[o] # None => o = p
  BY NodesAre
<1>2. \A o \in Objects : pending'[o] # None => pending'[o] <= later'
  BY NodesAre
<1>3. ASSUME NEW u \in Threads, op'[u].at = "arm", NEW o \in Objects, pending'[o] = op'[u].ev.arg
      PROVE  o = op'[u].ev.to
  <2>1. op'[u] = op[u]
    BY <1>3
  <2>2. op[u].ev.arg \in Nat
    BY <1>3, <2>1, NodeTypes
  <2>3. pending'[o] = pending[o]
    BY <1>3, <2>1, <2>2, Numbers
  <2> QED
    BY <1>3, <2>1, <2>3, NodesAre
<1>4. ASSUME NEW u \in Threads, op'[u].at = "disarm", NEW o \in Objects, pending'[o] = op'[u].ev.arg
      PROVE  FALSE
  <2>1. op'[u] = op[u]
    BY <1>4
  <2>2. op[u].ev.arg \in Nat
    BY <1>4, <2>1, NodeTypes
  <2>3. pending'[o] = pending[o]
    BY <1>4, <2>1, <2>2, Numbers
  <2> QED
    BY <1>4, <2>1, <2>3, NodesAre
<1>5. ASSUME NEW o \in Objects, pending'[o] # None, Armers(op', pending'[o]) = {}
      PROVE  invoker'[pending'[o]] # 0
  <2>1. pending'[o] = pending[o]
    BY <1>5
  <2>2. Armers(op, pending[o]) = {}
    BY <1>5, <2>1, ArmersStay
  <2> QED
    BY <1>5, <2>1, <2>2, NodesAre
<1> QED
  BY <1>1, <1>2, <1>3, <1>4, <1>5, NodesWillBe


LEMMA CallLaterNodes ==
    ASSUME AffinityInv, NEW t \in Threads, NEW o \in Objects, CallLater(t, o)
    PROVE  NodesHaveCalls'
<1>1. /\ \A u \in Threads : u # t => op'[u] = op[u]
      /\ op[t] = Idle /\ later' = later + 1 /\ later' \in Nat /\ later \in Nat
      /\ pending' = [pending EXCEPT ![o] = pending'[o]]
      /\ pending'[o] = IF pending[o] = None THEN later' ELSE pending[o]
      /\ op'[t].at = "arm" /\ op'[t].ev = Event(o, "later", pending'[o])
      /\ op'[t].fresh = (pending[o] = None)
  BY CallLaterDoes, Typed
<1> invoker' = invoker
  BY DEF CallLater
<1>2. \A p \in Objects : p # o => pending'[p] = pending[p]
  BY <1>1, Typed
<1>3. op'[t].ev.to = o /\ op'[t].ev.kind = "later" /\ op'[t].ev.arg = pending'[o]
  BY <1>1, EventFields
<1>4. \A p \in Objects : pending[p] # None => pending[p] \in Nat /\ pending[p] <= later
  BY NodesAre, NodeTypes
<1>5. \A p \in Objects : pending[p] # later'
  BY <1>1, <1>4, Numbers
<1>6. \A p, q \in Objects : pending'[p] = pending'[q] /\ pending'[p] # None => p = q
  BY <1>1, <1>2, <1>5, NodesAre
<1>7. \A p \in Objects : pending'[p] # None => pending'[p] <= later'
  BY <1>1, <1>2, <1>4
<1>8. ASSUME NEW u \in Threads, op'[u].at = "arm", NEW p \in Objects, pending'[p] = op'[u].ev.arg
      PROVE  p = op'[u].ev.to
  <2>1. CASE u = t
    <3>1. pending'[o] # None
      BY <1>1, Numbers
    <3> QED
      BY <1>3, <1>6, <1>8, <2>1, <3>1
  <2>2. CASE u # t
    <3>1. op[u].at = "arm" /\ pending'[p] = op[u].ev.arg /\ op'[u] = op[u]
      BY <1>1, <1>8, <2>2
    <3>2. op[u].ev.arg \in Nat /\ op[u].ev.arg <= later
      BY <3>1, NodeTypes
    <3>3. pending'[p] = pending[p]
      BY <1>1, <1>2, <3>1, <3>2
    <3> QED
      BY <3>1, <3>3, NodesAre
  <2> QED
    BY <2>1, <2>2
<1>9. ASSUME NEW u \in Threads, op'[u].at = "disarm", NEW p \in Objects, pending'[p] = op'[u].ev.arg
      PROVE  FALSE
  <2>1. op[u].at = "disarm" /\ pending'[p] = op[u].ev.arg
    BY <1>1, <1>9
  <2>2. op[u].ev.arg \in Nat /\ op[u].ev.arg <= later
    BY <2>1, NodeTypes
  <2>3. pending'[p] = pending[p]
    BY <1>1, <1>2, <2>1, <2>2
  <2> QED
    BY <2>1, <2>3, NodesAre
<1>10. ASSUME NEW p \in Objects, pending'[p] # None, Armers(op', pending'[p]) = {}
       PROVE  invoker'[pending'[p]] # 0
  <2>1. pending'[p] = pending[p]
    <3>1. SUFFICES ASSUME p = o, pending[o] = None PROVE FALSE
      BY <1>1, <1>2
    <3>2. t \in Armers(op', pending'[o])
      BY <1>1, <1>3, <3>1 DEF Armers
    <3> QED
      BY <1>10, <3>1, <3>2
  <2>2. \A u \in Threads : op[u].at = "arm" => op'[u] = op[u]
    BY <1>1, IdleTypes
  <2>3. Armers(op, pending[p]) = {}
    BY <1>10, <2>1, <2>2, ArmersStay
  <2> QED
    BY <1>1, <1>10, <2>1, <2>3, NodesAre
<1> QED
  BY <1>6, <1>7, <1>8, <1>9, <1>10, NodesWillBe

LEMMA ArmNodes ==
    ASSUME AffinityInv, NEW t \in Threads, Arm(t)
    PROVE  NodesHaveCalls'
<1> DEFINE n == op[t].ev.arg
<1>1. /\ pending' = pending /\ later' = later /\ op[t].at = "arm"
      /\ invoker' = [invoker EXCEPT ![n] = op[t].value]
  BY DEF Arm
<1>2. /\ \A u \in Threads : u # t => op'[u] = op[u]
      /\ op'[t].at \notin {"arm", "disarm"}
  BY ArmDoes, IdleTypes
<1>3. op[t].value \in 1 .. later /\ later \in Nat
  BY <1>1, OpOf, Typed DEF StepIsSound
<1>4. ASSUME NEW u \in Threads, op'[u].at \in {"arm", "disarm"} PROVE op'[u] = op[u]
  BY <1>2, <1>4
<1>5. \A u \in Threads : op'[u].at = "arm" => \A o \in Objects : pending'[o] = op'[u].ev.arg => o = op'[u].ev.to
  BY <1>1, <1>4, NodesAre
<1>6. \A u \in Threads : op'[u].at = "disarm" => \A o \in Objects : pending'[o] # op'[u].ev.arg
  BY <1>1, <1>4, NodesAre
<1>7. ASSUME NEW o \in Objects, pending'[o] # None, Armers(op', pending'[o]) = {}
      PROVE  invoker'[pending'[o]] # 0
  <2>1. pending[o] \in 1 .. MaxLater
    BY <1>1, <1>7, NodeTypes
  <2>2. CASE pending[o] = n
    <3>1. invoker'[n] = op[t].value
      BY <1>1, <2>1, <2>2, Typed
    <3> QED
      BY <1>1, <1>3, <2>2, <3>1
  <2>3. CASE pending[o] # n
    <3>1. Armers(op, pending[o]) = {}
      BY <1>1, <1>2, <1>7, <2>3, ArmersStay
    <3>2. invoker'[pending[o]] = invoker[pending[o]]
      BY <1>1, <2>1, <2>3, Typed
    <3> QED
      BY <1>1, <1>7, <3>1, <3>2, NodesAre
  <2> QED
    BY <2>2, <2>3
<1>8. /\ \A o, p \in Objects : pending'[o] = pending'[p] /\ pending'[o] # None => o = p
      /\ \A o \in Objects : pending'[o] # None => pending'[o] <= later'
  BY <1>1, NodesAre
<1> QED
  BY <1>5, <1>6, <1>7, <1>8, NodesWillBe

LEMMA DisarmNodes ==
    ASSUME AffinityInv, NEW t \in Threads, Disarm(t)
    PROVE  NodesHaveCalls'
<1> DEFINE n == op[t].ev.arg
<1>1. /\ pending' = pending /\ later' = later /\ op[t].at = "disarm" /\ Done(t)
      /\ invoker' = [invoker EXCEPT ![n] = 0]
  BY DEF Disarm
<1>2. /\ \A u \in Threads : u # t => op'[u] = op[u]
      /\ op'[t].at \notin {"arm", "disarm"}
  BY <1>1, DoneDoes, IdleTypes
<1>3. ASSUME NEW u \in Threads, op'[u].at \in {"arm", "disarm"} PROVE op'[u] = op[u]
  BY <1>2, <1>3
<1>4. \A u \in Threads : op'[u].at = "arm" => \A o \in Objects : pending'[o] = op'[u].ev.arg => o = op'[u].ev.to
  BY <1>1, <1>3, NodesAre
<1>5. \A u \in Threads : op'[u].at = "disarm" => \A o \in Objects : pending'[o] # op'[u].ev.arg
  BY <1>1, <1>3, NodesAre
<1>6. ASSUME NEW o \in Objects, pending'[o] # None, Armers(op', pending'[o]) = {}
      PROVE  invoker'[pending'[o]] # 0
  <2>1. pending[o] \in 1 .. MaxLater /\ pending[o] # n
    BY <1>1, <1>6, NodeTypes, NodesAre
  <2>2. \A u \in Threads : op[u].at = "arm" => op'[u] = op[u]
    BY <1>1, <1>2
  <2>3. Armers(op, pending[o]) = {}
    BY <1>1, <1>6, <2>2, ArmersStay
  <2>4. invoker'[pending[o]] = invoker[pending[o]]
    BY <1>1, <2>1, Typed
  <2> QED
    BY <1>1, <1>6, <2>3, <2>4, NodesAre
<1>7. /\ \A o, p \in Objects : pending'[o] = pending'[p] /\ pending'[o] # None => o = p
      /\ \A o \in Objects : pending'[o] # None => pending'[o] <= later'
  BY <1>1, NodesAre
<1> QED
  BY <1>4, <1>5, <1>6, <1>7, NodesWillBe

LEMMA UnlistNodes ==
    ASSUME AffinityInv, NEW t \in Threads, Unlist(t)
    PROVE  NodesHaveCalls'
<1>1. /\ later' = later /\ invoker' = invoker /\ op[t].at = "unlist" /\ Done(t)
      /\ pending' = [pending EXCEPT ![op[t].ev.to] = None]
  BY DEF Unlist
<1>2. op'[t] = Idle /\ \A u \in Threads : u # t => op'[u] = op[u]
  BY <1>1, DoneDoes
<1>3. \A p \in Objects : pending'[p] = pending[p] \/ pending'[p] = None
  BY <1>1, Typed
<1>4. /\ \A u \in Threads : op[u].at = "arm" => op'[u] = op[u]
      /\ \A u \in Threads : op'[u].at \in {"arm", "disarm"} => op'[u] = op[u]
  BY <1>1, <1>2, IdleTypes
<1> QED
  BY <1>1, <1>3, <1>4, NodesKeep

LEMMA DeliverLaterNodes ==
    ASSUME AffinityInv, NEW t \in Threads, DeliverLater(t)
    PROVE  NodesHaveCalls'
<1> DEFINE e == Head(queue[t])
<1>1. /\ later' = later /\ invoker' = invoker /\ Takes(t, "later")
      /\ pending' = [pending EXCEPT ![e.to] = None]
  BY DEF DeliverLater
<1>2. op[t] = Idle /\ queue[t] # <<>> /\ e \in Events /\ e.kind = "later"
  BY <1>1, TakesDoes
<1>3. op'[t].at = "disarm" /\ op'[t].ev = e /\ \A u \in Threads : u # t => op'[u] = op[u]
  BY DeliverLaterDoes
<1>4. \A p \in Objects : pending'[p] = IF p = e.to THEN None ELSE pending[p]
  BY <1>1, Typed
<1>5. e.arg \in Nat /\ \A p \in Objects : pending[p] = e.arg => p = e.to
  BY <1>2, QueuedIsCarried, NodeIsKnown
<1>6. \A p \in Objects : pending'[p] # e.arg
  BY <1>4, <1>5, Numbers
<1>7. /\ \A u \in Threads : op[u].at = "arm" => op'[u] = op[u]
      /\ \A u \in Threads : op'[u].at = "arm" => op'[u] = op[u]
      /\ \A u \in Threads : op'[u].at = "disarm" =>
              op'[u] = op[u] \/ \A p \in Objects : pending'[p] # op'[u].ev.arg
  BY <1>2, <1>3, <1>6, IdleTypes
<1> QED
  BY <1>1, <1>4, <1>7, NodesKeep

\* The other steps leave the registry alone.
LEMMA NodesStill ==
    ASSUME AffinityInv, NEW t \in Threads, pending' = pending, later' = later, invoker' = invoker,
           op[t].at # "arm", op'[t].at \notin {"arm", "disarm"}, \A u \in Threads : u # t => op'[u] = op[u]
    PROVE  NodesHaveCalls'
<1>1. /\ \A u \in Threads : op[u].at = "arm" /\ op[u].fresh => op'[u] = op[u]
      /\ \A u \in Threads : op'[u].at = "arm" => op'[u] = op[u]
      /\ \A u \in Threads : op'[u].at = "disarm" => op'[u] = op[u]
  OBVIOUS
<1> QED
  BY <1>1, NodesKeep

LEMMA NodesUntouched ==
    ASSUME AffinityInv, pending' = pending, later' = later, invoker' = invoker, op' = op
    PROVE  NodesHaveCalls'
BY NodesKeep

-----------------------------------------------------------------------------
(* Moves are kept sound.                                                                        *)

LEMMA MovesAre ==
    ASSUME AffinityInv
    PROVE  /\ \A o \in Objects : \A u, v \in Busy(o) : u = v
           /\ \A u \in Threads : MoverIsSound(u)
           /\ \A u \in Threads : \A e \in ToSet(queue[u]) \cup ToSet(parked[u]) :
                 /\ e.kind = "timers" => ~e.stray
                 /\ ~e.stray => home[e.to] = u \/ u \in Moving(e.to)
           /\ \A u \in Threads, i \in TimerIds : timerAt[u][i] # None => home[timerAt[u][i]] = u
           /\ \A u \in Threads : \A e \in Held(u) : e.kind = "timers" => e.arg # {}
BY DEF AffinityInv, MovesAreSound, OneMover, TimerEventsFollow, EventsFollow, TimersAtHome, TimersInEvents

\* Who moves an object, or hands its timers over.
LEMMA BusyIs ==
    ASSUME NEW o, NEW u \in Threads
    PROVE  /\ u \in Moving(o) <=> op[u].at \in Travelling /\ op[u].ev.to = o
           /\ u \in Busy(o) <=> op[u].ev.to = o /\ (op[u].at \in Travelling \/ op[u].ev.kind = "timers")
           /\ (u \in Moving(o))' <=> op'[u].at \in Travelling /\ op'[u].ev.to = o
           /\ (u \in Busy(o))' <=> op'[u].ev.to = o /\ (op'[u].at \in Travelling \/ op'[u].ev.kind = "timers")
<1>1. /\ u \in Moving(o) <=> op[u].at \in Travelling /\ op[u].ev.to = o
      /\ (u \in Moving(o))' <=> op'[u].at \in Travelling /\ op'[u].ev.to = o
  BY DEF Moving, Travelling
<1>2. /\ u \in HandingTimers(o) <=> op[u].ev.kind = "timers" /\ op[u].ev.to = o
      /\ (u \in HandingTimers(o))' <=> op'[u].ev.kind = "timers" /\ op'[u].ev.to = o
  BY DEF HandingTimers
<1> QED
  BY <1>1, <1>2 DEF Busy

LEMMA BusyAreThreads ==
    ASSUME NEW o
    PROVE  Moving(o) \subseteq Busy(o) /\ Busy(o) \subseteq Threads /\ (Busy(o) \subseteq Threads)'
BY DEF Busy, Moving, HandingTimers

LEMMA FreshIs ==
    ASSUME NEW s, NEW o
    PROVE  Fresh(s, o) <=> \E e \in ToSet(s) : e.to = o /\ ~e.stray
BY DEF Fresh, ToSet

LEMMA HeldIs ==
    ASSUME NEW u \in Threads
    PROVE  /\ \A e : e \in Held(u) <=> \/ e \in ToSet(queue[u]) \/ e \in ToSet(parked[u]) \/ e \in ToSet(op[u].taken)
                                       \/ op[u].at \in Posting /\ e = op[u].ev
           /\ \A e : (e \in Held(u))' <=> \/ e \in ToSet(queue'[u]) \/ e \in ToSet(parked'[u]) \/ e \in ToSet(op'[u].taken)
                                          \/ op'[u].at \in Posting /\ e = op'[u].ev
<1>1. \A x : ToSet(<<x>>) = {x}
  BY DEF ToSet
<1> QED
  BY <1>1, NoEvents DEF Held, Lines, Line, Posting

\* What concerns only the threads that are moving something.
LEMMA QuietIsSound ==
    ASSUME NEW u \in Threads, op'[u].at \notin Travelling, op'[u].at \notin Posting \/ op'[u].ev.kind # "timers"
    PROVE  MoverIsSound(u)'
BY DEF MoverIsSound, Travelling, Posting

\* Events that were not there, and are where they belong or strays.
Arrival(e, u) ==
    /\ e.stray \/ home[e.to] = u
    /\ e.kind = "timers" => ~e.stray /\ e.arg # {}
At(u) == ToSet(queue[u]) \cup ToSet(parked[u])

Arrivals ==
    \A u \in Threads : \A e \in ToSet(queue'[u]) \cup ToSet(parked'[u]) : e \in At(u) \/ Arrival(e, u)

\* A thread that moves an object goes on as it did, whatever another does.
LEMMA MoverStays ==
    ASSUME AffinityInv, NEW u \in Threads, op'[u] = op[u], NEW o, o = op[u].ev.to,
           u \in Busy(o) => home'[o] = home[o] /\ moves'[o] = moves[o],
           \A v \in Threads : loop'[v] = "unstarted" => loop[v] = "unstarted",
           home[o] \in {u, None} => \A v \in Threads, i \in TimerIds : timerAt'[v][i] = o => timerAt[v][i] = o,
           ids'[o] \subseteq ids[o] \/ (home[o] \in Threads /\ home[o] # u /\ loop'[home[o]] # "unstarted"),
           Arrivals
    PROVE  MoverIsSound(u)'
<1>1. CASE u \notin Busy(o)
  <2>1. op'[u].at \notin Travelling /\ op'[u].ev.kind # "timers"
    BY <1>1, BusyIs
  <2> QED
    BY <2>1, QuietIsSound
<1>2. CASE u \in Busy(o)
  <2> DEFINE m == op[u]
  <2>1. MoverIsSound(u)
    BY MovesAre
  <2>2. home'[o] = home[o] /\ moves'[o] = moves[o]
    BY <1>2
  <2>3. m.at = "swap" => \A v \in Threads : {i \in TimerIds : timerAt'[v][i] = o} = {}
    <3>1. m.at = "swap" => home[o] \in {u, None} /\ \A v \in Threads : RegisteredAt(v, o) = {}
      BY <2>1 DEF MoverIsSound
    <3> QED
      BY <3>1 DEF RegisteredAt
  <2>4. m.at \in {"sweep", "repost", "forget"} => home[o] # u
    <3>1. m.at \in {"sweep", "repost"} => home[o] # u
      BY <2>1 DEF MoverIsSound
    <3>2. m.at = "forget" => home[o] = None
      BY <2>1 DEF MoverIsSound
    <3> QED
      BY <3>1, <3>2, Numbers
  <2>5. m.at \in {"repost", "forget"} \/ (m.at = "sweep" /\ m.sweeps > 0) => ~Fresh(queue'[u], o)
    <3>1. SUFFICES ASSUME m.at \in {"repost", "forget"} \/ (m.at = "sweep" /\ m.sweeps > 0),
                          NEW e \in ToSet(queue'[u]), e.to = o, ~e.stray
                   PROVE  FALSE
      BY FreshIs
    <3>2. ~Fresh(queue[u], o)
      BY <2>1, <3>1 DEF MoverIsSound
    <3>3. parked[u] = <<>>
      BY <3>1, OpOf, Typed DEF StepIsSound
    <3>4. e \notin At(u)
      BY <3>1, <3>2, <3>3, FreshIs, NoEvents DEF At
    <3>5. home[o] = u
      BY <3>1, <3>4 DEF Arrivals, Arrival
    <3> QED
      BY <2>4, <3>1, <3>5
  <2>6. m.at \in {"swap", "sweep", "repost"} /\ m.data = None => ids'[o] \subseteq m.timers
    <3>1. SUFFICES ASSUME m.at \in {"swap", "sweep", "repost"}, m.data = None PROVE ids'[o] \subseteq m.timers
      OBVIOUS
    <3>2. home[o] \in {u, None} /\ ids[o] \subseteq m.timers
      BY <2>1, <3>1 DEF MoverIsSound
    <3> QED
      BY <3>2, Numbers
  <2>7. m.at \in {"swap", "sweep", "repost"} /\ m.data # None /\ ids'[o] # {} => loop'[m.data] # "unstarted"
    <3>1. SUFFICES ASSUME m.at \in {"swap", "sweep", "repost"}, m.data # None, ids'[o] # {}
                   PROVE  loop'[m.data] # "unstarted"
      OBVIOUS
    <3>2. m.data \in Threads
      BY <3>1, OpOf
    <3>3. CASE ids[o] # {}
      BY <2>1, <3>1, <3>2, <3>3 DEF MoverIsSound
    <3>4. CASE ids[o] = {}
      <4>1. home[o] \in Threads /\ home[o] # u /\ loop'[home[o]] # "unstarted"
        BY <3>1, <3>4
      <4>2. m.at \in {"sweep", "repost"}
        BY <2>1, <3>1, <4>1, Numbers DEF MoverIsSound
      <4> QED
        BY <2>1, <4>1, <4>2 DEF MoverIsSound
    <3> QED
      BY <3>3, <3>4
  <2>8. m.at \in Posting /\ m.ev.kind = "timers" => home[o] \in Threads /\ loop'[home[o]] # "unstarted"
    BY <2>1 DEF MoverIsSound
  <2>9. /\ m.at = "swap" => /\ home[o] \in {u, None} /\ moves[o] < MaxMoves /\ m.data # home[o]
                            /\ home[o] = None => m.data = u /\ m.timers = {}
        /\ m.at \in {"sweep", "repost"} => home[o] = m.data /\ m.data # u
        /\ m.at = "forget" => home[o] = None
        /\ m.at \in {"fetch", "land"} /\ m.ev.kind = "timers" => m.data = home[o]
    BY <2>1 DEF MoverIsSound
  <2> QED
    BY <2>2, <2>3, <2>5, <2>6, <2>7, <2>8, <2>9 DEF MoverIsSound, RegisteredAt
<1> QED
  BY <1>1, <1>2

\* What a step that leaves the affinities alone has to keep.
LEMMA EventsStayFollowed ==
    ASSUME AffinityInv, NEW t \in Threads, \A u \in Threads : u # t => op'[u] = op[u], home' = home,
           Arrivals,
           \A o \in Objects : (op[t].at \in Travelling /\ op[t].ev.to = o) =>
              \/ op'[t].at \in Travelling /\ op'[t].ev.to = o
              \/ \A e \in ToSet(queue'[t]) \cup ToSet(parked'[t]) : e.to = o => e.stray,
           \A u \in Threads : \A e \in ToSet(queue'[u]) \cup ToSet(parked'[u]) : e.to \in Objects
    PROVE  EventsFollow' /\ TimerEventsFollow'
<1>1. ASSUME NEW u \in Threads, NEW e \in ToSet(queue'[u]) \cup ToSet(parked'[u]), ~e.stray
      PROVE  home'[e.to] = u \/ (u \in Moving(e.to))'
  <2>1. e \in At(u) \/ Arrival(e, u)
    BY <1>1 DEF Arrivals
  <2>2. CASE Arrival(e, u)
    BY <1>1, <2>2 DEF Arrival
  <2>3. CASE e \in At(u)
    <3>1. home[e.to] = u \/ u \in Moving(e.to)
      BY <1>1, <2>3, MovesAre DEF At
    <3>2. CASE home[e.to] = u
      BY <3>2
    <3>3. CASE u \in Moving(e.to) /\ u # t
      BY <3>3, BusyIs
    <3>4. CASE u \in Moving(e.to) /\ u = t
      <4>1. op[t].at \in Travelling /\ op[t].ev.to = e.to
        BY <3>4, BusyIs
      <4>2. op'[t].at \in Travelling /\ op'[t].ev.to = e.to
        BY <1>1, <3>4, <4>1
      <4> QED
        BY <3>4, <4>2, BusyIs
    <3> QED
      BY <3>1, <3>2, <3>3, <3>4
  <2> QED
    BY <2>1, <2>2, <2>3
<1>2. ASSUME NEW u \in Threads, NEW e \in ToSet(queue'[u]) \cup ToSet(parked'[u]), e.kind = "timers"
      PROVE  ~e.stray
  BY <1>2, MovesAre DEF Arrivals, Arrival, At
<1> QED
  BY <1>1, <1>2 DEF EventsFollow, TimerEventsFollow

LEMMA ObjectsOfEvents ==
    ASSUME AffinityTypeOK
    PROVE  \A u \in Threads : \A e \in ToSet(queue[u]) \cup ToSet(parked[u]) : e \in Events /\ e.to \in Objects
<1>1. ASSUME NEW s \in Seq(Events), NEW e \in ToSet(s) PROVE e \in Events /\ e.to \in Objects
  <2>1. e \in Events
    BY <1>1 DEF ToSet
  <2> QED
    BY <2>1, EventTypes
<1>2. \A u \in Threads : queue[u] \in Seq(Events) /\ parked[u] \in Seq(Events)
  BY DEF AffinityTypeOK
<1> QED
  BY <1>1, <1>2

LEMMA ObjectsOfEventsThen ==
    ASSUME AffinityTypeOK'
    PROVE  \A u \in Threads : \A e \in ToSet(queue'[u]) \cup ToSet(parked'[u]) : e \in Events /\ e.to \in Objects
<1>1. ASSUME NEW s \in Seq(Events), NEW e \in ToSet(s) PROVE e \in Events /\ e.to \in Objects
  <2>1. e \in Events
    BY <1>1 DEF ToSet
  <2> QED
    BY <2>1, EventTypes
<1>2. \A u \in Threads : queue'[u] \in Seq(Events) /\ parked'[u] \in Seq(Events)
  BY DEF AffinityTypeOK
<1> QED
  BY <1>1, <1>2

\* Whom a busy thread is busy with.
LEMMA BusyWithObjects ==
    ASSUME AffinityInv, NEW u \in Threads, op[u].at \in Travelling \/ op[u].ev.kind = "timers"
    PROVE  op[u].ev.to \in Objects
<1>1. CASE op[u].at \in Travelling
  BY <1>1, Traveller
<1>2. CASE op[u].at \notin Travelling /\ op[u].ev.kind = "timers"
  <2>1. op[u].ev \in OpEvents
    BY OpOf
  <2>2. op[u].ev \in Events
    BY <1>2, <2>1, EventFields DEF OpEvents, NoEvent
  <2> QED
    BY <2>2, EventTypes
<1> QED
  BY <1>1, <1>2

\* A step of t that leaves the affinities alone.
LEMMA MovesKeep ==
    ASSUME AffinityInv, AffinityTypeOK', NEW t \in Threads, \A u \in Threads : u # t => op'[u] = op[u],
           home' = home, moves' = moves,
           \A v \in Threads : loop'[v] = "unstarted" => loop[v] = "unstarted", loop[t] = "up" => loop'[t] = "up",
           \A v \in Threads, i \in TimerIds :
              \/ timerAt'[v][i] \in {None, timerAt[v][i]}
              \/ v = t /\ home[timerAt'[v][i]] = t,
           \A o \in Objects : ids'[o] \subseteq ids[o] \/ (home[o] = t /\ loop[t] = "up"),
           Arrivals,
           op'[t].at \in Travelling \/ op'[t].ev.kind = "timers" =>
              \/ (op[t].at \in Travelling \/ op[t].ev.kind = "timers") /\ op'[t].ev.to = op[t].ev.to
              \/ \A u \in Threads : u \notin Busy(op'[t].ev.to),
           MoverIsSound(t)',
           op[t].at \in Travelling =>
              \/ op'[t].at \in Travelling /\ op'[t].ev.to = op[t].ev.to
              \/ \A e \in ToSet(queue'[t]) \cup ToSet(parked'[t]) : e.to = op[t].ev.to => e.stray,
           \A e \in ToSet(op'[t].taken) : e.kind = "timers" => e.arg # {},
           op'[t].at \in Posting /\ op'[t].ev.kind = "timers" => op'[t].ev.arg # {}
    PROVE  MovesAreSound'
<1>1. OneMover'
  <2>1. SUFFICES ASSUME NEW o \in Objects, NEW u \in Threads, NEW v \in Threads,
                        (u \in Busy(o))', (v \in Busy(o))', u # v
                 PROVE  FALSE
    BY BusyAreThreads DEF OneMover
  <2>2. \A w \in Threads : w # t /\ (w \in Busy(o))' => w \in Busy(o)
    BY BusyIs
  <2>3. (t \in Busy(o))' => t \in Busy(o) \/ \A w \in Threads : w \notin Busy(o)
    BY BusyIs
  <2>4. \A w, x \in Busy(o) : w = x
    BY MovesAre
  <2> QED
    BY <2>1, <2>2, <2>3, <2>4
<1>2. ASSUME NEW u \in Threads, u # t PROVE MoverIsSound(u)'
  <2> DEFINE o == op[u].ev.to
  <2>1. op'[u] = op[u]
    BY <1>2
  <2>2. CASE u \in Busy(o)
    <3>1. o \in Objects
      BY <2>2, BusyIs, BusyWithObjects
    <3>2. home[o] \in {u, None} => \A v \in Threads, i \in TimerIds : timerAt'[v][i] = o => timerAt[v][i] = o
      BY <1>2, <3>1, Numbers
    <3>3. ids'[o] \subseteq ids[o] \/ (home[o] \in Threads /\ home[o] # u /\ loop'[home[o]] # "unstarted")
      <4>1. CASE ids'[o] \subseteq ids[o]
        BY <4>1
      <4>2. CASE home[o] = t /\ loop[t] = "up"
        BY <1>2, <4>2
      <4> QED
        BY <3>1, <4>1, <4>2
    <3> HIDE DEF o
    <3> QED
      BY <2>1, <3>2, <3>3, MoverStays DEF o
  <2>3. CASE u \notin Busy(o)
    <3>1. op'[u].at \notin Travelling /\ op'[u].ev.kind # "timers"
      BY <2>1, <2>3, BusyIs
    <3> QED
      BY <3>1, QuietIsSound
  <2> QED
    BY <2>2, <2>3
<1>3. EventsFollow' /\ TimerEventsFollow'
  <2>1. \A o \in Objects : (op[t].at \in Travelling /\ op[t].ev.to = o) =>
              \/ op'[t].at \in Travelling /\ op'[t].ev.to = o
              \/ \A e \in ToSet(queue'[t]) \cup ToSet(parked'[t]) : e.to = o => e.stray
    OBVIOUS
  <2>2. \A u \in Threads : \A e \in ToSet(queue'[u]) \cup ToSet(parked'[u]) : e.to \in Objects
    BY ObjectsOfEventsThen
  <2> QED
    BY <2>1, <2>2, EventsStayFollowed
<1>4. TimersAtHome'
  BY MovesAre DEF TimersAtHome
<1>5. TimersInEvents'
  <2>1. SUFFICES ASSUME NEW u \in Threads, NEW e, (e \in Held(u))', e.kind = "timers" PROVE e.arg # {}
    BY DEF TimersInEvents
  <2>2. \A x : x \in Held(u) /\ x.kind = "timers" => x.arg # {}
    BY MovesAre
  <2>3. CASE e \in ToSet(queue'[u]) \cup ToSet(parked'[u])
    <3>1. e \in At(u) \/ Arrival(e, u)
      BY <2>3 DEF Arrivals
    <3> QED
      BY <2>1, <2>2, <3>1, HeldIs DEF At, Arrival
  <2>4. CASE u = t /\ (e \in ToSet(op'[u].taken) \/ (op'[u].at \in Posting /\ e = op'[u].ev))
    BY <2>1, <2>4
  <2>5. CASE u # t /\ (e \in ToSet(op'[u].taken) \/ (op'[u].at \in Posting /\ e = op'[u].ev))
    <3>1. e \in Held(u)
      BY <2>5, HeldIs
    <3> QED
      BY <2>1, <2>2, <3>1
  <2> QED
    BY <2>1, <2>3, <2>4, <2>5, HeldIs
<1> QED
  BY <1>1, <1>2, <1>3, <1>4, <1>5 DEF MovesAreSound

\* How events arrive.
LEMMA NoArrivals ==
    ASSUME queue' = queue, parked' = parked
    PROVE  Arrivals
BY DEF Arrivals, At

LEMMA QueueArrival ==
    ASSUME AffinityInv, NEW d \in Threads, NEW e \in Events, Arrival(e, d),
           queue' = [queue EXCEPT ![d] = Append(@, e)], parked' = parked
    PROVE  Arrivals
<1>1. queue[d] \in Seq(Events)
  BY Typed
<1>2. queue'[d] = Append(queue[d], e) /\ \A u \in Threads : u # d => queue'[u] = queue[u]
  BY Typed
<1>3. ToSet(queue'[d]) = ToSet(queue[d]) \cup {e}
  BY <1>1, <1>2, EventsOfAppend
<1> QED
  BY <1>2, <1>3 DEF Arrivals, At

LEMMA ParkedArrival ==
    ASSUME AffinityInv, NEW d \in Threads, NEW e \in Events, Arrival(e, d),
           parked' = [parked EXCEPT ![d] = Append(@, e)], queue' = queue
    PROVE  Arrivals
<1>1. parked[d] \in Seq(Events)
  BY Typed
<1>2. parked'[d] = Append(parked[d], e) /\ \A u \in Threads : u # d => parked'[u] = parked[u]
  BY Typed
<1>3. ToSet(parked'[d]) = ToSet(parked[d]) \cup {e}
  BY <1>1, <1>2, EventsOfAppend
<1> QED
  BY <1>2, <1>3 DEF Arrivals, At

LEMMA QueueTaken ==
    ASSUME AffinityInv, NEW t \in Threads, NEW k, Takes(t, k), parked' = parked
    PROVE  Arrivals
<1>1. /\ queue[t] \in Seq(Events) /\ queue[t] # <<>> /\ queue'[t] = Tail(queue[t])
      /\ \A u \in Threads : u # t => queue'[u] = queue[u]
  BY TakesDoes
<1>2. ToSet(queue'[t]) \subseteq ToSet(queue[t])
  BY <1>1, EventsOfTail
<1> QED
  BY <1>1, <1>2 DEF Arrivals, At

\* A step of a thread that moves nothing.
LEMMA QuietMoves ==
    ASSUME AffinityInv, AffinityTypeOK', NEW t \in Threads, \A u \in Threads : u # t => op'[u] = op[u],
           home' = home, moves' = moves,
           \A v \in Threads : loop'[v] = "unstarted" => loop[v] = "unstarted", loop[t] = "up" => loop'[t] = "up",
           \A v \in Threads, i \in TimerIds :
              \/ timerAt'[v][i] \in {None, timerAt[v][i]}
              \/ v = t /\ home[timerAt'[v][i]] = t,
           \A o \in Objects : ids'[o] \subseteq ids[o] \/ (home[o] = t /\ loop[t] = "up"),
           Arrivals,
           op[t].at \notin Travelling,
           op'[t].at \notin Travelling, op'[t].ev.kind # "timers", op'[t].taken = <<>>
    PROVE  MovesAreSound'
<1>1. MoverIsSound(t)'
  BY QuietIsSound
<1>2. \A e \in ToSet(op'[t].taken) : e.kind = "timers" => e.arg # {}
  BY NoEvents
<1> QED
  BY <1>1, <1>2, MovesKeep

\* One that leaves the threads and the timers alone, too.
LEMMA QuieterMoves ==
    ASSUME AffinityInv, AffinityTypeOK', NEW t \in Threads, \A u \in Threads : u # t => op'[u] = op[u],
           home' = home, moves' = moves, loop' = loop, timerAt' = timerAt, ids' = ids, Arrivals,
           op[t].at \notin Travelling,
           op'[t].at \notin Travelling, op'[t].ev.kind # "timers", op'[t].taken = <<>>
    PROVE  MovesAreSound'
<1>1. /\ \A v \in Threads : loop'[v] = "unstarted" => loop[v] = "unstarted"
      /\ loop[t] = "up" => loop'[t] = "up"
      /\ \A v \in Threads, i \in TimerIds :
            \/ timerAt'[v][i] \in {None, timerAt[v][i]}
            \/ v = t /\ home[timerAt'[v][i]] = t
      /\ \A o \in Objects : ids'[o] \subseteq ids[o] \/ (home[o] = t /\ loop[t] = "up")
  OBVIOUS
<1> QED
  BY <1>1, QuietMoves

LEMMA IdleIsQuiet ==
    Idle.at \notin Travelling /\ Idle.ev.kind # "timers" /\ Idle.taken = <<>> /\ Idle.at \notin {"arm", "disarm"}
<1>1. Idle.at = "idle" /\ Idle.taken = <<>> /\ Idle.ev = NoEvent
  BY IdleTypes DEF Idle
<1>2. NoEvent.kind = "none"
  BY EventFields DEF NoEvent
<1> QED
  BY <1>1, <1>2 DEF Travelling

\* A loop that is not up has nothing in hand.
LEMMA DownIsIdle ==
    ASSUME AffinityInv, NEW t \in Threads, loop[t] # "up"
    PROVE  op[t] = Idle
BY OpOf DEF StepIsSound

LEMMA StartMoves ==
    ASSUME AffinityInv, NEW t \in Threads, Start(t)
    PROVE  MovesAreSound' /\ NodesHaveCalls'
<1>1. /\ op' = op /\ queue' = queue /\ parked' = parked /\ timerAt' = timerAt /\ ids' = ids
      /\ home' = home /\ moves' = moves /\ loop[t] = "unstarted" /\ loop' = [loop EXCEPT ![t] = "coming"]
      /\ pending' = pending /\ later' = later /\ invoker' = invoker
  BY DEF Start, posted, clocks, registry
<1>2. op[t] = Idle
  BY <1>1, DownIsIdle
<1>3. \A v \in Threads : loop'[v] = "unstarted" => loop[v] = "unstarted"
  BY <1>1, Typed
<1>4. \A v \in Threads, i \in TimerIds :
            \/ timerAt'[v][i] \in {None, timerAt[v][i]}
            \/ v = t /\ home[timerAt'[v][i]] = t
  BY <1>1
<1> QED
  BY <1>1, <1>2, <1>3, <1>4, IdleIsQuiet, NoArrivals, StartTypes, QuietMoves, NodesUntouched

LEMMA InstallMoves ==
    ASSUME AffinityInv, NEW t \in Threads, Install(t)
    PROVE  MovesAreSound' /\ NodesHaveCalls'
<1>1. /\ op' = op /\ timerAt' = timerAt /\ ids' = ids
      /\ queue' = [queue EXCEPT ![t] = queue[t] \o parked[t]] /\ parked' = [parked EXCEPT ![t] = <<>>]
      /\ home' = home /\ moves' = moves /\ loop[t] = "coming" /\ loop' = [loop EXCEPT ![t] = "up"]
      /\ pending' = pending /\ later' = later /\ invoker' = invoker
  BY DEF Install, clocks, registry
<1>2. op[t] = Idle
  BY <1>1, DownIsIdle
<1>3. \A v \in Threads : loop'[v] = "unstarted" => loop[v] = "unstarted"
  BY <1>1, Typed
<1>4. \A v \in Threads, i \in TimerIds :
            \/ timerAt'[v][i] \in {None, timerAt[v][i]}
            \/ v = t /\ home[timerAt'[v][i]] = t
  BY <1>1
<1>5. Arrivals
  <2>1. queue[t] \in Seq(Events) /\ parked[t] \in Seq(Events)
    BY Typed
  <2>2. ToSet(queue[t] \o parked[t]) \subseteq At(t)
    BY <2>1, EventsOfConcat DEF At
  <2>3. \A u \in Threads : /\ queue'[u] = IF u = t THEN queue[t] \o parked[t] ELSE queue[u]
                           /\ parked'[u] = IF u = t THEN <<>> ELSE parked[u]
    BY <1>1, Typed
  <2> QED
    BY <2>2, <2>3, NoEvents DEF Arrivals, At
<1> QED
  BY <1>1, <1>2, <1>3, <1>4, <1>5, IdleIsQuiet, InstallTypes, QuietMoves, NodesUntouched

LEMMA BeginPostMoves ==
    ASSUME AffinityInv, NEW t \in Threads, NEW o \in Objects, BeginPost(t, o)
    PROVE  MovesAreSound' /\ NodesHaveCalls'
<1>1. /\ queue' = queue /\ parked' = parked /\ timerAt' = timerAt /\ ids' = ids
      /\ home' = home /\ moves' = moves /\ loop' = loop
      /\ pending' = pending /\ later' = later /\ invoker' = invoker
  BY DEF BeginPost, posted, clocks, registry
<1>2. /\ \A u \in Threads : u # t => op'[u] = op[u]
      /\ op[t] = Idle /\ op'[t].at = "resolve" /\ op'[t].taken = <<>> /\ op'[t].ev.kind = "call"
  BY BeginPostDoes, EventFields
<1>3. op'[t].at \notin Travelling /\ op'[t].at \notin {"arm", "disarm"}
  BY <1>2 DEF Travelling
<1>4. MovesAreSound'
  BY <1>1, <1>2, <1>3, IdleIsQuiet, NoArrivals, BeginPostTypes, QuieterMoves
<1>5. NodesHaveCalls'
  BY <1>1, <1>2, <1>3, IdleIsQuiet, NodesStill
<1> QED
  BY <1>4, <1>5

\* A thread that is refused, or done.
LEMMA RefusedMoves ==
    ASSUME AffinityInv, NEW t \in Threads, AffinityTypeOK', op[t].at \in Posting, Refused(t),
           queue' = queue, parked' = parked, timerAt' = timerAt, ids' = ids,
           home' = home, moves' = moves, loop' = loop,
           pending' = pending, later' = later, invoker' = invoker
    PROVE  MovesAreSound' /\ NodesHaveCalls'
<1>1. op[t].at \notin Travelling /\ op[t].at # "arm"
  BY DEF Posting, Travelling
<1>2. /\ op'[t].at \notin Travelling /\ op'[t].ev.kind # "timers" /\ op'[t].taken = <<>>
      /\ op'[t].at \notin {"arm", "disarm"} /\ \A u \in Threads : u # t => op'[u] = op[u]
  <2>1. CASE op[t].ev.kind # "later"
    BY <2>1, RefusedDoes, IdleIsQuiet
  <2>2. CASE op[t].ev.kind = "later"
    <3>1. op[t].taken = <<>>
      BY OpOf DEF StepIsSound, Posting
    <3>2. /\ op'[t].at = "unlist" /\ op'[t].ev = op[t].ev /\ op'[t].taken = op[t].taken
          /\ \A u \in Threads : u # t => op'[u] = op[u]
      BY <2>2, RefusedDoes
    <3> QED
      BY <2>2, <3>1, <3>2 DEF Travelling
  <2> QED
    BY <2>1, <2>2
<1>3. MovesAreSound'
  BY <1>1, <1>2, NoArrivals, QuieterMoves
<1>4. NodesHaveCalls'
  BY <1>1, <1>2, NodesStill
<1> QED
  BY <1>3, <1>4

LEMMA DoneMoves ==
    ASSUME AffinityInv, NEW t \in Threads, AffinityTypeOK', op[t].at \notin Travelling, Done(t),
           timerAt' = timerAt, ids' = ids, home' = home, moves' = moves, loop' = loop, Arrivals
    PROVE  MovesAreSound'
<1>1. op'[t] = Idle /\ \A u \in Threads : u # t => op'[u] = op[u]
  BY DoneDoes
<1> QED
  BY <1>1, IdleIsQuiet, QuieterMoves

\* A thread that goes on posting.
LEMMA PostingMoves ==
    ASSUME AffinityInv, NEW t \in Threads, AffinityTypeOK', op[t].at \in Posting, op'[t].at \in Posting,
           op'[t].ev = op[t].ev, op'[t].taken = op[t].taken, \A u \in Threads : u # t => op'[u] = op[u],
           op'[t].at \in {"fetch", "land"} => op'[t].data = home[op[t].ev.to],
           queue' = queue, parked' = parked, timerAt' = timerAt, ids' = ids,
           home' = home, moves' = moves, loop' = loop,
           pending' = pending, later' = later, invoker' = invoker
    PROVE  MovesAreSound' /\ NodesHaveCalls'
<1>1. /\ op[t].at \notin Travelling /\ op'[t].at \notin Travelling
      /\ op[t].at # "arm" /\ op'[t].at \notin {"arm", "disarm"}
  BY DEF Posting, Travelling
<1>2. op[t].taken = <<>> /\ op'[t].taken = <<>>
  BY OpOf DEF StepIsSound, Posting
<1>3. NodesHaveCalls'
  BY <1>1, NodesStill
<1>4. CASE op[t].ev.kind # "timers"
  BY <1>1, <1>2, <1>3, <1>4, NoArrivals, QuieterMoves
<1>5. CASE op[t].ev.kind = "timers"
  <2>1. home[op[t].ev.to] \in Threads /\ loop[home[op[t].ev.to]] # "unstarted"
    BY <1>5, TimersArePosted
  <2>2. MoverIsSound(t)'
    BY <1>1, <1>5, <2>1 DEF MoverIsSound, Travelling
  <2>3. op[t].ev \in Held(t)
    BY HeldIs
  <2>4. op[t].ev.arg # {}
    BY <1>5, <2>3, MovesAre
  <2>5. \A e \in ToSet(op'[t].taken) : e.kind = "timers" => e.arg # {}
    BY <1>2, NoEvents
  <2>6. /\ \A v \in Threads : loop'[v] = "unstarted" => loop[v] = "unstarted"
        /\ loop[t] = "up" => loop'[t] = "up"
        /\ \A v \in Threads, i \in TimerIds :
              \/ timerAt'[v][i] \in {None, timerAt[v][i]}
              \/ v = t /\ home[timerAt'[v][i]] = t
        /\ \A o \in Objects : ids'[o] \subseteq ids[o] \/ (home[o] = t /\ loop[t] = "up")
    OBVIOUS
  <2>7. MovesAreSound'
    BY <1>1, <1>5, <2>2, <2>4, <2>5, <2>6, NoArrivals, MovesKeep
  <2> QED
    BY <1>3, <2>7
<1> QED
  BY <1>4, <1>5

LEMMA ResolveMoves ==
    ASSUME AffinityInv, NEW t \in Threads, Resolve(t)
    PROVE  MovesAreSound' /\ NodesHaveCalls'
<1>1. /\ queue' = queue /\ parked' = parked /\ timerAt' = timerAt /\ ids' = ids
      /\ home' = home /\ moves' = moves /\ loop' = loop
      /\ pending' = pending /\ later' = later /\ invoker' = invoker
      /\ op[t].at \in Posting
  BY DEF Resolve, posted, clocks, registry, Posting
<1>2. AffinityTypeOK'
  BY ResolveTypes
<1>3. CASE home[op[t].ev.to] = None
  <2>1. Refused(t)
    BY <1>3 DEF Resolve
  <2> QED
    BY <1>1, <1>2, <2>1, RefusedMoves
<1>4. CASE home[op[t].ev.to] # None
  <2>1. /\ \A u \in Threads : u # t => op'[u] = op[u]
        /\ op'[t].at = "fetch" /\ op'[t].ev = op[t].ev /\ op'[t].data = home[op[t].ev.to]
        /\ op'[t].taken = op[t].taken
    BY <1>4, ResolveDoes
  <2>2. op'[t].at \in Posting
    BY <2>1 DEF Posting
  <2> QED
    BY <1>1, <1>2, <2>1, <2>2, PostingMoves
<1> QED
  BY <1>3, <1>4

\* What a thread queues or parks itself goes where its object lives, or strays.
LEMMA LandedArrives ==
    ASSUME AffinityInv, NEW t \in Threads, op[t].at \in {"fetch", "land"}
    PROVE  Landed(op[t].ev, op[t].data) \in Events /\ Arrival(Landed(op[t].ev, op[t].data), op[t].data)
<1> DEFINE e == op[t].ev
           x == Landed(op[t].ev, op[t].data)
<1>1. e \in Events /\ op[t].at \in Posting
  BY OpOf DEF StepIsSound, Posting
<1>2. /\ x \in Events /\ x.to = e.to /\ x.kind = e.kind /\ x.arg = e.arg
      /\ x.stray <=> home[e.to] # op[t].data
  BY <1>1, LandedIsEvent
<1>3. e.kind = "timers" => op[t].data = home[e.to] /\ e.arg # {}
  <2>1. e \in Held(t)
    BY <1>1, HeldIs
  <2> QED
    BY <1>1, <2>1, TimersArePosted, MovesAre
<1> QED
  BY <1>2, <1>3 DEF Arrival

LEMMA FetchMoves ==
    ASSUME AffinityInv, NEW t \in Threads, Fetch(t)
    PROVE  MovesAreSound' /\ NodesHaveCalls'
<1>1. /\ queue' = queue /\ timerAt' = timerAt /\ ids' = ids
      /\ home' = home /\ moves' = moves /\ loop' = loop
      /\ pending' = pending /\ later' = later /\ invoker' = invoker
      /\ op[t].at = "fetch" /\ op[t].at \in Posting
  BY DEF Fetch, clocks, registry, Posting
<1>2. AffinityTypeOK'
  BY FetchTypes
<1>3. op[t].data \in Threads
  BY <1>1, OpOf DEF StepIsSound
<1>4. CASE loop[op[t].data] = "up"
  <2>1. /\ \A u \in Threads : u # t => op'[u] = op[u]
        /\ op'[t].at = "land" /\ op'[t].ev = op[t].ev /\ op'[t].data = op[t].data
        /\ op'[t].taken = op[t].taken /\ parked' = parked
    BY <1>4, FetchDoes
  <2>2. op'[t].at \in Posting
    BY <2>1 DEF Posting
  <2>3. CASE op[t].ev.kind = "timers"
    <3>1. op'[t].data = home[op[t].ev.to]
      BY <1>1, <2>1, <2>3, TimersArePosted
    <3> QED
      BY <1>1, <1>2, <2>1, <2>2, <3>1, PostingMoves
  <2>4. CASE op[t].ev.kind # "timers"
    <3>1. /\ op[t].at \notin Travelling /\ op'[t].at \notin Travelling
          /\ op[t].at # "arm" /\ op'[t].at \notin {"arm", "disarm"}
      BY <1>1, <2>1 DEF Travelling
    <3>2. op'[t].taken = <<>> /\ op'[t].ev.kind # "timers"
      BY <1>1, <2>1, <2>4, OpOf DEF StepIsSound
    <3>3. NodesHaveCalls'
      BY <1>1, <2>1, <3>1, NodesStill
    <3>4. MovesAreSound'
      BY <1>1, <1>2, <2>1, <3>1, <3>2, NoArrivals, QuieterMoves
    <3> QED
      BY <3>3, <3>4
  <2> QED
    BY <2>3, <2>4
<1>5. CASE loop[op[t].data] = "coming"
  <2>1. /\ Done(t) /\ parked' = [parked EXCEPT ![op[t].data] = Append(@, Landed(op[t].ev, op[t].data))]
    BY <1>5 DEF Fetch
  <2>2. Arrivals
    BY <1>1, <1>3, <2>1, LandedArrives, ParkedArrival
  <2>3. op[t].at \notin Travelling /\ op[t].at # "arm"
    BY <1>1 DEF Travelling
  <2>4. MovesAreSound'
    BY <1>1, <1>2, <2>1, <2>2, <2>3, DoneMoves
  <2>5. op'[t] = Idle /\ \A u \in Threads : u # t => op'[u] = op[u]
    BY <2>1, DoneDoes
  <2>6. NodesHaveCalls'
    BY <1>1, <2>3, <2>5, IdleIsQuiet, NodesStill
  <2> QED
    BY <2>4, <2>6
<1>6. CASE loop[op[t].data] = "unstarted"
  <2>1. Refused(t) /\ parked' = parked
    BY <1>6 DEF Fetch
  <2> QED
    BY <1>1, <1>2, <2>1, RefusedMoves
<1> QED
  BY <1>3, <1>4, <1>5, <1>6, Typed

LEMMA LandMoves ==
    ASSUME AffinityInv, NEW t \in Threads, Land(t)
    PROVE  MovesAreSound' /\ NodesHaveCalls'
<1>1. /\ parked' = parked /\ timerAt' = timerAt /\ ids' = ids
      /\ home' = home /\ moves' = moves /\ loop' = loop
      /\ pending' = pending /\ later' = later /\ invoker' = invoker
      /\ op[t].at = "land" /\ Done(t)
      /\ queue' = [queue EXCEPT ![op[t].data] = Append(@, Landed(op[t].ev, op[t].data))]
  BY DEF Land, clocks, registry
<1>2. op[t].data \in Threads
  BY <1>1, OpOf DEF StepIsSound
<1>3. Arrivals
  BY <1>1, <1>2, LandedArrives, QueueArrival
<1>4. op[t].at \notin Travelling /\ op[t].at # "arm"
  BY <1>1 DEF Travelling
<1>5. MovesAreSound'
  BY <1>1, <1>3, <1>4, LandTypes, DoneMoves
<1>6. op'[t] = Idle /\ \A u \in Threads : u # t => op'[u] = op[u]
  BY <1>1, DoneDoes
<1>7. NodesHaveCalls'
  BY <1>1, <1>4, <1>6, IdleIsQuiet, NodesStill
<1> QED
  BY <1>5, <1>7

LEMMA CallLaterMoves ==
    ASSUME AffinityInv, NEW t \in Threads, NEW o \in Objects, CallLater(t, o)
    PROVE  MovesAreSound'
<1>1. /\ queue' = queue /\ parked' = parked /\ timerAt' = timerAt /\ ids' = ids
      /\ home' = home /\ moves' = moves /\ loop' = loop
  BY DEF CallLater, posted, clocks
<1>2. /\ \A u \in Threads : u # t => op'[u] = op[u]
      /\ op[t] = Idle /\ op'[t].at = "arm" /\ op'[t].taken = <<>> /\ op'[t].ev.kind = "later"
  BY CallLaterDoes, EventFields
<1>3. op'[t].at \notin Travelling
  BY <1>2 DEF Travelling
<1> QED
  BY <1>1, <1>2, <1>3, IdleIsQuiet, NoArrivals, CallLaterTypes, QuieterMoves

LEMMA ArmMoves ==
    ASSUME AffinityInv, NEW t \in Threads, Arm(t)
    PROVE  MovesAreSound'
<1>1. /\ queue' = queue /\ parked' = parked /\ timerAt' = timerAt /\ ids' = ids
      /\ home' = home /\ moves' = moves /\ loop' = loop /\ op[t].at = "arm"
  BY DEF Arm, posted, clocks
<1>2. op[t].ev.kind = "later" /\ op[t].at \notin Travelling
  BY <1>1, NodeTypes DEF Travelling
<1>3. /\ \A u \in Threads : u # t => op'[u] = op[u]
      /\ op'[t].at \notin Travelling /\ op'[t].taken = <<>> /\ op'[t].ev.kind # "timers"
  <2>1. CASE op[t].fresh
    BY <1>2, <2>1, ArmDoes DEF Travelling
  <2>2. CASE ~op[t].fresh
    BY <2>2, ArmDoes, IdleIsQuiet
  <2> QED
    BY <2>1, <2>2, OpOf
<1> QED
  BY <1>1, <1>2, <1>3, NoArrivals, ArmTypes, QuieterMoves

LEMMA UnlistMoves ==
    ASSUME AffinityInv, NEW t \in Threads, Unlist(t)
    PROVE  MovesAreSound'
<1>1. /\ queue' = queue /\ parked' = parked /\ timerAt' = timerAt /\ ids' = ids
      /\ home' = home /\ moves' = moves /\ loop' = loop /\ op[t].at = "unlist" /\ Done(t)
  BY DEF Unlist, posted, clocks
<1>2. op[t].at \notin Travelling
  BY <1>1 DEF Travelling
<1> QED
  BY <1>1, <1>2, NoArrivals, UnlistTypes, DoneMoves

LEMMA DisarmMoves ==
    ASSUME AffinityInv, NEW t \in Threads, Disarm(t)
    PROVE  MovesAreSound'
<1>1. /\ queue' = queue /\ parked' = parked /\ timerAt' = timerAt /\ ids' = ids
      /\ home' = home /\ moves' = moves /\ loop' = loop /\ op[t].at = "disarm" /\ Done(t)
  BY DEF Disarm, posted, clocks
<1>2. op[t].at \notin Travelling
  BY <1>1 DEF Travelling
<1> QED
  BY <1>1, <1>2, NoArrivals, DisarmTypes, DoneMoves

LEMMA DeliverMoves ==
    ASSUME AffinityInv, NEW t \in Threads, Deliver(t)
    PROVE  MovesAreSound' /\ NodesHaveCalls'
<1>1. /\ parked' = parked /\ timerAt' = timerAt /\ ids' = ids /\ op' = op
      /\ home' = home /\ moves' = moves /\ loop' = loop /\ Takes(t, "call")
      /\ pending' = pending /\ later' = later /\ invoker' = invoker
  BY DEF Deliver, clocks, registry
<1>2. op[t] = Idle
  BY <1>1, TakesDoes
<1>3. Arrivals
  BY <1>1, QueueTaken
<1> QED
  BY <1>1, <1>2, <1>3, IdleIsQuiet, DeliverTypes, QuieterMoves, NodesUntouched

LEMMA DeliverLaterMoves ==
    ASSUME AffinityInv, NEW t \in Threads, DeliverLater(t)
    PROVE  MovesAreSound'
<1>1. /\ parked' = parked /\ timerAt' = timerAt /\ ids' = ids
      /\ home' = home /\ moves' = moves /\ loop' = loop /\ Takes(t, "later")
  BY DEF DeliverLater, clocks
<1>2. op[t] = Idle /\ Head(queue[t]).kind = "later"
  BY <1>1, TakesDoes
<1>3. Arrivals
  BY <1>1, QueueTaken
<1>4. /\ \A u \in Threads : u # t => op'[u] = op[u]
      /\ op'[t].at \notin Travelling /\ op'[t].taken = <<>> /\ op'[t].ev.kind # "timers"
  BY <1>2, DeliverLaterDoes DEF Travelling
<1> QED
  BY <1>1, <1>2, <1>3, <1>4, IdleIsQuiet, DeliverLaterTypes, QuieterMoves

LEMMA DeliverTimersMoves ==
    ASSUME AffinityInv, NEW t \in Threads, DeliverTimers(t)
    PROVE  MovesAreSound' /\ NodesHaveCalls'
<1> DEFINE e == Head(queue[t])
<1>1. /\ parked' = parked /\ ids' = ids /\ op' = op
      /\ home' = home /\ moves' = moves /\ loop' = loop /\ Takes(t, "timers")
      /\ pending' = pending /\ later' = later /\ invoker' = invoker
  BY DEF DeliverTimers, registry
<1>2. /\ op[t] = Idle /\ home[e.to] = t
      /\ timerAt' = [timerAt EXCEPT ![t] = [i \in TimerIds |-> IF i \in e.arg THEN e.to ELSE timerAt[t][i]]]
  BY TimersReturn
<1>3. Arrivals
  BY <1>1, QueueTaken
<1> HIDE DEF e
<1>4. \A v \in Threads, i \in TimerIds :
            \/ timerAt'[v][i] \in {None, timerAt[v][i]}
            \/ v = t /\ home[timerAt'[v][i]] = t
  BY <1>2, Typed
<1>5. /\ \A v \in Threads : loop'[v] = "unstarted" => loop[v] = "unstarted"
      /\ loop[t] = "up" => loop'[t] = "up"
      /\ \A o \in Objects : ids'[o] \subseteq ids[o] \/ (home[o] = t /\ loop[t] = "up")
  BY <1>1
<1> QED
  BY <1>1, <1>2, <1>3, <1>4, <1>5, IdleIsQuiet, DeliverTimersTypes, QuietMoves, NodesUntouched

LEMMA StartTimerMoves ==
    ASSUME AffinityInv, NEW t \in Threads, NEW o \in Objects, NEW i \in TimerIds, StartTimer(t, o, i)
    PROVE  MovesAreSound' /\ NodesHaveCalls'
<1>1. /\ queue' = queue /\ parked' = parked /\ op' = op
      /\ home' = home /\ moves' = moves /\ loop' = loop
      /\ pending' = pending /\ later' = later /\ invoker' = invoker
      /\ home[o] = t /\ op[t].at = "idle" /\ loop[t] = "up"
      /\ timerAt' = [timerAt EXCEPT ![t][i] = o] /\ ids' = [ids EXCEPT ![o] = @ \cup {i}]
  BY DEF StartTimer, posted, registry, Calling
<1>2. op[t] = Idle
  BY <1>1, OpOf DEF StepIsSound
<1>3. \A v \in Threads, j \in TimerIds :
            \/ timerAt'[v][j] \in {None, timerAt[v][j]}
            \/ v = t /\ home[timerAt'[v][j]] = t
  BY <1>1, Typed
<1>4. \A p \in Objects : ids'[p] \subseteq ids[p] \/ (home[p] = t /\ loop[t] = "up")
  BY <1>1, Typed
<1>5. \A v \in Threads : loop'[v] = "unstarted" => loop[v] = "unstarted"
  BY <1>1
<1> QED
  BY <1>1, <1>2, <1>3, <1>4, <1>5, IdleIsQuiet, NoArrivals, StartTimerTypes, QuietMoves, NodesUntouched

LEMMA KillTimerMoves ==
    ASSUME AffinityInv, NEW t \in Threads, NEW o \in Objects, NEW i \in TimerIds, KillTimer(t, o, i)
    PROVE  MovesAreSound' /\ NodesHaveCalls'
<1>1. /\ queue' = queue /\ parked' = parked /\ op' = op
      /\ home' = home /\ moves' = moves /\ loop' = loop
      /\ pending' = pending /\ later' = later /\ invoker' = invoker
      /\ home[o] = t /\ op[t].at = "idle" /\ loop[t] = "up"
      /\ timerAt' = [timerAt EXCEPT ![t][i] = None] /\ ids' = [ids EXCEPT ![o] = @ \ {i}]
  BY DEF KillTimer, posted, registry, Calling
<1>2. op[t] = Idle
  BY <1>1, OpOf DEF StepIsSound
<1>3. \A v \in Threads, j \in TimerIds :
            \/ timerAt'[v][j] \in {None, timerAt[v][j]}
            \/ v = t /\ home[timerAt'[v][j]] = t
  BY <1>1, Typed
<1>4. \A p \in Objects : ids'[p] \subseteq ids[p] \/ (home[p] = t /\ loop[t] = "up")
  BY <1>1, Typed
<1>5. \A v \in Threads : loop'[v] = "unstarted" => loop[v] = "unstarted"
  BY <1>1
<1> QED
  BY <1>1, <1>2, <1>3, <1>4, <1>5, IdleIsQuiet, NoArrivals, KillTimerTypes, QuietMoves, NodesUntouched

\* The timers that travel are their object's.
LEMMA TimersTravel ==
    ASSUME AffinityInv, NEW t \in Threads, op[t].at \in Travelling
    PROVE  op[t].timers \subseteq ids[op[t].ev.to]
<1> DEFINE o == op[t].ev.to
<1>1. o \in Objects /\ op[t].timers \in SUBSET TimerIds
  BY OpOf, Traveller
<1>2. Hand(op[t]) = {TimerItem(o, i) : i \in op[t].timers}
  BY HandIs
<1>3. ASSUME NEW i \in op[t].timers PROVE i \in ids[o]
  <2>1. TimerItem(o, i) \in Carried
    BY <1>2, HandIsCarried
  <2> QED
    BY <1>1, <2>1, CountsAre
<1> QED
  BY <1>3

\* Where the queue is clean nothing is left behind.
LEMMA NothingLeft ==
    ASSUME AffinityInv, NEW t \in Threads, loop[t] = "up", parked'[t] = parked[t], NEW o, ~Fresh(queue'[t], o)
    PROVE  \A e \in ToSet(queue'[t]) \cup ToSet(parked'[t]) : e.to = o => e.stray
<1>1. parked'[t] = <<>>
  BY Typed
<1> QED
  BY <1>1, FreshIs, NoEvents

\* After the sweeps.
LEMMA AfterSweepsMover ==
    ASSUME AffinityInv, NEW t \in Threads, op[t].at \in {"sweep", "repost"}, op'[t] = AfterSweeps(t),
           home' = home, loop' = loop, ids' = ids, ~Fresh(queue'[t], op[t].ev.to)
    PROVE  /\ MoverIsSound(t)' /\ op'[t].taken = <<>> /\ op'[t].at \notin {"arm", "disarm"}
           /\ op'[t].at \in Posting /\ op'[t].ev.kind = "timers" => op'[t].ev.arg # {}
           /\ op'[t].at \in Travelling \/ op'[t].ev.kind = "timers" => op'[t].ev.to = op[t].ev.to
<1>1. op[t].at \in Travelling
  BY DEF Travelling
<1>2. CASE op[t].timers = {}
  BY <1>1, <1>2, AfterSweepsIs, IdleIsQuiet, QuietIsSound
<1>3. CASE op[t].timers # {} /\ op[t].data = None
  <2>1. op'[t].at = "forget" /\ op'[t].ev = op[t].ev /\ op'[t].taken = <<>>
    BY <1>1, <1>3, AfterSweepsIs
  <2>2. home[op[t].ev.to] = None
    BY <1>3, MovesAre DEF MoverIsSound
  <2>3. MoverIsSound(t)'
    BY <2>1, <2>2 DEF MoverIsSound, Posting
  <2>4. op[t].ev.kind = "move"
    BY <1>1, Traveller
  <2> QED
    BY <2>1, <2>3, <2>4
<1>4. CASE op[t].timers # {} /\ op[t].data # None
  <2> DEFINE o == op[t].ev.to
             e == Event(o, "timers", op[t].timers)
  <2>1. op'[t].at = "resolve" /\ op'[t].ev = e /\ op'[t].taken = <<>>
    BY <1>1, <1>4, AfterSweepsIs
  <2>2. e.to = o /\ e.kind = "timers" /\ e.arg = op[t].timers
    BY EventFields
  <2>3. home[o] = op[t].data /\ op[t].data \in Threads
    BY <1>4, MovesAre, OpOf DEF MoverIsSound
  <2>4. loop[home[o]] # "unstarted"
    <3>1. ids[o] # {}
      BY <1>1, <1>4, TimersTravel
    <3> QED
      BY <1>4, <2>3, <3>1, MovesAre DEF MoverIsSound
  <2> HIDE DEF e
  <2>5. MoverIsSound(t)'
    BY <2>1, <2>2, <2>3, <2>4 DEF MoverIsSound
  <2> QED
    BY <1>4, <2>1, <2>2, <2>5
<1> QED
  BY <1>2, <1>3, <1>4

\* While it sweeps and posts again.
LEMMA SweepingMover ==
    ASSUME AffinityInv, NEW t \in Threads, op[t].at \in {"sweep", "repost"}, op'[t].at \in {"sweep", "repost"},
           op'[t].ev = op[t].ev, op'[t].data = op[t].data, op'[t].timers = op[t].timers,
           home' = home, loop' = loop, ids' = ids, ~Fresh(queue'[t], op[t].ev.to)
    PROVE  MoverIsSound(t)'
<1>1. MoverIsSound(t)
  BY MovesAre
<1> QED
  BY <1>1 DEF MoverIsSound, Posting

\* A step of a mover that changes neither affinities nor timers.
LEMMA MoverMoves ==
    ASSUME AffinityInv, AffinityTypeOK', NEW t \in Threads, \A u \in Threads : u # t => op'[u] = op[u],
           home' = home, moves' = moves, loop' = loop, timerAt' = timerAt, ids' = ids, Arrivals,
           pending' = pending, later' = later, invoker' = invoker,
           op[t].at \in {"sweep", "repost"}, parked'[t] = parked[t], ~Fresh(queue'[t], op[t].ev.to),
           \/ op'[t] = AfterSweeps(t)
           \/ /\ op'[t].at \in {"sweep", "repost"} /\ op'[t].ev = op[t].ev
              /\ op'[t].data = op[t].data /\ op'[t].timers = op[t].timers,
           \A e \in ToSet(op'[t].taken) : e.kind = "timers" => e.arg # {}
    PROVE  MovesAreSound' /\ NodesHaveCalls'
<1>1. op[t].at \in Travelling /\ op[t].at # "arm" /\ loop[t] = "up"
  BY OpOf DEF Travelling, StepIsSound
<1>2. \A e \in ToSet(queue'[t]) \cup ToSet(parked'[t]) : e.to = op[t].ev.to => e.stray
  BY <1>1, NothingLeft
<1>3. /\ \A v \in Threads : loop'[v] = "unstarted" => loop[v] = "unstarted"
      /\ loop[t] = "up" => loop'[t] = "up"
      /\ \A v \in Threads, i \in TimerIds :
            \/ timerAt'[v][i] \in {None, timerAt[v][i]}
            \/ v = t /\ home[timerAt'[v][i]] = t
      /\ \A o \in Objects : ids'[o] \subseteq ids[o] \/ (home[o] = t /\ loop[t] = "up")
  OBVIOUS
<1>4. /\ MoverIsSound(t)' /\ op'[t].at \notin {"arm", "disarm"}
      /\ op'[t].at \in Posting /\ op'[t].ev.kind = "timers" => op'[t].ev.arg # {}
      /\ op'[t].at \in Travelling \/ op'[t].ev.kind = "timers" => op'[t].ev.to = op[t].ev.to
  <2>1. CASE op'[t] = AfterSweeps(t)
    BY <2>1, AfterSweepsMover
  <2>2. CASE /\ op'[t].at \in {"sweep", "repost"} /\ op'[t].ev = op[t].ev
             /\ op'[t].data = op[t].data /\ op'[t].timers = op[t].timers
    <3>1. MoverIsSound(t)'
      BY <2>2, SweepingMover
    <3> QED
      BY <2>2, <3>1 DEF Posting
  <2> QED
    BY <2>1, <2>2
<1>5. MovesAreSound'
  BY <1>1, <1>2, <1>3, <1>4, MovesKeep
<1>6. NodesHaveCalls'
  BY <1>1, <1>4, NodesStill
<1> QED
  BY <1>5, <1>6

LEMMA ForgetTimersMoves ==
    ASSUME AffinityInv, NEW t \in Threads, ForgetTimers(t)
    PROVE  MovesAreSound' /\ NodesHaveCalls'
<1>1. /\ queue' = queue /\ parked' = parked /\ timerAt' = timerAt
      /\ home' = home /\ moves' = moves /\ loop' = loop
      /\ pending' = pending /\ later' = later /\ invoker' = invoker
      /\ op[t].at = "forget" /\ Done(t) /\ ids' = [ids EXCEPT ![op[t].ev.to] = @ \ op[t].timers]
  BY DEF ForgetTimers, posted, registry
<1>2. op'[t] = Idle /\ \A u \in Threads : u # t => op'[u] = op[u]
  BY <1>1, DoneDoes
<1>3. ~Fresh(queue'[t], op[t].ev.to) /\ loop[t] = "up"
  BY <1>1, MovesAre, OpOf DEF MoverIsSound, StepIsSound
<1>4. \A e \in ToSet(queue'[t]) \cup ToSet(parked'[t]) : e.to = op[t].ev.to => e.stray
  BY <1>1, <1>3, NothingLeft
<1>5. /\ \A v \in Threads : loop'[v] = "unstarted" => loop[v] = "unstarted"
      /\ loop[t] = "up" => loop'[t] = "up"
      /\ \A v \in Threads, i \in TimerIds :
            \/ timerAt'[v][i] \in {None, timerAt[v][i]}
            \/ v = t /\ home[timerAt'[v][i]] = t
      /\ \A o \in Objects : ids'[o] \subseteq ids[o] \/ (home[o] = t /\ loop[t] = "up")
  BY <1>1, Typed
<1>6. MoverIsSound(t)' /\ \A e \in ToSet(op'[t].taken) : e.kind = "timers" => e.arg # {}
  BY <1>2, IdleIsQuiet, QuietIsSound, NoEvents
<1>7. Arrivals
  BY <1>1, NoArrivals
<1>8. MovesAreSound'
  BY <1>1, <1>2, <1>4, <1>5, <1>6, <1>7, IdleIsQuiet, ForgetTimersTypes, MovesKeep
<1>9. NodesHaveCalls'
  BY <1>1, <1>2, IdleIsQuiet, NodesStill
<1> QED
  BY <1>8, <1>9

LEMMA SweepMoves ==
    ASSUME AffinityInv, NEW t \in Threads, Sweep(t)
    PROVE  MovesAreSound' /\ NodesHaveCalls'
<1>1. /\ parked' = parked /\ timerAt' = timerAt /\ ids' = ids
      /\ home' = home /\ moves' = moves /\ loop' = loop
      /\ pending' = pending /\ later' = later /\ invoker' = invoker /\ op[t].at = "sweep"
  BY DEF Sweep, clocks, registry
<1>2. /\ \A u \in Threads : u # t => op'[u] = op[u]
      /\ queue'[t] = Picked(queue[t], Positions(queue[t]) \ Ours(t))
      /\ \A u \in Threads : u # t => queue'[u] = queue[u]
      /\ Swept(t) = <<>> => op'[t] = AfterSweeps(t)
      /\ Swept(t) # <<>> =>
            /\ op'[t].at = "repost" /\ op'[t].ev = op[t].ev /\ op'[t].data = op[t].data
            /\ op'[t].taken = Swept(t) /\ op'[t].timers = op[t].timers
  BY SweepDoes
<1>3. queue[t] \in Seq(Events)
  BY Typed
<1>4. \A e \in ToSet(queue'[t]) : e \in ToSet(queue[t]) /\ e.to # op[t].ev.to
  <2>1. ToSet(queue'[t]) \subseteq {queue[t][k] : k \in (Positions(queue[t]) \ Ours(t)) \cap DOMAIN queue[t]}
    BY <1>2, <1>3, EventsOfPicked
  <2> QED
    BY <2>1 DEF Ours, ToSet
<1>5. ToSet(Swept(t)) \subseteq ToSet(queue[t])
  <2>1. ToSet(Swept(t)) \subseteq {queue[t][k] : k \in Ours(t) \cap DOMAIN queue[t]}
    BY <1>3, EventsOfPicked DEF Swept
  <2> QED
    BY <2>1 DEF ToSet
<1>6. Arrivals
  BY <1>1, <1>2, <1>4 DEF Arrivals, At
<1>7. ~Fresh(queue'[t], op[t].ev.to)
  BY <1>4, FreshIs
<1>8. \A e \in ToSet(op'[t].taken) : e.kind = "timers" => e.arg # {}
  <2>1. CASE Swept(t) = <<>>
    BY <1>1, <1>2, <2>1, AfterSweepsIs, NoEvents DEF Travelling
  <2>2. CASE Swept(t) # <<>>
    BY <1>2, <1>5, <2>2, MovesAre, HeldIs
  <2> QED
    BY <2>1, <2>2
<1>9. \/ op'[t] = AfterSweeps(t)
      \/ /\ op'[t].at \in {"sweep", "repost"} /\ op'[t].ev = op[t].ev
         /\ op'[t].data = op[t].data /\ op'[t].timers = op[t].timers
  BY <1>2
<1> QED
  BY <1>1, <1>2, <1>6, <1>7, <1>8, <1>9, SweepTypes, MoverMoves

\* One of the events taken is posted again, or dropped.
LEMMA AfterRepostMoves ==
    ASSUME AffinityInv, NEW t \in Threads, AffinityTypeOK', op[t].at = "repost", Goes(t, AfterRepost(t)),
           home' = home, moves' = moves, loop' = loop, timerAt' = timerAt, ids' = ids, Arrivals,
           pending' = pending, later' = later, invoker' = invoker,
           parked'[t] = parked[t], queue'[t] = queue[t]
    PROVE  MovesAreSound' /\ NodesHaveCalls'
<1>1. op'[t] = AfterRepost(t) /\ \A u \in Threads : u # t => op'[u] = op[u]
  BY AfterRepostDoes
<1>2. ~Fresh(queue'[t], op[t].ev.to)
  BY MovesAre DEF MoverIsSound
<1>3. \/ op'[t] = AfterSweeps(t)
      \/ /\ op'[t].at \in {"sweep", "repost"} /\ op'[t].ev = op[t].ev
         /\ op'[t].data = op[t].data /\ op'[t].timers = op[t].timers
  BY <1>1, AfterRepostIs
<1>4. \A e \in ToSet(op'[t].taken) : e.kind = "timers" => e.arg # {}
  <2>1. op'[t].taken = Tail(op[t].taken) /\ op[t].taken # <<>> /\ op[t].taken \in Seq(Events)
    BY <1>1, AfterRepostIs, OpOf
  <2>2. ToSet(op'[t].taken) \subseteq ToSet(op[t].taken)
    BY <2>1, EventsOfTail
  <2> QED
    BY <2>2, MovesAre, HeldIs
<1> QED
  BY <1>1, <1>2, <1>3, <1>4, MoverMoves

LEMMA DropMoves ==
    ASSUME AffinityInv, NEW t \in Threads, Drop(t)
    PROVE  MovesAreSound' /\ NodesHaveCalls'
<1>1. /\ queue' = queue /\ parked' = parked /\ timerAt' = timerAt /\ ids' = ids
      /\ home' = home /\ moves' = moves /\ loop' = loop
      /\ pending' = pending /\ later' = later /\ invoker' = invoker
      /\ op[t].at = "repost" /\ Goes(t, AfterRepost(t))
  BY DEF Drop, posted, clocks
<1>2. Arrivals
  BY <1>1, NoArrivals
<1> QED
  BY <1>1, <1>2, DropTypes, AfterRepostMoves

LEMMA RepostMoves ==
    ASSUME AffinityInv, NEW t \in Threads, Repost(t)
    PROVE  MovesAreSound' /\ NodesHaveCalls'
<1> DEFINE d == op[t].data
           x == Head(op[t].taken)
           e == Landed(x, d)
<1>1. /\ timerAt' = timerAt /\ ids' = ids
      /\ home' = home /\ moves' = moves /\ loop' = loop
      /\ pending' = pending /\ later' = later /\ invoker' = invoker
      /\ op[t].at = "repost" /\ Goes(t, AfterRepost(t)) /\ d # None
  BY DEF Repost, clocks, registry
<1>2. d \in Threads /\ d # t /\ home[op[t].ev.to] = d
  BY <1>1, OpOf, MovesAre DEF MoverIsSound
<1>3. x \in Events /\ x \in ToSet(op[t].taken) /\ x.to = op[t].ev.to
  BY <1>1, AfterRepostIs, OpOf, EventsOfTail DEF StepIsSound
<1>4. x.kind = "timers" => x.arg # {}
  BY <1>3, MovesAre, HeldIs
<1>5. e \in Events /\ Arrival(e, d)
  <2>1. /\ e \in Events /\ e.to = x.to /\ e.kind = x.kind /\ e.arg = x.arg
        /\ e.stray <=> home[x.to] # d
    BY <1>3, LandedIsEvent
  <2> QED
    BY <1>2, <1>3, <1>4, <2>1 DEF Arrival
<1>6. Arrivals /\ parked'[t] = parked[t] /\ queue'[t] = queue[t]
  <2>1. CASE loop[d] = "up"
    <3>1. queue' = [queue EXCEPT ![d] = Append(@, e)] /\ parked' = parked
      BY <2>1 DEF Repost
    <3>2. queue'[t] = queue[t]
      BY <1>2, <3>1, Typed
    <3> HIDE DEF d, e
    <3> QED
      BY <1>2, <1>5, <3>1, <3>2, QueueArrival
  <2>2. CASE loop[d] # "up"
    <3>1. parked' = [parked EXCEPT ![d] = Append(@, e)] /\ queue' = queue
      BY <2>2 DEF Repost
    <3>2. parked'[t] = parked[t]
      BY <1>2, <3>1, Typed
    <3> HIDE DEF d, e
    <3> QED
      BY <1>2, <1>5, <3>1, <3>2, ParkedArrival
  <2> QED
    BY <2>1, <2>2
<1> QED
  BY <1>1, <1>6, RepostTypes, AfterRepostMoves

LEMMA BeginMoveMoves ==
    ASSUME AffinityInv, Careful, NEW t \in Threads, NEW o \in Objects, NEW d \in Threads \cup {None},
           BeginMove(t, o, d)
    PROVE  MovesAreSound' /\ NodesHaveCalls'
<1>1. /\ queue' = queue /\ parked' = parked /\ ids' = ids
      /\ home' = home /\ moves' = moves /\ loop' = loop
      /\ pending' = pending /\ later' = later /\ invoker' = invoker
      /\ d # home[o] /\ moves[o] < MaxMoves
      /\ home[o] = t \/ (home[o] = None /\ d = t)
      /\ timerAt' = [timerAt EXCEPT ![t] =
                        [i \in TimerIds |-> IF home[o] = t /\ i \in RegisteredAt(t, o) THEN None ELSE timerAt[t][i]]]
  BY DEF BeginMove, posted, registry
<1>2. /\ Moving(o) \cup HandingTimers(o) = {}
      /\ d \in Threads /\ ids[o] # {} => loop[d] # "unstarted"
      /\ d = None => ids[o] \subseteq RegisteredAt(t, o)
  BY DEF BeginMove, Allowed
<1>3. /\ \A u \in Threads : u # t => op'[u] = op[u]
      /\ op[t] = Idle /\ loop[t] = "up"
      /\ op'[t].at = "swap" /\ op'[t].ev = Event(o, "move", 0) /\ op'[t].data = d
      /\ op'[t].taken = <<>> /\ op'[t].sweeps = 0
      /\ op'[t].timers = IF home[o] = t THEN RegisteredAt(t, o) ELSE {}
  BY BeginMoveDoes
<1>4. op'[t].ev.to = o /\ op'[t].ev.kind = "move"
  BY <1>3, EventFields
<1>5. \A u \in Threads : u \notin Busy(o)
  BY <1>2 DEF Busy
<1>6. \A v \in Threads, i \in TimerIds :
         timerAt'[v][i] = IF v = t /\ home[o] = t /\ timerAt[t][i] = o THEN None ELSE timerAt[v][i]
  BY <1>1, Typed DEF RegisteredAt
<1>7. ASSUME NEW u \in Threads, NEW i \in TimerIds, timerAt'[u][i] = o PROVE FALSE
  <2>1. timerAt[u][i] = o /\ ~(u = t /\ home[o] = t)
    BY <1>6, <1>7, Numbers
  <2>2. home[o] = u
    BY <2>1, MovesAre, Numbers
  <2> QED
    BY <1>1, <2>1, <2>2, Numbers
<1>8. \A u \in Threads : {i \in TimerIds : timerAt'[u][i] = o} = {}
  BY <1>7
<1>9. home[o] = None => d = t /\ op'[t].timers = {}
  BY <1>1, <1>3, Numbers
<1>10. d = None => ids[o] \subseteq op'[t].timers
  BY <1>1, <1>2, <1>3, Numbers
<1>11. d # None /\ ids[o] # {} => loop[d] # "unstarted"
  BY <1>2
<1>12. MoverIsSound(t)'
  BY <1>1, <1>3, <1>4, <1>8, <1>9, <1>10, <1>11 DEF MoverIsSound, Posting, RegisteredAt
<1>13. /\ \A v \in Threads : loop'[v] = "unstarted" => loop[v] = "unstarted"
       /\ loop[t] = "up" => loop'[t] = "up"
       /\ \A v \in Threads, i \in TimerIds :
             \/ timerAt'[v][i] \in {None, timerAt[v][i]}
             \/ v = t /\ home[timerAt'[v][i]] = t
       /\ \A p \in Objects : ids'[p] \subseteq ids[p] \/ (home[p] = t /\ loop[t] = "up")
  BY <1>1, <1>6
<1>14. /\ op[t].at \notin Travelling
       /\ \A e \in ToSet(op'[t].taken) : e.kind = "timers" => e.arg # {}
       /\ op'[t].at \notin Posting /\ op'[t].at \notin {"arm", "disarm"} /\ op[t].at # "arm"
  BY <1>3, IdleIsQuiet, IdleTypes, NoEvents DEF Posting
<1>15. \A u \in Threads : u \notin Busy(op'[t].ev.to)
  BY <1>4, <1>5
<1>16. Arrivals
  BY <1>1, NoArrivals
<1>17. MovesAreSound'
  BY <1>1, <1>3, <1>12, <1>13, <1>14, <1>15, <1>16, BeginMoveTypes, MovesKeep
<1>18. NodesHaveCalls'
  BY <1>1, <1>3, <1>14, NodesStill
<1> QED
  BY <1>17, <1>18

LEMMA SwapMoves ==
    ASSUME AffinityInv, NEW t \in Threads, Swap(t)
    PROVE  MovesAreSound' /\ NodesHaveCalls'
<1> DEFINE o == op[t].ev.to
<1>1. /\ queue' = queue /\ parked' = parked /\ timerAt' = timerAt /\ ids' = ids /\ loop' = loop
      /\ pending' = pending /\ later' = later /\ invoker' = invoker
      /\ op[t].at = "swap" /\ op[t].at \in Travelling
      /\ home' = [home EXCEPT ![o] = op[t].data] /\ moves' = [moves EXCEPT ![o] = @ + 1]
  BY DEF Swap, posted, clocks, registry, Travelling
<1>2. o \in Objects /\ op[t].ev.kind = "move" /\ t \in Busy(o)
  BY <1>1, Traveller, BusyIs
<1>3. /\ home[o] \in {t, None} /\ op[t].data # home[o]
      /\ home[o] = None => op[t].data = t /\ op[t].timers = {}
      /\ \A u \in Threads, i \in TimerIds : timerAt[u][i] # o
      /\ op[t].data = None => ids[o] \subseteq op[t].timers
      /\ op[t].data # None /\ ids[o] # {} => loop[op[t].data] # "unstarted"
  BY <1>1, MovesAre DEF MoverIsSound, RegisteredAt
<1>4. op[t].taken = <<>> /\ op[t].sweeps = 0
  BY <1>1, OpOf DEF StepIsSound
<1>5. /\ \A u \in Threads : u # t => op'[u] = op[u]
      /\ home[o] = None => op'[t] = AfterSweeps(t)
      /\ home[o] # None =>
            /\ op'[t].at = "sweep" /\ op'[t].ev = op[t].ev /\ op'[t].data = op[t].data
            /\ op'[t].taken = op[t].taken /\ op'[t].timers = op[t].timers
            /\ op'[t].sweeps = op[t].sweeps
  BY SwapDoes
<1>6. home[o] = None => op'[t] = Idle
  BY <1>1, <1>3, <1>5, AfterSweepsIs
<1>7. /\ op'[t].at \notin Posting \cup {"arm", "disarm"} /\ op'[t].taken = <<>>
      /\ op'[t].ev.kind # "timers"
      /\ op'[t].at \in Travelling => op'[t].ev.to = o
  BY <1>2, <1>4, <1>5, <1>6, IdleIsQuiet, IdleTypes DEF Posting
<1>8. home'[o] = op[t].data /\ \A p \in Objects : p # o => home'[p] = home[p] /\ moves'[p] = moves[p]
  BY <1>1, <1>2, Typed
<1>9. \A p \in Objects : p # o => \A u \in Threads : u \in Moving(p) => (u \in Moving(p))'
  BY <1>5, BusyIs
<1>10. \A u \in Threads : u \in Busy(o) => u = t
  BY <1>2, MovesAre
<1> HIDE DEF o
<1>11. OneMover'
  <2>1. ASSUME NEW p \in Objects, NEW u \in Threads, (u \in Busy(p))' PROVE u \in Busy(p)
    <3>1. CASE u # t
      BY <1>5, <2>1, <3>1, BusyIs
    <3>2. CASE u = t
      <4>1. op'[t].ev.to = p /\ op'[t].at \in Travelling
        BY <1>7, <2>1, <3>2, BusyIs
      <4> QED
        BY <1>2, <1>7, <3>2, <4>1
    <3> QED
      BY <3>1, <3>2
  <2>2. \A p \in Objects : \A u, v \in Busy(p) : u = v
    BY MovesAre
  <2> QED
    BY <2>1, <2>2, BusyAreThreads DEF OneMover
<1>12. MoverIsSound(t)'
  <2>1. CASE home[o] = None
    BY <1>6, <2>1, IdleIsQuiet, QuietIsSound
  <2>2. CASE home[o] # None
    BY <1>1, <1>3, <1>4, <1>5, <1>8, <2>2 DEF MoverIsSound, Posting, o
  <2> QED
    BY <2>1, <2>2
<1>13. ASSUME NEW u \in Threads, u # t PROVE MoverIsSound(u)'
  <2> DEFINE p == op[u].ev.to
  <2>1. op'[u] = op[u]
    BY <1>5, <1>13
  <2>2. u \in Busy(p) => home'[p] = home[p] /\ moves'[p] = moves[p]
    <3>1. SUFFICES ASSUME u \in Busy(p) PROVE home'[p] = home[p] /\ moves'[p] = moves[p]
      OBVIOUS
    <3>2. p \in Objects
      BY <3>1, BusyIs, BusyWithObjects
    <3>3. p # o
      BY <1>10, <1>13, <3>1
    <3> QED
      BY <1>8, <3>2, <3>3
  <2>3. /\ \A v \in Threads : loop'[v] = "unstarted" => loop[v] = "unstarted"
        /\ home[p] \in {u, None} => \A v \in Threads, i \in TimerIds : timerAt'[v][i] = p => timerAt[v][i] = p
        /\ ids'[p] \subseteq ids[p] \/ (home[p] \in Threads /\ home[p] # u /\ loop'[home[p]] # "unstarted")
    BY <1>1
  <2>4. Arrivals
    BY <1>1, NoArrivals
  <2> HIDE DEF p
  <2> QED
    BY <2>1, <2>2, <2>3, <2>4, MoverStays DEF p
<1>14. EventsFollow'
  <2>1. SUFFICES ASSUME NEW u \in Threads, NEW e \in ToSet(queue[u]) \cup ToSet(parked[u]), ~e.stray
                 PROVE  home'[e.to] = u \/ (u \in Moving(e.to))'
    BY <1>1 DEF EventsFollow
  <2>2. e.to \in Objects
    BY <2>1, ObjectsOfEvents DEF AffinityInv
  <2>3. home[e.to] = u \/ u \in Moving(e.to)
    BY <2>1, MovesAre
  <2>4. CASE e.to # o
    BY <1>8, <1>9, <2>2, <2>3, <2>4
  <2>5. CASE e.to = o
    <3>1. u = t
      <4>1. u \in Moving(o) => u \in Busy(o)
        BY BusyAreThreads
      <4> QED
        BY <1>3, <1>10, <2>3, <2>5, <4>1, Numbers
    <3>2. CASE home[o] = None
      BY <1>3, <1>8, <2>5, <3>1, <3>2
    <3>3. CASE home[o] # None
      <4>1. op'[t].at \in Travelling /\ op'[t].ev.to = o
        BY <1>5, <3>3 DEF Travelling, o
      <4> QED
        BY <2>5, <3>1, <4>1, BusyIs
    <3> QED
      BY <3>2, <3>3
  <2> QED
    BY <2>4, <2>5
<1>15. TimerEventsFollow'
  BY <1>1, MovesAre DEF TimerEventsFollow
<1>16. TimersAtHome'
  <2>1. ASSUME NEW u \in Threads, NEW i \in TimerIds, timerAt[u][i] # None PROVE home'[timerAt[u][i]] = u
    <3>1. timerAt[u][i] \in Objects /\ timerAt[u][i] # o /\ home[timerAt[u][i]] = u
      BY <1>3, <2>1, MovesAre, Typed
    <3> QED
      BY <1>8, <3>1
  <2> QED
    BY <1>1, <2>1 DEF TimersAtHome
<1>17. TimersInEvents'
  <2>1. SUFFICES ASSUME NEW u \in Threads, NEW e, (e \in Held(u))', e.kind = "timers" PROVE e.arg # {}
    BY DEF TimersInEvents
  <2>2. e \in Held(u)
    BY <1>1, <1>5, <1>7, <2>1, HeldIs, NoEvents
  <2> QED
    BY <2>1, <2>2, MovesAre
<1>18. MovesAreSound'
  BY <1>11, <1>12, <1>13, <1>14, <1>15, <1>16, <1>17 DEF MovesAreSound
<1>19. op[t].at # "arm"
  BY <1>1
<1>20. NodesHaveCalls'
  BY <1>1, <1>5, <1>7, <1>19, NodesStill
<1> QED
  BY <1>18, <1>20

-----------------------------------------------------------------------------
(* The invariant.                                                                               *)

\* The parts of the invariant are what the lemmas about the actions prove.
LEMMA InvariantIs ==
    ASSUME AffinityTypeOK', Sound', LaneInv', MovesAreSound', NodesHaveCalls'
    PROVE  AffinityInv'
BY DEF AffinityInv, LaneInv, Counts

\* At first nothing is on its way.
LEMMA AffinityStarts ==
    ASSUME AffinityInit
    PROVE  AffinityInv
<1>1. /\ loop \in [Threads -> {"unstarted", "up"}]
      /\ home \in [Objects -> {t \in Threads : loop[t] = "up"}]
      /\ queue = [t \in Threads |-> <<>>] /\ parked = [t \in Threads |-> <<>>]
      /\ timerAt = [t \in Threads |-> [i \in TimerIds |-> None]]
      /\ ids = [o \in Objects |-> {}] /\ pool = TimerIds
      /\ pending = [o \in Objects |-> None] /\ invoker = [n \in 1 .. MaxLater |-> 0]
      /\ op = [t \in Threads |-> Idle] /\ outcome = <<>> /\ later = 0
      /\ moves = [o \in Objects |-> 0] /\ abandoned = {}
  BY DEF AffinityInit
<1>2. ASSUME NEW t \in Threads
      PROVE  /\ queue[t] = <<>> /\ parked[t] = <<>> /\ op[t] = Idle
             /\ \A i \in TimerIds : timerAt[t][i] = None
  BY <1>1
<1>3. AffinityTypeOK
  <2>1. queue \in [Threads -> Seq(Events)] /\ parked \in [Threads -> Seq(Events)]
    BY <1>1
  <2>2. op \in [Threads -> OpRecords] /\ \A t \in Threads : op[t].at = "sweep" => op[t].sweeps < MaxSweeps
    BY <1>1, <1>2, IdleTypes
  <2>3. /\ later \in 0 .. MaxLater /\ moves \in [Objects -> 0 .. MaxMoves]
        /\ invoker \in [1 .. MaxLater -> 0 .. MaxLater]
    BY <1>1, Numbers
  <2>4. outcome \in Seq({"open", "ran", "refused", "dropped"}) /\ Len(outcome) <= MaxPosts
    BY <1>1, Numbers
  <2>5. timerAt \in [Threads -> [TimerIds -> Objects \cup {None}]]
    BY <1>1
  <2>6. /\ loop \in [Threads -> {"unstarted", "coming", "up"}]
        /\ home \in [Objects -> Threads \cup {None}]
        /\ ids \in [Objects -> SUBSET TimerIds] /\ pool \subseteq TimerIds
        /\ pending \in [Objects -> 1 .. MaxLater \cup {None}] /\ abandoned \subseteq 1 .. MaxLater
    BY <1>1
  <2> QED
    BY <2>1, <2>2, <2>3, <2>4, <2>5, <2>6 DEF AffinityTypeOK
<1>4. Sound
  <2>1. ASSUME NEW t \in Threads PROVE StepIsSound(t) /\ parked[t] = <<>>
    BY <1>2, IdleTypes, NoEvents DEF StepIsSound, Travelling, Posting
  <2> QED
    BY <2>1 DEF Sound
<1>5. \A p \in Lanes : Lane(p) = {}
  <2>1. ASSUME NEW t \in Threads
        PROVE  /\ Load(queue[t]) = {} /\ Load(parked[t]) = {} /\ Load(op[t].taken) = {}
               /\ Hand(op[t]) = {} /\ Clock(timerAt[t]) = {}
    <3>1. Load(<<>>) = {}
      BY DEF Load
    <3>2. Hand(op[t]) = {}
      BY <1>2, IdleTypes DEF Hand, Posting
    <3>3. Clock(timerAt[t]) = {}
      BY <1>2 DEF Clock
    <3> QED
      BY <1>2, <3>1, <3>2, <3>3, IdleTypes
  <2> QED
    BY <2>1, LaneCases, LaneIs
<1>6. Carried = {}
  BY <1>5 DEF Carried
<1>7. Apart /\ AllSingle
  <2>1. Apart
    BY <1>5 DEF Apart
  <2>2. Single(<<>>)
    BY DEF Single
  <2> QED
    BY <1>2, <2>1, <2>2, IdleTypes DEF AllSingle
<1>8. CallsAreOpen /\ TimersRun /\ NodesGo /\ IdsAreOnce
  BY <1>1, <1>6 DEF CallsAreOpen, TimersRun, NodesGo, IdsAreOnce
<1>9. NodesHaveCalls
  <2>1. \A o \in Objects : pending[o] = None
    BY <1>1
  <2>2. \A t \in Threads : op[t].at \notin {"arm", "disarm"}
    BY <1>2, IdleTypes
  <2> QED
    BY <2>1, <2>2 DEF NodesHaveCalls
<1>10. \A o : Busy(o) = {}
  <2>1. ASSUME NEW o, NEW u \in Threads PROVE u \notin Busy(o)
    BY <1>2, IdleIsQuiet, BusyIs
  <2> QED
    BY <2>1, BusyAreThreads
<1>11. OneMover
  BY <1>10 DEF OneMover
<1>12. \A t \in Threads : MoverIsSound(t)
  BY <1>2, IdleTypes DEF MoverIsSound, Posting
<1>13. TimerEventsFollow /\ EventsFollow
  BY <1>2, NoEvents DEF TimerEventsFollow, EventsFollow
<1>14. TimersAtHome
  BY <1>2 DEF TimersAtHome
<1>15. TimersInEvents
  <2>1. ASSUME NEW t \in Threads, NEW e \in Held(t) PROVE FALSE
    BY <1>2, <2>1, IdleTypes, HeldIs, NoEvents DEF Posting
  <2> QED
    BY <2>1 DEF TimersInEvents
<1>16. MovesAreSound
  BY <1>11, <1>12, <1>13, <1>14, <1>15 DEF MovesAreSound
<1> QED
  BY <1>3, <1>4, <1>7, <1>8, <1>9, <1>16 DEF AffinityInv

\* A careful application's steps keep it, each action for the reasons its lemmas give.
LEMMA AffinitySteps ==
    ASSUME AffinityInv, Careful, AffinityNext
    PROVE  AffinityInv'
<1>1. PICK t \in Threads :
        \/ Start(t) \/ Install(t)
        \/ Resolve(t) \/ Fetch(t) \/ Land(t)
        \/ Arm(t) \/ Unlist(t) \/ Disarm(t)
        \/ Deliver(t) \/ DeliverLater(t) \/ DeliverTimers(t)
        \/ Swap(t) \/ Sweep(t) \/ Repost(t) \/ Drop(t) \/ ForgetTimers(t)
        \/ \E o \in Objects :
            \/ BeginPost(t, o)
            \/ CallLater(t, o)
            \/ \E i \in TimerIds : StartTimer(t, o, i) \/ KillTimer(t, o, i)
            \/ \E d \in Threads \cup {None} : BeginMove(t, o, d)
  BY DEF AffinityNext
<1>2. CASE Start(t)
  BY <1>2, StartTypes, StartLanes, StartMoves, InvariantIs
<1>3. CASE Install(t)
  BY <1>3, InstallTypes, InstallLanes, InstallMoves, InvariantIs
<1>4. CASE Resolve(t)
  BY <1>4, ResolveTypes, ResolveLanes, ResolveMoves, InvariantIs
<1>5. CASE Fetch(t)
  BY <1>5, FetchTypes, FetchLanes, FetchMoves, InvariantIs
<1>6. CASE Land(t)
  BY <1>6, LandTypes, LandLanes, LandMoves, InvariantIs
<1>7. CASE Arm(t)
  BY <1>7, ArmTypes, ArmLanes, ArmMoves, ArmNodes, InvariantIs
<1>8. CASE Unlist(t)
  BY <1>8, UnlistTypes, UnlistLanes, UnlistMoves, UnlistNodes, InvariantIs
<1>9. CASE Disarm(t)
  BY <1>9, DisarmTypes, DisarmLanes, DisarmMoves, DisarmNodes, InvariantIs
<1>10. CASE Deliver(t)
  BY <1>10, DeliverTypes, DeliverLanes, DeliverMoves, InvariantIs
<1>11. CASE DeliverLater(t)
  BY <1>11, DeliverLaterTypes, DeliverLaterLanes, DeliverLaterMoves, DeliverLaterNodes, InvariantIs
<1>12. CASE DeliverTimers(t)
  BY <1>12, DeliverTimersTypes, DeliverTimersLanes, DeliverTimersMoves, InvariantIs
<1>13. CASE Swap(t)
  BY <1>13, SwapTypes, SwapLanes, SwapMoves, InvariantIs
<1>14. CASE Sweep(t)
  BY <1>14, SweepTypes, SweepLanes, SweepMoves, InvariantIs
<1>15. CASE Repost(t)
  BY <1>15, RepostTypes, RepostLanes, RepostMoves, InvariantIs
<1>16. CASE Drop(t)
  BY <1>16, DropTypes, DropLanes, DropMoves, InvariantIs
<1>17. CASE ForgetTimers(t)
  BY <1>17, ForgetTimersTypes, ForgetTimersLanes, ForgetTimersMoves, InvariantIs
<1>18. ASSUME NEW o \in Objects, BeginPost(t, o) PROVE AffinityInv'
  BY <1>18, BeginPostTypes, BeginPostLanes, BeginPostMoves, InvariantIs
<1>19. ASSUME NEW o \in Objects, CallLater(t, o) PROVE AffinityInv'
  BY <1>19, CallLaterTypes, CallLaterLanes, CallLaterMoves, CallLaterNodes, InvariantIs
<1>20. ASSUME NEW o \in Objects, NEW i \in TimerIds, StartTimer(t, o, i) PROVE AffinityInv'
  BY <1>20, StartTimerTypes, StartTimerLanes, StartTimerMoves, InvariantIs
<1>21. ASSUME NEW o \in Objects, NEW i \in TimerIds, KillTimer(t, o, i) PROVE AffinityInv'
  BY <1>21, KillTimerTypes, KillTimerLanes, KillTimerMoves, InvariantIs
<1>22. ASSUME NEW o \in Objects, NEW d \in Threads \cup {None}, BeginMove(t, o, d) PROVE AffinityInv'
  BY <1>22, BeginMoveTypes, BeginMoveLanes, BeginMoveMoves, InvariantIs
<1> QED
  BY <1>1, <1>2, <1>3, <1>4, <1>5, <1>6, <1>7, <1>8, <1>9, <1>10, <1>11, <1>12,
     <1>13, <1>14, <1>15, <1>16, <1>17, <1>18, <1>19, <1>20, <1>21, <1>22

LEMMA AffinityStill ==
    ASSUME AffinityInv, UNCHANGED affinityVars
    PROVE  AffinityInv'
<1>1. /\ loop' = loop /\ home' = home /\ queue' = queue /\ parked' = parked /\ timerAt' = timerAt
      /\ ids' = ids /\ pool' = pool /\ pending' = pending /\ invoker' = invoker /\ op' = op
      /\ outcome' = outcome /\ later' = later /\ moves' = moves /\ abandoned' = abandoned
  BY DEF affinityVars, posted, clocks, registry
<1>2. AffinityTypeOK' /\ Sound'
  BY <1>1 DEF AffinityInv, AffinityTypeOK, Sound, StepIsSound
<1>3. Carried' = Carried /\ Apart' /\ AllSingle'
  BY <1>1 DEF AffinityInv, Carried, Apart, AllSingle, Lane
<1>4. CallsAreOpen' /\ TimersRun' /\ NodesGo' /\ IdsAreOnce'
  BY <1>1, <1>3 DEF AffinityInv, CallsAreOpen, TimersRun, NodesGo, IdsAreOnce
<1>5. NodesHaveCalls'
  BY <1>1, NodesUntouched
<1>6. MovesAreSound'
  BY <1>1 DEF AffinityInv, MovesAreSound, OneMover, Busy, Moving, HandingTimers, MoverIsSound, RegisteredAt,
              TimerEventsFollow, TimersAtHome, TimersInEvents, EventsFollow, Held, Line
<1> QED
  BY <1>2, <1>3, <1>4, <1>5, <1>6 DEF AffinityInv

\* The invariant holds, in an application that keeps the rules of Allowed and MayKill.
THEOREM AffinityInvariant ==
    ASSUME Careful
    PROVE  AffinitySpec => []AffinityInv
<1>1. AffinityInit => AffinityInv
  BY AffinityStarts
<1>2. AffinityInv /\ [AffinityNext]_affinityVars => AffinityInv'
  BY AffinitySteps, AffinityStill
<1> QED
  BY <1>1, <1>2, PTL DEF AffinitySpec

-----------------------------------------------------------------------------
(* What the invariant says of the calls and the nodes.                                          *)

\* What an event carries tells what it is.
LEMMA CargoHas ==
    ASSUME NEW e \in Events
    PROVE  /\ \A c : CallItem(c) \in Cargo(e) <=> IsCall(e, c)
           /\ \A o, n : LaterItem(o, n) \in Cargo(e) <=> e.kind = "later" /\ e.to = o /\ e.arg = n
           /\ \A o, i : TimerItem(o, i) \in Cargo(e) <=> e.kind = "timers" /\ e.to = o /\ i \in e.arg
<1>1. CASE e.kind = "call"
  <2>1. Cargo(e) = {CallItem(e.arg)}
    BY <1>1, CargoIs
  <2> QED
    BY <1>1, <2>1, ItemsDiffer DEF IsCall
<1>2. CASE e.kind = "later"
  <2>1. Cargo(e) = {LaterItem(e.to, e.arg)}
    BY <1>2, CargoIs
  <2> QED
    BY <1>2, <2>1, ItemsDiffer DEF IsCall
<1>3. CASE e.kind = "timers"
  <2>1. Cargo(e) = {TimerItem(e.to, i) : i \in e.arg}
    BY <1>3, CargoIs
  <2> QED
    BY <1>3, <2>1, ItemsDiffer DEF IsCall
<1> QED
  BY <1>1, <1>2, <1>3, EventTypes

\* The four lines of a thread and the lanes they are in.
LineLane(t, l) == <<IF l = "held" THEN "hand" ELSE l, t>>

LEMMA LineIs ==
    ASSUME AffinityInv, NEW t \in Threads, NEW l \in Lines
    PROVE  /\ Line(t)[l] \in Seq(Events) /\ Positions(Line(t)[l]) = DOMAIN Line(t)[l]
           /\ Single(Line(t)[l])
           /\ LineLane(t, l) \in Lanes /\ Load(Line(t)[l]) \subseteq Lane(LineLane(t, l))
<1>1. /\ Line(t)["queued"] = queue[t] /\ Line(t)["parked"] = parked[t] /\ Line(t)["taken"] = op[t].taken
      /\ Line(t)["held"] = IF op[t].at \in Posting THEN <<op[t].ev>> ELSE <<>>
  BY DEF Line, Posting
<1> DEFINE Good(s, r) == /\ s \in Seq(Events) /\ Positions(s) = DOMAIN s /\ Single(s)
                         /\ r \in Lanes /\ Load(s) \subseteq Lane(r)
<1>2. \A s \in Seq(Events) : Positions(s) = DOMAIN s
  BY DEF Positions
<1>3. /\ LineLane(t, "queued") = <<"queued", t>> /\ LineLane(t, "parked") = <<"parked", t>>
      /\ LineLane(t, "taken") = <<"taken", t>> /\ LineLane(t, "held") = <<"hand", t>>
  BY DEF LineLane
<1>4. Good(queue[t], <<"queued", t>>)
  BY <1>2, Typed, LanesAre, LaneIs, LaneNames
<1>5. Good(parked[t], <<"parked", t>>)
  BY <1>2, Typed, LanesAre, LaneIs, LaneNames
<1>6. Good(op[t].taken, <<"taken", t>>)
  BY <1>2, OpOf, LanesAre, LaneIs, LaneNames
<1>7. Good(IF op[t].at \in Posting THEN <<op[t].ev>> ELSE <<>>, <<"hand", t>>)
  <2>1. CASE op[t].at \in Posting
    <3> DEFINE e == op[t].ev
    <3>1. e \in Events
      BY <2>1, OpOf DEF StepIsSound
    <3>2. Hand(op[t]) = Cargo(e)
      BY <2>1, HandIs
    <3> HIDE DEF e
    <3>3. <<e>> \in Seq(Events) /\ DOMAIN <<e>> = {1} /\ <<e>>[1] = e
      BY <3>1
    <3>4. Single(<<e>>)
      BY <3>3 DEF Single
    <3>5. \A x : x \in Load(<<e>>) <=> \E k \in DOMAIN <<e>> : x \in Cargo(<<e>>[k])
      BY InLoad
    <3>6. \A x : x \in Load(<<e>>) <=> x \in Cargo(e)
      BY <3>3, <3>5
    <3>7. Good(<<e>>, <<"hand", t>>)
      BY <1>2, <3>2, <3>3, <3>4, <3>6, LaneIs, LaneNames
    <3> HIDE DEF Good
    <3> QED
      BY <2>1, <3>7 DEF e
  <2>2. CASE op[t].at \notin Posting
    <3>1. <<>> \in Seq(Events) /\ Load(<<>>) = {} /\ Single(<<>>)
      BY EmptyLoad
    <3>2. Good(<<>>, <<"hand", t>>)
      BY <1>2, <3>1, LaneNames
    <3> HIDE DEF Good
    <3> QED
      BY <2>2, <3>2
  <2> QED
    BY <2>1, <2>2
<1> HIDE DEF Good
<1>8. Good(Line(t)[l], LineLane(t, l))
  BY <1>1, <1>3, <1>4, <1>5, <1>6, <1>7 DEF Lines
<1> QED
  BY <1>8 DEF Good

\* What is carried is carried in one lane.
LEMMA OneLane ==
    ASSUME AffinityInv, NEW x, NEW r \in Lanes, NEW s \in Lanes, x \in Lane(r), x \in Lane(s)
    PROVE  r = s
BY LanesAre DEF Apart

\* Whatever is carried is in an event, in a hand or in a clock.
LEMMA WhereCarried ==
    ASSUME AffinityInv, NEW x \in Carried
    PROVE  \E t \in Threads :
              \/ \E l \in Lines : \E k \in DOMAIN Line(t)[l] : x \in Cargo(Line(t)[l][k])
              \/ op[t].at = "unlist" /\ x \in Cargo(op[t].ev)
              \/ op[t].at = "arm" /\ op[t].fresh /\ x \in Cargo(op[t].ev)
              \/ \E i \in op[t].timers : x = TimerItem(op[t].ev.to, i)
              \/ \E i \in TimerIds : timerAt[t][i] # None /\ x = TimerItem(timerAt[t][i], i)
<1>1. PICK r \in Lanes : x \in Lane(r)
  BY DEF Carried
<1>2. PICK t \in Threads : \/ r = <<"queued", t>> \/ r = <<"parked", t>> \/ r = <<"taken", t>>
                           \/ r = <<"hand", t>> \/ r = <<"clock", t>>
  BY LaneCases
<1>3. /\ Line(t)["queued"] = queue[t] /\ Line(t)["parked"] = parked[t] /\ Line(t)["taken"] = op[t].taken
      /\ op[t].at \in Posting => Line(t)["held"] = <<op[t].ev>>
      /\ {"queued", "parked", "taken", "held"} \subseteq Lines
  BY DEF Line, Posting, Lines
<1>4. ASSUME NEW l \in Lines, x \in Load(Line(t)[l])
      PROVE  \E m \in Lines : \E k \in DOMAIN Line(t)[m] : x \in Cargo(Line(t)[m][k])
  BY <1>4, InLoad
<1>5. CASE r = <<"queued", t>>
  <2>1. x \in Load(Line(t)["queued"])
    BY <1>1, <1>3, <1>5, LaneIs
  <2> QED
    BY <1>3, <1>4, <2>1
<1>6. CASE r = <<"parked", t>>
  <2>1. x \in Load(Line(t)["parked"])
    BY <1>1, <1>3, <1>6, LaneIs
  <2> QED
    BY <1>3, <1>4, <2>1
<1>7. CASE r = <<"taken", t>>
  <2>1. x \in Load(Line(t)["taken"])
    BY <1>1, <1>3, <1>7, LaneIs
  <2> QED
    BY <1>3, <1>4, <2>1
<1>8. CASE r = <<"hand", t>>
  <2>1. x \in Hand(op[t])
    BY <1>1, <1>8, LaneIs
  <2>2. CASE op[t].at \in Posting
    <3>1. x \in Cargo(op[t].ev)
      BY <2>1, <2>2, HandIs
    <3>2. 1 \in DOMAIN <<op[t].ev>> /\ <<op[t].ev>>[1] = op[t].ev
      OBVIOUS
    <3> QED
      BY <1>3, <2>2, <3>1, <3>2
  <2>3. CASE op[t].at \notin Posting
    BY <2>1, <2>3 DEF Hand
  <2> QED
    BY <2>2, <2>3
<1>9. CASE r = <<"clock", t>>
  <2>1. x \in Clock(timerAt[t])
    BY <1>1, <1>9, LaneIs
  <2> QED
    BY <2>1 DEF Clock
<1> QED
  BY <1>2, <1>5, <1>6, <1>7, <1>8, <1>9

LEMMA LineEvents ==
    ASSUME AffinityInv, NEW t \in Threads, NEW l \in Lines, NEW k \in DOMAIN Line(t)[l]
    PROVE  /\ Line(t)[l][k] \in Events /\ Line(t)[l][k] \in Held(t)
           /\ Cargo(Line(t)[l][k]) \subseteq Lane(LineLane(t, l))
<1>1. Line(t)[l] \in Seq(Events) /\ Load(Line(t)[l]) \subseteq Lane(LineLane(t, l))
  BY LineIs
<1>2. Line(t)[l][k] \in Events
  BY <1>1
<1>3. Line(t)[l][k] \in Held(t)
  BY DEF Held, ToSet
<1>4. Cargo(Line(t)[l][k]) \subseteq Load(Line(t)[l])
  BY InLoad
<1> QED
  BY <1>1, <1>2, <1>3, <1>4

\* A call that is carried is in one place, and one that is not is in none.
LEMMA CallPlaceIs ==
    ASSUME AffinityInv, NEW c
    PROVE  /\ \A p \in CallPlaces(c) : \E t \in Threads : \E l \in Lines : \E k \in DOMAIN Line(t)[l] :
                 p = <<t, l, k>> /\ IsCall(Line(t)[l][k], c)
           /\ \A t \in Threads : \A l \in Lines : \A k \in DOMAIN Line(t)[l] :
                 IsCall(Line(t)[l][k], c) => <<t, l, k>> \in CallPlaces(c)
<1>1. \A t \in Threads, l \in Lines : Positions(Line(t)[l]) = DOMAIN Line(t)[l]
  BY LineIs
<1> DEFINE P(t, l) == {<<t, l, k>> : k \in {j \in Positions(Line(t)[l]) : IsCall(Line(t)[l][j], c)}}
<1>2. CallPlaces(c) = UNION {P(t, l) : t \in Threads, l \in Lines}
  BY DEF CallPlaces
<1>3. ASSUME NEW t \in Threads, NEW l \in Lines
      PROVE  \A p : p \in P(t, l) <=> \E k \in DOMAIN Line(t)[l] : p = <<t, l, k>> /\ IsCall(Line(t)[l][k], c)
  BY <1>1
<1> HIDE DEF P
<1>4. \A p : p \in CallPlaces(c) <=> \E t \in Threads : \E l \in Lines : p \in P(t, l)
  BY <1>2
<1> QED
  BY <1>3, <1>4

LEMMA CallIsInOnePlace ==
    ASSUME AffinityInv, NEW c \in Nat
    PROVE  Cardinality(CallPlaces(c)) = IF CallItem(c) \in Carried THEN 1 ELSE 0
<1>1. \A t \in Threads : \A l \in Lines : \A k \in DOMAIN Line(t)[l] :
         IsCall(Line(t)[l][k], c) => CallItem(c) \in Cargo(Line(t)[l][k]) /\ CallItem(c) \in Lane(LineLane(t, l))
  BY LineEvents, CargoHas
<1>2. CASE CallItem(c) \notin Carried
  <2>1. CallPlaces(c) = {}
    <3>1. SUFFICES ASSUME NEW p \in CallPlaces(c) PROVE FALSE
      OBVIOUS
    <3>2. PICK t \in Threads, l \in Lines : \E k \in DOMAIN Line(t)[l] : IsCall(Line(t)[l][k], c)
      BY CallPlaceIs
    <3>3. CallItem(c) \in Lane(LineLane(t, l))
      BY <1>1, <3>2
    <3> QED
      BY <1>2, <3>3, LineIs, LaneIsCarried
  <2> QED
    BY <1>2, <2>1, FS_EmptySet
<1>3. CASE CallItem(c) \in Carried
  <2>1. PICK t \in Threads, l \in Lines : \E k \in DOMAIN Line(t)[l] : IsCall(Line(t)[l][k], c)
    <3>1. PICK t \in Threads :
              \/ \E l \in Lines : \E k \in DOMAIN Line(t)[l] : CallItem(c) \in Cargo(Line(t)[l][k])
              \/ op[t].at = "unlist" /\ CallItem(c) \in Cargo(op[t].ev)
              \/ op[t].at = "arm" /\ op[t].fresh /\ CallItem(c) \in Cargo(op[t].ev)
              \/ \E i \in op[t].timers : CallItem(c) = TimerItem(op[t].ev.to, i)
              \/ \E i \in TimerIds : timerAt[t][i] # None /\ CallItem(c) = TimerItem(timerAt[t][i], i)
      BY <1>3, WhereCarried
    <3>2. op[t].at \in {"unlist", "arm"} => CallItem(c) \notin Cargo(op[t].ev)
      BY NodeTypes, CargoHas DEF IsCall
    <3>3. PICK l \in Lines : \E k \in DOMAIN Line(t)[l] : CallItem(c) \in Cargo(Line(t)[l][k])
      BY <3>1, <3>2, ItemsDiffer
    <3> QED
      BY <3>3, LineEvents, CargoHas
  <2>2. PICK k \in DOMAIN Line(t)[l] : IsCall(Line(t)[l][k], c)
    BY <2>1
  <2>3. ASSUME NEW p \in CallPlaces(c) PROVE p = <<t, l, k>>
    <3>1. PICK u \in Threads, m \in Lines : \E j \in DOMAIN Line(u)[m] :
             p = <<u, m, j>> /\ IsCall(Line(u)[m][j], c)
      BY CallPlaceIs
    <3>2. PICK j \in DOMAIN Line(u)[m] : p = <<u, m, j>> /\ IsCall(Line(u)[m][j], c)
      BY <3>1
    <3>3. LineLane(u, m) = LineLane(t, l)
      BY <1>1, <2>2, <3>2, LineIs, OneLane
    <3>4. u = t /\ m = l
      BY <3>3 DEF LineLane, Lines
    <3>5. j = k
      <4>1. CallItem(c) \in Cargo(Line(t)[l][j]) /\ CallItem(c) \in Cargo(Line(t)[l][k])
        BY <1>1, <2>2, <3>2, <3>4
      <4> QED
        BY <2>2, <3>2, <3>4, <4>1, LineIs DEF Single
    <3> QED
      BY <3>2, <3>4, <3>5
  <2>4. CallPlaces(c) = {<<t, l, k>>}
    BY <2>2, <2>3, CallPlaceIs
  <2> QED
    BY <1>3, <2>4, FS_Singleton
<1> QED
  BY <1>2, <1>3

\* A node that is on its way is in an event, or in the hands of a caller.
LEMMA PendingIsOnItsWay ==
    ASSUME AffinityInv, NEW o \in Objects, pending[o] # None
    PROVE  \/ pending[o] \in abandoned
           \/ Arming(pending[o]) # {}
           \/ \E t \in Threads :
                \/ op[t].at = "unlist" /\ Handles(t, pending[o])
                \/ \E e \in Held(t) : e.to = o /\ e.kind = "later" /\ e.arg = pending[o]
<1> DEFINE x == LaterItem(o, pending[o])
<1>1. SUFFICES ASSUME x \in Carried
               PROVE  \/ Arming(pending[o]) # {}
                      \/ \E t \in Threads :
                           \/ op[t].at = "unlist" /\ Handles(t, pending[o])
                           \/ \E e \in Held(t) : e.to = o /\ e.kind = "later" /\ e.arg = pending[o]
  BY CountsAre
<1>2. PICK t \in Threads :
              \/ \E l \in Lines : \E k \in DOMAIN Line(t)[l] : x \in Cargo(Line(t)[l][k])
              \/ op[t].at = "unlist" /\ x \in Cargo(op[t].ev)
              \/ op[t].at = "arm" /\ op[t].fresh /\ x \in Cargo(op[t].ev)
              \/ \E i \in op[t].timers : x = TimerItem(op[t].ev.to, i)
              \/ \E i \in TimerIds : timerAt[t][i] # None /\ x = TimerItem(timerAt[t][i], i)
  BY <1>1, WhereCarried
<1>3. op[t].at \in {"unlist", "arm"} /\ x \in Cargo(op[t].ev) => Handles(t, pending[o])
  BY NodeTypes, CargoHas DEF Handles
<1>4. CASE \E l \in Lines : \E k \in DOMAIN Line(t)[l] : x \in Cargo(Line(t)[l][k])
  BY <1>4, LineEvents, CargoHas
<1>5. CASE op[t].at = "unlist" /\ x \in Cargo(op[t].ev)
  BY <1>3, <1>5
<1>6. CASE op[t].at = "arm" /\ op[t].fresh /\ x \in Cargo(op[t].ev)
  BY <1>3, <1>6 DEF Arming
<1> QED
  BY <1>2, <1>4, <1>5, <1>6, ItemsDiffer

LEMMA InvariantKeepsWork ==
    ASSUME AffinityInv
    PROVE  WorkIsKept
<1>1. CallsAreInOnePlace
  <2>1. SUFFICES ASSUME NEW c \in DOMAIN outcome
                 PROVE  Cardinality(CallPlaces(c)) = IF outcome[c] = "open" THEN 1 ELSE 0
    BY DEF CallsAreInOnePlace
  <2>2. c \in Nat
    BY <2>1, Typed
  <2>3. CallItem(c) \in Carried <=> outcome[c] = "open"
    BY <2>1, <2>2, CountsAre
  <2> QED
    BY <2>2, <2>3, CallIsInOnePlace
<1>2. PendingWillRun
  BY PendingIsOnItsWay DEF PendingWillRun, AffinityInv, NodesHaveCalls
<1> QED
  BY <1>1, <1>2 DEF WorkIsKept, EventsAreKept, AffinityInv, MovesAreSound

-----------------------------------------------------------------------------
(* What the invariant says of the timers.                                                       *)

\* In which lane a timer is that is said to be registered, taken along or sent after its object.
PlacedIn(p, t, r) ==
    \/ p = <<"registered", t>> /\ r = <<"clock", t>>
    \/ p = <<"taken", t>> /\ r = <<"hand", t>> /\ op[t].at \in Travelling
    \/ p = <<"sent", t>> /\ (r \in {<<"queued", t>>, <<"parked", t>>, <<"taken", t>>}
                              \/ (r = <<"hand", t>> /\ op[t].at \in Posting))

LEMMA TimerPlaceIs ==
    ASSUME NEW o, NEW i, NEW p
    PROVE  p \in TimerPlaces(o, i) <=>
              \E t \in Threads : \/ p = <<"registered", t>> /\ timerAt[t][i] = o
                                 \/ p = <<"taken", t>> /\ i \in op[t].timers /\ op[t].ev.to = o
                                 \/ p = <<"sent", t>> /\ \E e \in Held(t) : e.kind = "timers" /\ e.to = o /\ i \in e.arg
BY DEF TimerPlaces

LEMMA HeldIsInALine ==
    ASSUME AffinityInv, NEW t \in Threads, NEW e \in Held(t)
    PROVE  \E l \in Lines : \E k \in DOMAIN Line(t)[l] : e = Line(t)[l][k]
BY DEF Held, ToSet

LEMMA TimerIsPlaced ==
    ASSUME AffinityInv, NEW o \in Objects, NEW i \in TimerIds, NEW p \in TimerPlaces(o, i)
    PROVE  \E t \in Threads : \E r \in Lanes : TimerItem(o, i) \in Lane(r) /\ PlacedIn(p, t, r)
<1> DEFINE x == TimerItem(o, i)
<1>1. PICK t \in Threads :
        \/ p = <<"registered", t>> /\ timerAt[t][i] = o
        \/ p = <<"taken", t>> /\ i \in op[t].timers /\ op[t].ev.to = o
        \/ p = <<"sent", t>> /\ \E e \in Held(t) : e.kind = "timers" /\ e.to = o /\ i \in e.arg
  BY TimerPlaceIs
<1>2. CASE p = <<"registered", t>> /\ timerAt[t][i] = o
  <2>1. x \in Lane(<<"clock", t>>)
    <3>1. o # None
      BY Numbers
    <3>2. x \in Clock(timerAt[t])
      BY <1>2, <3>1, ClockHas
    <3> QED
      BY <3>2, LaneIs
  <2> QED
    BY <1>2, <2>1, LaneNames DEF PlacedIn
<1>3. CASE p = <<"taken", t>> /\ i \in op[t].timers /\ op[t].ev.to = o
  <2>1. op[t].at \in Travelling
    BY <1>3, OpOf DEF StepIsSound
  <2>2. x \in Hand(op[t])
    BY <1>3, <2>1, HandIs
  <2>3. x \in Lane(<<"hand", t>>)
    BY <2>2, LaneIs
  <2> QED
    BY <1>3, <2>1, <2>3, LaneNames DEF PlacedIn
<1>4. CASE p = <<"sent", t>> /\ \E e \in Held(t) : e.kind = "timers" /\ e.to = o /\ i \in e.arg
  <2>1. PICK e \in Held(t) : e.kind = "timers" /\ e.to = o /\ i \in e.arg
    BY <1>4
  <2>2. PICK l \in Lines : \E k \in DOMAIN Line(t)[l] : e = Line(t)[l][k]
    BY HeldIsInALine
  <2>3. x \in Cargo(e)
    BY <2>1, CargoIs
  <2>4. x \in Lane(LineLane(t, l)) /\ LineLane(t, l) \in Lanes
    BY <2>2, <2>3, LineEvents, LineIs
  <2>5. l = "held" => op[t].at \in Posting
    <3>1. SUFFICES ASSUME l = "held", op[t].at \notin Posting PROVE FALSE
      OBVIOUS
    <3>2. Line(t)[l] = <<>>
      BY <3>1 DEF Line, Posting
    <3> QED
      BY <2>2, <3>2
  <2>6. PlacedIn(p, t, LineLane(t, l))
    BY <1>4, <2>5 DEF PlacedIn, LineLane, Lines
  <2> QED
    BY <2>4, <2>6
<1> QED
  BY <1>1, <1>2, <1>3, <1>4

\* One lane is one place.
LEMMA OnePlace ==
    ASSUME NEW p, NEW q, NEW r, NEW t, NEW u, PlacedIn(p, t, r), PlacedIn(q, u, r)
    PROVE  p = q
<1>1. Posting \cap Travelling = {}
  BY DEF Posting, Travelling
<1>2. t = u
  BY DEF PlacedIn
<1> QED
  BY <1>1, <1>2 DEF PlacedIn

LEMMA CarriedTimerIsSomewhere ==
    ASSUME AffinityInv, NEW o \in Objects, NEW i \in TimerIds, TimerItem(o, i) \in Carried
    PROVE  TimerPlaces(o, i) # {}
<1> DEFINE x == TimerItem(o, i)
<1>1. PICK t \in Threads :
              \/ \E l \in Lines : \E k \in DOMAIN Line(t)[l] : x \in Cargo(Line(t)[l][k])
              \/ op[t].at = "unlist" /\ x \in Cargo(op[t].ev)
              \/ op[t].at = "arm" /\ op[t].fresh /\ x \in Cargo(op[t].ev)
              \/ \E j \in op[t].timers : x = TimerItem(op[t].ev.to, j)
              \/ \E j \in TimerIds : timerAt[t][j] # None /\ x = TimerItem(timerAt[t][j], j)
  BY WhereCarried
<1>2. CASE \E l \in Lines : \E k \in DOMAIN Line(t)[l] : x \in Cargo(Line(t)[l][k])
  <2>1. \E e \in Held(t) : e.kind = "timers" /\ e.to = o /\ i \in e.arg
    BY <1>2, LineEvents, CargoHas
  <2>2. <<"sent", t>> \in TimerPlaces(o, i)
    BY <2>1, TimerPlaceIs
  <2> QED
    BY <2>2
<1>3. op[t].at \in {"unlist", "arm"} => x \notin Cargo(op[t].ev)
  BY NodeTypes, CargoHas
<1>4. CASE \E j \in op[t].timers : x = TimerItem(op[t].ev.to, j)
  <2>1. i \in op[t].timers /\ op[t].ev.to = o
    BY <1>4, ItemsDiffer
  <2>2. <<"taken", t>> \in TimerPlaces(o, i)
    BY <2>1, TimerPlaceIs
  <2> QED
    BY <2>2
<1>5. CASE \E j \in TimerIds : timerAt[t][j] # None /\ x = TimerItem(timerAt[t][j], j)
  <2>1. timerAt[t][i] = o
    BY <1>5, ItemsDiffer
  <2>2. <<"registered", t>> \in TimerPlaces(o, i)
    BY <2>1, TimerPlaceIs
  <2> QED
    BY <2>2
<1> QED
  BY <1>1, <1>2, <1>3, <1>4, <1>5

LEMMA TimerIsInOnePlace ==
    ASSUME AffinityInv, NEW o \in Objects, NEW i \in TimerIds
    PROVE  /\ TimerPlaces(o, i) # {} <=> i \in ids[o]
           /\ Cardinality(TimerPlaces(o, i)) <= 1
<1>1. \A p \in TimerPlaces(o, i) : \E t \in Threads : \E r \in Lanes : TimerItem(o, i) \in Lane(r) /\ PlacedIn(p, t, r)
  BY TimerIsPlaced
<1>2. TimerPlaces(o, i) # {} => TimerItem(o, i) \in Carried
  BY <1>1, LaneIsCarried
<1>3. TimerPlaces(o, i) # {} <=> i \in ids[o]
  BY <1>2, CarriedTimerIsSomewhere, CountsAre
<1>4. ASSUME NEW p \in TimerPlaces(o, i), NEW q \in TimerPlaces(o, i) PROVE p = q
  <2>1. PICK t \in Threads, r \in Lanes : TimerItem(o, i) \in Lane(r) /\ PlacedIn(p, t, r)
    BY <1>1
  <2>2. PICK u \in Threads, s \in Lanes : TimerItem(o, i) \in Lane(s) /\ PlacedIn(q, u, s)
    BY <1>1
  <2>3. r = s
    BY <2>1, <2>2, OneLane
  <2> QED
    BY <2>1, <2>2, <2>3, OnePlace
<1>5. Cardinality(TimerPlaces(o, i)) <= 1
  <2>1. CASE TimerPlaces(o, i) = {}
    BY <2>1, FS_EmptySet
  <2>2. CASE TimerPlaces(o, i) # {}
    <3>1. PICK p \in TimerPlaces(o, i) : TRUE
      BY <2>2
    <3>2. TimerPlaces(o, i) = {p}
      BY <1>4, <3>1
    <3>3. Cardinality(TimerPlaces(o, i)) = 1
      BY <3>2, FS_Singleton
    <3> QED
      BY <3>3
  <2> QED
    BY <2>1, <2>2
<1> QED
  BY <1>3, <1>5

LEMMA InvariantPlacesTimers ==
    ASSUME AffinityInv
    PROVE  TimersAreWhereTheyBelong
<1>1. RunningTimersAreKept
  BY Typed, TimerIsInOnePlace DEF RunningTimersAreKept
<1>2. \A o \in Objects, i \in TimerIds :
        /\ Cardinality(TimerPlaces(o, i)) <= 1
        /\ TimerPlaces(o, i) # {} => i \in ids[o]
        /\ \A t \in Threads : timerAt[t][i] = o => home[o] = t
  BY TimerIsInOnePlace, MovesAre, Numbers
<1>3. ASSUME NEW i \in TimerIds
      PROVE  Cardinality({o \in Objects : i \in ids[o]}) = IF i \in pool THEN 0 ELSE 1
  <2> DEFINE S == {o \in Objects : i \in ids[o]}
  <2>1. i \in pool <=> S = {}
    BY CountsAre
  <2>2. \A o, p \in S : o = p
    BY CountsAre
  <2> HIDE DEF S
  <2>3. CASE S = {}
    BY <2>1, <2>3, FS_EmptySet DEF S
  <2>4. CASE S # {}
    <3>1. PICK o \in S : TRUE
      BY <2>4
    <3>2. S = {o}
      BY <2>2, <3>1
    <3>3. Cardinality(S) = 1
      BY <3>2, FS_Singleton
    <3> QED
      BY <2>1, <2>4, <3>3 DEF S
  <2> QED
    BY <2>3, <2>4
<1> QED
  BY <1>1, <1>2, <1>3 DEF TimersAreWhereTheyBelong

\* No call and no callLater() slot is lost to a move, a refusal or a sweep, and events follow
\* their object, whatever the threads, objects and bounds.
THEOREM WorkIsAlwaysKept ==
    ASSUME Careful
    PROVE  AffinitySpec => []WorkIsKept
BY AffinityInvariant, InvariantKeepsWork, PTL

\* A running timer is in one place, and registered only where its object lives; an id is its
\* owner's or the pool's.
THEOREM TimersAlwaysBelong ==
    ASSUME Careful
    PROVE  AffinitySpec => []TimersAreWhereTheyBelong
BY AffinityInvariant, InvariantPlacesTimers, PTL


-----------------------------------------------------------------------------
(* Maps from keys to values. *)

LEMMA MapIsMap ==
    ASSUME NEW f, NEW K \in SUBSET Key, f \in [K -> Value]
    PROVE  f \in Maps
  BY DEF Maps

LEMMA MapParts ==
    ASSUME NEW f \in Maps
    PROVE  /\ DOMAIN f \in SUBSET Key
           /\ f \in [DOMAIN f -> Value]
  BY DEF Maps

LEMMA NoKeysIsMap == NoKeys \in Maps /\ DOMAIN NoKeys = {}
<1>1. NoKeys \in [{} -> Value]
  BY DEF NoKeys
<1>2. QED
  BY <1>1, MapIsMap

LEMMA SetIsMap ==
    ASSUME NEW f \in Maps, NEW k \in Key, NEW v \in Value
    PROVE  [j \in DOMAIN f \cup {k} |-> IF j = k THEN v ELSE f[j]] \in Maps
<1>1. DOMAIN f \cup {k} \in SUBSET Key
  BY MapParts
<1>2. [j \in DOMAIN f \cup {k} |-> IF j = k THEN v ELSE f[j]] \in [DOMAIN f \cup {k} -> Value]
  BY MapParts
<1>3. QED
  BY <1>1, <1>2, MapIsMap

LEMMA WithoutIsMap ==
    ASSUME NEW f \in Maps, NEW gone
    PROVE  /\ Without(f, gone) \in Maps
           /\ DOMAIN Without(f, gone) = DOMAIN f \ gone
<1>1. DOMAIN f \ gone \in SUBSET Key
  BY MapParts
<1>2. Without(f, gone) \in [DOMAIN f \ gone -> Value]
  BY MapParts DEF Without
<1>3. QED
  BY <1>1, <1>2, MapIsMap

LEMMA MergedIsMap ==
    ASSUME NEW f \in Maps, NEW store \in Stores
    PROVE  Merged(f, store) \in Maps
<1>1. store.added \in Maps
  BY DEF Stores
<1> DEFINE K == (DOMAIN f \ store.removed) \cup DOMAIN store.added
<1>2. K \in SUBSET Key
  BY <1>1, MapParts
<1>3. Merged(f, store) \in [K -> Value]
  BY <1>1, MapParts DEF Merged
<1>4. QED
  BY <1>2, <1>3, MapIsMap

-----------------------------------------------------------------------------
(* Type correctness. *)

LEMMA StampTyped ==
    ASSUME TypeOK, NEW p \in Process
    PROVE  /\ link[PathOf[p]] \in Path
           /\ FileOf(p) \in [version : Nat, keys : Maps, whole : BOOLEAN]
           /\ StampOf(p) \in Stamps
           /\ Stat(p) \subseteq Stamps
<1>1. link[PathOf[p]] \in Path
  BY SettingsAssumption DEF TypeOK
<1>2. FileOf(p) \in [version : Nat, keys : Maps, whole : BOOLEAN]
  BY <1>1 DEF TypeOK, FileOf
<1>3. FileOf(p).version \in Nat
  BY <1>2
<1>4. QED
  BY <1>1, <1>2, <1>3 DEF Stat, StampOf, Stamps, NoStamp

LEMMA NothingTyped ==
    /\ NoStamp \in Stamps
    /\ NoFile \in [version : Nat, keys : Maps, whole : BOOLEAN]
    /\ NewStore \in Stores
    /\ NewStore.added = NoKeys /\ NewStore.removed = {}
  BY NoKeysIsMap DEF NoStamp, Stamps, NoFile, File, NewStore, Stores

\* A step of one process takes it to a place with a stamp.
LEMMA MoveTyped ==
    ASSUME TypeOK, NEW p \in Process, NEW where \in Places, NEW stamp \in Stamps,
           GoWith(p, where, stamp)
    PROVE  /\ at' \in [Process -> Places]
           /\ current' \in [Process -> Stamps]
  BY DEF TypeOK, GoWith

LEMMA GoTyped ==
    ASSUME TypeOK, NEW p \in Process, NEW where \in Places, Go(p, where)
    PROVE  /\ at' \in [Process -> Places]
           /\ current' \in [Process -> Stamps]
  BY NothingTyped DEF TypeOK, Go, GoWith

\* The store of one process becomes another store.
LEMMA StoreTyped ==
    ASSUME TypeOK, NEW p \in Process, NEW new \in Stores,
           DOMAIN new.added \cap new.removed = {},
           mem' = [mem EXCEPT ![p] = new]
    PROVE  /\ mem' \in [Process -> Stores]
           /\ \A q \in Process : DOMAIN mem'[q].added \cap mem'[q].removed = {}
  BY DEF TypeOK

LEMMA InitTyped == Init => TypeOK
<1> SUFFICES ASSUME Init PROVE TypeOK
  OBVIOUS
<1>1. files \in [Path -> [version : Nat, keys : Maps, whole : BOOLEAN]]
  <2>1. AtFirst \subseteq Maps
    BY SettingsAssumption DEF Maps
  <2>2. \A keys \in AtFirst : File(1, keys) \in [version : Nat, keys : Maps, whole : BOOLEAN]
    BY <2>1 DEF File
  <2>3. QED
    BY <2>2, NothingTyped DEF Init
<1>2. mem \in [Process -> Stores]
  BY NothingTyped DEF Init
<1>3. \A p \in Process : DOMAIN mem[p].added \cap mem[p].removed = {}
  BY NothingTyped DEF Init
<1>4. current \in [Process -> Stamps] /\ at \in [Process -> Places]
  BY NothingTyped DEF Init, Places
<1>5. /\ link \in [Path -> Path]
      /\ writes \in Nat
      /\ lockFile \in [Path -> Inode \cup {NoOne}]
      /\ lockOf \in [Inode -> Process \cup {NoOne}]
      /\ fd \in [Process -> Inode \cup {NoOne}]
      /\ tmp \in [Process -> {"none", "part", "whole"}]
      /\ changes \in Nat
      /\ syncs \in Nat
      /\ crashes \in Nat
  BY SettingsAssumption DEF Init
<1>6. QED
  BY <1>1, <1>2, <1>3, <1>4, <1>5 DEF TypeOK

LEMMA SetTyped ==
    ASSUME TypeOK, NEW p \in Process, NEW k \in Key, NEW v \in Value, Set(p, k, v)
    PROVE  TypeOK'
<1> DEFINE old == mem[p]
           added == [j \in DOMAIN old.added \cup {k} |-> IF j = k THEN v ELSE old.added[j]]
           new == [old EXCEPT !.added = added, !.removed = @ \ {k}]
<1>1. old \in Stores /\ DOMAIN old.added \cap old.removed = {}
  BY DEF TypeOK
<1>2. added \in Maps
  BY <1>1, SetIsMap DEF Stores
<1>3. new \in Stores /\ DOMAIN new.added \cap new.removed = {}
  BY <1>1, <1>2 DEF Stores
<1>4. mem' = [mem EXCEPT ![p] = new]
  BY <1>1 DEF Set, TypeOK
<1> HIDE DEF new
<1>5. /\ mem' \in [Process -> Stores]
      /\ \A q \in Process : DOMAIN mem'[q].added \cap mem'[q].removed = {}
  BY <1>3, <1>4, StoreTyped
<1>6. UNCHANGED <<files, link, writes, lockFile, lockOf, fd, tmp, syncs, crashes, at, current>>
  BY DEF Set, Change, disk, locks
<1>7. changes' = changes + 1
  BY DEF Set, Change
<1>8. QED
  BY <1>5, <1>6, <1>7 DEF TypeOK

LEMMA RemoveKeyTyped ==
    ASSUME TypeOK, NEW p \in Process, NEW k \in Key, RemoveKey(p, k)
    PROVE  TypeOK'
<1> DEFINE old == mem[p]
           added == Without(old.added, Under[k])
           new == [old EXCEPT !.added = added,
                              !.removed = @ \cup (Under[k] \cap DOMAIN old.original)]
<1>1. /\ old \in Stores /\ DOMAIN old.added \cap old.removed = {}
      /\ DOMAIN old.original \in SUBSET Key
  BY MapParts DEF TypeOK, Stores
<1>2. added \in Maps /\ DOMAIN added = DOMAIN old.added \ Under[k]
  BY <1>1, WithoutIsMap DEF Stores
<1>3. new \in Stores
  BY <1>1, <1>2 DEF Stores
<1>4. DOMAIN new.added \cap new.removed = {}
  <2>1. new.added = added /\ new.removed = old.removed \cup (Under[k] \cap DOMAIN old.original)
    BY <1>1 DEF Stores
  <2>2. QED
    BY <1>1, <1>2, <2>1
<1>5. mem' = [mem EXCEPT ![p] = new]
  BY <1>1 DEF RemoveKey, TypeOK
<1> HIDE DEF new
<1>6. /\ mem' \in [Process -> Stores]
      /\ \A q \in Process : DOMAIN mem'[q].added \cap mem'[q].removed = {}
  BY <1>3, <1>4, <1>5, StoreTyped
<1>7. UNCHANGED <<files, link, writes, lockFile, lockOf, fd, tmp, syncs, crashes, at, current>>
  BY DEF RemoveKey, Change, disk, locks
<1>8. changes' = changes + 1
  BY DEF RemoveKey, Change
<1>9. QED
  BY <1>6, <1>7, <1>8 DEF TypeOK

LEMMA ClearTyped ==
    ASSUME TypeOK, NEW p \in Process, Clear(p)
    PROVE  TypeOK'
<1> DEFINE old == mem[p]
           new == [old EXCEPT !.added = NoKeys, !.removed = DOMAIN old.original]
<1>1. old \in Stores /\ DOMAIN old.original \in SUBSET Key
  BY MapParts DEF TypeOK, Stores
<1>2. new \in Stores /\ DOMAIN new.added \cap new.removed = {}
  BY <1>1, NoKeysIsMap DEF Stores
<1>3. mem' = [mem EXCEPT ![p] = new]
  BY <1>1 DEF Clear, TypeOK
<1> HIDE DEF new
<1>4. /\ mem' \in [Process -> Stores]
      /\ \A q \in Process : DOMAIN mem'[q].added \cap mem'[q].removed = {}
  BY <1>2, <1>3, StoreTyped
<1>5. UNCHANGED <<files, link, writes, lockFile, lockOf, fd, tmp, syncs, crashes, at, current>>
  BY DEF Clear, Change, disk, locks
<1>6. changes' = changes + 1
  BY DEF Clear, Change
<1>7. QED
  BY <1>4, <1>5, <1>6 DEF TypeOK

LEMMA ReadTyped ==
    ASSUME TypeOK, NEW p \in Process, Read(p) \/ ReadFails(p) \/ Restat(p)
    PROVE  TypeOK'
<1> DEFINE old == mem[p]
<1>0. /\ old \in Stores /\ DOMAIN old.added \cap old.removed = {}
      /\ current[p] \in Stamps /\ StampOf(p) \in Stamps
      /\ FileOf(p).keys \in Maps /\ NoKeys \in Maps
  BY StampTyped, NoKeysIsMap DEF TypeOK
<1>1. CASE Read(p)
  <2> DEFINE keys == IF current[p] = NoStamp THEN NoKeys ELSE FileOf(p).keys
             new == [old EXCEPT !.original = keys, !.stamp = current[p]]
  <2>1. new \in Stores /\ new.added = old.added /\ new.removed = old.removed
    BY <1>0 DEF Stores
  <2>2. mem' = [mem EXCEPT ![p] = new]
    BY <1>0, <1>1 DEF Read, TypeOK
  <2>3. at' \in [Process -> Places] /\ current' \in [Process -> Stamps]
    <3>1. Go(p, "idle") \/ Go(p, "create")
      BY <1>1 DEF Read
    <3>2. QED
      BY <3>1, GoTyped DEF Places
  <2> HIDE DEF new
  <2>4. /\ mem' \in [Process -> Stores]
        /\ \A q \in Process : DOMAIN mem'[q].added \cap mem'[q].removed = {}
    BY <1>0, <2>1, <2>2, StoreTyped
  <2>5. UNCHANGED <<disk, locks, tmp, bounds>>
    BY <1>1 DEF Read
  <2>6. QED
    BY <2>3, <2>4, <2>5 DEF TypeOK, disk, locks, bounds
<1>2. CASE ReadFails(p)
  <2> DEFINE new == [old EXCEPT !.original = NoKeys]
  <2>1. new \in Stores /\ new.added = old.added /\ new.removed = old.removed
    BY <1>0 DEF Stores
  <2>2. mem' = [mem EXCEPT ![p] = new]
    BY <1>0, <1>2 DEF ReadFails, Forget, TypeOK
  <2>3. at' \in [Process -> Places] /\ current' \in [Process -> Stamps]
    <3>1. Go(p, "idle") \/ Go(p, "unlink")
      BY <1>2 DEF ReadFails, Leave
    <3>2. QED
      BY <3>1, GoTyped DEF Places
  <2> HIDE DEF new
  <2>4. /\ mem' \in [Process -> Stores]
        /\ \A q \in Process : DOMAIN mem'[q].added \cap mem'[q].removed = {}
    BY <1>0, <2>1, <2>2, StoreTyped
  <2>5. UNCHANGED <<disk, locks, tmp, bounds>>
    BY <1>2 DEF ReadFails
  <2>6. QED
    BY <2>3, <2>4, <2>5 DEF TypeOK, disk, locks, bounds
<1>3. CASE Restat(p)
  <2>0. PICK stamp \in Stat(p) : mem' = [mem EXCEPT ![p].stamp = stamp]
    BY <1>3 DEF Restat
  <2> DEFINE new == [old EXCEPT !.stamp = stamp]
  <2>1. new \in Stores /\ new.added = old.added /\ new.removed = old.removed
    BY <1>0, StampTyped DEF Stores
  <2>2. mem' = [mem EXCEPT ![p] = new]
    BY <1>0, <2>0 DEF TypeOK
  <2>3. at' \in [Process -> Places] /\ current' \in [Process -> Stamps]
    BY <1>3, GoTyped DEF Restat, Places
  <2> HIDE DEF new
  <2>4. /\ mem' \in [Process -> Stores]
        /\ \A q \in Process : DOMAIN mem'[q].added \cap mem'[q].removed = {}
    BY <1>0, <2>1, <2>2, StoreTyped
  <2>5. UNCHANGED <<disk, locks, tmp, bounds>>
    BY <1>3 DEF Restat
  <2>6. QED
    BY <2>3, <2>4, <2>5 DEF TypeOK, disk, locks, bounds
<1>4. QED
  BY <1>1, <1>2, <1>3

LEMMA RenameTyped ==
    ASSUME TypeOK, NEW p \in Process, Rename(p)
    PROVE  TypeOK'
<1> DEFINE old == mem[p]
           merged == Merged(old.original, old)
           new == [old EXCEPT !.original = merged, !.added = NoKeys, !.removed = {}]
<1>1. old \in Stores /\ PathOf[p] \in Path /\ writes \in Nat
  BY SettingsAssumption DEF TypeOK
<1>2. merged \in Maps
  BY <1>1, MergedIsMap DEF Stores
<1>3. new \in Stores /\ DOMAIN new.added \cap new.removed = {}
  <2> HIDE DEF merged
  <2>1. QED
    BY <1>1, <1>2, NoKeysIsMap DEF Stores
<1>4. mem' = [mem EXCEPT ![p] = new]
  <2> HIDE DEF merged
  <2>1. mem' = [mem EXCEPT ![p].original = merged, ![p].added = NoKeys, ![p].removed = {}]
    BY DEF Rename, merged
  <2>2. QED
    BY <1>1, <2>1 DEF TypeOK
<1>5. Replacement(p) \in [version : Nat, keys : Maps, whole : BOOLEAN]
  BY <1>1, <1>2 DEF Replacement
<1> HIDE DEF merged, new
<1>6. /\ mem' \in [Process -> Stores]
      /\ \A q \in Process : DOMAIN mem'[q].added \cap mem'[q].removed = {}
  BY <1>3, <1>4, StoreTyped
<1>7. at' \in [Process -> Places] /\ current' \in [Process -> Stamps]
  BY GoTyped DEF Rename, Places
<1>8. /\ files' = [files EXCEPT ![PathOf[p]] = Replacement(p)]
      /\ link' = [link EXCEPT ![PathOf[p]] = PathOf[p]]
      /\ writes' = writes + 1
      /\ tmp' = [tmp EXCEPT ![p] = "none"]
      /\ UNCHANGED <<locks, bounds>>
  BY DEF Rename
<1>9. QED
  BY <1>1, <1>5, <1>6, <1>7, <1>8 DEF TypeOK, locks, bounds

\* The steps that leave files and stores alone.
LEMMA LockTyped ==
    ASSUME TypeOK, NEW p \in Process,
           \/ UpToDate(p) \/ Begin(p) \/ CheckAccess(p)
           \/ OpenLock(p) \/ Flock(p) \/ LockRefused(p) \/ CompareLock(p) \/ Restamp(p)
           \/ Create(p) \/ Fill(p) \/ RenameFails(p) \/ UnlinkLock(p) \/ CloseLock(p)
    PROVE  TypeOK'
<1>1. UNCHANGED <<files, link, writes, mem, changes, syncs, crashes>>
  BY DEF UpToDate, Begin, CheckAccess, OpenLock, Flock, LockRefused, CompareLock, KeepLock,
         DropLock, Restamp,
         Create, Fill, RenameFails, UnlinkLock, CloseLock, disk, bounds
<1>2. PathOf[p] \in Path
  BY SettingsAssumption
<1>3. /\ lockFile' \in [Path -> Inode \cup {NoOne}]
      /\ lockOf' \in [Inode -> Process \cup {NoOne}]
      /\ fd' \in [Process -> Inode \cup {NoOne}]
  <2>1. CASE UNCHANGED locks
    BY <2>1 DEF TypeOK, locks
  <2>2. CASE OpenLock(p)
    BY <1>2, <2>2 DEF TypeOK, OpenLock, locks
  <2>3. CASE Flock(p) \/ LockRefused(p) \/ UnlinkLock(p)
    BY <1>2, <2>3 DEF TypeOK, Flock, LockRefused, UnlinkLock
  <2>4. CASE CompareLock(p) \/ CloseLock(p)
    BY <2>4 DEF TypeOK, CompareLock, KeepLock, DropLock, CloseLock, Close, locks
  <2>5. QED
    BY <2>1, <2>2, <2>3, <2>4 DEF UpToDate, Begin, CheckAccess, Restamp, Create, Fill, RenameFails
<1>4. tmp' \in [Process -> {"none", "part", "whole"}]
  BY DEF TypeOK, UpToDate, Begin, CheckAccess, OpenLock, Flock, LockRefused, CompareLock, KeepLock,
         DropLock,
         Restamp, Create, Fill, RenameFails, UnlinkLock, CloseLock
<1>5. at' \in [Process -> Places] /\ current' \in [Process -> Stamps]
  <2>1. \/ \E where \in Places : Go(p, where)
        \/ \E where \in Places, stamp \in Stamps : GoWith(p, where, stamp)
    <3>1. CASE Begin(p) \/ Restamp(p)
      <4>1. PICK stamp \in Stat(p) :
              \/ GoWith(p, "read", stamp)
              \/ GoWith(p, "access", NoStamp)
              \/ Go(p, "create")
        BY <3>1 DEF Begin, Restamp
      <4>2. stamp \in Stamps /\ NoStamp \in Stamps
        BY StampTyped, NothingTyped
      <4>3. QED
        BY <4>1, <4>2, Zenon DEF Places
    <3>2. CASE ~(Begin(p) \/ Restamp(p))
      BY <3>2 DEF UpToDate, CheckAccess, OpenLock, Flock, LockRefused, CompareLock, KeepLock,
             DropLock, Create, Fill, RenameFails, UnlinkLock, CloseLock, Places
    <3>3. QED
      BY <3>1, <3>2
  <2>2. QED
    BY <2>1, GoTyped, MoveTyped
<1>6. QED
  BY <1>1, <1>3, <1>4, <1>5 DEF TypeOK

LEMMA CrashTyped ==
    ASSUME TypeOK, NEW p \in Process, Crash(p)
    PROVE  TypeOK'
<1>1. at' \in [Process -> Places] /\ current' \in [Process -> Stamps]
  BY NothingTyped, MoveTyped DEF Crash, Places
<1>2. /\ mem' \in [Process -> Stores]
      /\ \A q \in Process : DOMAIN mem'[q].added \cap mem'[q].removed = {}
  BY NothingTyped, StoreTyped DEF Crash
<1>3. /\ lockOf' \in [Inode -> Process \cup {NoOne}]
      /\ fd' \in [Process -> Inode \cup {NoOne}]
  BY DEF Crash, TypeOK
<1>4. /\ UNCHANGED <<disk, lockFile, changes, syncs>> /\ crashes' = crashes + 1
      /\ tmp' \in [Process -> {"none", "part", "whole"}]
  BY DEF Crash, TypeOK
<1>5. QED
  BY <1>1, <1>2, <1>3, <1>4 DEF TypeOK, disk

LEMMA NextTyped == TypeOK /\ [Next]_vars => TypeOK'
<1> SUFFICES ASSUME TypeOK, [Next]_vars PROVE TypeOK'
  OBVIOUS
<1>1. ASSUME NEW p \in Process, Sync(p) PROVE TypeOK'
  BY <1>1, LockTyped, ReadTyped, RenameTyped DEF Sync
<1>2. ASSUME NEW p \in Process, Ask(p) PROVE TypeOK'
  <2>1. CASE CallSync(p)
    <3>1. at' \in [Process -> Places] /\ current' \in [Process -> Stamps]
      BY <2>1, GoTyped DEF CallSync, Places
    <3>2. UNCHANGED <<disk, locks, tmp, mem, changes, crashes>> /\ syncs' = syncs + 1
      BY <2>1 DEF CallSync
    <3>3. QED
      BY <3>1, <3>2 DEF TypeOK, disk, locks
  <2>2. QED
    BY <1>2, <2>1, SetTyped, RemoveKeyTyped, ClearTyped DEF Ask
<1>3. CASE UNCHANGED vars
  BY <1>3 DEF vars, disk, locks, bounds, TypeOK
<1>4. QED
  BY <1>1, <1>2, <1>3, CrashTyped DEF Next

\* Every variable keeps its type, and no key is ever both set and removed.
THEOREM TypeCorrect == Spec => []TypeOK
<1>1. QED
  BY InitTyped, NextTyped, PTL DEF Spec

-----------------------------------------------------------------------------
(* One holder. *)

HasLock(p) == Holding(p) \/ at[p] \in {"compare", "close"}

\* What a process may rely on at each place.  Only a process that has found the
\* lock file it locked still there may rely on being alone; what sync() has found
\* out about its changes stays true, for nobody else may touch the store.
StoreSound(p) ==
    /\ at[p] \in {"idle", "sync", "access", "open"} => fd[p] = NoOne
    /\ at[p] \notin {"idle", "sync", "access", "open", "read"} => fd[p] \in Inode
    /\ HasLock(p) => fd[p] \in Inode /\ lockOf[fd[p]] = p
    /\ Holding(p) => lockFile[PathOf[p]] = fd[p]
    /\ at[p] \in {"access", "open", "flock", "compare", "restamp"} => ~ReadOnly(p)
    /\ at[p] = "read" => (fd[p] = NoOne <=> ReadOnly(p))

LockInv == \A p \in Process : StoreSound(p)

LEMMA SoundMeansAlone == TypeOK /\ LockInv => OneHolder
<1> SUFFICES ASSUME TypeOK, LockInv, NEW p \in Process, NEW q \in Process,
                    p # q, Holding(p), Holding(q), PathOf[p] = PathOf[q]
             PROVE  FALSE
  BY DEF OneHolder
<1>1. /\ lockOf[fd[p]] = p /\ lockFile[PathOf[p]] = fd[p]
      /\ lockOf[fd[q]] = q /\ lockFile[PathOf[q]] = fd[q]
  BY DEF LockInv, StoreSound, HasLock
<1>2. QED
  BY <1>1

\* A step of one process moves no other.
Still(p) ==
    \A r \in Process \ {p} :
        at'[r] = at[r] /\ fd'[r] = fd[r] /\ mem'[r] = mem[r] /\ current'[r] = current[r]

LEMMA OthersStandStill ==
    ASSUME TypeOK, NEW p \in Process, Sync(p) \/ Ask(p) \/ Crash(p)
    PROVE  Still(p)
<1>1. \A r \in Process \ {p} : at'[r] = at[r] /\ current'[r] = current[r]
  <2>1. \/ \E where, stamp : GoWith(p, where, stamp)
        \/ UNCHANGED <<at, current>>
    <3>1. CASE Begin(p) \/ Restamp(p)
      <4>1. PICK stamp \in Stat(p) :
              \/ GoWith(p, "read", stamp)
              \/ GoWith(p, "access", NoStamp)
              \/ GoWith(p, "create", NoStamp)
        BY <3>1 DEF Begin, Restamp, Go
      <4>2. QED
        BY <4>1, Zenon
    <3>2. CASE ~(Begin(p) \/ Restamp(p))
      BY <3>2 DEF Sync, Ask, Crash, Go, UpToDate, CheckAccess, OpenLock, Flock, LockRefused,
             CompareLock, KeepLock, DropLock, Read, ReadFails, Create, Fill, Rename, RenameFails,
             Restat, UnlinkLock, CloseLock, Set, RemoveKey, Clear, CallSync, Change
    <3>3. QED
      BY <3>1, <3>2
  <2>2. QED
    BY <2>1 DEF GoWith, TypeOK
<1>2. \A r \in Process \ {p} : fd'[r] = fd[r]
  <2>1. \/ \E x : fd' = [fd EXCEPT ![p] = x]
        \/ UNCHANGED fd
    BY DEF Sync, Ask, Crash, UpToDate, Begin, CheckAccess, OpenLock, Flock, LockRefused,
           CompareLock, KeepLock, DropLock, Restamp, Read, ReadFails, Create, Fill, Rename,
           RenameFails, Restat,
           UnlinkLock, CloseLock, Set, RemoveKey, Clear, CallSync, Change, Close, locks
  <2>2. QED
    BY <2>1 DEF TypeOK
<1>3. \A r \in Process \ {p} : mem'[r] = mem[r]
  <2>1. \/ \E x : mem' = [mem EXCEPT ![p] = x]
        \/ UNCHANGED mem
    BY DEF Sync, Ask, Crash, UpToDate, Begin, CheckAccess, OpenLock, Flock, LockRefused,
           CompareLock, KeepLock, DropLock, Restamp, Read, ReadFails, Forget, Create, Fill, Rename,
           RenameFails,
           Restat, UnlinkLock, CloseLock, Set, RemoveKey, Clear, CallSync
  <2>2. QED
    BY <2>1 DEF TypeOK
<1>4. QED
  BY <1>1, <1>2, <1>3 DEF Still

\* Nobody takes another's lock, or deletes the lock file of one who holds it.
LEMMA OthersKeepTheirLock ==
    ASSUME TypeOK, LockInv, NEW p \in Process, Sync(p) \/ Ask(p) \/ Crash(p),
           NEW r \in Process, r # p
    PROVE  /\ HasLock(r) => lockOf'[fd[r]] = r
           /\ Holding(r) => lockFile'[PathOf[r]] = fd[r]
<1>0. /\ r # NoOne /\ p # NoOne /\ NoOne \notin Inode
      /\ PathOf[p] \in Path /\ PathOf[r] \in Path
  BY SettingsAssumption
<1>1. ASSUME HasLock(r) PROVE lockOf'[fd[r]] = r
  <2>0. fd[r] \in Inode /\ lockOf[fd[r]] = r
    BY <1>1 DEF LockInv, StoreSound
  <2>1. CASE UNCHANGED lockOf
    BY <2>0, <2>1
  <2>2. CASE Flock(p)
    BY <1>0, <2>0, <2>2 DEF Flock, TypeOK
  <2>3. CASE HasLock(p) /\ Close(p)
    BY <1>0, <2>0, <2>3 DEF Close, LockInv, StoreSound, TypeOK
  <2>4. CASE Crash(p)
    BY <2>0, <2>4 DEF Crash
  <2>5. QED
    BY <2>1, <2>2, <2>3, <2>4
       DEF Sync, Ask, UpToDate, Begin, CheckAccess, OpenLock, LockRefused, CompareLock, KeepLock,
           DropLock, Restamp,
           Read, ReadFails, Create, Fill, Rename, RenameFails, Restat, UnlinkLock, CloseLock,
           Set, RemoveKey, Clear, CallSync, Change, HasLock, locks
<1>2. ASSUME Holding(r) PROVE lockFile'[PathOf[r]] = fd[r]
  <2>0. lockFile[PathOf[r]] = fd[r] /\ fd[r] \in Inode
    BY <1>2 DEF LockInv, StoreSound, HasLock
  <2>1. CASE UNCHANGED lockFile
    BY <2>0, <2>1
  <2>2. CASE OpenLock(p)
    BY <1>0, <2>0, <2>2 DEF OpenLock, CanCreate, TypeOK, locks
  <2>3. CASE UnlinkLock(p)
    <3>1. PathOf[p] # PathOf[r]
      BY <1>2, <2>3, SoundMeansAlone DEF OneHolder, UnlinkLock, Holding
    <3>2. QED
      BY <1>0, <2>0, <2>3, <3>1 DEF UnlinkLock, TypeOK
  <2>4. QED
    BY <2>1, <2>2, <2>3
       DEF Sync, Ask, Crash, UpToDate, Begin, CheckAccess, Flock, LockRefused, CompareLock,
           KeepLock, DropLock,
           Restamp, Read, ReadFails, Create, Fill, Rename, RenameFails, Restat, CloseLock,
           Set, RemoveKey, Clear, CallSync, Change, locks
<1>3. QED
  BY <1>1, <1>2

LEMMA OthersStaySound ==
    ASSUME TypeOK, LockInv, NEW p \in Process, Sync(p) \/ Ask(p) \/ Crash(p),
           NEW r \in Process, r # p
    PROVE  StoreSound(r)'
<1>1. at'[r] = at[r] /\ fd'[r] = fd[r] /\ mem'[r] = mem[r]
  BY OthersStandStill DEF Still
<1>2. (HasLock(r) => lockOf'[fd[r]] = r) /\ (Holding(r) => lockFile'[PathOf[r]] = fd[r])
  BY OthersKeepTheirLock
<1>3. StoreSound(r)
  BY DEF LockInv
<1>4. Holding(r)' = Holding(r) /\ HasLock(r)' = HasLock(r) /\ ReadOnly(r)' = ReadOnly(r)
  BY <1>1 DEF Holding, HasLock, ReadOnly
<1>5. QED
  BY <1>1, <1>2, <1>3, <1>4 DEF StoreSound

\* The process that takes the step: what sync() does without the lock ...
LEMMA StaysSoundUnlocked ==
    ASSUME TypeOK, LockInv, NEW p \in Process,
           Ask(p) \/ Crash(p) \/ UpToDate(p) \/ Begin(p) \/ CheckAccess(p)
    PROVE  StoreSound(p)'
<1>1. StoreSound(p)
  BY DEF LockInv
<1>2. CASE Ask(p)
  <2>1. fd' = fd /\ fd[p] = NoOne /\ at'[p] \in {"idle", "sync"}
    BY <1>1, <1>2 DEF Ask, Set, RemoveKey, Clear, CallSync, Change, StoreSound, Go, GoWith, locks, TypeOK
  <2>2. QED
    BY <2>1 DEF StoreSound, HasLock, Holding
<1>3. CASE Crash(p)
  <2>1. fd'[p] = NoOne /\ at'[p] = "sync"
    BY <1>3 DEF Crash, GoWith, TypeOK
  <2>2. QED
    BY <2>1 DEF StoreSound, HasLock, Holding
<1>4. CASE UpToDate(p) \/ Begin(p) \/ CheckAccess(p)
  <2>1. fd' = fd /\ fd[p] = NoOne /\ mem' = mem
    BY <1>1, <1>4 DEF UpToDate, Begin, CheckAccess, StoreSound, locks
  <2>2. /\ at'[p] \in {"idle", "read", "access", "open"}
        /\ at'[p] = "read" => ReadOnly(p)
        /\ at'[p] \in {"access", "open"} => ~ReadOnly(p)
    BY <1>1, <1>4 DEF UpToDate, Begin, CheckAccess, StoreSound, Go, GoWith, TypeOK
  <2>3. ReadOnly(p)' = ReadOnly(p)
    BY <2>1 DEF ReadOnly
  <2>4. QED
    BY <2>1, <2>2, <2>3 DEF StoreSound, HasLock, Holding
<1>5. QED
  BY <1>2, <1>3, <1>4

\* ... what it does to get it ...
LEMMA StaysSoundLocking ==
    ASSUME TypeOK, LockInv, NEW p \in Process,
           OpenLock(p) \/ Flock(p) \/ LockRefused(p) \/ CompareLock(p)
    PROVE  StoreSound(p)'
<1>1. StoreSound(p) /\ PathOf[p] \in Path /\ NoOne \notin Inode
  BY SettingsAssumption DEF LockInv
<1>2. ReadOnly(p)' = ReadOnly(p) /\ ~ReadOnly(p)
  BY <1>1 DEF OpenLock, Flock, LockRefused, CompareLock, KeepLock, DropLock, StoreSound, ReadOnly
<1>3. CASE OpenLock(p)
  <2>1. \/ at'[p] = "idle" /\ fd'[p] = NoOne
        \/ at'[p] = "flock" /\ fd'[p] \in Inode
    BY <1>1, <1>3 DEF OpenLock, StoreSound, Go, GoWith, TypeOK, locks
  <2>2. QED
    BY <1>2, <2>1 DEF StoreSound, HasLock, Holding
<1>4. CASE Flock(p)
  <2>1. at'[p] = "compare" /\ fd'[p] = fd[p] /\ fd[p] \in Inode /\ lockOf'[fd[p]] = p
    BY <1>1, <1>4 DEF Flock, StoreSound, Go, GoWith, TypeOK
  <2>2. QED
    BY <1>2, <2>1 DEF StoreSound, HasLock, Holding
<1>5. CASE LockRefused(p)
  <2>1. at'[p] \in {"open", "idle"} /\ fd'[p] = NoOne
    BY <1>5 DEF LockRefused, Go, GoWith, TypeOK
  <2>2. QED
    BY <1>2, <2>1 DEF StoreSound, HasLock, Holding
<1>6. CASE CompareLock(p)
  <2>1. fd[p] \in Inode /\ lockOf[fd[p]] = p
    BY <1>1, <1>6 DEF CompareLock, KeepLock, DropLock, StoreSound, HasLock
  <2>2. \/ /\ at'[p] = "restamp" /\ fd'[p] = fd[p] /\ lockOf' = lockOf
           /\ lockFile'[PathOf[p]] = fd[p]
        \/ at'[p] = "open" /\ fd'[p] = NoOne
    BY <1>1, <1>6, <2>1 DEF CompareLock, KeepLock, DropLock, Close, Go, GoWith, TypeOK, locks
  <2>3. QED
    BY <1>2, <2>1, <2>2 DEF StoreSound, HasLock, Holding
<1>7. QED
  BY <1>3, <1>4, <1>5, <1>6

\* ... and what it does with it, or without when it only reads.
LEMMA StaysSoundLocked ==
    ASSUME TypeOK, LockInv, NEW p \in Process,
           \/ Restamp(p) \/ Read(p) \/ ReadFails(p) \/ Create(p) \/ Fill(p) \/ Rename(p)
           \/ RenameFails(p) \/ Restat(p) \/ UnlinkLock(p) \/ CloseLock(p)
    PROVE  StoreSound(p)'
<1>1. StoreSound(p) /\ PathOf[p] \in Path /\ NoOne \notin Inode
  BY SettingsAssumption DEF LockInv
<1>2. CASE CloseLock(p)
  <2>1. at'[p] = "idle" /\ fd'[p] = NoOne
    BY <1>2 DEF CloseLock, Close, Go, GoWith, TypeOK
  <2>2. QED
    BY <2>1 DEF StoreSound, HasLock, Holding
<1>3. CASE UnlinkLock(p)
  <2>1. /\ at'[p] = "close" /\ fd' = fd /\ lockOf' = lockOf
        /\ fd[p] \in Inode /\ lockOf[fd[p]] = p
    BY <1>1, <1>3 DEF UnlinkLock, Go, GoWith, TypeOK, StoreSound, HasLock, Holding
  <2>2. QED
    BY <2>1 DEF StoreSound, HasLock, Holding
<1>4. CASE Read(p) \/ ReadFails(p)
  <2>1. at[p] = "read" /\ UNCHANGED <<lockFile, lockOf, fd>>
    BY <1>4 DEF Read, ReadFails, locks
  <2>2. ReadOnly(p)' = ReadOnly(p)
    BY <1>4 DEF Read, ReadFails, Forget, ReadOnly, TypeOK, Stores
  <2>3. at'[p] = (IF fd[p] = NoOne THEN "idle" ELSE "create") \/ at'[p] = Leave(p)
    BY <1>1, <1>4, <2>1 DEF Read, ReadFails, Go, GoWith, StoreSound, TypeOK
  <2>4. at'[p] \in {"idle", "create", "unlink"} /\ (at'[p] = "idle" <=> fd[p] = NoOne)
    BY <2>3 DEF Leave
  <2>5. fd[p] # NoOne => fd[p] \in Inode /\ lockOf[fd[p]] = p /\ lockFile[PathOf[p]] = fd[p]
    BY <1>1, <2>1 DEF StoreSound, HasLock, Holding
  <2>6. QED
    BY <2>1, <2>4, <2>5 DEF StoreSound, HasLock, Holding
<1>5. CASE \/ Restamp(p) \/ Create(p) \/ Fill(p) \/ Rename(p) \/ RenameFails(p) \/ Restat(p)
  <2>1. UNCHANGED <<lockFile, lockOf, fd>> /\ Holding(p)
    BY <1>5 DEF Restamp, Create, Fill, Rename, RenameFails, Restat, locks, Holding
  <2>2. at'[p] \in {"read", "create", "fill", "rename", "restat", "unlink"}
    BY <1>5 DEF Restamp, Create, Fill, Rename, RenameFails, Restat, Go, GoWith, TypeOK
  <2>3. at'[p] = "read" => ReadOnly(p)' = ReadOnly(p) /\ ~ReadOnly(p)
    BY <1>1, <1>5 DEF Restamp, Create, Fill, Rename, RenameFails, Restat, Go, GoWith, TypeOK,
                      StoreSound, ReadOnly
  <2>4. fd[p] \in Inode /\ lockOf[fd[p]] = p /\ lockFile[PathOf[p]] = fd[p]
    BY <1>1, <2>1 DEF StoreSound, HasLock
  <2>5. QED
    BY <1>1, <2>1, <2>2, <2>3, <2>4 DEF StoreSound, HasLock, Holding
<1>6. QED
  BY <1>2, <1>3, <1>4, <1>5

LEMMA NextSound == TypeOK /\ LockInv /\ [Next]_vars => LockInv'
<1> SUFFICES ASSUME TypeOK, LockInv, [Next]_vars PROVE LockInv'
  OBVIOUS
<1>1. ASSUME NEW p \in Process, Sync(p) \/ Ask(p) \/ Crash(p) PROVE LockInv'
  <2>1. StoreSound(p)'
    BY <1>1, StaysSoundUnlocked, StaysSoundLocking, StaysSoundLocked DEF Sync
  <2>2. \A r \in Process : r # p => StoreSound(r)'
    BY <1>1, OthersStaySound
  <2>3. QED
    BY <2>1, <2>2 DEF LockInv
<1>2. CASE UNCHANGED vars
  BY <1>2 DEF vars, locks, LockInv, StoreSound, HasLock, Holding, ReadOnly
<1>3. QED
  BY <1>1, <1>2 DEF Next

LEMMA InitSound == Init => LockInv
  BY DEF Init, LockInv, StoreSound, HasLock, Holding

\* At most one process at a time reads, merges and replaces a file.
THEOREM AtMostOneHolder == Spec => []OneHolder
<1>1. Init => TypeOK /\ LockInv
  BY InitTyped, InitSound
<1>2. TypeOK /\ LockInv /\ [Next]_vars => (TypeOK /\ LockInv)'
  BY NextTyped, NextSound
<1>3. QED
  BY <1>1, <1>2, SoundMeansAlone, PTL DEF Spec

-----------------------------------------------------------------------------
(* No part of a file. *)

WholeInv == AlwaysWhole /\ \A p \in Process : at[p] = "rename" => tmp[p] = "whole"

LEMMA NextWhole == TypeOK /\ WholeInv /\ [Next]_vars => WholeInv'
<1> SUFFICES ASSUME TypeOK, WholeInv, [Next]_vars PROVE WholeInv'
  OBVIOUS
<1>1. ASSUME NEW p \in Process, Sync(p) \/ Ask(p) \/ Crash(p) PROVE WholeInv'
  <2>1. \/ UNCHANGED files
        \/ /\ Rename(p)
           /\ files' = [files EXCEPT ![PathOf[p]] = Replacement(p)]
    BY <1>1 DEF Sync, Ask, Crash, UpToDate, Begin, CheckAccess, OpenLock, Flock, LockRefused,
           CompareLock, KeepLock, DropLock, Restamp, Read, ReadFails, Create, Fill, Rename,
           RenameFails, Restat,
           UnlinkLock, CloseLock, Set, RemoveKey, Clear, CallSync, Change, disk
  <2>2. AlwaysWhole'
    <3>1. Rename(p) => Replacement(p).whole
      BY DEF WholeInv, Rename, Replacement
    <3>2. QED
      BY <2>1, <3>1 DEF WholeInv, AlwaysWhole, TypeOK
  <2>3. \A r \in Process : at'[r] = "rename" => tmp'[r] = "whole"
    <3>1. (at'[p] = "rename" => tmp'[p] = "whole") /\ \A r \in Process \ {p} : tmp'[r] = tmp[r]
      <4>1. CASE Fill(p)
        BY <4>1 DEF Fill, Go, GoWith, TypeOK
      <4>2. CASE Create(p) \/ Rename(p) \/ RenameFails(p)
        BY <4>2 DEF Create, Rename, RenameFails, Go, GoWith, TypeOK
      <4>3. CASE UNCHANGED tmp /\ at'[p] # "rename"
        BY <4>3
      <4>9. CASE Crash(p)
        BY <4>9 DEF Crash, GoWith, TypeOK
      <4>4. \/ UNCHANGED tmp /\ at'[p] # "rename"
            \/ Crash(p) \/ Fill(p) \/ Create(p) \/ Rename(p) \/ RenameFails(p)
        BY <1>1 DEF Sync, Ask, UpToDate, Begin, CheckAccess, OpenLock, Flock, LockRefused,
               CompareLock, KeepLock, DropLock, Restamp, Read, ReadFails, Restat, UnlinkLock,
               CloseLock, Leave,
               Set, RemoveKey, Clear, CallSync, Change, Go, GoWith, TypeOK
      <4>5. QED
        BY <4>1, <4>2, <4>3, <4>9, <4>4
    <3>2. \A r \in Process \ {p} : at'[r] = at[r]
      BY <1>1, OthersStandStill DEF Still
    <3>3. QED
      BY <3>1, <3>2 DEF WholeInv
  <2>4. QED
    BY <2>2, <2>3 DEF WholeInv
<1>2. CASE UNCHANGED vars
  BY <1>2 DEF vars, disk, WholeInv, AlwaysWhole
<1>3. QED
  BY <1>1, <1>2 DEF Next

\* No name ever leads to part of a file.
THEOREM FilesStayWhole == Spec => []AlwaysWhole
<1>1. Init => WholeInv
  BY DEF Init, WholeInv, AlwaysWhole, NoFile, File
<1>2. WholeInv => AlwaysWhole
  BY DEF WholeInv
<1>3. QED
  BY <1>1, <1>2, InitTyped, NextTyped, NextWhole, PTL DEF Spec

-----------------------------------------------------------------------------
(* Merging, when every name is a name of its own. *)

OwnNames == \A f \in Path : LinkOf[f] = f

\* What a store has been told about its file: a stamp that is the file's comes
\* with the file's keys; one on the way to being read is the file's if the lock is
\* held; and the holder of the lock, past the read, has the file's keys.  A failed
\* stat() takes the stamp of no file, which is below every other.
Known(p) ==
    /\ mem[p].stamp.version <= FileOf(p).version
    /\ mem[p].stamp.version = FileOf(p).version =>
         /\ mem[p].stamp = StampOf(p)
         /\ mem[p].original = FileOf(p).keys
    /\ at[p] = "read" =>
         /\ current[p].version <= FileOf(p).version
         /\ current[p].version = FileOf(p).version => current[p] = StampOf(p)
         /\ current[p] # NoStamp =>
              /\ fd[p] # NoOne => current[p] = StampOf(p)
              /\ mem[p].stamp.version = FileOf(p).version => FileOf(p).keys = NoKeys
    /\ at[p] \in {"create", "fill", "rename"} =>
         mem[p].original = FileOf(p).keys \/ TakenForMissing(p)
    /\ at[p] = "restat" => mem[p].original = FileOf(p).keys

NamesInv == link = LinkOf

VersionInv == \A f \in Path : files[f].version <= writes /\ (files[f].version = 0 => files[f] = NoFile)

FileInv == NamesInv /\ VersionInv /\ \A p \in Process : Known(p)

LEMMA FileOfOwn ==
    ASSUME OwnNames, NamesInv, NEW p \in Process
    PROVE  FileOf(p) = files[PathOf[p]]
  BY SettingsAssumption DEF OwnNames, NamesInv, FileOf

LEMMA EmptyIsNoKeys ==
    ASSUME NEW f \in Maps, DOMAIN f = {}
    PROVE  f = NoKeys
<1>1. f = [k \in DOMAIN f |-> f[k]]
  BY MapParts
<1>2. QED
  BY <1>1 DEF NoKeys

LEMMA InitKnown == OwnNames /\ Init => FileInv
<1> SUFFICES ASSUME OwnNames, Init PROVE FileInv
  OBVIOUS
<1>1. NamesInv
  BY DEF Init, NamesInv
<1>2. \A f \in Path : files[f] = NoFile \/ files[f].version = 1
  BY DEF Init, File
<1>3. VersionInv
  BY <1>2 DEF Init, VersionInv, NoFile, File
<1>4. ASSUME NEW p \in Process PROVE Known(p)
  <2>1. FileOf(p) = files[PathOf[p]] /\ PathOf[p] \in Path
    BY <1>1, FileOfOwn, SettingsAssumption
  <2>2. mem[p] = NewStore /\ at[p] = "sync"
    BY DEF Init
  <2>3. FileOf(p) = NoFile => StampOf(p) = NoStamp /\ FileOf(p).keys = NoKeys
    <3>1. FileOf(p) = NoFile => FileOf(p).version = 0 /\ FileOf(p).keys = NoKeys
      BY DEF NoFile, File
    <3>2. (DOMAIN NoKeys # {}) = FALSE
      BY NoKeysIsMap
    <3>3. QED
      BY <3>1, <3>2 DEF StampOf, NoStamp
  <2>4. FileOf(p).version = 0 \/ FileOf(p).version = 1
    BY <1>2, <2>1 DEF NoFile, File
  <2>5. NewStore.stamp = NoStamp /\ NewStore.original = NoKeys /\ NoStamp.version = 0
    BY DEF NewStore, NoStamp
  <2>6. FileOf(p).version = 0 => FileOf(p) = NoFile
    BY <1>3, <2>1 DEF VersionInv
  <2>7. QED
    BY <2>2, <2>3, <2>4, <2>5, <2>6 DEF Known
<1>5. QED
  BY <1>1, <1>3, <1>4 DEF FileInv

\* Only rename() replaces a file, and in a way each other process can tell.
LEMMA FilesStand ==
    ASSUME NEW p \in Process, Sync(p) \/ Ask(p) \/ Crash(p)
    PROVE  Rename(p) \/ UNCHANGED disk
  BY DEF Sync, Ask, Crash, UpToDate, Begin, CheckAccess, OpenLock, Flock, LockRefused,
         CompareLock, KeepLock, DropLock, Restamp, Read, ReadFails, Create, Fill, Rename,
         RenameFails, Restat,
         UnlinkLock, CloseLock, Set, RemoveKey, Clear, CallSync, Change

\* The writer writes what the file holds with its changes on top.
LEMMA WriterMerges ==
    ASSUME OwnNames, TypeOK, FileInv, NEW p \in Process, Rename(p)
    PROVE  /\ files' = [files EXCEPT ![PathOf[p]] = Replacement(p)]
           /\ Replacement(p).keys = Merged(FileOf(p).keys, mem[p]) \/ TakenForMissing(p)
           /\ Replacement(p).version = writes + 1
           /\ FileOf(p) = files[PathOf[p]]
<1>1. mem[p].original = FileOf(p).keys \/ TakenForMissing(p)
  BY DEF Rename, FileInv, Known
<1>2. FileOf(p) = files[PathOf[p]]
  BY FileOfOwn DEF FileInv
<1>3. QED
  BY <1>1, <1>2 DEF Rename, Replacement

LEMMA NextNames == OwnNames /\ NamesInv /\ [Next]_vars => NamesInv'
<1> SUFFICES ASSUME OwnNames, NamesInv, [Next]_vars PROVE NamesInv'
  OBVIOUS
<1>1. ASSUME NEW p \in Process, Rename(p) PROVE NamesInv'
  <2>1. link' = [link EXCEPT ![PathOf[p]] = PathOf[p]] /\ LinkOf[PathOf[p]] = PathOf[p]
    BY <1>1, SettingsAssumption DEF Rename, OwnNames
  <2>2. QED
    BY <2>1, SettingsAssumption DEF NamesInv
<1>2. CASE UNCHANGED vars
  BY <1>2 DEF vars, disk, NamesInv
<1>3. ASSUME NEW p \in Process, UNCHANGED disk PROVE NamesInv'
  BY <1>3 DEF disk, NamesInv
<1>4. QED
  BY <1>1, <1>2, <1>3, FilesStand DEF Next

LEMMA NextVersions == TypeOK /\ VersionInv /\ [Next]_vars => VersionInv'
<1> SUFFICES ASSUME TypeOK, VersionInv, [Next]_vars PROVE VersionInv'
  OBVIOUS
<1>1. ASSUME NEW p \in Process, Rename(p) PROVE VersionInv'
  <2>1. /\ files' = [files EXCEPT ![PathOf[p]] = Replacement(p)] /\ writes' = writes + 1
        /\ Replacement(p).version = writes + 1 /\ writes \in Nat
        /\ \A f \in Path : files[f].version \in Nat
    BY <1>1 DEF Rename, Replacement, TypeOK
  <2>2. ASSUME NEW f \in Path
        PROVE  files'[f].version <= writes' /\ (files'[f].version = 0 => files'[f] = NoFile)
    <3>1. files'[f] = files[f] \/ files'[f] = Replacement(p)
      BY <2>1 DEF TypeOK
    <3>2. QED
      BY <2>1, <3>1 DEF VersionInv
  <2>3. QED
    BY <2>2 DEF VersionInv
<1>2. CASE UNCHANGED vars
  BY <1>2 DEF vars, disk, VersionInv
<1>3. ASSUME NEW p \in Process, UNCHANGED disk PROVE VersionInv'
  BY <1>3 DEF disk, VersionInv
<1>4. QED
  BY <1>1, <1>2, <1>3, FilesStand DEF Next

\* A store whose process stands still is told nothing wrong by another's write.
LEMMA OthersStayKnown ==
    ASSUME OwnNames, TypeOK, TypeOK', LockInv, FileInv, NamesInv',
           NEW p \in Process, Sync(p) \/ Ask(p) \/ Crash(p), NEW r \in Process, r # p
    PROVE  Known(r)'
<1>1. at'[r] = at[r] /\ fd'[r] = fd[r] /\ mem'[r] = mem[r] /\ current'[r] = current[r]
  BY OthersStandStill DEF Still
<1>2. Known(r) /\ FileOf(r) = files[PathOf[r]] /\ FileOf(r)' = files'[PathOf[r]]
  <2>1. Known(r) /\ link = LinkOf /\ link' = LinkOf
    BY DEF FileInv, NamesInv
  <2>2. LinkOf[PathOf[r]] = PathOf[r]
    BY SettingsAssumption DEF OwnNames
  <2>3. QED
    BY <2>1, <2>2 DEF FileOf
<1>3. CASE FileOf(r)' = FileOf(r)
  <2>1. StampOf(r)' = StampOf(r)
    BY <1>3 DEF StampOf
  <2>2. QED
    BY <1>1, <1>2, <1>3, <2>1 DEF Known, TakenForMissing
<1>4. CASE FileOf(r)' # FileOf(r)
  <2>1. Rename(p) /\ PathOf[p] = PathOf[r] /\ FileOf(r)' = Replacement(p)
    <3>1. Rename(p)
      BY <1>2, <1>4, FilesStand DEF disk
    <3>2. files' = [files EXCEPT ![PathOf[p]] = Replacement(p)]
      BY <3>1 DEF Rename
    <3>3. QED
      BY <1>2, <1>4, <3>1, <3>2, SettingsAssumption DEF TypeOK
  <2>2. FileOf(r)'.version = writes + 1
    BY <2>1 DEF Replacement
  <2>3. /\ FileOf(r).version <= writes /\ writes \in Nat /\ FileOf(r).version \in Nat
        /\ mem[r].stamp.version \in Nat /\ current[r].version \in Nat
    <3>1. mem[r].stamp \in Stamps /\ current[r] \in Stamps
      BY DEF TypeOK, Stores
    <3>2. QED
      BY <1>2, <3>1, SettingsAssumption DEF FileInv, VersionInv, TypeOK, Stamps
  <2>4. ~Holding(r)
    <3>1. Holding(p)
      BY <2>1 DEF Rename, Holding
    <3>2. QED
      BY <2>1, <3>1, SoundMeansAlone DEF OneHolder
  <2>5. mem[r].stamp.version < FileOf(r)'.version
    BY <1>2, <2>2, <2>3 DEF Known
  <2>6. at[r] = "read" => current[r].version < FileOf(r)'.version
    BY <1>2, <2>2, <2>3 DEF Known
  <2>7. at[r] \notin {"create", "fill", "rename", "restat"} /\ (at[r] = "read" => fd[r] = NoOne)
    BY <2>4 DEF Holding
  <2> HIDE <1>4
  <2>8. FileOf(r)'.version \in Nat
    BY <2>2, <2>3
  <2>9. QED
    BY <1>1, <2>3, <2>5, <2>6, <2>7, <2>8 DEF Known
<1>5. QED
  BY <1>3, <1>4

\* What Known() compares, with its types.
LEMMA KnownTyped ==
    ASSUME TypeOK, NEW p \in Process
    PROVE  /\ mem[p] \in Stores /\ mem[p].stamp \in Stamps /\ mem[p].stamp.version \in Nat
           /\ current[p] \in Stamps /\ current[p].version \in Nat
           /\ StampOf(p) \in Stamps /\ StampOf(p).version = FileOf(p).version
           /\ FileOf(p).version \in Nat /\ FileOf(p).keys \in Maps
<1>1. mem[p] \in Stores /\ current[p] \in Stamps
  BY DEF TypeOK
<1>2. QED
  BY <1>1, StampTyped DEF Stores, Stamps, StampOf

\* A file that does not exist has the stamp and the keys of nothing.
LEMMA MissingFile ==
    ASSUME OwnNames, TypeOK, FileInv, NEW p \in Process, FileOf(p).version = 0
    PROVE  StampOf(p) = NoStamp /\ FileOf(p).keys = NoKeys
<1>1. FileOf(p) = NoFile
  <2>1. FileOf(p) = files[PathOf[p]] /\ PathOf[p] \in Path
    BY FileOfOwn, SettingsAssumption DEF FileInv
  <2>2. QED
    BY <2>1 DEF FileInv, VersionInv
<1>2. FileOf(p).version = 0 /\ FileOf(p).keys = NoKeys
  BY <1>1 DEF NoFile, File
<1>3. (DOMAIN NoKeys # {}) = FALSE
  BY NoKeysIsMap
<1>4. QED
  BY <1>2, <1>3 DEF StampOf, NoStamp

Writing == {"create", "fill", "rename"}

\* Steps that touch neither the file nor what the store had from it.
LEMMA KnownUntouched ==
    ASSUME NEW p \in Process, Known(p), FileOf(p)' = FileOf(p),
           mem'[p].stamp = mem[p].stamp, mem'[p].original = mem[p].original,
           at'[p] # "read", at'[p] # "restat", at'[p] \in Writing => at[p] \in Writing
    PROVE  Known(p)'
<1>1. StampOf(p)' = StampOf(p)
  BY DEF StampOf
<1>2. QED
  BY <1>1 DEF Known, Writing, TakenForMissing

LEMMA KnownAsking ==
    ASSUME TypeOK, NEW p \in Process, Known(p), Ask(p)
    PROVE  Known(p)'
<1>1. FileOf(p)' = FileOf(p)
  BY DEF Ask, Set, RemoveKey, Clear, CallSync, Change, disk, FileOf
<1>2. mem'[p].stamp = mem[p].stamp /\ mem'[p].original = mem[p].original
  <2>1. mem[p] \in Stores
    BY DEF TypeOK
  <2>2. CASE \E k \in Key, v \in Value : Set(p, k, v)
    BY <2>1, <2>2 DEF Set, TypeOK, Stores
  <2>3. CASE \E k \in Key : RemoveKey(p, k)
    BY <2>1, <2>3 DEF RemoveKey, TypeOK, Stores
  <2>4. CASE Clear(p)
    BY <2>1, <2>4 DEF Clear, TypeOK, Stores
  <2>5. CASE CallSync(p)
    BY <2>5 DEF CallSync
  <2>6. QED
    BY <2>2, <2>3, <2>4, <2>5 DEF Ask
<1>3. at'[p] \in {"idle", "sync"}
  BY DEF Ask, Set, RemoveKey, Clear, CallSync, Change, Go, GoWith, TypeOK
<1>4. QED
  BY <1>1, <1>2, <1>3, KnownUntouched DEF Writing

LEMMA KnownMoving ==
    ASSUME TypeOK, NEW p \in Process, Known(p),
           \/ UpToDate(p) \/ CheckAccess(p) \/ OpenLock(p) \/ Flock(p) \/ LockRefused(p)
           \/ CompareLock(p) \/ Create(p) \/ Fill(p) \/ RenameFails(p) \/ UnlinkLock(p)
           \/ CloseLock(p)
    PROVE  Known(p)'
<1>1. UNCHANGED <<disk, mem>>
  BY DEF UpToDate, CheckAccess, OpenLock, Flock, LockRefused, CompareLock, KeepLock, DropLock,
         Create, Fill,
         RenameFails, UnlinkLock, CloseLock
<1>2. FileOf(p)' = FileOf(p)
  BY <1>1 DEF disk, FileOf
<1>3. at'[p] # "read" /\ at'[p] # "restat" /\ (at'[p] \in Writing => at[p] \in Writing)
  BY DEF UpToDate, CheckAccess, OpenLock, Flock, LockRefused, CompareLock, KeepLock, DropLock,
         Create, Fill,
         RenameFails, UnlinkLock, CloseLock, Go, GoWith, TypeOK, Writing
<1>4. QED
  BY <1>1, <1>2, <1>3, KnownUntouched

LEMMA KnownStamping ==
    ASSUME OwnNames, TypeOK, LockInv, FileInv, NEW p \in Process, Begin(p) \/ Restamp(p)
    PROVE  Known(p)'
<1>0. Known(p)
  BY DEF FileInv
<1>1. UNCHANGED <<disk, mem>>
  BY DEF Begin, Restamp
<1>2. FileOf(p)' = FileOf(p) /\ StampOf(p)' = StampOf(p)
  BY <1>1 DEF disk, FileOf, StampOf
<1>3. PICK stamp \in Stat(p) :
        \/ at'[p] = "read" /\ current'[p] = stamp /\ (mem[p].stamp # stamp \/ ~mem[p].stamp.full)
        \/ at'[p] = "access"
        \/ at'[p] = "create" /\ mem[p].stamp = stamp
  BY KnownTyped DEF Begin, Restamp, Go, GoWith, TypeOK
<1>4. mem[p].stamp = StampOf(p) /\ ~mem[p].stamp.full => FileOf(p).keys = NoKeys
  <2>1. ~StampOf(p).full => DOMAIN FileOf(p).keys = {}
    BY DEF StampOf
  <2>2. QED
    BY <2>1, KnownTyped, EmptyIsNoKeys
<1>5. stamp \in {StampOf(p), NoStamp} /\ NoStamp.version = 0
  BY DEF Stat, NoStamp
<1>6. FileOf(p).version = 0 => StampOf(p) = NoStamp /\ FileOf(p).keys = NoKeys
  BY MissingFile
<1>7. CASE at'[p] = "read"
  <2>1. /\ current'[p].version <= FileOf(p).version
        /\ current'[p].version = FileOf(p).version => current'[p] = StampOf(p)
    BY <1>3, <1>5, <1>6, <1>7, KnownTyped
  <2>2. ASSUME current'[p] # NoStamp
        PROVE  /\ current'[p] = StampOf(p)
               /\ mem[p].stamp.version = FileOf(p).version => FileOf(p).keys = NoKeys
    BY <1>0, <1>3, <1>4, <1>5, <1>7, <2>2 DEF Known
  <2>3. QED
    BY <1>0, <1>1, <1>2, <1>7, <2>1, <2>2 DEF Known
<1>8. CASE at'[p] = "access"
  BY <1>0, <1>1, <1>2, <1>8 DEF Known
<1>9. CASE at'[p] = "create" /\ mem[p].stamp = stamp
  <2>1. mem[p].original = FileOf(p).keys \/ TakenForMissing(p)
    <3>1. FileOf(p) = NoFile => FileOf(p).version = 0
      BY DEF NoFile, File
    <3>2. \/ mem[p].stamp.version = FileOf(p).version
          \/ mem[p].stamp = NoStamp /\ FileOf(p) # NoFile
      BY <1>5, <1>9, <3>1, KnownTyped
    <3>3. QED
      BY <1>0, <3>2 DEF Known, TakenForMissing
  <2>2. QED
    BY <1>0, <1>1, <1>2, <1>9, <2>1 DEF Known, TakenForMissing
<1>10. QED
  BY <1>3, <1>7, <1>8, <1>9

LEMMA KnownReading ==
    ASSUME OwnNames, TypeOK, LockInv, FileInv, NEW p \in Process, Read(p) \/ ReadFails(p)
    PROVE  Known(p)'
<1>0. Known(p) /\ at[p] = "read"
  BY DEF FileInv, Read, ReadFails
<1>1. FileOf(p)' = FileOf(p) /\ StampOf(p)' = StampOf(p)
  BY DEF Read, ReadFails, disk, FileOf, StampOf
<1>2. CASE ReadFails(p)
  <2>0. current[p] # NoStamp
    BY <1>2 DEF ReadFails
  <2>1. mem'[p].stamp = mem[p].stamp /\ mem'[p].original = NoKeys
    BY <1>2, KnownTyped DEF ReadFails, Forget, Stores, TypeOK
  <2>2. at'[p] \in {"idle", "unlink"}
    BY <1>2 DEF ReadFails, Leave, Go, GoWith, TypeOK
  <2>3. QED
    BY <1>0, <1>1, <2>0, <2>1, <2>2 DEF Known
<1>3. CASE Read(p)
  <2>1. mem'[p].stamp = current[p]
    BY <1>3, KnownTyped DEF Read, Stores, TypeOK
  <2>2. mem'[p].original = IF current[p] = NoStamp THEN NoKeys ELSE FileOf(p).keys
    BY <1>3, KnownTyped DEF Read, Stores, TypeOK
  <2>3. at'[p] \in {"idle", "create"} /\ (at'[p] = "create" => fd[p] # NoOne)
    BY <1>0, <1>3 DEF Read, Go, GoWith, TypeOK, LockInv, StoreSound
  <2>4. current[p] = StampOf(p) => mem'[p].original = FileOf(p).keys
    BY <2>2, KnownTyped, MissingFile DEF NoStamp
  <2>5. FileOf(p) = NoFile => FileOf(p).version = 0 /\ NoStamp.version = 0
    BY DEF NoFile, File, NoStamp
  <2>6. at'[p] = "create" => mem'[p].original = FileOf(p).keys \/ TakenForMissing(p)'
    <3>1. CASE current[p] = NoStamp /\ FileOf(p) = NoFile
      BY <1>0, <2>4, <2>5, <3>1 DEF Known
    <3>2. CASE current[p] = NoStamp /\ FileOf(p) # NoFile
      BY <1>1, <2>1, <3>2 DEF TakenForMissing
    <3>3. CASE current[p] # NoStamp
      BY <1>0, <2>3, <2>4, <3>3 DEF Known
    <3>4. QED
      BY <3>1, <3>2, <3>3
  <2>7. QED
    BY <1>0, <1>1, <2>1, <2>3, <2>4, <2>6 DEF Known
<1>4. QED
  BY <1>2, <1>3

LEMMA KnownWriting ==
    ASSUME OwnNames, TypeOK, FileInv, NamesInv', NEW p \in Process, Rename(p) \/ Restat(p)
    PROVE  Known(p)'
<1>0. Known(p)
  BY DEF FileInv
<1>1. CASE Rename(p)
  <2>1. FileOf(p)' = Replacement(p)
    <3>1. link'[PathOf[p]] = PathOf[p] /\ PathOf[p] \in Path
      BY SettingsAssumption DEF NamesInv, OwnNames
    <3>2. QED
      BY <1>1, <3>1 DEF Rename, FileOf, TypeOK
  <2>2. mem'[p].stamp = mem[p].stamp /\ mem'[p].original = Merged(mem[p].original, mem[p])
    BY <1>1, KnownTyped DEF Rename, Stores, TypeOK
  <2>3. at'[p] = "restat"
    BY <1>1 DEF Rename, Go, GoWith, TypeOK
  <2>4. mem[p].stamp.version < writes + 1 /\ writes + 1 \in Nat
    <3>1. FileOf(p).version <= writes /\ writes \in Nat
      BY FileOfOwn, SettingsAssumption DEF FileInv, VersionInv, TypeOK
    <3>2. QED
      BY <1>0, <3>1, KnownTyped DEF Known
  <2>5. FileOf(p)'.version = writes + 1 /\ FileOf(p)'.keys = Merged(mem[p].original, mem[p])
    BY <2>1 DEF Replacement
  <2>6. QED
    BY <2>2, <2>3, <2>4, <2>5, KnownTyped DEF Known
<1>2. CASE Restat(p)
  <2>1. FileOf(p)' = FileOf(p) /\ StampOf(p)' = StampOf(p)
    BY <1>2 DEF Restat, disk, FileOf, StampOf
  <2>2. mem'[p].stamp \in Stat(p) /\ mem'[p].original = mem[p].original
    BY <1>2, KnownTyped DEF Restat, Stores, TypeOK
  <2>3. at[p] = "restat" /\ at'[p] = "unlink"
    BY <1>2 DEF Restat, Go, GoWith, TypeOK
  <2>4. mem'[p].stamp \in {StampOf(p), NoStamp} /\ NoStamp.version = 0
    BY <2>2 DEF Stat, NoStamp
  <2>5. QED
    BY <1>0, <2>1, <2>2, <2>3, <2>4, KnownTyped, MissingFile DEF Known
<1>3. QED
  BY <1>1, <1>2

LEMMA KnownAfterCrash ==
    ASSUME OwnNames, TypeOK, FileInv, NEW p \in Process, Crash(p)
    PROVE  Known(p)'
<1>1. FileOf(p)' = FileOf(p) /\ StampOf(p)' = StampOf(p)
  BY DEF Crash, disk, FileOf, StampOf
<1>2. mem'[p] = NewStore /\ at'[p] = "sync"
  BY DEF Crash, GoWith, TypeOK
<1>3. NewStore.stamp = NoStamp /\ NewStore.original = NoKeys /\ NoStamp.version = 0
  BY DEF NewStore, NoStamp
<1>4. QED
  BY <1>1, <1>2, <1>3, MissingFile, KnownTyped DEF Known

LEMMA NextKnown == OwnNames /\ TypeOK /\ LockInv /\ FileInv /\ [Next]_vars => FileInv'
<1> SUFFICES ASSUME OwnNames, TypeOK, LockInv, FileInv, [Next]_vars PROVE FileInv'
  OBVIOUS
<1>1. NamesInv' /\ VersionInv'
  BY NextNames, NextVersions DEF FileInv
<1>2. TypeOK'
  BY NextTyped
<1>3. ASSUME NEW p \in Process, Sync(p) \/ Ask(p) \/ Crash(p), NEW r \in Process PROVE Known(r)'
  <2>1. Known(p)
    BY DEF FileInv
  <2>2. Known(p)'
    BY <1>1, <1>3, <2>1, KnownAsking, KnownMoving, KnownStamping, KnownReading, KnownWriting,
       KnownAfterCrash DEF Sync
  <2>3. r # p => Known(r)'
    BY <1>1, <1>2, <1>3, OthersStayKnown
  <2>4. QED
    BY <2>2, <2>3
<1>4. CASE UNCHANGED vars
  BY <1>4 DEF vars, disk, locks, FileInv, NamesInv, VersionInv, Known, TakenForMissing,
                  FileOf, StampOf
<1>5. (\A r \in Process : Known(r)')
  BY <1>3, <1>4 DEF Next, FileInv
<1>6. QED
  BY <1>1, <1>5 DEF FileInv

IInv == TypeOK /\ LockInv /\ FileInv

LEMMA Inductive ==
    ASSUME OwnNames
    PROVE  (Init => IInv) /\ (IInv /\ [Next]_vars => IInv')
  BY InitTyped, InitSound, InitKnown, NextTyped, NextSound, NextKnown DEF IInv

\* When no name of a file is a link, a store whose stamp is the file's knows its keys.
THEOREM StampsAreRight ==
    ASSUME OwnNames
    PROVE  Spec => []StampTellsTheTruth
<1>1. IInv => StampTellsTheTruth
  BY KnownTyped DEF IInv, FileInv, Known, StampTellsTheTruth
<1>2. QED
  BY <1>1, Inductive, PTL DEF Spec

\* When no name of a file is a link, a file is only ever replaced by what it held at
\* that moment with one store's changes on top, except by a store whose stat() of an
\* existing file has just failed.
THEOREM WritesMerge ==
    ASSUME OwnNames
    PROVE  Spec => MergeKeepsOthers
<1> DEFINE Merging ==
      \A f \in Path : files'[f] # files[f] =>
          \E p \in Process :
              /\ PathOf[p] = f
              /\ \/ files'[f].keys = Merged(files[link[f]].keys, mem[p])
                 \/ TakenForMissing(p)
<1>1. IInv /\ [Next]_vars => Merging
  <2> SUFFICES ASSUME IInv, [Next]_vars, NEW f \in Path, files'[f] # files[f]
               PROVE  \E p \in Process :
                         /\ PathOf[p] = f
                         /\ \/ files'[f].keys = Merged(files[link[f]].keys, mem[p])
                            \/ TakenForMissing(p)
    OBVIOUS
  <2>1. PICK p \in Process : Rename(p)
    <3>1. ~UNCHANGED disk
      BY DEF disk
    <3>2. QED
      BY <3>1, FilesStand DEF Next, vars
  <2>2. /\ files' = [files EXCEPT ![PathOf[p]] = Replacement(p)]
        /\ Replacement(p).keys = Merged(FileOf(p).keys, mem[p]) \/ TakenForMissing(p)
    BY <2>1, WriterMerges DEF IInv
  <2>3. PathOf[p] = f /\ files'[f] = Replacement(p)
    BY <2>2 DEF IInv, TypeOK
  <2>4. QED
    BY <2>2, <2>3 DEF FileOf
<1> HIDE DEF Merging
<1>2. QED
  <2>1. Spec => []IInv
    BY Inductive, PTL DEF Spec
  <2>2. IInv /\ [Next]_vars => [Merging]_vars
    BY <1>1
  <2>3. Spec => [][Merging]_vars
    BY <2>1, <2>2, PTL DEF Spec
  <2>4. QED
    BY <2>3 DEF MergeKeepsOthers, Merging

\* A file is one writer's work and whole, for any number of processes, names, failures
\* and crashes.
THEOREM FilesAreOneWritersWork == Spec => []OneWriterWholeFiles
BY TypeCorrect, AtMostOneHolder, FilesStayWhole, PTL DEF OneWriterWholeFiles

=============================================================================
