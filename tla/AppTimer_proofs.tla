---------------------------- MODULE AppTimer_proofs ----------------------------
(***************************************************************************)
(* What the callers of app_timer2.c can rely on, proved for every set of    *)
(* timers, every queue size and every order of calls: the sorted list stays *)
(* sound, a stopped timer stays silent, and a start made at rest is kept.   *)
(***************************************************************************)
EXTENDS AppTimer, TLAPS

-----------------------------------------------------------------------------
(* Requests and the queue.                                                  *)

\* A start is not a stop, and the request tells its timer.
LEMMA RequestsDiffer ==
    ASSUME NEW t \in Timers, NEW u \in Timers
    PROVE  /\ StartReq(t) \in Requests /\ StopReq(t) \in Requests
           /\ StartReq(t) # StopReq(u)
           /\ StartReq(t) = StartReq(u) <=> t = u
           /\ StopReq(t) = StopReq(u) <=> t = u
           /\ StartReq(t).type = "start" /\ StartReq(t).timer = t
           /\ StopReq(t).type = "stop" /\ StopReq(t).timer = t
BY DEF StartReq, StopReq, Requests

\* Every request is the start or the stop of one timer.
LEMMA RequestForm ==
    ASSUME NEW r \in Requests
    PROVE  /\ r.timer \in Timers
           /\ r = StartReq(r.timer) \/ r = StopReq(r.timer)
           /\ r.type = "start" <=> r = StartReq(r.timer)
           /\ r.type = "stop" <=> r = StopReq(r.timer)
BY DEF StartReq, StopReq, Requests

\* What is queued after a request is put at the end of the queue.
LEMMA AfterAppend ==
    ASSUME NEW r \in Requests, m_req_fifo \in Seq(Requests),
           m_req_fifo' = Append(m_req_fifo, r)
    PROVE  \A q : Queued(q)' <=> Queued(q) \/ q = r
<1> DEFINE n == Len(m_req_fifo)
<1>1. n \in Nat /\ DOMAIN m_req_fifo = 1..n /\ DOMAIN m_req_fifo' = 1..(n + 1)
  OBVIOUS
<1>2. \A i \in 1..n : m_req_fifo'[i] = m_req_fifo[i]
  OBVIOUS
<1>3. m_req_fifo'[n + 1] = r
  OBVIOUS
<1> QED BY <1>1, <1>2, <1>3 DEF Queued

\* What is queued after the head is taken.
LEMMA AfterTail ==
    ASSUME m_req_fifo \in Seq(Requests), m_req_fifo # <<>>,
           m_req_fifo' = Tail(m_req_fifo)
    PROVE  /\ Head(m_req_fifo) \in Requests
           /\ Queued(Head(m_req_fifo))
           /\ \A q : Queued(q)' => Queued(q)
           /\ \A q : Queued(q) /\ q # Head(m_req_fifo) => Queued(q)'
<1> DEFINE n == Len(m_req_fifo)
<1>1. n \in Nat \ {0} /\ DOMAIN m_req_fifo = 1..n /\ DOMAIN m_req_fifo' = 1..(n - 1)
  OBVIOUS
<1>2. \A i \in 1..(n - 1) : m_req_fifo'[i] = m_req_fifo[i + 1]
  OBVIOUS
<1>3. Head(m_req_fifo) = m_req_fifo[1] /\ m_req_fifo[1] \in Requests
  OBVIOUS
<1>4. ASSUME NEW q, Queued(q) PROVE q = Head(m_req_fifo) \/ Queued(q)'
  <2>1. PICK i \in 1..n : m_req_fifo[i] = q
    BY <1>1, <1>4 DEF Queued
  <2>2. CASE i = 1
    BY <2>1, <2>2, <1>3
  <2>3. CASE i # 1
    <3>1. i - 1 \in 1..(n - 1) /\ (i - 1) + 1 = i
      BY <1>1, <2>3
    <3>2. m_req_fifo'[i - 1] = q
      BY <1>2, <2>1, <3>1
    <3> QED BY <1>1, <3>1, <3>2 DEF Queued
  <2> QED BY <2>2, <2>3
<1>5. ASSUME NEW q, Queued(q)' PROVE Queued(q)
  <2>1. PICK i \in 1..(n - 1) : m_req_fifo'[i] = q
    BY <1>1, <1>5 DEF Queued
  <2>2. i + 1 \in 1..n /\ m_req_fifo[i + 1] = q
    BY <1>1, <1>2, <2>1
  <2> QED BY <1>1, <2>2 DEF Queued
<1>6. Queued(Head(m_req_fifo))
  BY <1>1, <1>3 DEF Queued
<1> QED BY <1>3, <1>4, <1>5, <1>6

-----------------------------------------------------------------------------
(* The sorted list, whatever the callers do.                                *)

StopIn(q, t) == \E j \in DOMAIN q : q[j] = StopReq(t)
StopBefore(q, i, t) == \E j \in DOMAIN q : j < i /\ q[j] = StopReq(t)
StopsBeforeStarts(q, t) == \A i \in DOMAIN q : q[i] = StartReq(t) => StopBefore(q, i, t)

\* With flags a, list l and queue q: the stop of a timer that is in the list with a clear
\* flag is queued, and before each start of a timer in the list that will not find its
\* flag set there is a stop.  In the middle of the queue (d) a start may have been
\* carried out already, and then the flag is set.
Insertable(a, l, q, d) ==
    \A t \in l : /\ a[t] = FALSE => StopIn(q, t)
                 /\ ~d \/ a[t] = FALSE => StopsBeforeStarts(q, t)

LEMMA InsertOnce ==
    ASSUME NEW a \in [Timers -> BOOLEAN], NEW l \in SUBSET Timers, NEW q \in Seq(Requests), NEW d,
           Insertable(a, l, q, d), NEW t \in l, q # <<>>, Head(q) = StartReq(t)
    PROVE  a[t] = TRUE
<1> SUFFICES ASSUME a[t] = FALSE  PROVE FALSE
  OBVIOUS
<1>1. 1 \in DOMAIN q /\ q[1] = StartReq(t) /\ DOMAIN q = 1..Len(q) /\ Len(q) \in Nat
  OBVIOUS
<1>2. StopBefore(q, 1, t)
  BY <1>1 DEF Insertable, StopsBeforeStarts
<1>3. QED  BY <1>1, <1>2 DEF StopBefore

\* A call that is not ignored.
LEMMA CallInsertable ==
    ASSUME NEW a \in [Timers -> BOOLEAN], NEW l \in SUBSET Timers, NEW q \in Seq(Requests),
           Insertable(a, l, q, FALSE), NEW c \in Requests, ~Ignored(a, c)
    PROVE  Insertable(FlagAfterCall(a, c), l, Append(q, c), FALSE)
<1> DEFINE p == Append(q, c)
           n == Len(q)
           b == FlagAfterCall(a, c)
<1>1. /\ n \in Nat /\ DOMAIN q = 1..n /\ DOMAIN p = 1..(n + 1)
      /\ \A i \in 1..n : p[i] = q[i] /\ i \in 1..(n + 1) /\ i < n + 1
      /\ p[n + 1] = c /\ n + 1 \in 1..(n + 1)
      /\ \A i \in 1..(n + 1) : i \in 1..n \/ i = n + 1
  OBVIOUS
<1> HIDE DEF p, n
<1>2. \A t : StopIn(q, t) => StopIn(p, t) /\ StopBefore(p, n + 1, t)
  BY <1>1 DEF StopIn, StopBefore
<1>3. c.timer \in Timers /\ (c = StartReq(c.timer) \/ c = StopReq(c.timer))
  BY RequestForm
<1>4. ASSUME NEW t \in l, StopsBeforeStarts(q, t), c # StartReq(t) \/ StopIn(q, t)
      PROVE  StopsBeforeStarts(p, t)
  <2> SUFFICES ASSUME NEW i \in DOMAIN p, p[i] = StartReq(t)  PROVE StopBefore(p, i, t)
    BY DEF StopsBeforeStarts
  <2>1. CASE i \in 1..n
    <3>1. StopBefore(q, i, t)
      BY <1>1, <1>4, <2>1 DEF StopsBeforeStarts
    <3>2. QED  BY <1>1, <3>1 DEF StopBefore
  <2>2. CASE i = n + 1
    BY <1>1, <1>2, <1>4, <2>2
  <2>3. QED  BY <1>1, <2>1, <2>2
<1>5. CASE c = StartReq(c.timer)
  <2>1. a[c.timer] = FALSE /\ b = a
    BY <1>3, <1>5, RequestForm DEF Ignored, FlagAfterCall, StartReq
  <2> HIDE DEF b
  <2>2. SUFFICES ASSUME NEW t \in l
                 PROVE  /\ a[t] = FALSE => StopIn(p, t)
                        /\ StopsBeforeStarts(p, t)
    BY <2>1 DEF Insertable, b, p
  <2>3. StopsBeforeStarts(q, t) /\ (a[t] = FALSE => StopIn(q, t))
    BY DEF Insertable
  <2>4. c = StartReq(t) => t = c.timer
    BY DEF StartReq
  <2>5. QED  BY <1>2, <1>4, <2>1, <2>3, <2>4
<1>6. CASE c = StopReq(c.timer)
  <2>1. b = [a EXCEPT ![c.timer] = FALSE]
    BY <1>3, <1>6 DEF FlagAfterCall, StopReq
  <2>2. StopIn(p, c.timer)
    BY <1>1, <1>6 DEF StopIn
  <2> HIDE DEF b
  <2>3. SUFFICES ASSUME NEW t \in l
                 PROVE  /\ b[t] = FALSE => StopIn(p, t)
                        /\ StopsBeforeStarts(p, t)
    BY DEF Insertable, b, p
  <2>4. StopsBeforeStarts(q, t) /\ (a[t] = FALSE => StopIn(q, t))
    BY DEF Insertable
  <2>5. c # StartReq(t)
    BY <1>6 DEF StartReq, StopReq
  <2>6. b[t] = FALSE => a[t] = FALSE \/ t = c.timer
    BY <2>1
  <2>7. QED  BY <1>2, <1>4, <2>2, <2>4, <2>5, <2>6
<1>7. QED  BY <1>3, <1>5, <1>6

\* A timer leaves the list.
LEMMA ExpireInsertable ==
    ASSUME NEW a \in [Timers -> BOOLEAN], NEW l \in SUBSET Timers, NEW q, NEW d,
           Insertable(a, l, q, d), NEW t \in Timers
    PROVE  /\ Insertable(a, l \ {t}, q, d)
           /\ Insertable([a EXCEPT ![t] = FALSE], l \ {t}, q, d)
BY DEF Insertable

\* The first request is carried out.
LEMMA ProcessInsertable ==
    ASSUME NEW a \in [Timers -> BOOLEAN], NEW l \in SUBSET Timers, NEW q \in Seq(Requests), NEW d,
           Insertable(a, l, q, d), q # <<>>
    PROVE  Insertable(FlagAfter(a, Head(q)), ArmedAfter(a, l, Head(q)), Tail(q), Tail(q) # <<>>)
<1> DEFINE p == Tail(q)
           n == Len(q)
           r == Head(q)
           b == FlagAfter(a, r)
           m == ArmedAfter(a, l, r)
<1>1. /\ n \in Nat \ {0} /\ DOMAIN q = 1..n /\ DOMAIN p = 1..(n - 1) /\ r = q[1] /\ r \in Requests
      /\ \A i \in 1..(n - 1) : p[i] = q[i + 1] /\ i + 1 \in 1..n
      /\ \A i \in 1..n : i = 1 \/ (i - 1 \in 1..(n - 1) /\ (i - 1) + 1 = i)
      /\ p = <<>> => DOMAIN p = {}
  OBVIOUS
<1> HIDE DEF p, n, r
<1>2. r.timer \in Timers /\ (r = StartReq(r.timer) \/ r = StopReq(r.timer))
  BY <1>1, RequestForm
<1>3. \A t : r # StopReq(t) /\ StopIn(q, t) => StopIn(p, t)
  <2> SUFFICES ASSUME NEW t, r # StopReq(t), NEW j \in DOMAIN q, q[j] = StopReq(t)
               PROVE  StopIn(p, t)
    BY DEF StopIn
  <2>1. j - 1 \in 1..(n - 1) /\ (j - 1) + 1 = j
    BY <1>1
  <2>2. p[j - 1] = StopReq(t)
    BY <1>1, <2>1
  <2>3. QED  BY <1>1, <2>1, <2>2 DEF StopIn
<1>4. \A t : r # StopReq(t) /\ StopsBeforeStarts(q, t) => StopsBeforeStarts(p, t)
  <2> SUFFICES ASSUME NEW t, r # StopReq(t), StopsBeforeStarts(q, t),
                      NEW i \in DOMAIN p, p[i] = StartReq(t)
               PROVE  StopBefore(p, i, t)
    BY DEF StopsBeforeStarts
  <2>1. i \in 1..(n - 1) /\ i + 1 \in 1..n /\ q[i + 1] = StartReq(t)
    BY <1>1
  <2>2. PICK j \in DOMAIN q : j < i + 1 /\ q[j] = StopReq(t)
    BY <1>1, <2>1 DEF StopsBeforeStarts, StopBefore
  <2>3. j - 1 \in 1..(n - 1) /\ (j - 1) + 1 = j /\ j - 1 < i
    BY <1>1, <2>1, <2>2
  <2>4. p[j - 1] = StopReq(t)
    BY <1>1, <2>2, <2>3
  <2>5. QED  BY <1>1, <2>3, <2>4 DEF StopBefore
<1>5. p = <<>> => \A t : StopsBeforeStarts(p, t)
  BY <1>1 DEF StopsBeforeStarts
<1>6. SUFFICES ASSUME NEW t \in m
               PROVE  /\ b[t] = FALSE => StopIn(p, t)
                      /\ p = <<>> \/ b[t] = FALSE => StopsBeforeStarts(p, t)
  BY DEF Insertable, p, r
<1>7. CASE r = StartReq(r.timer)
  <2>1. b = [a EXCEPT ![r.timer] = TRUE] /\ m \subseteq l \cup {r.timer}
    BY <1>7 DEF FlagAfter, ArmedAfter, StartReq
  <2>2. r # StopReq(t)
    BY <1>7 DEF StartReq, StopReq
  <2> HIDE DEF b, m
  <2>3. b[t] = FALSE => t \in l /\ a[t] = FALSE
    BY <1>2, <1>6, <2>1
  <2>4. QED  BY <1>3, <1>4, <1>5, <2>2, <2>3 DEF Insertable
<1>8. CASE r = StopReq(r.timer)
  <2>1. b = a /\ m = l \ {r.timer}
    BY <1>8 DEF FlagAfter, ArmedAfter, StopReq
  <2> HIDE DEF b, m
  <2>2. t \in l /\ t # r.timer
    BY <1>6, <2>1
  <2>3. r # StopReq(t)
    BY <1>8, <2>2 DEF StopReq
  <2>4. QED  BY <1>3, <1>4, <1>5, <2>1, <2>2, <2>3 DEF Insertable
<1>9. QED  BY <1>2, <1>7, <1>8

TypedList == TypeOK /\ Insertable(active, armed, m_req_fifo, draining)

LEMMA TypedListStep ==
    ASSUME TypedList, [Next]_vars
    PROVE  TypedList'
<1>1. /\ active \in [Timers -> BOOLEAN] /\ armed \in SUBSET Timers /\ m_req_fifo \in Seq(Requests)
      /\ Len(m_req_fifo) <= OpQueueSize /\ draining \in BOOLEAN
      /\ promised \subseteq Timers /\ fresh \subseteq promised
      /\ Len(m_req_fifo) \in Nat /\ OpQueueSize \in Nat
      /\ Insertable(active, armed, m_req_fifo, draining)
  BY TimerAssumption DEF TypedList, TypeOK
<1>2. ASSUME NEW t \in Timers, app_timer_start(t)  PROVE TypedList'
  <2>1. ~draining /\ UNCHANGED <<active, armed, draining>>
        /\ promised' \subseteq Timers /\ fresh' \subseteq promised'
    BY <1>1, <1>2 DEF app_timer_start
  <2>2. CASE Ignored(active, StartReq(t))
    <3>1. m_req_fifo' = m_req_fifo
      BY <1>2, <2>2 DEF app_timer_start
    <3>2. QED  BY <1>1, <2>1, <3>1 DEF TypedList, TypeOK
  <2>3. CASE ~Ignored(active, StartReq(t))
    <3>1. m_req_fifo' = Append(m_req_fifo, StartReq(t)) /\ HasRoom /\ StartReq(t) \in Requests
      BY <1>2, <2>3, RequestsDiffer DEF app_timer_start
    <3>2. Insertable(FlagAfterCall(active, StartReq(t)), armed, m_req_fifo', FALSE)
      BY <1>1, <2>1, <2>3, <3>1, CallInsertable
    <3>3. FlagAfterCall(active, StartReq(t)) = active
      BY DEF FlagAfterCall, StartReq
    <3>4. m_req_fifo' \in Seq(Requests) /\ Len(m_req_fifo') <= OpQueueSize
      BY <1>1, <3>1 DEF HasRoom
    <3>5. QED  BY <1>1, <2>1, <3>2, <3>3, <3>4 DEF TypedList, TypeOK
  <2>4. QED  BY <2>2, <2>3
<1>3. ASSUME NEW t \in Timers, app_timer_stop(t)  PROVE TypedList'
  <2>1. /\ ~draining /\ HasRoom /\ UNCHANGED <<armed, draining>>
        /\ promised' \subseteq Timers /\ fresh' \subseteq promised'
        /\ active' = FlagAfterCall(active, StopReq(t)) /\ StopReq(t) \in Requests
        /\ m_req_fifo' = Append(m_req_fifo, StopReq(t))
    BY <1>1, <1>3, RequestsDiffer DEF app_timer_stop, Ended
  <2>2. ~Ignored(active, StopReq(t)) /\ active' \in [Timers -> BOOLEAN]
    BY <1>1, <2>1 DEF Ignored, StopReq, FlagAfterCall
  <2>3. Insertable(active', armed, m_req_fifo', FALSE)
    BY <1>1, <2>1, <2>2, CallInsertable
  <2>4. m_req_fifo' \in Seq(Requests) /\ Len(m_req_fifo') <= OpQueueSize
    BY <1>1, <2>1 DEF HasRoom
  <2>5. QED  BY <1>1, <2>1, <2>2, <2>3, <2>4 DEF TypedList, TypeOK
<1>4. ASSUME NEW t \in Timers, timer_expire(t)  PROVE TypedList'
  <2>1. UNCHANGED <<m_req_fifo, draining>> /\ promised' \subseteq Timers /\ fresh' \subseteq promised'
    BY <1>1, <1>4 DEF timer_expire, Ended
  <2>2. \/ armed' = armed /\ active' = active
        \/ armed' = armed \ {t} /\ active' = [active EXCEPT ![t] = FALSE]
        \/ armed' = armed \ {t} /\ active' = active
    BY <1>4 DEF timer_expire
  <2>3. active' \in [Timers -> BOOLEAN] /\ armed' \subseteq Timers
    BY <1>1, <2>2
  <2>4. Insertable(active', armed', m_req_fifo, draining)
    <3>1. /\ Insertable(active, armed \ {t}, m_req_fifo, draining)
          /\ Insertable([active EXCEPT ![t] = FALSE], armed \ {t}, m_req_fifo, draining)
      BY <1>1, ExpireInsertable
    <3>2. QED  BY <1>1, <2>2, <3>1
  <2>5. QED  BY <1>1, <2>1, <2>3, <2>4 DEF TypedList, TypeOK
<1>5. CASE NoMem
  <2>1. /\ active' = [t \in Timers |-> FALSE] /\ armed' = {} /\ m_req_fifo' = <<>>
        /\ promised' = {} /\ fresh' = {} /\ draining' = draining
    BY <1>5 DEF NoMem
  <2>2. QED  BY <1>1, <2>1 DEF TypedList, TypeOK, Insertable
<1>6. CASE timer_req_process
  <2>1. /\ m_req_fifo # <<>> /\ m_req_fifo' = Tail(m_req_fifo) /\ UNCHANGED <<promised, fresh>>
        /\ active' = FlagAfter(active, Head(m_req_fifo))
        /\ armed' = ArmedAfter(active, armed, Head(m_req_fifo))
        /\ draining' = (Tail(m_req_fifo) # <<>>)
    BY <1>6 DEF timer_req_process
  <2>2. Insertable(active', armed', m_req_fifo', draining')
    BY <1>1, <2>1, ProcessInsertable
  <2>3. Head(m_req_fifo) \in Requests
    BY <1>1, <2>1
  <2>4. Head(m_req_fifo).timer \in Timers
    BY <2>3, RequestForm
  <2>5. active' \in [Timers -> BOOLEAN] /\ armed' \subseteq Timers
    BY <1>1, <2>1, <2>4 DEF FlagAfter, ArmedAfter
  <2>6. m_req_fifo' \in Seq(Requests) /\ Len(m_req_fifo') <= OpQueueSize /\ draining' \in BOOLEAN
    BY <1>1, <2>1
  <2>7. QED  BY <1>1, <2>1, <2>2, <2>5, <2>6 DEF TypedList, TypeOK
<1>7. CASE UNCHANGED vars
  BY <1>1, <1>7 DEF vars, TypedList, TypeOK
<1>8. QED  BY <1>2, <1>3, <1>4, <1>5, <1>6, <1>7 DEF Next

LEMMA AlwaysTypedList == Spec => []TypedList
<1>1. Init => TypedList
  <2> SUFFICES ASSUME Init  PROVE TypedList
    OBVIOUS
  <2>1. m_req_fifo \in Seq(Requests) /\ Len(m_req_fifo) = 0
    BY DEF Init
  <2>2. /\ active \in [Timers -> BOOLEAN] /\ armed = {} /\ draining \in BOOLEAN
        /\ promised = {} /\ fresh = {}
    BY DEF Init
  <2>3. TypeOK
    BY <2>1, <2>2, TimerAssumption DEF TypeOK
  <2>4. QED  BY <2>2, <2>3 DEF TypedList, Insertable
<1>2. TypedList /\ [Next]_vars => TypedList'
  BY TypedListStep
<1>3. QED  BY <1>1, <1>2, PTL DEF Spec

\* Every variable keeps its type, and the queue its bound, whatever the callers do.
THEOREM TimerTypes == Spec => []TypeOK
<1>1. TypedList => TypeOK
  BY DEF TypedList
<1>2. QED  BY <1>1, AlwaysTypedList, PTL

\* The sorted list never receives an item it already holds, whatever the callers do:
\* in no order of starts and stops does the flag of a timer in the list clear without a
\* stop that takes it out before the next start puts it in (app_timer2.c:410).
THEOREM NoDoubleInsertion == Spec => []ListedOnce
<1>1. TypedList => ListedOnce
  <2> SUFFICES ASSUME TypedList, NEW t \in armed, m_req_fifo # <<>>, Head(m_req_fifo) = StartReq(t)
               PROVE  active[t]
    BY DEF ListedOnce
  <2>1. active[t] = TRUE
    BY InsertOnce DEF TypedList, TypeOK
  <2>2. QED  BY <2>1
<1>2. QED  BY <1>1, AlwaysTypedList, PTL

-----------------------------------------------------------------------------
(* What becomes of a start.  A timer that nobody wants to run may be started *)
(* by a request that is still queued, but then a stop is queued behind it;   *)
(* and no stop is queued of a timer that was started at rest.                *)

StopAfter(q, i, t) == \E j \in DOMAIN q : i < j /\ q[j] = StopReq(t)
Revoked(q, t) == \A i \in DOMAIN q : q[i] = StartReq(t) => StopAfter(q, i, t)

\* Outside the interrupt, no start is queued of a timer whose flag is set.
NotStartedTwice == ~draining => \A t \in Timers : active[t] => ~Queued(StartReq(t))

Silent == \A t \in Timers \ promised :
             /\ Revoked(m_req_fifo, t)
             /\ t \in armed /\ active[t] => draining /\ Queued(StopReq(t))

Kept == \A t \in fresh :
           /\ ~Queued(StopReq(t))
           /\ active[t] => t \in armed
           /\ active[t] \/ Queued(StartReq(t))

Fate == NotStartedTwice /\ Silent /\ Kept

\* A request behind the others revokes no start but may be one.
LEMMA AppendRevoked ==
    ASSUME NEW q \in Seq(Requests), NEW c \in Requests, NEW t \in Timers,
           Revoked(q, t) \/ c = StopReq(t), c # StartReq(t)
    PROVE  Revoked(Append(q, c), t)
<1> DEFINE p == Append(q, c)
           n == Len(q)
<1>1. /\ n \in Nat /\ DOMAIN q = 1..n /\ DOMAIN p = 1..(n + 1)
      /\ \A i \in 1..n : p[i] = q[i] /\ i \in 1..(n + 1) /\ i < n + 1
      /\ p[n + 1] = c /\ n + 1 \in 1..(n + 1)
      /\ \A i \in 1..(n + 1) : i \in 1..n \/ i = n + 1
  OBVIOUS
<1> HIDE DEF p, n
<1>2. SUFFICES ASSUME NEW i \in DOMAIN p, p[i] = StartReq(t)  PROVE StopAfter(p, i, t)
  BY DEF Revoked, p
<1>3. i \in 1..n /\ q[i] = StartReq(t)
  BY <1>1, <1>2
<1>4. CASE c = StopReq(t)
  BY <1>1, <1>3, <1>4 DEF StopAfter
<1>5. CASE Revoked(q, t)
  <2>1. PICK j \in DOMAIN q : i < j /\ q[j] = StopReq(t)
    BY <1>1, <1>3, <1>5 DEF Revoked, StopAfter
  <2>2. QED  BY <1>1, <2>1 DEF StopAfter
<1>6. QED  BY <1>4, <1>5

\* The stops behind the first request are still there when it is carried out.
LEMMA TailRevoked ==
    ASSUME m_req_fifo \in Seq(Requests), m_req_fifo # <<>>, m_req_fifo' = Tail(m_req_fifo),
           NEW t \in Timers, Revoked(m_req_fifo, t)
    PROVE  /\ Revoked(m_req_fifo, t)'
           /\ Head(m_req_fifo) = StartReq(t) => Queued(StopReq(t))'
<1> DEFINE q == m_req_fifo
           p == Tail(m_req_fifo)
           n == Len(m_req_fifo)
<1>1. /\ n \in Nat \ {0} /\ DOMAIN q = 1..n /\ DOMAIN p = 1..(n - 1) /\ Head(q) = q[1]
      /\ \A i \in 1..(n - 1) : p[i] = q[i + 1] /\ i + 1 \in 1..n
      /\ \A i, j \in 1..n : i < j => j - 1 \in 1..(n - 1) /\ (j - 1) + 1 = j
  OBVIOUS
<1>2. m_req_fifo' = p
  OBVIOUS
<1> HIDE DEF p, n, q
<1>3. ASSUME NEW i \in DOMAIN q, q[i] = StartReq(t)
      PROVE  \E j \in 1..(n - 1) : i < j + 1 /\ p[j] = StopReq(t)
  <2>1. PICK j \in DOMAIN q : i < j /\ q[j] = StopReq(t)
    BY <1>3 DEF Revoked, StopAfter, q
  <2>2. j - 1 \in 1..(n - 1) /\ (j - 1) + 1 = j
    BY <1>1, <2>1
  <2>3. QED  BY <1>1, <2>1, <2>2
<1>4. Revoked(p, t)
  <2> SUFFICES ASSUME NEW i \in DOMAIN p, p[i] = StartReq(t)  PROVE StopAfter(p, i, t)
    BY DEF Revoked
  <2>1. i + 1 \in DOMAIN q /\ q[i + 1] = StartReq(t)
    BY <1>1
  <2>2. PICK j \in 1..(n - 1) : i + 1 < j + 1 /\ p[j] = StopReq(t)
    BY <1>3, <2>1
  <2>3. i < j
    BY <1>1, <2>2
  <2>4. QED  BY <1>1, <2>2, <2>3 DEF StopAfter
<1>5. Revoked(m_req_fifo, t)'
  BY <1>2, <1>4 DEF Revoked, StopAfter, StartReq, StopReq
<1>6. ASSUME Head(m_req_fifo) = StartReq(t)  PROVE Queued(StopReq(t))'
  <2>1. PICK j \in 1..(n - 1) : p[j] = StopReq(t)
    BY <1>1, <1>3, <1>6 DEF q
  <2>2. QED  BY <1>1, <1>2, <2>1 DEF Queued, StopReq
<1>7. QED  BY <1>5, <1>6

\* A timer with no queued start has none to revoke.
LEMMA NothingToRevoke ==
    ASSUME NEW t, ~Queued(StartReq(t))  PROVE Revoked(m_req_fifo, t)
BY DEF Queued, Revoked

LEMMA FateSame ==
    ASSUME Fate, UNCHANGED <<active, armed, m_req_fifo, draining>>,
           promised' = promised \/ (\E t \in Timers : promised' = promised \cup {t}), fresh' = fresh
    PROVE  Fate'
<1>1. \A t : (Queued(StartReq(t))' <=> Queued(StartReq(t)))
             /\ (Queued(StopReq(t))' <=> Queued(StopReq(t)))
  BY DEF Queued, StartReq, StopReq
<1>2. NotStartedTwice' /\ Kept'
  BY <1>1 DEF Fate, NotStartedTwice, Kept
<1>3. Silent'
  <2> SUFFICES ASSUME NEW t \in Timers \ promised'
               PROVE  /\ Revoked(m_req_fifo, t)'
                      /\ t \in armed' /\ active'[t] => draining' /\ Queued(StopReq(t))'
    BY DEF Silent
  <2>1. /\ Revoked(m_req_fifo, t)
        /\ t \in armed /\ active[t] => draining /\ Queued(StopReq(t))
    BY DEF Fate, Silent
  <2>2. Revoked(m_req_fifo, t)'
    BY <2>1 DEF Revoked, StopAfter, StartReq, StopReq
  <2>3. QED  BY <1>1, <2>1, <2>2
<1>4. QED  BY <1>2, <1>3 DEF Fate

LEMMA StartFate ==
    ASSUME TypedList, Fate, NEW t \in Timers, app_timer_start(t)
    PROVE  Fate'
<1>1. /\ ~draining /\ UNCHANGED <<active, armed, draining>> /\ promised' = promised \cup {t}
      /\ m_req_fifo \in Seq(Requests) /\ StartReq(t) \in Requests /\ active \in [Timers -> BOOLEAN]
  BY RequestsDiffer DEF app_timer_start, TypedList, TypeOK
<1>2. CASE active[t]
  <2>1. m_req_fifo' = m_req_fifo /\ fresh' = fresh
    BY <1>2 DEF app_timer_start, Ignored, StartReq, AtRest
  <2>2. QED  BY <1>1, <2>1, FateSame
<1>3. CASE ~active[t]
  <2>1. /\ m_req_fifo' = Append(m_req_fifo, StartReq(t))
        /\ fresh' = IF AtRest(t) THEN fresh \cup {t} ELSE fresh
    BY <1>3 DEF app_timer_start, Ignored, StartReq
  <2>2. /\ \A u \in Timers : Queued(StartReq(u))' <=> Queued(StartReq(u)) \/ u = t
        /\ \A u \in Timers : Queued(StopReq(u))' <=> Queued(StopReq(u))
    BY <1>1, <2>1, AfterAppend, RequestsDiffer
  <2>3. NotStartedTwice'
    BY <1>1, <1>3, <2>2 DEF Fate, NotStartedTwice
  <2>4. Silent'
    <3> SUFFICES ASSUME NEW u \in Timers \ promised'
                 PROVE  /\ Revoked(m_req_fifo, u)'
                        /\ u \in armed' /\ active'[u] => draining' /\ Queued(StopReq(u))'
      BY DEF Silent
    <3>1. /\ Revoked(m_req_fifo, u) /\ u # t
          /\ u \in armed /\ active[u] => draining /\ Queued(StopReq(u))
      BY <1>1 DEF Fate, Silent
    <3>2. StartReq(t) # StartReq(u)
      BY <3>1, RequestsDiffer
    <3>3. Revoked(Append(m_req_fifo, StartReq(t)), u)
      BY <1>1, <3>1, <3>2, AppendRevoked
    <3>4. Revoked(m_req_fifo, u)'
      BY <2>1, <3>3 DEF Revoked, StopAfter, StartReq, StopReq
    <3>5. QED  BY <1>1, <2>2, <3>1, <3>4
  <2>5. Kept'
    <3> SUFFICES ASSUME NEW u \in fresh'
                 PROVE  /\ ~Queued(StopReq(u))'
                        /\ active'[u] => u \in armed'
                        /\ active'[u] \/ Queued(StartReq(u))'
      BY DEF Kept
    <3>1. u \in Timers
      BY <1>1, <2>1 DEF TypedList, TypeOK
    <3>2. CASE u \in fresh
      BY <1>1, <2>2, <3>1, <3>2 DEF Fate, Kept
    <3>3. CASE u = t /\ AtRest(t)
      BY <1>1, <1>3, <2>2, <3>1, <3>3 DEF AtRest
    <3>4. QED  BY <2>1, <3>2, <3>3
  <2>6. QED  BY <2>3, <2>4, <2>5 DEF Fate
<1>4. QED  BY <1>2, <1>3

LEMMA StopFate ==
    ASSUME TypedList, Fate, NEW t \in Timers, app_timer_stop(t)
    PROVE  Fate'
<1>1. /\ ~draining /\ UNCHANGED <<armed, draining>>
      /\ promised' = promised \ {t} /\ fresh' = fresh \ {t} /\ fresh \subseteq Timers
      /\ m_req_fifo \in Seq(Requests) /\ StopReq(t) \in Requests /\ active \in [Timers -> BOOLEAN]
      /\ m_req_fifo' = Append(m_req_fifo, StopReq(t))
      /\ active' = [active EXCEPT ![t] = FALSE]
  BY RequestsDiffer DEF app_timer_stop, Ended, TypedList, TypeOK, FlagAfterCall
<1>2. /\ \A u \in Timers : Queued(StartReq(u))' <=> Queued(StartReq(u))
      /\ \A u \in Timers : Queued(StopReq(u))' <=> Queued(StopReq(u)) \/ u = t
  BY <1>1, AfterAppend, RequestsDiffer
<1>3. NotStartedTwice'
  BY <1>1, <1>2 DEF Fate, NotStartedTwice
<1>4. Silent'
  <2> SUFFICES ASSUME NEW u \in Timers \ promised'
               PROVE  /\ Revoked(m_req_fifo, u)'
                      /\ u \in armed' /\ active'[u] => draining' /\ Queued(StopReq(u))'
    BY DEF Silent
  <2>1. /\ Revoked(m_req_fifo, u) \/ StopReq(t) = StopReq(u)
        /\ u # t => (u \in armed /\ active[u] => draining /\ Queued(StopReq(u)))
    BY <1>1 DEF Fate, Silent
  <2>2. StopReq(t) # StartReq(u)
    BY RequestsDiffer
  <2>3. Revoked(Append(m_req_fifo, StopReq(t)), u)
    BY <1>1, <2>1, <2>2, AppendRevoked
  <2>4. Revoked(m_req_fifo, u)'
    BY <1>1, <2>3 DEF Revoked, StopAfter, StartReq, StopReq
  <2>5. QED  BY <1>1, <1>2, <2>1, <2>4
<1>5. Kept'
  BY <1>1, <1>2 DEF Fate, Kept
<1>6. QED  BY <1>3, <1>4, <1>5 DEF Fate

LEMMA ExpireFate ==
    ASSUME TypedList, Fate, NEW t \in Timers, timer_expire(t)
    PROVE  Fate'
<1>1. /\ ~draining /\ t \in armed /\ UNCHANGED <<m_req_fifo, draining>>
      /\ active \in [Timers -> BOOLEAN] /\ fresh \subseteq Timers
  BY DEF timer_expire, TypedList, TypeOK
<1>2. CASE t \in Repeating /\ active[t]
  <2>1. UNCHANGED <<active, armed, m_req_fifo, draining, promised, fresh>>
    BY <1>1, <1>2 DEF timer_expire
  <2>2. QED  BY <2>1, FateSame
<1>3. CASE ~(t \in Repeating /\ active[t])
  <2>1. /\ armed' = armed \ {t} /\ active' = [active EXCEPT ![t] = FALSE]
        /\ active[t] => promised' = promised \ {t} /\ fresh' = fresh \ {t}
        /\ ~active[t] => promised' = promised /\ fresh' = fresh
    BY <1>1, <1>3 DEF timer_expire, Ended
  <2>2. \A u : (Queued(StartReq(u))' <=> Queued(StartReq(u)))
               /\ (Queued(StopReq(u))' <=> Queued(StopReq(u)))
    BY <1>1 DEF Queued, StartReq, StopReq
  <2>3. NotStartedTwice'
    BY <1>1, <2>1, <2>2 DEF Fate, NotStartedTwice
  <2>4. Silent'
    <3> SUFFICES ASSUME NEW u \in Timers \ promised'
                 PROVE  /\ Revoked(m_req_fifo, u)'
                        /\ u \in armed' /\ active'[u] => draining' /\ Queued(StopReq(u))'
      BY DEF Silent
    <3>1. Revoked(m_req_fifo, u)
      <4>1. CASE u \notin promised
        BY <4>1 DEF Fate, Silent
      <4>2. CASE u \in promised
        <5>1. u = t /\ active[t]
          BY <2>1, <4>2
        <5>2. ~Queued(StartReq(u))
          BY <1>1, <5>1 DEF Fate, NotStartedTwice
        <5>3. QED  BY <5>2, NothingToRevoke
      <4>3. QED  BY <4>1, <4>2
    <3>2. Revoked(m_req_fifo, u)'
      BY <1>1, <3>1 DEF Revoked, StopAfter, StartReq, StopReq
    <3>3. u \in armed' /\ active'[u] => u # t /\ u \notin promised /\ u \in armed /\ active[u]
      BY <1>1, <2>1
    <3>4. QED  BY <1>1, <2>2, <3>2, <3>3 DEF Fate, Silent
  <2>5. Kept'
    <3> SUFFICES ASSUME NEW u \in fresh'
                 PROVE  /\ ~Queued(StopReq(u))'
                        /\ active'[u] => u \in armed'
                        /\ active'[u] \/ Queued(StartReq(u))'
      BY DEF Kept
    <3>1. /\ u \in fresh /\ u \in Timers /\ (u = t => ~active[t])
          /\ ~Queued(StopReq(u)) /\ (active[u] => u \in armed)
          /\ active[u] \/ Queued(StartReq(u))
      BY <1>1, <2>1 DEF Fate, Kept
    <3>2. QED  BY <1>1, <2>1, <2>2, <3>1
  <2>6. QED  BY <2>3, <2>4, <2>5 DEF Fate
<1>4. QED  BY <1>2, <1>3

LEMMA NoMemFate == ASSUME NoMem PROVE Fate'
<1>1. /\ active' = [t \in Timers |-> FALSE] /\ armed' = {} /\ m_req_fifo' = <<>>
      /\ promised' = {} /\ fresh' = {} /\ draining' = draining
  BY DEF NoMem
<1>2. DOMAIN m_req_fifo' = {}
  BY <1>1
<1>3. \A t : ~Queued(StartReq(t))'
  BY <1>2 DEF Queued
<1>4. \A t : Revoked(m_req_fifo, t)'
  BY <1>2 DEF Revoked
<1>5. NotStartedTwice' /\ Silent' /\ Kept'
  BY <1>1, <1>3, <1>4 DEF NotStartedTwice, Silent, Kept
<1>6. QED  BY <1>5 DEF Fate

LEMMA ProcessFate ==
    ASSUME TypedList, Fate, timer_req_process
    PROVE  Fate'
<1>1. /\ m_req_fifo \in Seq(Requests) /\ m_req_fifo # <<>> /\ m_req_fifo' = Tail(m_req_fifo)
      /\ UNCHANGED <<promised, fresh>> /\ active \in [Timers -> BOOLEAN]
      /\ fresh \subseteq Timers /\ armed \subseteq Timers
      /\ draining' = (Tail(m_req_fifo) # <<>>)
  BY DEF timer_req_process, TypedList, TypeOK
<1>2. PICK r \in Requests :
        /\ r = Head(m_req_fifo)
        /\ active' = FlagAfter(active, r) /\ armed' = ArmedAfter(active, armed, r)
        /\ \A q : Queued(q)' => Queued(q)
        /\ \A q : Queued(q) /\ q # r => Queued(q)'
  BY <1>1, AfterTail DEF timer_req_process
<1>3. ~draining' => \A q : ~Queued(q)'
  <2>1. ~draining' => m_req_fifo' = <<>>
    BY <1>1
  <2>2. QED  BY <2>1 DEF Queued
<1>4. NotStartedTwice'
  BY <1>3 DEF NotStartedTwice, StartReq
<1>5. PICK t \in Timers : r = StartReq(t) \/ r = StopReq(t)
  BY RequestForm
<1>6. \A u \in Timers \ promised :
        /\ Revoked(m_req_fifo, u)'
        /\ r = StartReq(u) => Queued(StopReq(u))'
  BY <1>1, <1>2, TailRevoked DEF Fate, Silent
<1>7. ASSUME r = StartReq(t)  PROVE Fate'
  <2>1. active' = [active EXCEPT ![t] = TRUE] /\ armed' = IF active[t] THEN armed ELSE armed \cup {t}
    <3>1. r.type = "start" /\ r.timer = t /\ r.type # "stop"
      BY <1>7, RequestsDiffer
    <3>2. active' = [active EXCEPT ![t] = TRUE]
      BY <1>2, <3>1 DEF FlagAfter
    <3>3. armed' = IF active[t] THEN armed ELSE armed \cup {t}
      BY <1>2, <3>1 DEF ArmedAfter
    <3>4. QED  BY <3>2, <3>3
  <2>2. /\ \A u \in Timers : Queued(StopReq(u))' <=> Queued(StopReq(u))
        /\ \A u \in Timers : u # t => (Queued(StartReq(u))' <=> Queued(StartReq(u)))
    BY <1>2, <1>7, RequestsDiffer
  <2>3. Silent'
    <3> SUFFICES ASSUME NEW u \in Timers \ promised
                 PROVE  /\ Revoked(m_req_fifo, u)'
                        /\ u \in armed' /\ active'[u] => draining' /\ Queued(StopReq(u))'
      BY <1>1 DEF Silent
    <3>1. u \in armed' /\ active'[u] => Queued(StopReq(u))'
      <4>1. CASE u = t
        BY <1>6, <1>7, <4>1
      <4>2. CASE u # t
        BY <1>1, <2>1, <2>2, <4>2 DEF Fate, Silent
      <4>3. QED  BY <4>1, <4>2
    <3>2. QED  BY <1>1, <1>3, <1>6, <3>1
  <2>4. Kept'
    <3> SUFFICES ASSUME NEW u \in fresh
                 PROVE  /\ ~Queued(StopReq(u))'
                        /\ active'[u] => u \in armed'
                        /\ active'[u] \/ Queued(StartReq(u))'
      BY <1>1 DEF Kept
    <3>1. /\ u \in Timers /\ ~Queued(StopReq(u)) /\ (active[u] => u \in armed)
          /\ active[u] \/ Queued(StartReq(u))
      BY <1>1 DEF Fate, Kept
    <3>2. QED  BY <1>1, <2>1, <2>2, <3>1
  <2>5. QED  BY <1>4, <2>3, <2>4 DEF Fate
<1>8. ASSUME r = StopReq(t)  PROVE Fate'
  <2>1. active' = active /\ armed' = armed \ {t}
    BY <1>2, <1>8 DEF FlagAfter, ArmedAfter, StopReq
  <2>2. /\ \A u \in Timers : u # t => (Queued(StopReq(u))' <=> Queued(StopReq(u)))
        /\ \A u \in Timers : Queued(StartReq(u))' <=> Queued(StartReq(u))
        /\ Queued(StopReq(t))
    BY <1>1, <1>2, <1>8, RequestsDiffer, AfterTail
  <2>3. Silent'
    <3> SUFFICES ASSUME NEW u \in Timers \ promised
                 PROVE  /\ Revoked(m_req_fifo, u)'
                        /\ u \in armed' /\ active'[u] => draining' /\ Queued(StopReq(u))'
      BY <1>1 DEF Silent
    <3>1. u \in armed' /\ active'[u] => Queued(StopReq(u))'
      BY <2>1, <2>2 DEF Fate, Silent
    <3>2. QED  BY <1>3, <1>6, <3>1
  <2>4. Kept'
    <3> SUFFICES ASSUME NEW u \in fresh
                 PROVE  /\ ~Queued(StopReq(u))'
                        /\ active'[u] => u \in armed'
                        /\ active'[u] \/ Queued(StartReq(u))'
      BY <1>1 DEF Kept
    <3>1. /\ u \in Timers /\ u # t /\ ~Queued(StopReq(u)) /\ (active[u] => u \in armed)
          /\ active[u] \/ Queued(StartReq(u))
      BY <1>1, <2>2 DEF Fate, Kept
    <3>2. QED  BY <2>1, <2>2, <3>1
  <2>5. QED  BY <1>4, <2>3, <2>4 DEF Fate
<1>9. QED  BY <1>5, <1>7, <1>8

LEMMA AlwaysFate == Spec => []Fate
<1>1. Init => Fate
  <2> SUFFICES ASSUME Init  PROVE Fate
    OBVIOUS
  <2>1. /\ armed = {} /\ fresh = {} /\ DOMAIN m_req_fifo = {}
        /\ \A t \in Timers : ~active[t]
    BY DEF Init
  <2>2. \A t : Revoked(m_req_fifo, t)
    BY <2>1 DEF Revoked
  <2>3. QED  BY <2>1, <2>2 DEF Fate, NotStartedTwice, Silent, Kept
<1>2. TypedList /\ Fate /\ [Next]_vars => Fate'
  <2> SUFFICES ASSUME TypedList, Fate, [Next]_vars  PROVE Fate'
    OBVIOUS
  <2>1. CASE UNCHANGED vars
    BY <2>1, FateSame DEF vars
  <2>2. QED
    BY <2>1, StartFate, StopFate, ExpireFate, NoMemFate, ProcessFate DEF Next
<1>3. QED  BY <1>1, <1>2, AlwaysTypedList, PTL DEF Spec

\* A start made at rest is kept until the timer is stopped or expires: what the caller
\* reads of the flag and what the interrupt makes of the queue agree for that timer,
\* whatever the callers do next (app_timer2.c:572-601).
THEOREM StartIsKept == Spec => []StartedIsRunning
<1>1. Fate => StartedIsRunning
  BY DEF Fate, Kept, StartedIsRunning
<1>2. QED  BY <1>1, AlwaysFate, PTL

\* A stopped or expired timer calls no handler until it is started again: a start that
\* was queued before the stop may set the flag and put the timer in the list, but never
\* past the end of the interrupt that does so (app_timer2.c:400-455).
THEOREM StopIsKept == Spec => []StoppedIsSilent
<1>1. TypedList /\ Fate => StoppedIsSilent
  BY DEF TypedList, TypeOK, Fate, Silent, StoppedIsSilent
<1>2. QED  BY <1>1, AlwaysTypedList, AlwaysFate, PTL
=============================================================================
