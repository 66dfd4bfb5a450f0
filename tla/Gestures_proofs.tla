---------------------------- MODULE Gestures_proofs ----------------------------
(***************************************************************************)
(* What holds of the keys for every set of keys and features, any number of *)
(* moves and every length of the request queue: a long press belongs to a   *)
(* key, and the key driver works among the other users of the timer library *)
(* as it does alone, except where a full queue refuses its poll.  The       *)
(* second half bounds what a long press may add to the queue: how many      *)
(* slots it takes for every long press of ENTER and STANDBY to end in the   *)
(* bootloader.                                                              *)
(***************************************************************************)
EXTENDS Gestures, SequenceTheorems, FiniteSetTheorems, TLAPS

Request == Lib!Requests

Contexts == [active : [Timers -> BOOLEAN], fifo : Seq(Request), full : BOOLEAN,
             long : BOOLEAN, blink : BOOLEAN, off : BOOLEAN]

\* The last word on the timer t, of flags a, a list l and a queue q.
On(a, l, q, t) ==
    IF \A i \in DOMAIN q : q[i].timer # t THEN t \in l /\ a[t] = TRUE
    ELSE \E i \in DOMAIN q : /\ q[i] = start(t)
                             /\ \A j \in DOMAIN q : q[j].timer = t => j <= i

\* Between interrupts, a timer with a request in the queue has its flag clear: a stop
\* clears it, and a start of a timer whose flag is set queues nothing.
QueuedAreOff(a, q) == \A i \in DOMAIN q : a[q[i].timer] = FALSE

\* Nobody stops the timer of the poll.
PollIsKept(q) == \A i \in DOMAIN q : q[i] # stop("poll")

\* What every handler keeps of a context.
Sound(s) ==
    /\ s \in Contexts
    /\ Len(s.fifo) <= OpQueueSize
    /\ s.full = TRUE => Len(s.fifo) = OpQueueSize
    /\ QueuedAreOff(s.active, s.fifo)
    /\ PollIsKept(s.fifo)

\* From s to u a handler has left the timers T alone, unless a call has failed.
Spares(T, l, s, u) ==
    u.full = FALSE =>
        /\ s.full = FALSE
        /\ \A t \in T : /\ On(u.active, l, u.fifo, t) <=> On(s.active, l, s.fifo, t)
                        /\ u.active[t] = s.active[t]

-----------------------------------------------------------------------------
(* The queue of requests.                                                   *)

LEMMA RequestsTyped ==
    ASSUME NEW t \in Timers
    PROVE  start(t) \in Request /\ stop(t) \in Request /\ start(t) # stop(t)
           /\ start(t).timer = t /\ stop(t).timer = t
           /\ start(t).type = "start" /\ stop(t).type = "stop"
BY DEF start, stop, Asked, Request, Lib!Requests

LEMMA RequestIs ==
    ASSUME NEW r \in Request
    PROVE  /\ r.timer \in Timers
           /\ (r.type = "start" /\ r = start(r.timer)) \/ (r.type = "stop" /\ r = stop(r.timer))
BY DEF start, stop, Asked, Request, Lib!Requests

LEMMA RunningIsOn ==
    ASSUME NEW t \in Timers
    PROVE  /\ active \in [Timers -> BOOLEAN] =>
                (Running(t) <=> On(active, armed, m_req_fifo, t))
           /\ active' \in [Timers -> BOOLEAN] =>
                (Running(t)' <=> On(active', armed', m_req_fifo', t))
<1>1. ASSUME NEW a \in [Timers -> BOOLEAN], NEW l, NEW q
      PROVE  LET own == {i \in DOMAIN q : q[i].timer = t}
             IN  (IF own = {} THEN t \in l /\ a[t]
                  ELSE \E i \in own : q[i] = start(t) /\ \A j \in own : j <= i)
                 <=> On(a, l, q, t)
  <2> DEFINE own == {i \in DOMAIN q : q[i].timer = t}
  <2>1. a[t] <=> a[t] = TRUE
    OBVIOUS
  <2>2. own = {} <=> \A i \in DOMAIN q : q[i].timer # t
    OBVIOUS
  <2>3. start(t).timer = t
    BY DEF start, Asked
  <2>4. (\E i \in own : q[i] = start(t) /\ \A j \in own : j <= i)
        <=> \E i \in DOMAIN q : /\ q[i] = start(t)
                                /\ \A j \in DOMAIN q : q[j].timer = t => j <= i
    BY <2>3
  <2>5. QED  BY <2>1, <2>2, <2>4 DEF On
<1>2. active \in [Timers -> BOOLEAN] => (Running(t) <=> On(active, armed, m_req_fifo, t))
  BY <1>1 DEF Running
<1>3. active' \in [Timers -> BOOLEAN] => (Running(t)' <=> On(active', armed', m_req_fifo', t))
  BY <1>1 DEF Running
<1>4. QED  BY <1>2, <1>3

\* What appending to a queue does to it.
LEMMA Appended ==
    ASSUME NEW q \in Seq(Request), NEW c \in Request
    PROVE  LET p == Append(q, c)
               n == Len(q) + 1
           IN  /\ n \in DOMAIN p /\ p[n] = c /\ \A i \in DOMAIN p : i <= n /\ i \in Nat
               /\ \A i \in DOMAIN p : i # n => i \in DOMAIN q /\ p[i] = q[i]
               /\ \A i \in DOMAIN q : i \in DOMAIN p /\ p[i] = q[i]
<1> DEFINE p == Append(q, c)
           n == Len(q) + 1
<1>1. /\ DOMAIN q = 1..Len(q) /\ DOMAIN p = 1..n /\ Len(q) \in Nat
      /\ p[n] = c /\ \A i \in 1..Len(q) : p[i] = q[i]
  BY AppendProperties
<1> HIDE DEF p
<1>2. QED  BY <1>1

\* The last request of a timer is the last word on it.
LEMMA OnLast ==
    ASSUME NEW b, NEW l, NEW q \in Seq(Request), NEW t \in Timers
    PROVE  On(b, l, Append(q, start(t)), t) /\ ~On(b, l, Append(q, stop(t)), t)
<1> DEFINE n == Len(q) + 1
<1>1. n \in Nat
  BY LenProperties
<1> HIDE DEF n
<1>2. On(b, l, Append(q, start(t)), t)
  <2> DEFINE p == Append(q, start(t))
  <2>1. n \in DOMAIN p /\ p[n] = start(t) /\ \A i \in DOMAIN p : i <= n
    BY Appended, RequestsTyped DEF n
  <2> HIDE DEF p
  <2>2. QED  BY <2>1, RequestsTyped DEF On, p
<1>3. ~On(b, l, Append(q, stop(t)), t)
  <2> DEFINE p == Append(q, stop(t))
  <2>1. n \in DOMAIN p /\ p[n] = stop(t) /\ \A i \in DOMAIN p : i <= n /\ i \in Nat
    BY Appended, RequestsTyped DEF n
  <2> HIDE DEF p
  <2>2. p[n].timer = t /\ p[n] # start(t)
    BY <2>1, RequestsTyped
  <2>3. SUFFICES ASSUME NEW i \in DOMAIN p, p[i] = start(t), n <= i PROVE FALSE
    BY <2>1, <2>2 DEF On, p
  <2>4. i = n
    BY <1>1, <2>1, <2>3
  <2>5. QED  BY <2>2, <2>3, <2>4
<1>4. QED  BY <1>2, <1>3

\* ... and no word on another.
LEMMA OnAppend ==
    ASSUME NEW a, NEW b, NEW l, NEW q \in Seq(Request), NEW c \in Request, NEW t \in Timers,
           b[t] = a[t], c.timer # t
    PROVE  On(b, l, Append(q, c), t) <=> On(a, l, q, t)
<1> DEFINE p == Append(q, c)
<1>1. /\ \A i \in DOMAIN p : p[i] = c \/ (i \in DOMAIN q /\ p[i] = q[i])
      /\ \A i \in DOMAIN q : i \in DOMAIN p /\ p[i] = q[i]
  BY Appended
<1> HIDE DEF p
<1>2. \A i \in DOMAIN p : p[i].timer = t => i \in DOMAIN q /\ q[i] = p[i]
  BY <1>1
<1>3. (\A i \in DOMAIN p : p[i].timer # t) <=> (\A i \in DOMAIN q : q[i].timer # t)
  BY <1>1, <1>2
<1>4. (\E i \in DOMAIN p : p[i] = start(t) /\ \A j \in DOMAIN p : p[j].timer = t => j <= i)
      <=> (\E i \in DOMAIN q : q[i] = start(t) /\ \A j \in DOMAIN q : q[j].timer = t => j <= i)
  BY <1>1, <1>2, RequestsTyped
<1>5. QED  BY <1>3, <1>4 DEF On, p

\* Taking the first request from the queue keeps the last word on every timer, except
\* that a start may come to nothing.
LEMMA OnTail ==
    ASSUME NEW a \in [Timers -> BOOLEAN], NEW l \in SUBSET Timers, NEW q \in Seq(Request),
           q # <<>>, NEW t \in Timers
    PROVE  LET b == Lib!FlagAfter(a, Head(q))
               k == Lib!ArmedAfter(a, l, Head(q))
           IN  /\ On(b, k, Tail(q), t) => On(a, l, q, t)
               /\ (\A i \in DOMAIN q : q[i] # stop(t)) /\ (a[t] = TRUE => t \in l) =>
                    (On(b, k, Tail(q), t) <=> On(a, l, q, t)) /\ (b[t] = TRUE => t \in k)
<1> DEFINE r == Head(q)
           p == Tail(q)
           b == Lib!FlagAfter(a, r)
           k == Lib!ArmedAfter(a, l, r)
<1>1. /\ r \in Request /\ r = q[1] /\ DOMAIN q = 1..Len(q) /\ DOMAIN p = 1..Len(p)
      /\ Len(p) = Len(q) - 1 /\ Len(q) \in Nat /\ Len(q) >= 1
      /\ \A i \in 1..Len(p) : p[i] = q[i + 1]
  BY HeadTailProperties, EmptySeq
<1>2. /\ 1 \in DOMAIN q
      /\ \A i \in DOMAIN p : i \in Nat /\ i + 1 \in DOMAIN q /\ p[i] = q[i + 1] /\ i + 1 > 1
      /\ \A i \in DOMAIN q : i = 1 \/ (i - 1 \in DOMAIN p /\ p[i - 1] = q[i] /\ i \in Nat)
  BY <1>1
<1>3. /\ r.timer # t => b[t] = a[t] /\ (t \in k <=> t \in l)
      /\ r = start(t) => b[t] = TRUE /\ (t \in k <=> (a[t] = TRUE => t \in l))
      /\ r = stop(t) => b[t] = a[t] /\ t \notin k
  <2>1. r.type = "stop" \/ r.type = "start"
    BY <1>1, RequestIs
  <2>2. a[r.timer] <=> a[r.timer] = TRUE
    BY <1>1, RequestIs
  <2>3. CASE r.type = "start"
    <3>1. r = start(r.timer) /\ r.timer \in Timers
      BY <1>1, <2>3, RequestIs
    <3>2. b = [a EXCEPT ![r.timer] = TRUE] /\ k = IF a[r.timer] THEN l ELSE l \cup {r.timer}
      BY <2>3 DEF Lib!FlagAfter, Lib!ArmedAfter
    <3> HIDE DEF r, b, k
    <3>3. QED  BY <2>2, <2>3, <3>1, <3>2, RequestsTyped
  <2>4. CASE r.type = "stop"
    <3>1. r = stop(r.timer) /\ r.timer \in Timers
      BY <1>1, <2>4, RequestIs
    <3>2. b = a /\ k = l \ {r.timer}
      BY <2>4 DEF Lib!FlagAfter, Lib!ArmedAfter
    <3> HIDE DEF r, b, k
    <3>3. QED  BY <2>4, <3>1, <3>2, RequestsTyped
  <2>5. QED  BY <2>1, <2>3, <2>4
<1>4. r.timer = t => r = start(t) \/ r = stop(t)
  BY <1>1, RequestIs
<1> HIDE DEF r, p, b, k
<1>5. CASE \E i \in DOMAIN p : p[i].timer = t
  <2>1. ~(\A i \in DOMAIN q : q[i].timer # t)
    BY <1>2, <1>5
  <2>2. (\E i \in DOMAIN p : p[i] = start(t) /\ \A j \in DOMAIN p : p[j].timer = t => j <= i)
        <=> (\E i \in DOMAIN q : q[i] = start(t) /\ \A j \in DOMAIN q : q[j].timer = t => j <= i)
    <3>1. ASSUME NEW i \in DOMAIN p, p[i] = start(t), \A j \in DOMAIN p : p[j].timer = t => j <= i
          PROVE  i + 1 \in DOMAIN q /\ q[i + 1] = start(t)
                 /\ \A j \in DOMAIN q : q[j].timer = t => j <= i + 1
      <4>1. ASSUME NEW j \in DOMAIN q, q[j].timer = t, j # 1  PROVE j <= i + 1
        <5>1. j - 1 \in DOMAIN p /\ p[j - 1].timer = t /\ j \in Nat
          BY <1>2, <4>1
        <5>2. j - 1 <= i /\ i \in Nat
          BY <1>2, <3>1, <5>1
        <5>3. QED  BY <5>1, <5>2
      <4>2. QED  BY <1>2, <3>1, <4>1
    <3>2. ASSUME NEW i \in DOMAIN q, q[i] = start(t), \A j \in DOMAIN q : q[j].timer = t => j <= i
          PROVE  i - 1 \in DOMAIN p /\ p[i - 1] = start(t)
                 /\ \A j \in DOMAIN p : p[j].timer = t => j <= i - 1
      <4>1. PICK m \in DOMAIN p : p[m].timer = t
        BY <1>5
      <4>2. m + 1 <= i /\ m + 1 > 1
        BY <1>2, <3>2, <4>1
      <4>3. i # 1 /\ i \in Nat
        BY <1>1, <4>2
      <4>4. i - 1 \in DOMAIN p /\ p[i - 1] = q[i]
        BY <1>2, <4>3
      <4>5. ASSUME NEW j \in DOMAIN p, p[j].timer = t  PROVE j <= i - 1
        <5>1. j \in Nat /\ j + 1 <= i
          BY <1>2, <3>2, <4>5
        <5>2. QED  BY <4>3, <5>1
      <4>6. QED  BY <3>2, <4>4, <4>5
    <3>3. QED  BY <3>1, <3>2
  <2>3. On(b, k, p, t) <=> On(a, l, q, t)
    BY <1>5, <2>1, <2>2 DEF On
  <2>4. (\A i \in DOMAIN q : q[i] # stop(t)) /\ (a[t] = TRUE => t \in l) => (b[t] = TRUE => t \in k)
    BY <1>1, <1>2, <1>3, <1>4
  <2>5. QED  BY <2>3, <2>4 DEF r, p, b, k
<1>6. CASE (\A i \in DOMAIN p : p[i].timer # t) /\ r.timer = t
  <2>1. \A i \in DOMAIN q : q[i].timer = t <=> i = 1
    BY <1>1, <1>2, <1>6
  <2>2. On(a, l, q, t) <=> r = start(t)
    <3>1. ~(\A i \in DOMAIN q : q[i].timer # t) /\ 1 <= 1
      BY <1>2, <2>1
    <3>2. \A i \in DOMAIN q : q[i] = start(t) => i = 1
      BY <2>1, RequestsTyped
    <3> HIDE DEF Request
    <3>3. On(a, l, q, t) => q[1] = start(t)
      BY <3>1, <3>2 DEF On
    <3>4. q[1] = start(t) => On(a, l, q, t)
      BY <1>2, <2>1, <3>1 DEF On
    <3>5. QED  BY <1>1, <3>3, <3>4
  <2>3. On(b, k, p, t) <=> t \in k /\ b[t]
    BY <1>6 DEF On
  <2>4. (\A i \in DOMAIN q : q[i] # stop(t)) => r = start(t)
    BY <1>1, <1>2, <1>4, <1>6
  <2>5. QED  BY <1>3, <1>4, <1>6, <2>2, <2>3, <2>4 DEF r, p, b, k
<1>7. CASE (\A i \in DOMAIN p : p[i].timer # t) /\ r.timer # t
  <2>1. \A i \in DOMAIN q : q[i].timer # t
    BY <1>1, <1>2, <1>7
  <2>2. QED  BY <1>3, <1>7, <2>1 DEF On, r, p, b, k
<1>8. QED  BY <1>5, <1>6, <1>7

-----------------------------------------------------------------------------
(* The calls and the LED, as steps of a context.                            *)

\* A call changes the queue and one flag, and has the last word on its own timer only.
LEMMA CallShape ==
    ASSUME NEW s, Sound(s), NEW c \in Request
    PROVE  /\ Call(s, c).long = s.long /\ Call(s, c).blink = s.blink /\ Call(s, c).off = s.off
           /\ \/ Call(s, c) = s /\ (s.full = TRUE \/ (c.type = "start" /\ s.active[c.timer] = TRUE))
              \/ /\ s.full = FALSE /\ ~(c.type = "start" /\ s.active[c.timer] = TRUE)
                 /\ Call(s, c) \in Contexts
                 /\ Call(s, c).active = Lib!FlagAfterCall(s.active, c)
                 /\ \/ /\ Len(s.fifo) < OpQueueSize /\ Call(s, c).full = FALSE
                       /\ Call(s, c).fifo = Append(s.fifo, c)
                    \/ /\ Len(s.fifo) >= OpQueueSize /\ Call(s, c).full = TRUE
                       /\ Call(s, c).fifo = s.fifo
<1>1. /\ s \in Contexts /\ c.timer \in Timers
      /\ s.full \in BOOLEAN /\ s.active[c.timer] \in BOOLEAN
  BY RequestIs DEF Sound, Contexts
<1>2. CASE s.full = TRUE \/ (c.type = "start" /\ s.active[c.timer] = TRUE)
  <2>1. Call(s, c) = s
    BY <1>1, <1>2 DEF Call, Lib!Ignored
  <2>2. QED  BY <1>2, <2>1
<1>3. CASE ~(s.full = TRUE \/ (c.type = "start" /\ s.active[c.timer] = TRUE))
  <2>1. ~(s.full \/ Lib!Ignored(s.active, c))
    BY <1>1, <1>3 DEF Lib!Ignored
  <2> DEFINE room == Len(s.fifo) < OpQueueSize
             b == Lib!FlagAfterCall(s.active, c)
             p == IF room THEN Append(s.fifo, c) ELSE s.fifo
  <2>2. Call(s, c) = [s EXCEPT !.active = b, !.fifo = p, !.full = ~room]
    BY <2>1 DEF Call
  <2>3. b \in [Timers -> BOOLEAN] /\ p \in Seq(Request) /\ room \in BOOLEAN
    BY <1>1 DEF Lib!FlagAfterCall, Contexts
  <2>4. Len(s.fifo) \in Nat /\ OpQueueSize \in Nat
    BY <1>1, GesturesAssumption, LenProperties DEF Contexts
  <2> HIDE DEF b
  <2>5. Call(s, c) = [active |-> b, fifo |-> p, full |-> ~room,
                      long |-> s.long, blink |-> s.blink, off |-> s.off]
    BY <1>1, <2>2 DEF Contexts
  <2>6. Call(s, c) \in Contexts
    <3> HIDE DEF p, room
    <3>1. (~room) \in BOOLEAN
      BY <2>3
    <3>2. s.long \in BOOLEAN /\ s.blink \in BOOLEAN /\ s.off \in BOOLEAN
      BY <1>1 DEF Contexts
    <3>3. QED  BY <2>3, <2>5, <3>1, <3>2 DEF Contexts
  <2>7. room \/ Len(s.fifo) >= OpQueueSize
    BY <2>4
  <2>8. s.full = FALSE
    BY <1>1, <1>3
  <2>9. /\ Call(s, c).long = s.long /\ Call(s, c).blink = s.blink /\ Call(s, c).off = s.off
        /\ Call(s, c).active = b /\ Call(s, c).fifo = p /\ Call(s, c).full = ~room
    <3> HIDE DEF p, room
    <3>1. QED  BY <2>5
  <2>10. \/ Len(s.fifo) < OpQueueSize /\ p = Append(s.fifo, c) /\ (~room) = FALSE
         \/ Len(s.fifo) >= OpQueueSize /\ p = s.fifo /\ (~room) = TRUE
    BY <2>7
  <2> HIDE DEF p, room
  <2>11. QED  BY <1>3, <2>6, <2>8, <2>9, <2>10 DEF b
<1>4. QED  BY <1>2, <1>3

LEMMA CallKeeps ==
    ASSUME NEW s, Sound(s), NEW c \in Request, c # stop("poll"), NEW l
    PROVE  /\ Sound(Call(s, c)) /\ Spares(Timers \ {c.timer}, l, s, Call(s, c))
           /\ Call(s, c).full = FALSE =>
                /\ c.type = "stop" => ~On(Call(s, c).active, l, Call(s, c).fifo, c.timer)
                /\ c.type = "start" /\ (s.active[c.timer] = TRUE => c.timer \in l) =>
                     On(Call(s, c).active, l, Call(s, c).fifo, c.timer)
<1> DEFINE u == Call(s, c)
<1>1. /\ s \in Contexts /\ s.fifo \in Seq(Request) /\ s.active \in [Timers -> BOOLEAN]
      /\ s.full \in BOOLEAN /\ Len(s.fifo) \in Nat /\ OpQueueSize \in Nat
      /\ Len(s.fifo) <= OpQueueSize /\ QueuedAreOff(s.active, s.fifo) /\ PollIsKept(s.fifo)
  BY GesturesAssumption, LenProperties DEF Sound, Contexts
<1>2. CASE u = s /\ (s.full = TRUE \/ (c.type = "start" /\ s.active[c.timer] = TRUE))
  <2>1. Sound(u) /\ Spares(Timers \ {c.timer}, l, s, u)
    BY <1>2 DEF Spares
  <2>2. ASSUME u.full = FALSE  PROVE s.active[c.timer] = TRUE /\ c.type = "start"
    BY <1>2, <2>2
  <2>3. ASSUME u.full = FALSE, c.timer \in l  PROVE On(s.active, l, s.fifo, c.timer)
    <3>1. \A i \in DOMAIN s.fifo : s.fifo[i].timer # c.timer
      BY <1>1, <2>2, <2>3 DEF QueuedAreOff
    <3>2. QED  BY <2>2, <2>3, <3>1 DEF On
  <2>4. QED  BY <1>2, <2>1, <2>2, <2>3
<1>3. CASE /\ s.full = FALSE /\ ~(c.type = "start" /\ s.active[c.timer] = TRUE)
           /\ u \in Contexts /\ u.active = Lib!FlagAfterCall(s.active, c)
           /\ \/ Len(s.fifo) < OpQueueSize /\ u.full = FALSE /\ u.fifo = Append(s.fifo, c)
              \/ Len(s.fifo) >= OpQueueSize /\ u.full = TRUE /\ u.fifo = s.fifo
  <2> HIDE DEF u
  <2>1. /\ \A t \in Timers : u.active[t] = s.active[t] \/ u.active[t] = FALSE
        /\ \A t \in Timers \ {c.timer} : u.active[t] = s.active[t]
        /\ u.active[c.timer] = FALSE
    BY <1>1, <1>3, RequestIs DEF Lib!FlagAfterCall
  <2>2. CASE Len(s.fifo) < OpQueueSize /\ u.full = FALSE /\ u.fifo = Append(s.fifo, c)
    <3>1. /\ Len(u.fifo) = Len(s.fifo) + 1
          /\ \A i \in DOMAIN u.fifo : u.fifo[i] = c \/ (i \in DOMAIN s.fifo /\ u.fifo[i] = s.fifo[i])
      BY <1>1, <2>2, AppendProperties
    <3>2. QueuedAreOff(u.active, u.fifo)
      <4>1. \A i \in DOMAIN s.fifo : s.fifo[i].timer \in Timers
        BY <1>1, RequestIs
      <4>2. QED  BY <1>1, <2>1, <3>1, <4>1 DEF QueuedAreOff
    <3>3. PollIsKept(u.fifo)
      BY <1>1, <3>1 DEF PollIsKept
    <3>4. Sound(u)
      BY <1>1, <1>3, <2>2, <3>1, <3>2, <3>3 DEF Sound
    <3>5. ASSUME NEW t \in Timers \ {c.timer}
          PROVE  On(u.active, l, u.fifo, t) <=> On(s.active, l, s.fifo, t)
      <4>1. u.active[t] = s.active[t] /\ t \in Timers /\ c.timer # t
        BY <2>1
      <4>2. QED  BY <1>1, <2>2, <4>1, OnAppend
    <3>6. /\ c = start(c.timer) => On(u.active, l, u.fifo, c.timer)
          /\ c = stop(c.timer) => ~On(u.active, l, u.fifo, c.timer)
      <4>1. c.timer \in Timers
        BY RequestIs
      <4>2. QED  BY <1>1, <2>2, <4>1, OnLast
    <3>7. QED  BY <1>3, <2>1, <2>2, <3>4, <3>5, <3>6, RequestIs DEF Spares, u
  <2>3. CASE Len(s.fifo) >= OpQueueSize /\ u.full = TRUE /\ u.fifo = s.fifo
    <3>1. QueuedAreOff(u.active, u.fifo)
      <4>1. \A i \in DOMAIN s.fifo : s.fifo[i].timer \in Timers
        BY <1>1, RequestIs
      <4>2. QED  BY <1>1, <2>1, <2>3, <4>1 DEF QueuedAreOff
    <3>2. QED  BY <1>1, <1>3, <2>3, <3>1 DEF Sound, Spares, u
  <2>4. QED  BY <1>3, <2>2, <2>3
<1>4. QED  BY <1>2, <1>3, CallShape

\* Handlers one after another spare what each of them spares.
LEMMA SparesMore ==
    ASSUME NEW T, NEW S \in SUBSET T, NEW l, NEW s, NEW u, NEW v,
           Spares(T, l, s, u), Spares(S, l, u, v)
    PROVE  Spares(S, l, s, v)
BY DEF Spares

LEMMA SparesFewer ==
    ASSUME NEW T, NEW S \in SUBSET T, NEW l, NEW s, NEW u, Spares(T, l, s, u)
    PROVE  Spares(S, l, s, u)
BY DEF Spares

\* The flags that no timer depends on: what is written last changes nothing else.
LEMMA BlinkKeeps ==
    ASSUME NEW s, Sound(s), NEW v \in BOOLEAN, NEW T, NEW l, NEW r, Spares(T, l, r, s)
    PROVE  /\ Sound([s EXCEPT !.blink = v]) /\ [s EXCEPT !.blink = v].long = s.long
           /\ Spares(T, l, r, [s EXCEPT !.blink = v]) /\ [s EXCEPT !.blink = v].full = s.full
           /\ [s EXCEPT !.blink = v].active = s.active /\ [s EXCEPT !.blink = v].fifo = s.fifo
<1> DEFINE u == [s EXCEPT !.blink = v]
<1>1. s \in Contexts
  BY DEF Sound
<1>2. u \in Contexts /\ u.active = s.active /\ u.fifo = s.fifo /\ u.full = s.full /\ u.long = s.long
  BY <1>1 DEF Contexts
<1> HIDE DEF u
<1>3. Sound(u) /\ Spares(T, l, r, u)
  BY <1>2 DEF Sound, Spares
<1>4. QED  BY <1>2, <1>3 DEF u

LEMMA OffKeeps ==
    ASSUME NEW s, Sound(s), NEW v \in BOOLEAN, NEW T, NEW l, NEW r, Spares(T, l, r, s)
    PROVE  /\ Sound([s EXCEPT !.off = v]) /\ [s EXCEPT !.off = v].long = s.long
           /\ Spares(T, l, r, [s EXCEPT !.off = v]) /\ [s EXCEPT !.off = v].full = s.full
           /\ [s EXCEPT !.off = v].active = s.active /\ [s EXCEPT !.off = v].fifo = s.fifo
<1> DEFINE u == [s EXCEPT !.off = v]
<1>1. s \in Contexts
  BY DEF Sound
<1>2. u \in Contexts /\ u.active = s.active /\ u.fifo = s.fifo /\ u.full = s.full /\ u.long = s.long
  BY <1>1 DEF Contexts
<1> HIDE DEF u
<1>3. Sound(u) /\ Spares(T, l, r, u)
  BY <1>2 DEF Sound, Spares
<1>4. QED  BY <1>2, <1>3 DEF u

LEMMA LongKeeps ==
    ASSUME NEW s, Sound(s), NEW v \in BOOLEAN, NEW T, NEW l, NEW r, Spares(T, l, r, s)
    PROVE  /\ Sound([s EXCEPT !.long = v]) /\ [s EXCEPT !.long = v].long = v
           /\ Spares(T, l, r, [s EXCEPT !.long = v]) /\ [s EXCEPT !.long = v].full = s.full
           /\ [s EXCEPT !.long = v].active = s.active /\ [s EXCEPT !.long = v].fifo = s.fifo
<1> DEFINE u == [s EXCEPT !.long = v]
<1>1. s \in Contexts
  BY DEF Sound
<1>2. u \in Contexts /\ u.active = s.active /\ u.fifo = s.fifo /\ u.full = s.full /\ u.long = v
  BY <1>1 DEF Contexts
<1> HIDE DEF u
<1>3. Sound(u) /\ Spares(T, l, r, u)
  BY <1>2 DEF Sound, Spares
<1>4. QED  BY <1>2, <1>3 DEF u

\* Two calls in a row.
LEMMA TwoCalls ==
    ASSUME NEW s, Sound(s), NEW c \in Request, NEW d \in Request,
           c # stop("poll"), d # stop("poll"), NEW l
    PROVE  LET u == Call(Call(s, c), d)
           IN  /\ Sound(u) /\ u.long = s.long /\ u.off = s.off
               /\ Spares(Timers \ {c.timer, d.timer}, l, s, u)
<1> DEFINE v == Call(s, c)
           u == Call(v, d)
           T == Timers \ {c.timer, d.timer}
<1>1. Sound(v) /\ v.long = s.long /\ v.off = s.off /\ Spares(Timers \ {c.timer}, l, s, v)
  BY CallKeeps, CallShape
<1> HIDE DEF v
<1>2. Sound(u) /\ u.long = v.long /\ u.off = v.off /\ Spares(Timers \ {d.timer}, l, v, u)
  BY <1>1, CallKeeps, CallShape
<1> HIDE DEF u
<1>3. T \in SUBSET (Timers \ {c.timer}) /\ T \in SUBSET (Timers \ {d.timer})
  OBVIOUS
<1> HIDE DEF T
<1>4. Spares(T, l, v, u)
  BY <1>2, <1>3, SparesFewer
<1>5. Spares(T, l, s, u)
  BY <1>1, <1>3, <1>4, SparesMore
<1>6. QED  BY <1>1, <1>2, <1>5 DEF u, v, T

\* The timers that the LED does not use.
Others == Timers \ {"led", "pwm"}

LEMMA LedKeeps ==
    ASSUME NEW s, Sound(s), NEW l, NEW u \in {LedOn(s), LedOff(s)}
    PROVE  Sound(u) /\ u.long = s.long /\ Spares(Others, l, s, u)
<1>1. /\ {"led", "pwm", "poll"} \subseteq Timers /\ Spares(Others, l, s, s)
      /\ start("led") \in Request /\ start("pwm") \in Request /\ stop("pwm") \in Request
      /\ start("led").timer = "led" /\ start("pwm").timer = "pwm" /\ stop("pwm").timer = "pwm"
      /\ start("led") # stop("poll") /\ start("pwm") # stop("poll") /\ stop("pwm") # stop("poll")
  BY DEF Timers, Spares, start, stop, Asked, Request, Lib!Requests
<1>2. CASE u = LedOn(s)
  <2> DEFINE v == Call(Call(s, start("led")), start("pwm"))
  <2>1. Sound(v) /\ v.long = s.long /\ Spares(Others, l, s, v)
    BY <1>1, TwoCalls DEF Others
  <2> HIDE DEF v
  <2>2. u = s \/ u = [v EXCEPT !.blink = TRUE]
    BY <1>2 DEF LedOn, v
  <2>3. /\ Sound([v EXCEPT !.blink = TRUE]) /\ [v EXCEPT !.blink = TRUE].long = v.long
        /\ Spares(Others, l, s, [v EXCEPT !.blink = TRUE])
    BY <2>1, BlinkKeeps
  <2>4. QED  BY <1>1, <2>1, <2>2, <2>3
<1>3. CASE u = LedOff(s)
  <2> DEFINE v == Call(s, stop("pwm"))
  <2>1. Sound(v) /\ v.long = s.long /\ Spares(Timers \ {"pwm"}, l, s, v)
    BY <1>1, CallKeeps, CallShape
  <2> HIDE DEF v
  <2>2. Others \in SUBSET (Timers \ {"pwm"})
    BY DEF Others
  <2>3. Spares(Others, l, s, v)
    BY <2>1, <2>2, SparesFewer
  <2>4. u = s \/ u = [v EXCEPT !.blink = FALSE]
    BY <1>3 DEF LedOff, v
  <2>5. /\ Sound([v EXCEPT !.blink = FALSE]) /\ [v EXCEPT !.blink = FALSE].long = v.long
        /\ Spares(Others, l, s, [v EXCEPT !.blink = FALSE])
    BY <2>1, <2>3, BlinkKeeps
  <2>6. QED  BY <1>1, <2>1, <2>4, <2>5
<1>4. QED  BY <1>2, <1>3

LEMMA ShowKeeps ==
    ASSUME NEW s, Sound(s), NEW l, NEW f
    PROVE  Sound(Show(s, f)) /\ Show(s, f).long = s.long /\ Spares(Others, l, s, Show(s, f))
<1>1. CASE f \notin Features
  BY <1>1 DEF Show, Spares
<1>2. CASE f \in Features
  <2> DEFINE v == LedOn(s)
             u == LedOff(v)
  <2>1. Sound(v) /\ v.long = s.long /\ Spares(Others, l, s, v)
    BY LedKeeps
  <2> HIDE DEF v
  <2>2. Sound(u) /\ u.long = v.long /\ Spares(Others, l, v, u)
    BY <2>1, LedKeeps
  <2>3. Show(s, f) = u
    BY <1>2 DEF Show, v
  <2> HIDE DEF u
  <2>4. QED  BY <2>1, <2>2, <2>3, SparesMore
<1>3. QED  BY <1>1, <1>2

LEMMA ShowAllKeeps ==
    ASSUME NEW s, Sound(s), NEW l
    PROVE  Sound(ShowAll(s)) /\ ShowAll(s).long = s.long /\ Spares(Others, l, s, ShowAll(s))
<1> DEFINE u == Show(s, FeatureOrder[1])
           v == Show(u, FeatureOrder[2])
           w == Show(v, FeatureOrder[3])
<1>1. Sound(u) /\ u.long = s.long /\ Spares(Others, l, s, u)
  BY ShowKeeps
<1> HIDE DEF u
<1>2. Sound(v) /\ v.long = u.long /\ Spares(Others, l, u, v)
  BY <1>1, ShowKeeps
<1> HIDE DEF v
<1>3. Sound(w) /\ w.long = v.long /\ Spares(Others, l, v, w)
  BY <1>2, ShowKeeps
<1>4. w = ShowAll(s)
  BY DEF ShowAll, u, v
<1> HIDE DEF w
<1>5. Spares(Others, l, s, v)
  BY <1>1, <1>2, SparesMore
<1>6. Spares(Others, l, s, w)
  BY <1>3, <1>5, SparesMore
<1>7. QED  BY <1>1, <1>2, <1>3, <1>4, <1>6

-----------------------------------------------------------------------------
(* button_event_handler.                                                    *)

\* No long press is remembered or will come, unless a call has failed.
Idle(l, s) == s.full = FALSE => s.long = FALSE /\ ~On(s.active, l, s.fifo, "long")

LEMMA RestartKeeps ==
    ASSUME NEW s, Sound(s), NEW l, NEW t \in Timers, t # "poll"
    PROVE  Sound(Restart(s, t)) /\ Restart(s, t).long = s.long
           /\ Spares(Timers \ {t}, l, s, Restart(s, t))
<1>1. /\ start(t) \in Request /\ stop(t) \in Request /\ start(t).timer = t /\ stop(t).timer = t
      /\ start(t) # stop("poll") /\ stop(t) # stop("poll")
  BY DEF start, stop, Asked, Request, Lib!Requests
<1>2. Timers \ {stop(t).timer, start(t).timer} = Timers \ {t}
  BY <1>1
<1>3. QED  BY <1>1, <1>2, TwoCalls DEF Restart

LEMMA PushedKeeps ==
    ASSUME NEW s, Sound(s), NEW l
    PROVE  Sound(Pushed(s)) /\ Spares({"poll"}, l, s, Pushed(s))
<1> DEFINE v == Restart(s, "long")
<1>1. Sound(v) /\ Spares(Timers \ {"long"}, l, s, v)
  BY RestartKeeps DEF Timers
<1> HIDE DEF v
<1>2. Spares({"poll"}, l, s, v)
  <2>1. {"poll"} \in SUBSET (Timers \ {"long"})
    BY DEF Timers
  <2>2. QED  BY <1>1, <2>1, SparesFewer
<1>3. QED  BY <1>1, <1>2, LongKeeps DEF Pushed, v

LEMMA ActedKeeps ==
    ASSUME NEW s, Sound(s), NEW l, NEW b, NEW test \in BOOLEAN, plus_minus_flag \in BOOLEAN
    PROVE  Sound(Acted(s, b, test)) /\ Acted(s, b, test).long = s.long
           /\ Spares(Others, l, s, Acted(s, b, test))
<1>1. Spares(Others, l, s, s)
  BY DEF Spares
<1>2. CASE b \in {"PLUS", "MINUS"}
  <2> DEFINE o == s.off \/ plus_minus_flag
  <2>1. o \in BOOLEAN /\ Acted(s, b, test) = [s EXCEPT !.off = o]
    BY <1>2 DEF Acted, Sound, Contexts
  <2> HIDE DEF o
  <2>2. QED  BY <1>1, <2>1, OffKeeps
<1>3. CASE b \notin {"PLUS", "MINUS"}
  <2>1. Acted(s, b, test) = s \/ Acted(s, b, test) = LedOn(s)
    BY <1>3 DEF Acted
  <2>2. Sound(LedOn(s)) /\ LedOn(s).long = s.long /\ Spares(Others, l, s, LedOn(s))
    BY LedKeeps
  <2>3. QED  BY <1>1, <2>1, <2>2
<1>4. QED  BY <1>2, <1>3

LEMMA ReleasedKeeps ==
    ASSUME NEW s, Sound(s), NEW l, NEW b, NEW test \in BOOLEAN, plus_minus_flag \in BOOLEAN
    PROVE  Sound(Released(s, b, test)) /\ Spares({"poll"}, l, s, Released(s, b, test))
           /\ Idle(l, Released(s, b, test))
<1> DEFINE u == Acted(s, b, test)
           v == Restart(u, "hour")
           w == Call(v, stop("long"))
<1>1. Sound(u) /\ Spares(Others, l, s, u)
  BY ActedKeeps
<1> HIDE DEF u
<1>2. Sound(v) /\ Spares(Timers \ {"hour"}, l, u, v)
  BY <1>1, RestartKeeps DEF Timers
<1> HIDE DEF v
<1>3. /\ Sound(w) /\ Spares(Timers \ {"long"}, l, v, w)
      /\ w.full = FALSE => ~On(w.active, l, w.fifo, "long")
  <2>1. /\ stop("long") \in Request /\ stop("long") # stop("poll")
        /\ stop("long").timer = "long" /\ stop("long").type = "stop"
    BY DEF stop, Asked, Request, Lib!Requests, Timers
  <2>2. QED  BY <1>2, <2>1, CallKeeps
<1> HIDE DEF w
<1>4. Spares({"poll"}, l, s, w)
  <2>1. /\ {"poll"} \in SUBSET (Timers \ {"long"}) /\ {"poll"} \in SUBSET (Timers \ {"hour"})
        /\ {"poll"} \in SUBSET Others
    BY DEF Timers, Others
  <2>2. Spares({"poll"}, l, v, w) /\ Spares({"poll"}, l, u, v) /\ Spares({"poll"}, l, s, u)
    BY <1>1, <1>2, <1>3, <2>1, SparesFewer
  <2>3. Spares({"poll"}, l, s, v)
    BY <2>2, SparesMore
  <2>4. QED  BY <2>2, <2>3, SparesMore
<1>5. Released(s, b, test) = [w EXCEPT !.long = FALSE]
  BY DEF Released, u, v, w
<1>6. /\ Sound([w EXCEPT !.long = FALSE]) /\ [w EXCEPT !.long = FALSE].long = FALSE
      /\ Spares({"poll"}, l, s, [w EXCEPT !.long = FALSE])
      /\ [w EXCEPT !.long = FALSE].active = w.active /\ [w EXCEPT !.long = FALSE].fifo = w.fifo
      /\ [w EXCEPT !.long = FALSE].full = w.full
  BY <1>3, <1>4, LongKeeps
<1>7. QED  BY <1>3, <1>5, <1>6 DEF Idle

\* One key: a release leaves no long press, and only a push makes one.
LEMMA HandlerKeeps ==
    ASSUME NEW s, Sound(s), NEW l, NEW b, NEW test \in BOOLEAN, plus_minus_flag \in BOOLEAN
    PROVE  LET u == button_event_handler(s, b, test)
           IN  /\ Sound(u) /\ Spares({"poll"}, l, s, u)
               /\ b \notin Btn!Pushes => (Idle(l, s) \/ b \in Btn!Releases => Idle(l, u))
<1>1. Spares({"poll"}, l, s, s)
  BY DEF Spares
<1>2. QED  BY <1>1, PushedKeeps, ReleasedKeeps DEF button_event_handler

\* One poll.
LEMMA HandledKeeps ==
    ASSUME NEW s, Sound(s), NEW l, NEW test \in BOOLEAN, plus_minus_flag \in BOOLEAN
    PROVE  /\ Sound(HandledBy(s, test)) /\ Spares({"poll"}, l, s, HandledBy(s, test))
           /\ Btn!Pushes = {} /\ (Idle(l, s) \/ Btn!Releases # {}) => Idle(l, HandledBy(s, test))
<1> DEFINE u == button_event_handler(s, Keys[1], test)
           v == button_event_handler(u, Keys[2], test)
           w == button_event_handler(v, Keys[3], test)
           x == button_event_handler(w, Keys[4], test)
<1>1. /\ Sound(u) /\ Spares({"poll"}, l, s, u)
      /\ Keys[1] \notin Btn!Pushes => (Idle(l, s) \/ Keys[1] \in Btn!Releases => Idle(l, u))
  BY HandlerKeeps
<1> HIDE DEF u
<1>2. /\ Sound(v) /\ Spares({"poll"}, l, u, v)
      /\ Keys[2] \notin Btn!Pushes => (Idle(l, u) \/ Keys[2] \in Btn!Releases => Idle(l, v))
  BY <1>1, HandlerKeeps
<1> HIDE DEF v
<1>3. /\ Sound(w) /\ Spares({"poll"}, l, v, w)
      /\ Keys[3] \notin Btn!Pushes => (Idle(l, v) \/ Keys[3] \in Btn!Releases => Idle(l, w))
  BY <1>2, HandlerKeeps
<1> HIDE DEF w
<1>4. /\ Sound(x) /\ Spares({"poll"}, l, w, x)
      /\ Keys[4] \notin Btn!Pushes => (Idle(l, w) \/ Keys[4] \in Btn!Releases => Idle(l, x))
  BY <1>3, HandlerKeeps
<1>5. x = HandledBy(s, test)
  BY DEF HandledBy, u, v, w
<1> HIDE DEF x
<1>6. Spares({"poll"}, l, s, x)
  <2>1. {"poll"} \in SUBSET {"poll"}
    OBVIOUS
  <2>2. Spares({"poll"}, l, s, v)
    BY <1>1, <1>2, <2>1, SparesMore
  <2>3. Spares({"poll"}, l, s, w)
    BY <1>3, <2>1, <2>2, SparesMore
  <2>4. QED  BY <1>4, <2>1, <2>3, SparesMore
<1>7. Btn!Releases \subseteq {Keys[1], Keys[2], Keys[3], Keys[4]}
  BY GesturesAssumption DEF Keys, Btn!Releases
<1>8. QED  BY <1>1, <1>2, <1>3, <1>4, <1>5, <1>6, <1>7

-----------------------------------------------------------------------------
(* The invariant.                                                           *)

\* While the session lasts: a long press, remembered, under way or to come, belongs to
\* a pushed key; outside timer_req_process no queued request meets a set flag; and the
\* flag of the poll's timer tells that it is in the list.
Tidy ==
    power = "on" =>
        /\ m_button_long_press = TRUE => PushedKeys # {}
        /\ On(active, armed, m_req_fifo, "long") => PushedKeys # {}
        /\ isr = "tests" => PushedKeys # {}
        /\ isr # "requests" => QueuedAreOff(active, m_req_fifo)
        /\ PollIsKept(m_req_fifo)
        /\ active["poll"] = TRUE => "poll" \in armed

IInv == TypeOK /\ Tidy

\* The types, one by one.
Pins ==
    /\ down \subseteq Buttons /\ edge \subseteq Buttons /\ cold \subseteq down
    /\ m_pin_states \in [Buttons -> Btn!btn_state_t] /\ m_pin_active \subseteq Buttons

LEMMA PinsTyped ==
    /\ Btn!TypeOK <=> Pins
    /\ Btn!TypeOK' <=> Pins'
BY DEF Pins, Btn!TypeOK, Running

LEMMA Types ==
    ASSUME TypeOK
    PROVE  /\ Pins /\ active \in [Timers -> BOOLEAN] /\ armed \in SUBSET Timers
           /\ m_req_fifo \in Seq(Request) /\ Len(m_req_fifo) <= OpQueueSize
           /\ m_button_long_press \in BOOLEAN /\ plus_minus_flag \in BOOLEAN
           /\ shutdown_flag \in BOOLEAN /\ soft_blink \in BOOLEAN
           /\ m_turn_bluetooth_on \in BOOLEAN /\ m_turn_bluetooth_off \in BOOLEAN
BY PinsTyped DEF TypeOK, Request

\* What a handler finds.
LEMMA ContextSound ==
    ASSUME IInv, power = "on", isr # "requests"
    PROVE  /\ Sound(Context(active)) /\ Context(active).full = FALSE
           /\ Context(active).active = active /\ Context(active).fifo = m_req_fifo
           /\ Context(active).long = m_button_long_press
<1>1. Context(active) \in Contexts
  BY Types DEF IInv, Context, Contexts
<1>2. QED  BY <1>1, Types DEF IInv, Tidy, Sound, Context

\* A timer that expires has no request in the queue, and was running.
LEMMA ExpiredSound ==
    ASSUME IInv, NEW t \in Timers, Expires(t)
    PROVE  /\ Sound(Expired(t)) /\ Expired(t).full = FALSE
           /\ Expired(t).active = [active EXCEPT ![t] = FALSE] /\ Expired(t).fifo = m_req_fifo
           /\ Expired(t).long = m_button_long_press
           /\ power = "on" /\ isr = "none" /\ armed' = armed \ {t}
           /\ On(active, armed, m_req_fifo, t)
           /\ ~On(Expired(t).active, armed', Expired(t).fifo, t)
           /\ \A x \in Timers \ {t} :
                On(Expired(t).active, armed', Expired(t).fifo, x) <=> On(active, armed, m_req_fifo, x)
<1> DEFINE b == [active EXCEPT ![t] = FALSE]
<1>1. /\ power = "on" /\ isr = "none" /\ armed' = armed \ {t}
      /\ t \in armed /\ active[t] = TRUE
  BY Types DEF IInv, Expires, Free, Taken
<1>2. b \in [Timers -> BOOLEAN] /\ b[t] = FALSE /\ \A x \in Timers \ {t} : b[x] = active[x]
  BY Types DEF IInv
<1>3. \A i \in DOMAIN m_req_fifo : m_req_fifo[i].timer \in Timers
  BY Types, RequestIs DEF IInv
<1>4. QueuedAreOff(active, m_req_fifo)
  BY <1>1 DEF IInv, Tidy
<1>5. QueuedAreOff(b, m_req_fifo)
  BY <1>2, <1>3, <1>4 DEF QueuedAreOff
<1>6. \A i \in DOMAIN m_req_fifo : m_req_fifo[i].timer # t
  BY <1>1, <1>4 DEF QueuedAreOff
<1> HIDE DEF b
<1>7. Expired(t) = [active |-> b, fifo |-> m_req_fifo, full |-> FALSE, long |-> m_button_long_press,
                    blink |-> soft_blink, off |-> shutdown_flag]
  BY DEF Expired, Context, b
<1>8. Sound(Expired(t)) /\ Expired(t).full = FALSE /\ Expired(t).active = b
      /\ Expired(t).fifo = m_req_fifo /\ Expired(t).long = m_button_long_press
  BY <1>1, <1>2, <1>5, <1>7, Types DEF IInv, Tidy, Sound, Contexts
<1>9. On(active, armed, m_req_fifo, t) /\ ~On(b, armed', m_req_fifo, t)
  BY <1>1, <1>2, <1>6 DEF On
<1>10. \A x \in Timers \ {t} : On(b, armed', m_req_fifo, x) <=> On(active, armed, m_req_fifo, x)
  BY <1>1, <1>2 DEF On
<1>11. QED  BY <1>1, <1>8, <1>9, <1>10 DEF b

\* What a handler leaves.
LEMMA LeaveTyped ==
    ASSUME NEW u, Sound(u), Leave(u)
    PROVE  /\ active' \in [Timers -> BOOLEAN] /\ m_req_fifo' \in Seq(Request)
           /\ Len(m_req_fifo') <= OpQueueSize
           /\ m_button_long_press' \in BOOLEAN /\ soft_blink' \in BOOLEAN
           /\ shutdown_flag' \in BOOLEAN
           /\ \/ power' = "on" /\ u.full = FALSE
              \/ power' = "fault" /\ u.full = TRUE /\ Len(m_req_fifo') = OpQueueSize
<1>1. u \in Contexts /\ u.full \in BOOLEAN
  BY DEF Sound, Contexts
<1>2. CASE u.full = TRUE
  BY <1>1, <1>2 DEF Leave, Sound, Contexts
<1>3. CASE u.full = FALSE
  BY <1>1, <1>3 DEF Leave, Sound, Contexts
<1>4. QED  BY <1>1, <1>2, <1>3

LEMMA LeaveTidy ==
    ASSUME NEW u, Sound(u), Leave(u),
           u.full = FALSE =>
             /\ u.long = TRUE => PushedKeys' # {}
             /\ On(u.active, armed', u.fifo, "long") => PushedKeys' # {}
             /\ isr' = "tests" => PushedKeys' # {}
             /\ u.active["poll"] = TRUE => "poll" \in armed'
    PROVE  Tidy'
<1>1. power' = "on" => u.full = FALSE
  BY LeaveTyped
<1>2. active' = u.active /\ m_req_fifo' = u.fifo /\ m_button_long_press' = u.long
  BY DEF Leave
<1>3. QueuedAreOff(active', m_req_fifo') /\ PollIsKept(m_req_fifo')
  BY <1>2 DEF Sound
<1>4. QED  BY <1>1, <1>2, <1>3 DEF Tidy

-----------------------------------------------------------------------------
(* The steps.                                                               *)

LEMMA PollIsTimer == "poll" \in Timers /\ "long" \in Timers /\ "led" \in Timers /\ "pwm" \in Timers
BY DEF Timers

\* The driver's own start, whose failure it ignores.
LEMMA PollStart ==
    ASSUME NEW s, Sound(s), s.full = FALSE, NEW l
    PROVE  LET u == [Call(s, start("poll")) EXCEPT !.full = FALSE]
           IN  /\ Sound(u) /\ u.full = FALSE /\ u.long = s.long /\ u.active = s.active
               /\ On(u.active, l, u.fifo, "long") <=> On(s.active, l, s.fifo, "long")
               /\ Len(u.fifo) < OpQueueSize /\ (s.active["poll"] = TRUE => "poll" \in l) =>
                    On(u.active, l, u.fifo, "poll")
<1> DEFINE c == start("poll")
           v == Call(s, c)
           u == [v EXCEPT !.full = FALSE]
<1>1. c \in Request /\ c.timer = "poll" /\ c.type = "start" /\ c # stop("poll")
  BY DEF start, stop, Asked, Request, Lib!Requests, Timers
<1> HIDE DEF c
<1>2. /\ Sound(v) /\ v.long = s.long /\ Spares(Timers \ {"poll"}, l, s, v)
      /\ v.full = FALSE /\ (s.active["poll"] = TRUE => "poll" \in l) =>
           On(v.active, l, v.fifo, "poll")
  <2>1. /\ Sound(v) /\ v.long = s.long /\ Spares(Timers \ {c.timer}, l, s, v)
        /\ v.full = FALSE /\ (s.active[c.timer] = TRUE => c.timer \in l) =>
             On(v.active, l, v.fifo, c.timer)
    <3>1. v.long = s.long
      BY <1>1, CallShape
    <3>2. QED  BY <1>1, <3>1, CallKeeps
  <2> HIDE DEF v
  <2>2. QED  BY <1>1, <2>1
<1>3. v.active = s.active /\ (v.full = FALSE \/ (v.full = TRUE /\ v.fifo = s.fifo))
  BY <1>1, CallShape DEF Lib!FlagAfterCall
<1> HIDE DEF v
<1>4. /\ u \in Contexts /\ u.full = FALSE /\ u.long = v.long /\ u.active = v.active /\ u.fifo = v.fifo
  BY <1>2 DEF Sound, Contexts
<1> HIDE DEF u
<1>5. Sound(u)
  BY <1>2, <1>4 DEF Sound
<1>6. On(v.active, l, v.fifo, "long") <=> On(s.active, l, s.fifo, "long")
  BY <1>2, <1>3, PollIsTimer DEF Spares
<1>7. Len(u.fifo) < OpQueueSize => v.full = FALSE
  <2>1. v.full = TRUE => Len(v.fifo) = OpQueueSize
    BY <1>2 DEF Sound
  <2>2. QED  BY <1>3, <1>4, <2>1, GesturesAssumption
<1>8. QED  BY <1>2, <1>3, <1>4, <1>5, <1>6, <1>7 DEF u, v, c

\* Steps that leave the timers and what the driver has told alone.
LEMMA TidyUnchanged ==
    ASSUME IInv, UNCHANGED <<m_pin_states, timers, isr, m_button_long_press, power>>
    PROVE  Tidy'
BY DEF IInv, Tidy, timers, PushedKeys

LEMMA MoveStep ==
    ASSUME IInv, NEW b \in Buttons, Move(b)
    PROVE  IInv'
<1>1. UNCHANGED <<m_pin_states, m_pin_active, active, armed, m_req_fifo, isr, m_button_long_press,
                  plus_minus_flag, shutdown_flag, m_turn_bluetooth_on, m_turn_bluetooth_off,
                  soft_blink, main, power>>
  BY DEF Move, timers, flags
<1>2. Pins'
  BY Types DEF IInv, Move, Pins
<1>3. moves' \in 0..MaxMoves
  BY GesturesAssumption DEF IInv, TypeOK, Move
<1>4. TypeOK'
  BY <1>1, <1>2, <1>3, PinsTyped DEF IInv, TypeOK
<1>5. QED  BY <1>1, <1>4, TidyUnchanged DEF IInv, timers

LEMMA KeyEventStep ==
    ASSUME IInv, NEW b \in Buttons, KeyEvent(b)
    PROVE  IInv'
<1> DEFINE s == Context(active)
           u == [Call(s, start("poll")) EXCEPT !.full = FALSE]
           v == [s EXCEPT !.full = FALSE]
<1>1. /\ power = "on" /\ isr = "none" /\ edge' = edge \ {b} /\ (Leave(u) \/ Leave(v))
      /\ UNCHANGED <<down, m_pin_states, m_pin_active, cold, armed, isr, plus_minus_flag,
                     m_turn_bluetooth_on, m_turn_bluetooth_off, main, moves>>
  BY DEF KeyEvent, Free
<1>2. /\ Sound(s) /\ s.full = FALSE /\ s.active = active /\ s.fifo = m_req_fifo
      /\ s.long = m_button_long_press
  BY <1>1, ContextSound
<1>3. v = s
  <2> HIDE DEF s
  <2>1. QED  BY <1>2 DEF Sound, Contexts
<1>4. PICK w : /\ Sound(w) /\ Leave(w) /\ w.full = FALSE /\ w.long = s.long /\ w.active = s.active
               /\ On(w.active, armed, w.fifo, "long") <=> On(s.active, armed, s.fifo, "long")
  BY <1>1, <1>2, <1>3, PollStart
<1>5. TypeOK'
  <2>1. Pins'
    BY <1>1, Types DEF IInv, Pins
  <2>2. QED  BY <1>1, <1>4, <2>1, LeaveTyped, PinsTyped DEF IInv, TypeOK, Request
<1>6. Tidy'
  <2>1. PushedKeys' = PushedKeys
    BY <1>1 DEF PushedKeys
  <2>2. QED  BY <1>1, <1>2, <1>4, <2>1, LeaveTidy DEF IInv, Tidy
<1>7. QED  BY <1>5, <1>6 DEF IInv

LEMMA ProcessStep ==
    ASSUME IInv, Process
    PROVE  IInv'
<1> DEFINE q == m_req_fifo
           r == Head(q)
<1>1. /\ power = "on" /\ isr # "tests" /\ q # <<>>
      /\ active' = Lib!FlagAfter(active, r) /\ armed' = Lib!ArmedAfter(active, armed, r)
      /\ m_req_fifo' = Tail(q) /\ isr' \in {"none", "requests"}
      /\ isr' # "requests" => m_req_fifo' = <<>>
      /\ UNCHANGED <<pins, flags, soft_blink, main, power, moves>>
  BY DEF Process
<1>2. /\ q \in Seq(Request) /\ r \in Request /\ m_req_fifo' \in Seq(Request) /\ Len(q) \in Nat
      /\ Len(m_req_fifo') = Len(q) - 1
      /\ \A i \in DOMAIN m_req_fifo' : i + 1 \in DOMAIN q /\ m_req_fifo'[i] = q[i + 1]
  BY <1>1, Types, HeadTailProperties, EmptySeq DEF IInv
<1>3. active' \in [Timers -> BOOLEAN] /\ armed' \subseteq Timers
  BY <1>1, <1>2, Types, RequestIs DEF IInv, Lib!FlagAfter, Lib!ArmedAfter
<1>4. TypeOK'
  <2>1. Pins'
    BY <1>1, Types DEF IInv, Pins, pins
  <2>2. Len(m_req_fifo') <= OpQueueSize
    <3>1. ASSUME NEW m, NEW n \in Nat, m = n - 1, n <= OpQueueSize  PROVE m <= OpQueueSize
      BY <3>1, GesturesAssumption
    <3>2. Len(q) <= OpQueueSize
      BY Types DEF IInv
    <3>3. QED  BY <1>2, <3>1, <3>2
  <2>3. QED  BY <1>1, <1>2, <1>3, <2>1, <2>2, PinsTyped DEF IInv, TypeOK, Request, flags
<1>5. Tidy'
  <2>1. PushedKeys' = PushedKeys /\ m_button_long_press' = m_button_long_press /\ power' = power
    BY <1>1 DEF PushedKeys, pins, flags
  <2>2. PollIsKept(q) /\ (active["poll"] = TRUE => "poll" \in armed)
    BY <1>1 DEF IInv, Tidy
  <2>3. PollIsKept(m_req_fifo')
    BY <1>2, <2>2 DEF PollIsKept
  <2>4. On(active', armed', m_req_fifo', "long") => On(active, armed, q, "long")
    BY <1>1, <1>2, Types, OnTail, PollIsTimer DEF IInv
  <2>5. active'["poll"] = TRUE => "poll" \in armed'
    BY <1>1, <1>2, <2>2, Types, OnTail, PollIsTimer DEF IInv, PollIsKept
  <2>6. isr' # "requests" => QueuedAreOff(active', m_req_fifo')
    BY <1>1 DEF QueuedAreOff
  <2> HIDE DEF q, r
  <2>7. QED  BY <1>1, <2>1, <2>3, <2>4, <2>5, <2>6 DEF IInv, Tidy, q
<1>6. QED  BY <1>4, <1>5 DEF IInv

LEMMA LapseStep ==
    ASSUME IInv, NEW t \in Timers, Lapse(t)
    PROVE  IInv'
<1>1. /\ power = "on" /\ isr = "none" /\ active[t] = FALSE /\ armed' = armed \ {t}
      /\ UNCHANGED <<pins, active, m_req_fifo, isr, flags, soft_blink, main, power, moves>>
  BY Types DEF IInv, Lapse, Free, Taken
<1>2. TypeOK'
  <2>1. Pins'
    BY <1>1, Types DEF IInv, Pins, pins
  <2>2. QED  BY <1>1, <2>1, PinsTyped DEF IInv, TypeOK, flags
<1>3. Tidy'
  <2>1. PushedKeys' = PushedKeys /\ m_button_long_press' = m_button_long_press
    BY <1>1 DEF PushedKeys, pins, flags
  <2>2. \A x : On(active', armed', m_req_fifo', x) => On(active, armed, m_req_fifo, x)
    BY <1>1 DEF On
  <2>3. QED  BY <1>1, <2>1, <2>2 DEF IInv, Tidy
<1>4. QED  BY <1>2, <1>3 DEF IInv

LEMMA HandlerTyped ==
    ASSUME IInv, NEW u, Sound(u), Leave(u), Pins', armed' \in SUBSET Timers,
           isr' \in {"none", "requests", "tests"},
           UNCHANGED <<plus_minus_flag, m_turn_bluetooth_on, m_turn_bluetooth_off, main, moves>>
    PROVE  TypeOK'
BY LeaveTyped, PinsTyped DEF IInv, TypeOK, Request

\* The samples of a poll: a push leaves a pushed key, and the last one goes by a release.
LEMMA Samples ==
    ASSUME Pins, m_pin_states' = Btn!StatesAfterPoll
    PROVE  /\ m_pin_states' \in [Buttons -> Btn!btn_state_t]
           /\ PushedKeys' = (PushedKeys \cup Btn!Pushes) \ Btn!Releases
           /\ Btn!Pushes \cap Btn!Releases = {}
<1>1. ASSUME NEW b \in Buttons
      PROVE  /\ m_pin_states'[b] = Btn!evt_handle(m_pin_states[b], b \in down)
             /\ m_pin_states[b] \in Btn!btn_state_t
  BY <1>1 DEF Pins, Btn!StatesAfterPoll
<1>2. ASSUME NEW b \in Buttons
      PROVE  /\ m_pin_states'[b] \in Btn!btn_state_t
             /\ b \in down /\ m_pin_states[b] \in {"PRESS_DETECTED", "PRESSED", "RELEASE_DETECTED"} =>
                  m_pin_states'[b] = "PRESSED"
             /\ b \in down /\ m_pin_states[b] \notin {"PRESS_DETECTED", "PRESSED", "RELEASE_DETECTED"} =>
                  m_pin_states'[b] \in {"PRESS_ARMED", "PRESS_DETECTED"}
             /\ b \notin down /\ m_pin_states[b] = "PRESSED" => m_pin_states'[b] = "RELEASE_DETECTED"
             /\ b \notin down /\ m_pin_states[b] # "PRESSED" =>
                  m_pin_states'[b] \in {"IDLE", "PRESS_ARMED"}
  <2>1. CASE b \in down
    BY <1>1, <2>1 DEF Btn!evt_handle, Btn!OnActive, Btn!btn_state_t
  <2>2. CASE b \notin down
    BY <1>1, <2>2 DEF Btn!evt_handle, Btn!OnInactive, Btn!btn_state_t
  <2>3. QED  BY <2>1, <2>2
<1>3. m_pin_states' \in [Buttons -> Btn!btn_state_t]
  BY <1>2 DEF Btn!StatesAfterPoll
<1>4. ASSUME NEW b \in Buttons
      PROVE  m_pin_states'[b] \in {"PRESSED", "RELEASE_DETECTED"} <=>
               b \in (PushedKeys \cup Btn!Pushes) \ Btn!Releases
  BY <1>1, <1>2 DEF PushedKeys, Btn!Pushes, Btn!Releases, Btn!btn_state_t
<1>5. Btn!Pushes \subseteq Buttons /\ PushedKeys \subseteq Buttons /\ Btn!Pushes \cap Btn!Releases = {}
  BY DEF Btn!Pushes, Btn!Releases, PushedKeys, Pins
<1>6. PushedKeys' = {b \in Buttons : m_pin_states'[b] \in {"PRESSED", "RELEASE_DETECTED"}}
  BY DEF PushedKeys
<1>7. QED  BY <1>3, <1>4, <1>5, <1>6

\* A poll: what it leaves of the timers.
LEMMA PollShape ==
    ASSUME IInv, Poll
    PROVE  \E w : /\ Sound(w) /\ Leave(w)
                  /\ PushedKeys' = {} => Idle(armed', w)
                  /\ w.full = FALSE => w.active["poll"] = FALSE
                  /\ w.full = FALSE /\ Btn!ActiveAfterPoll = {} =>
                       ~On(w.active, armed', w.fifo, "poll")
                  /\ w.full = FALSE /\ Btn!ActiveAfterPoll # {} /\ Len(w.fifo) < OpQueueSize =>
                       On(w.active, armed', w.fifo, "poll")
<1> DEFINE s == Expired("poll")
<1>1. PICK test \in BOOLEAN :
        LET h == HandledBy(s, test)
            again == ~h.full /\ PollAgain
        IN  Leave(IF again THEN [Call(h, start("poll")) EXCEPT !.full = FALSE] ELSE h)
  BY DEF Poll
<1> DEFINE h == HandledBy(s, test)
           v == [Call(h, start("poll")) EXCEPT !.full = FALSE]
<1>2. Expires("poll") /\ m_pin_states' = Btn!StatesAfterPoll
  BY DEF Poll
<1>3. /\ Sound(s) /\ s.full = FALSE /\ s.long = m_button_long_press
      /\ ~On(s.active, armed', s.fifo, "poll") /\ s.active["poll"] = FALSE
      /\ On(s.active, armed', s.fifo, "long") <=> On(active, armed, m_req_fifo, "long")
      /\ power = "on"
  <2>1. /\ Sound(s) /\ s.full = FALSE /\ s.long = m_button_long_press
        /\ ~On(s.active, armed', s.fifo, "poll") /\ s.active = [active EXCEPT !["poll"] = FALSE]
        /\ power = "on"
    BY <1>2, ExpiredSound, PollIsTimer
  <2>2. On(s.active, armed', s.fifo, "long") <=> On(active, armed, m_req_fifo, "long")
    BY <1>2, ExpiredSound, PollIsTimer
  <2>3. QED  BY <2>1, <2>2, Types, PollIsTimer DEF IInv
<1>4. PushedKeys' = {} => Btn!Pushes = {} /\ (PushedKeys = {} \/ Btn!Releases # {})
  BY <1>2, Types, Samples DEF IInv
<1>5. PushedKeys = {} => Idle(armed', s)
  BY <1>3, Types DEF IInv, Tidy, Idle
<1> HIDE DEF s
<1>6. /\ Sound(h) /\ Spares({"poll"}, armed', s, h)
      /\ Btn!Pushes = {} /\ (Idle(armed', s) \/ Btn!Releases # {}) => Idle(armed', h)
  BY <1>3, Types, HandledKeeps DEF IInv
<1>7. h.full = FALSE => h.active["poll"] = FALSE /\ ~On(h.active, armed', h.fifo, "poll")
  BY <1>3, <1>6 DEF Spares
<1>8. h.full \in BOOLEAN
  BY <1>6 DEF Sound, Contexts
<1> HIDE DEF h
<1>9. CASE h.full = FALSE /\ Btn!ActiveAfterPoll # {}
  <2>1. Leave(v)
    BY <1>1, <1>9 DEF PollAgain, h
  <2>2. /\ Sound(v) /\ v.full = FALSE /\ v.long = h.long /\ v.active = h.active
        /\ On(v.active, armed', v.fifo, "long") <=> On(h.active, armed', h.fifo, "long")
        /\ Len(v.fifo) < OpQueueSize /\ (h.active["poll"] = TRUE => "poll" \in armed') =>
             On(v.active, armed', v.fifo, "poll")
    BY <1>6, <1>9, PollStart
  <2> HIDE DEF v
  <2>3. PushedKeys' = {} => Idle(armed', v)
    BY <1>4, <1>5, <1>6, <1>9, <2>2 DEF Idle
  <2>4. QED  BY <1>7, <1>9, <2>1, <2>2, <2>3
<1>10. CASE h.full = TRUE \/ Btn!ActiveAfterPoll = {}
  <2>1. Leave(h)
    BY <1>1, <1>8, <1>10 DEF PollAgain, h
  <2>2. QED  BY <1>4, <1>5, <1>6, <1>7, <1>10, <2>1
<1>11. QED  BY <1>8, <1>9, <1>10

LEMMA PollStep ==
    ASSUME IInv, Poll
    PROVE  IInv'
<1>1. PICK w : /\ Sound(w) /\ Leave(w)
               /\ PushedKeys' = {} => Idle(armed', w)
               /\ w.full = FALSE => w.active["poll"] = FALSE
  BY PollShape
<1>2. /\ Expires("poll") /\ m_pin_states' = Btn!StatesAfterPoll /\ m_pin_active' = Btn!ActiveAfterPoll
      /\ UNCHANGED <<down, edge, cold, isr, plus_minus_flag, m_turn_bluetooth_on,
                     m_turn_bluetooth_off, main, moves>>
  BY DEF Poll
<1>3. isr = "none" /\ armed' \in SUBSET Timers
  BY <1>2, ExpiredSound, PollIsTimer, Types DEF IInv
<1>4. Pins'
  <2>1. m_pin_active' \subseteq Buttons
    BY <1>2, Types DEF IInv, Pins, Btn!ActiveAfterPoll
  <2>2. m_pin_states' \in [Buttons -> Btn!btn_state_t]
    BY <1>2, Types, Samples DEF IInv
  <2>3. QED  BY <1>2, <2>1, <2>2, Types DEF IInv, Pins
<1>5. TypeOK'
  BY <1>1, <1>2, <1>3, <1>4, HandlerTyped
<1>6. Tidy'
  BY <1>1, <1>2, <1>3, LeaveTidy DEF Idle
<1>7. QED  BY <1>5, <1>6 DEF IInv

\* What the driver sees of a handler that is not its own: nothing.
SparesPoll(w) ==
    w.full = FALSE =>
        /\ w.active["poll"] = active["poll"]
        /\ On(w.active, armed', w.fifo, "poll") <=> On(active, armed, m_req_fifo, "poll")

LEMMA SparedPoll ==
    ASSUME NEW e, NEW w, Spares({"poll"}, armed', e, w),
           e.active["poll"] = active["poll"],
           On(e.active, armed', e.fifo, "poll") <=> On(active, armed, m_req_fifo, "poll")
    PROVE  SparesPoll(w)
BY DEF Spares, SparesPoll

\* The first half of a long press.
LEMMA LongPressShape ==
    ASSUME IInv, LongPress
    PROVE  \E w : Sound(w) /\ Leave(w) /\ SparesPoll(w)
<1> DEFINE e == Expired("long")
           c == stop("long")
           s == Call(e, c)
           shown == IF "ENTER" \notin down THEN LedOn(s)
                    ELSE IF soft_blink THEN s ELSE ShowAll(s)
<1>1. /\ Expires("long") /\ Leave(shown) /\ isr' \in {"none", "tests"}
      /\ UNCHANGED <<pins, plus_minus_flag, m_turn_bluetooth_on, m_turn_bluetooth_off, main, moves>>
  BY DEF LongPress
<1>2. /\ Sound(e) /\ e.full = FALSE /\ e.active["poll"] = active["poll"]
      /\ On(e.active, armed', e.fifo, "poll") <=> On(active, armed, m_req_fifo, "poll")
  <2>1. /\ Sound(e) /\ e.full = FALSE /\ e.active = [active EXCEPT !["long"] = FALSE]
    BY <1>1, ExpiredSound, PollIsTimer
  <2>2. On(e.active, armed', e.fifo, "poll") <=> On(active, armed, m_req_fifo, "poll")
    BY <1>1, ExpiredSound, PollIsTimer
  <2>3. QED  BY <2>1, <2>2, Types, PollIsTimer DEF IInv
<1>3. c \in Request /\ c.timer = "long" /\ c # stop("poll")
  BY DEF stop, Asked, Request, Lib!Requests, Timers
<1> HIDE DEF e, c
<1>4. Sound(s) /\ Spares(Timers \ {c.timer}, armed', e, s)
  BY <1>2, <1>3, CallKeeps
<1>5. Sound(shown) /\ Spares(Others, armed', s, shown)
  <2>1. Spares(Others, armed', s, s)
    BY DEF Spares
  <2>2. Sound(LedOn(s)) /\ Spares(Others, armed', s, LedOn(s))
    BY <1>4, LedKeeps
  <2>3. Sound(ShowAll(s)) /\ Spares(Others, armed', s, ShowAll(s))
    BY <1>4, ShowAllKeeps
  <2>4. QED  BY <1>4, <2>1, <2>2, <2>3
<1> HIDE DEF s, shown
<1>6. Spares({"poll"}, armed', e, shown)
  <2>1. {"poll"} \in SUBSET (Timers \ {c.timer}) /\ {"poll"} \in SUBSET Others
    BY <1>3 DEF Timers, Others
  <2>2. Spares({"poll"}, armed', s, shown)
    BY <1>5, <2>1, SparesFewer
  <2>3. QED  BY <1>4, <2>1, <2>2, SparesMore
<1>7. SparesPoll(shown)
  BY <1>2, <1>6, SparedPoll
<1>8. QED  BY <1>1, <1>5, <1>7

\* Its timer was running, so a key is pushed.
LEMMA LongPressStep ==
    ASSUME IInv, LongPress
    PROVE  IInv'
<1>1. PICK w : Sound(w) /\ Leave(w) /\ SparesPoll(w)
  BY LongPressShape
<1>2. /\ Expires("long") /\ isr' \in {"none", "tests"}
      /\ UNCHANGED <<pins, plus_minus_flag, m_turn_bluetooth_on, m_turn_bluetooth_off, main, moves>>
  BY DEF LongPress
<1>3. armed' = armed \ {"long"} /\ power = "on" /\ On(active, armed, m_req_fifo, "long")
  BY <1>2, ExpiredSound, PollIsTimer
<1>4. PushedKeys # {} /\ PushedKeys' = PushedKeys
  BY <1>2, <1>3 DEF IInv, Tidy, PushedKeys, pins
<1>5. Pins'
  BY <1>2, Types DEF IInv, Pins, pins
<1>6. TypeOK'
  BY <1>1, <1>2, <1>3, <1>5, HandlerTyped, Types DEF IInv
<1>7. Tidy'
  BY <1>1, <1>2, <1>3, <1>4, LeaveTidy DEF IInv, Tidy, SparesPoll
<1>8. QED  BY <1>6, <1>7 DEF IInv

\* Its second half may remember the long press: the key is still pushed.
LEMMA LongPressTestsStep ==
    ASSUME IInv, LongPressTests
    PROVE  IInv'
<1>1. power = "on" /\ isr = "tests" /\ isr' = "none" /\ UNCHANGED <<pins, armed, main, moves>>
  BY DEF LongPressTests
<1>2. Pins'
  BY <1>1, Types DEF IInv, Pins, pins
<1>3. CASE {"ENTER", "STANDBY"} \subseteq down
  <2> DEFINE c == Context(active)
             v == LedOff(c)
             s == LedOn(v)
  <2>1. /\ active' = s.active /\ m_req_fifo' = s.fifo /\ soft_blink' = s.blink
        /\ power' \in {"fault", "dfu"} /\ UNCHANGED flags
    BY <1>3 DEF LongPressTests
  <2>2. Sound(c)
    BY <1>1, ContextSound
  <2> HIDE DEF c
  <2>3. Sound(v)
    BY <2>2, LedKeeps
  <2> HIDE DEF v
  <2>4. Sound(s)
    BY <2>3, LedKeeps
  <2> HIDE DEF s
  <2>5. s.active \in [Timers -> BOOLEAN] /\ s.fifo \in Seq(Request) /\ Len(s.fifo) <= OpQueueSize
        /\ s.blink \in BOOLEAN
    BY <2>4 DEF Sound, Contexts
  <2>6. TypeOK'
    BY <1>1, <1>2, <2>1, <2>5, PinsTyped DEF IInv, TypeOK, Request, flags
  <2>7. QED  BY <2>1, <2>6 DEF IInv, Tidy
<1>4. CASE ~({"ENTER", "STANDBY"} \subseteq down)
  <2>1. /\ m_turn_bluetooth_on' \in BOOLEAN /\ m_turn_bluetooth_off' \in BOOLEAN
        /\ plus_minus_flag' \in BOOLEAN /\ m_button_long_press' = TRUE
        /\ UNCHANGED <<active, m_req_fifo, soft_blink, power, shutdown_flag>>
    BY <1>4, Types DEF IInv, LongPressTests
  <2>2. TypeOK'
    BY <1>1, <1>2, <2>1, PinsTyped DEF IInv, TypeOK
  <2>3. PushedKeys # {} /\ PushedKeys' = PushedKeys
    BY <1>1 DEF IInv, Tidy, PushedKeys, pins
  <2>4. Tidy'
    BY <1>1, <2>1, <2>3 DEF IInv, Tidy
  <2>5. QED  BY <2>2, <2>4 DEF IInv
<1>5. QED  BY <1>3, <1>4

\* The time-outs of the LED and its PWM.
LEMMA LedShape ==
    ASSUME IInv, LedTimeout \/ PwmTimeout
    PROVE  \E t, w :
             /\ t \in {"led", "pwm"} /\ Expires(t) /\ Leave(w) /\ Sound(w) /\ SparesPoll(w)
             /\ w.full = FALSE =>
                  /\ w.long = m_button_long_press
                  /\ On(w.active, armed', w.fifo, "long") <=> On(active, armed, m_req_fifo, "long")
<1>1. PICK t, w :
        /\ t \in {"led", "pwm"} /\ Expires(t) /\ Leave(w) /\ Sound(w)
        /\ w.long = m_button_long_press /\ Spares(Others, armed', Expired(t), w)
  <2>1. ASSUME NEW t \in {"led", "pwm"}, Expires(t)
        PROVE  Sound(Expired(t)) /\ Expired(t).long = m_button_long_press
               /\ Spares(Others, armed', Expired(t), Expired(t))
    BY <2>1, ExpiredSound, PollIsTimer DEF Spares
  <2>2. CASE LedTimeout
    <3>1. Expires("led") /\ Leave(LedOff(Expired("led")))
      BY <2>2 DEF LedTimeout
    <3>2. /\ Sound(LedOff(Expired("led"))) /\ LedOff(Expired("led")).long = m_button_long_press
          /\ Spares(Others, armed', Expired("led"), LedOff(Expired("led")))
      BY <2>1, <3>1, LedKeeps
    <3>3. QED  BY <2>2, <3>1, <3>2 DEF LedTimeout
  <2>3. CASE PwmTimeout
    <3> DEFINE e == Expired("pwm")
               c == start("pwm")
    <3>1. Expires("pwm") /\ (Leave(Call(e, c)) \/ Leave(e))
      BY <2>3 DEF PwmTimeout
    <3>2. Sound(e) /\ e.long = m_button_long_press /\ Spares(Others, armed', e, e)
      BY <2>1, <3>1
    <3>3. c \in Request /\ c.timer = "pwm" /\ c # stop("poll")
      BY DEF start, stop, Asked, Request, Lib!Requests, Timers
    <3> HIDE DEF e, c
    <3>4. Sound(Call(e, c)) /\ Spares(Timers \ {c.timer}, armed', e, Call(e, c))
      BY <3>2, <3>3, CallKeeps
    <3>5. Call(e, c).long = e.long
      BY <3>2, <3>3, CallShape
    <3>6. Others \in SUBSET (Timers \ {c.timer})
      BY <3>3 DEF Others
    <3>7. Spares(Others, armed', e, Call(e, c))
      BY <3>4, <3>6, SparesFewer
    <3>8. QED  BY <2>3, <3>1, <3>2, <3>4, <3>5, <3>7 DEF PwmTimeout, e
  <2>4. QED  BY <2>2, <2>3
<1>2. Expired(t).active = [active EXCEPT ![t] = FALSE]
  BY <1>1, ExpiredSound, PollIsTimer
<1>3. \A x \in {"poll", "long"} :
        On(Expired(t).active, armed', Expired(t).fifo, x) <=> On(active, armed, m_req_fifo, x)
  BY <1>1, ExpiredSound, PollIsTimer
<1>4. w.full = FALSE =>
        /\ w.active["poll"] = Expired(t).active["poll"]
        /\ \A x \in {"poll", "long"} :
             On(w.active, armed', w.fifo, x) <=> On(Expired(t).active, armed', Expired(t).fifo, x)
  BY <1>1, PollIsTimer DEF Spares, Others
<1>5. Expired(t).active["poll"] = active["poll"]
  BY <1>1, <1>2, Types, PollIsTimer DEF IInv
<1>6. QED  BY <1>1, <1>3, <1>4, <1>5 DEF SparesPoll

LEMMA LedStep ==
    ASSUME IInv, LedTimeout \/ PwmTimeout
    PROVE  IInv'
<1>1. PICK t, w :
        /\ t \in {"led", "pwm"} /\ Expires(t) /\ Leave(w) /\ Sound(w) /\ SparesPoll(w)
        /\ w.full = FALSE =>
             /\ w.long = m_button_long_press
             /\ On(w.active, armed', w.fifo, "long") <=> On(active, armed, m_req_fifo, "long")
  BY LedShape
<1>2. power = "on" /\ isr = "none" /\ armed' = armed \ {t}
  BY <1>1, ExpiredSound, PollIsTimer
<1>3. UNCHANGED <<pins, isr, plus_minus_flag, m_turn_bluetooth_on, m_turn_bluetooth_off, main, moves>>
  BY DEF LedTimeout, PwmTimeout
<1>4. PushedKeys' = PushedKeys /\ Pins'
  BY <1>3, Types DEF IInv, Pins, pins, PushedKeys
<1>5. TypeOK'
  BY <1>1, <1>2, <1>3, <1>4, HandlerTyped, Types DEF IInv
<1>6. Tidy'
  BY <1>1, <1>2, <1>3, <1>4, LeaveTidy DEF IInv, Tidy, SparesPoll
<1>7. QED  BY <1>5, <1>6 DEF IInv

LEMMA EndStep ==
    ASSUME IInv, NEW how \in {"off", "reset"}, End(how)
    PROVE  IInv'
<1>1. Pins'
  BY Types DEF IInv, Pins, End, Btn!btn_state_t
<1>2. m_req_fifo' \in Seq(Request) /\ Len(m_req_fifo') <= OpQueueSize /\ moves' \in 0..MaxMoves
  <2>1. m_req_fifo' = <<>> /\ moves' = 0 /\ 0 <= OpQueueSize /\ 0 \in 0..MaxMoves
    BY GesturesAssumption DEF End
  <2>2. QED  BY <2>1, EmptySeq
<1>3. active' \in [Timers -> BOOLEAN] /\ armed' \subseteq Timers
  BY DEF End
<1>4. TypeOK'
  BY <1>1, <1>2, <1>3, PinsTyped DEF TypeOK, End, Request
<1>5. QED  BY <1>4 DEF IInv, Tidy, End

LEMMA CheckFlagsStep ==
    ASSUME IInv, CheckFlags
    PROVE  IInv'
<1>1. UNCHANGED <<pins, timers, isr, m_button_long_press, plus_minus_flag, shutdown_flag,
                  soft_blink, power, moves>>
      /\ main' \in {"loop", "sleep", "reset"}
      /\ m_turn_bluetooth_on' \in BOOLEAN /\ m_turn_bluetooth_off' \in BOOLEAN
  BY Types DEF IInv, CheckFlags, flags
<1>2. Pins'
  BY <1>1, Types DEF IInv, Pins, pins
<1>3. TypeOK'
  BY <1>1, <1>2, PinsTyped DEF IInv, TypeOK, timers
<1>4. QED  BY <1>1, <1>3, TidyUnchanged DEF IInv, pins

LEMMA StutterStep ==
    ASSUME IInv, UNCHANGED vars
    PROVE  IInv'
<1>1. UNCHANGED <<pins, timers, isr, flags, soft_blink, main, power, moves>>
  BY DEF vars
<1>2. Pins'
  BY <1>1, Types DEF IInv, Pins, pins
<1>3. TypeOK'
  BY <1>1, <1>2, PinsTyped DEF IInv, TypeOK, timers, flags
<1>4. QED  BY <1>1, <1>3, TidyUnchanged DEF IInv, pins, flags

LEMMA InitIInv == Init => IInv
<1> SUFFICES ASSUME Init  PROVE IInv
  OBVIOUS
<1>1. Pins
  BY DEF Init, Btn!Init, Pins, Btn!btn_state_t
<1>2. m_req_fifo \in Seq(Request) /\ Len(m_req_fifo) <= OpQueueSize /\ moves \in 0..MaxMoves
  <2>1. m_req_fifo = <<>> /\ moves = 0 /\ 0 <= OpQueueSize /\ 0 \in 0..MaxMoves
    BY GesturesAssumption DEF Init
  <2>2. QED  BY <2>1, EmptySeq
<1>3. active \in [Timers -> BOOLEAN] /\ armed \subseteq Timers
  BY DEF Init, Timers
<1>4. TypeOK
  BY <1>1, <1>2, <1>3, PinsTyped DEF TypeOK, Init, Request
<1>5. active["long"] = FALSE /\ active["poll"] = FALSE
  BY PollIsTimer DEF Init
<1>6. Tidy
  BY <1>5 DEF Init, Tidy, On, QueuedAreOff, PollIsKept
<1>7. QED  BY <1>4, <1>6 DEF IInv

LEMMA Inductive == Spec => []IInv
<1>1. IInv /\ [Next]_vars => IInv'
  BY MoveStep, KeyEventStep, LapseStep, ProcessStep, PollStep, LongPressStep, LongPressTestsStep,
     LedStep, CheckFlagsStep, EndStep, StutterStep DEF Next, EndSession, Hour
<1>2. QED  BY InitIInv, <1>1, PTL DEF Spec

-----------------------------------------------------------------------------
\* Every variable keeps its type, and no handler overruns the queue of requests, for
\* every set of keys and features and every length of the queue (app_timer2.c:489).
THEOREM GestureTypes == Spec => []TypeOK
<1>1. IInv => TypeOK
  BY DEF IInv
<1>2. QED  BY <1>1, Inductive, PTL

\* The one long-press flag and timer that all keys share never outlive the keys they
\* belong to, in whatever order several keys are pushed and released, within one poll
\* or over many, and however they move while the handler waits (main.c:595, 721).
THEOREM LongPressNeedsKey == Spec => []LongNeedsKey
<1>1. IInv => LongNeedsKey
  <2> SUFFICES ASSUME IInv  PROVE LongNeedsKey
    OBVIOUS
  <2>1. Running("long") <=> On(active, armed, m_req_fifo, "long")
    BY Types, RunningIsOn, PollIsTimer DEF IInv
  <2>2. m_button_long_press <=> m_button_long_press = TRUE
    BY Types DEF IInv
  <2>3. QED  BY <2>1, <2>2 DEF IInv, Tidy, LongNeedsKey
<1>2. QED  BY <1>1, Inductive, PTL

-----------------------------------------------------------------------------
(* The key driver among the other users of the timer library.               *)

\* A step that the driver does not see.
LEMMA Unseen ==
    ASSUME Running("poll")' <=> Running("poll"),
           UNCHANGED <<down, edge, m_pin_states, m_pin_active, cold>>
    PROVE  UNCHANGED Btn!vars
BY DEF Btn!vars, Running

\* A handler of others that does not fail.
LEMMA UnseenHandler ==
    ASSUME IInv, IInv', NEW w, Sound(w), Leave(w), SparesPoll(w), power' = "on",
           UNCHANGED <<down, edge, m_pin_states, m_pin_active, cold>>
    PROVE  UNCHANGED Btn!vars
<1>1. w.full = FALSE /\ active' = w.active /\ m_req_fifo' = w.fifo
  BY LeaveTyped DEF Leave
<1>2. active \in [Timers -> BOOLEAN] /\ active' \in [Timers -> BOOLEAN]
  BY DEF IInv, TypeOK
<1>3. Running("poll")' <=> Running("poll")
  BY <1>1, <1>2, RunningIsOn, PollIsTimer DEF SparesPoll
<1>4. QED  BY <1>3, Unseen

\* A queue with room, or else a poll under way.
LEMMA FullPolls ==
    ASSUME IInv', ~PollRefused
    PROVE  Len(m_req_fifo') < OpQueueSize \/ Running("poll")'
<1>1. Len(m_req_fifo') <= OpQueueSize /\ Len(m_req_fifo') \in Nat /\ OpQueueSize \in Nat
  BY GesturesAssumption, LenProperties DEF IInv, TypeOK
<1>2. QED  BY <1>1 DEF PollRefused

LEMMA DriverPoll ==
    ASSUME IInv, IInv', Poll, power' = "on", ~PollRefused
    PROVE  Btn!detection_delay_timeout_handler
<1>1. PICK w : /\ Sound(w) /\ Leave(w)
               /\ w.full = FALSE /\ Btn!ActiveAfterPoll = {} =>
                    ~On(w.active, armed', w.fifo, "poll")
               /\ w.full = FALSE /\ Btn!ActiveAfterPoll # {} /\ Len(w.fifo) < OpQueueSize =>
                    On(w.active, armed', w.fifo, "poll")
  BY PollShape
<1>2. /\ Expires("poll") /\ m_pin_states' = Btn!StatesAfterPoll /\ m_pin_active' = Btn!ActiveAfterPoll
      /\ UNCHANGED <<down, edge, cold>>
  BY DEF Poll
<1>3. w.full = FALSE /\ active' = w.active /\ m_req_fifo' = w.fifo
  BY <1>1, LeaveTyped DEF Leave
<1>4. active \in [Timers -> BOOLEAN] /\ active' \in [Timers -> BOOLEAN]
  BY DEF IInv, TypeOK
<1>5. Running("poll")
  BY <1>2, <1>4, ExpiredSound, RunningIsOn, PollIsTimer
<1>6. Running("poll")' <=> Btn!ActiveAfterPoll # {}
  BY <1>1, <1>3, <1>4, FullPolls, RunningIsOn, PollIsTimer
<1>7. PushedKeys' = (PushedKeys \cup Btn!Pushes) \ Btn!Releases
  BY <1>2, Types, Samples DEF IInv
<1>8. QED  BY <1>2, <1>5, <1>6, <1>7 DEF Btn!detection_delay_timeout_handler, PushedKeys, Running

LEMMA DriverEvent ==
    ASSUME IInv, IInv', NEW b \in Buttons, KeyEvent(b), power' = "on", ~PollRefused
    PROVE  Btn!gpiote_event_handler(b)
<1> DEFINE s == Context(active)
           starts == b \in down /\ m_pin_active = {}
           u == [Call(s, start("poll")) EXCEPT !.full = FALSE]
           v == [s EXCEPT !.full = FALSE]
<1>1. /\ power = "on" /\ isr = "none" /\ b \in edge /\ edge' = edge \ {b}
      /\ starts => Leave(u)
      /\ ~starts => Leave(v)
      /\ UNCHANGED <<down, m_pin_states, m_pin_active, cold, armed>>
  BY DEF KeyEvent, Free
<1>2. Sound(s) /\ s.full = FALSE /\ s.active = active /\ s.fifo = m_req_fifo
  BY <1>1, ContextSound
<1>3. active["poll"] = TRUE => "poll" \in armed
  BY <1>1 DEF IInv, Tidy
<1>4. active \in [Timers -> BOOLEAN] /\ active' \in [Timers -> BOOLEAN]
  BY DEF IInv, TypeOK
<1>5. CASE starts
  <2>1. Len(u.fifo) < OpQueueSize => On(u.active, armed, u.fifo, "poll")
    BY <1>2, <1>3, PollStart
  <2>2. active' = u.active /\ m_req_fifo' = u.fifo
    BY <1>1, <1>5 DEF Leave
  <2> HIDE DEF u
  <2>3. Running("poll")'
    BY <1>1, <1>4, <2>1, <2>2, FullPolls, RunningIsOn, PollIsTimer
  <2>4. QED  BY <1>1, <1>5, <2>3 DEF Btn!gpiote_event_handler, Running
<1>6. CASE ~starts
  <2>1. active' = active /\ m_req_fifo' = m_req_fifo
    <3> HIDE DEF s
    <3>1. v.active = s.active /\ v.fifo = s.fifo
      BY <1>2 DEF Sound, Contexts
    <3> HIDE DEF v
    <3>2. QED  BY <1>1, <1>2, <1>6, <3>1 DEF Leave
  <2>2. Running("poll")' <=> Running("poll")
    BY <1>1, <2>1 DEF Running
  <2>3. QED  BY <1>1, <1>6, <2>2 DEF Btn!gpiote_event_handler, Running
<1>7. QED  BY <1>5, <1>6

LEMMA DriverMove ==
    ASSUME IInv, IInv', NEW b \in Buttons, Move(b)
    PROVE  Btn!Press(b) \/ Btn!Lift(b)
<1>1. UNCHANGED <<m_pin_states, m_pin_active, active, armed, m_req_fifo>>
  BY DEF Move, timers
<1>2. Running("poll")' <=> Running("poll")
  BY <1>1 DEF Running
<1>3. QED  BY <1>1, <1>2 DEF Move, Btn!Press, Btn!Lift, Running

LEMMA UnseenProcess ==
    ASSUME IInv, IInv', Process
    PROVE  UNCHANGED Btn!vars
<1>1. /\ power = "on" /\ m_req_fifo # <<>> /\ m_req_fifo' = Tail(m_req_fifo)
      /\ active' = Lib!FlagAfter(active, Head(m_req_fifo))
      /\ armed' = Lib!ArmedAfter(active, armed, Head(m_req_fifo))
      /\ UNCHANGED <<down, edge, m_pin_states, m_pin_active, cold>>
  BY DEF Process, pins
<1>2. PollIsKept(m_req_fifo) /\ (active["poll"] = TRUE => "poll" \in armed)
  BY <1>1 DEF IInv, Tidy
<1>3. active \in [Timers -> BOOLEAN] /\ active' \in [Timers -> BOOLEAN]
      /\ armed \in SUBSET Timers /\ m_req_fifo \in Seq(Request)
  BY Types DEF IInv, TypeOK
<1>4. On(active', armed', m_req_fifo', "poll") <=> On(active, armed, m_req_fifo, "poll")
  BY <1>1, <1>2, <1>3, OnTail, PollIsTimer DEF PollIsKept
<1>5. Running("poll")' <=> Running("poll")
  BY <1>3, <1>4, RunningIsOn, PollIsTimer
<1>6. QED  BY <1>1, <1>5, Unseen

\* A timer that lapses was not running.
LEMMA UnseenLapse ==
    ASSUME IInv, IInv', NEW t \in Timers, Lapse(t)
    PROVE  UNCHANGED Btn!vars
<1>1. /\ active[t] = FALSE /\ armed' = armed \ {t}
      /\ UNCHANGED <<down, edge, m_pin_states, m_pin_active, cold, active, m_req_fifo>>
  BY Types DEF IInv, Lapse, Taken, pins
<1>2. active \in [Timers -> BOOLEAN] /\ active' \in [Timers -> BOOLEAN]
  BY DEF IInv, TypeOK
<1>3. On(active', armed', m_req_fifo', "poll") <=> On(active, armed, m_req_fifo, "poll")
  BY <1>1 DEF On
<1>4. Running("poll")' <=> Running("poll")
  BY <1>2, <1>3, RunningIsOn, PollIsTimer
<1>5. QED  BY <1>1, <1>4, Unseen

LEMMA UnseenTests ==
    ASSUME IInv, IInv', LongPressTests, power' = "on"
    PROVE  UNCHANGED Btn!vars
<1>1. UNCHANGED <<down, edge, m_pin_states, m_pin_active, cold, armed>>
  BY DEF LongPressTests, pins
<1>2. UNCHANGED <<active, m_req_fifo>>
  BY DEF LongPressTests
<1>3. Running("poll")' <=> Running("poll")
  BY <1>1, <1>2 DEF Running
<1>4. QED  BY <1>1, <1>3, Unseen

\* Every step is one of the driver's, or one that it does not see.
LEMMA DriverStep ==
    ASSUME IInv, IInv', [Next]_vars
    PROVE  [Btn!Next \/ PollRefused \/ power' # "on"]_(Btn!vars)
<1> SUFFICES ASSUME power' = "on", ~PollRefused  PROVE Btn!Next \/ UNCHANGED Btn!vars
  OBVIOUS
<1>1. ASSUME NEW b \in Buttons, Move(b)  PROVE Btn!Next
  BY <1>1, DriverMove DEF Btn!Next
<1>2. ASSUME NEW b \in Buttons, KeyEvent(b)  PROVE Btn!Next
  BY <1>2, DriverEvent DEF Btn!Next
<1>3. CASE Poll
  BY <1>3, DriverPoll DEF Btn!Next
<1>4. CASE LongPress
  <2>1. PICK w : Sound(w) /\ Leave(w) /\ SparesPoll(w)
    BY <1>4, LongPressShape
  <2>2. UNCHANGED <<down, edge, m_pin_states, m_pin_active, cold>>
    BY <1>4 DEF LongPress, pins
  <2>3. QED  BY <2>1, <2>2, UnseenHandler
<1>5. CASE LedTimeout \/ PwmTimeout
  <2>1. PICK w : Sound(w) /\ Leave(w) /\ SparesPoll(w)
    BY <1>5, LedShape
  <2>2. UNCHANGED <<down, edge, m_pin_states, m_pin_active, cold>>
    BY <1>5 DEF LedTimeout, PwmTimeout, pins
  <2>3. QED  BY <2>1, <2>2, UnseenHandler
<1>6. CASE CheckFlags \/ UNCHANGED vars
  <2>1. UNCHANGED <<pins, timers>>
    BY <1>6 DEF CheckFlags, vars
  <2>2. Running("poll")' <=> Running("poll")
    BY <2>1 DEF timers, Running
  <2>3. QED  BY <2>1, <2>2, Unseen DEF pins
<1>7. ~Hour /\ ~EndSession
  BY DEF Hour, EndSession, End
<1>8. QED
  BY <1>1, <1>2, <1>3, <1>4, <1>5, <1>6, <1>7, UnseenProcess, UnseenLapse, UnseenTests DEF Next

\* For every length of the request queue the key driver keeps its specification among
\* the other users of the timer library, until the session ends, but for the steps that
\* find the queue full and so leave the poll's start refused (app_button.c:217).
THEOREM KeysAreKept == Spec => KeysSpec
<1>1. Init => Btn!Init
  BY DEF Init
<1>2. IInv /\ IInv' /\ [Next]_vars => [Btn!Next \/ PollRefused \/ power' # "on"]_(Btn!vars)
  BY DriverStep
<1>3. QED  BY <1>1, <1>2, Inductive, PTL DEF Spec, KeysSpec

-----------------------------------------------------------------------------
(* How many requests a handler adds to the queue.                           *)

\* The most requests that are queued on behalf of a key in one poll: a push restarts the
\* long press, a release restarts the hour and stops the long press, and that of STANDBY
\* may light the LED before.
KeyRequests(b) == IF b \notin Buttons THEN 0 ELSE IF b = "STANDBY" THEN 5 ELSE 3

\* ... for a feature that is shown: the LED is lit and put out.
ShowRequests(f) == IF f \in Features THEN 3 ELSE 0

\* ... by the handler of a timer, the poll's own restart left out.  The handler of the
\* long press stops it, and shows the features or flashes.
PollRequests ==
    KeyRequests(Keys[1]) + KeyRequests(Keys[2]) + KeyRequests(Keys[3]) + KeyRequests(Keys[4])
ShowAllRequests ==
    ShowRequests(FeatureOrder[1]) + ShowRequests(FeatureOrder[2]) + ShowRequests(FeatureOrder[3])
LongRequests == 1 + (IF "ENTER" \in Buttons /\ Features # {} THEN ShowAllRequests ELSE 2)
Cost(t) ==
    CASE t = "poll" -> PollRequests [] t = "long" -> LongRequests
      [] t \in {"led", "pwm"} -> 1 [] OTHER -> 0

Polls(q) == {i \in DOMAIN q : q[i].timer = "poll"}
Rest(q) == {i \in DOMAIN q : q[i].timer # "poll"}

\* What the timers that run may still add.
Due(a, t) == IF a[t] = TRUE THEN Cost(t) ELSE 0

\* From s to u a handler has added at most n requests, none for the poll, and set no flag;
\* if a call has failed, there was no room for so many.
Adds(s, u, n) ==
    /\ Cardinality(Rest(u.fifo)) <= Cardinality(Rest(s.fifo)) + n
    /\ Cardinality(Polls(u.fifo)) = Cardinality(Polls(s.fifo))
    /\ \A t \in Timers : u.active[t] = TRUE => s.active[t] = TRUE
    /\ u.full = TRUE => s.full = TRUE \/ Len(s.fifo) + n > OpQueueSize

\* The requests of a queue are those for the poll and the others.
LEMMA Counted ==
    ASSUME NEW q \in Seq(Request)
    PROVE  /\ IsFiniteSet(Rest(q)) /\ IsFiniteSet(Polls(q))
           /\ Cardinality(Rest(q)) \in Nat /\ Cardinality(Polls(q)) \in Nat
           /\ Len(q) \in Nat /\ Len(q) = Cardinality(Rest(q)) + Cardinality(Polls(q))
<1>1. DOMAIN q = 1..Len(q) /\ Len(q) \in Nat
  BY LenProperties
<1>2. IsFiniteSet(DOMAIN q) /\ Cardinality(DOMAIN q) = Len(q)
  <2>1. /\ IsFiniteSet(1..Len(q))
        /\ Cardinality(1..Len(q)) = IF 1 > Len(q) THEN 0 ELSE Len(q) - 1 + 1
    BY <1>1, FS_Interval
  <2> DEFINE n == Len(q)
  <2>2. n \in Nat
    BY <1>1
  <2>3. (IF 1 > n THEN 0 ELSE n - 1 + 1) = n
    <3> HIDE DEF n
    <3>1. QED  BY <2>2
  <2>4. QED  BY <1>1, <2>1, <2>3
<1>3. Rest(q) \in SUBSET DOMAIN q /\ Polls(q) \in SUBSET DOMAIN q
  BY DEF Rest, Polls
<1>4. IsFiniteSet(Rest(q)) /\ IsFiniteSet(Polls(q))
  BY <1>2, <1>3, FS_Subset
<1>5. Cardinality(Rest(q)) \in Nat /\ Cardinality(Polls(q)) \in Nat
  BY <1>4, FS_CardinalityType
<1>6. Rest(q) \cup Polls(q) = DOMAIN q /\ Rest(q) \cap Polls(q) = {}
  BY DEF Rest, Polls
<1>7. Cardinality(DOMAIN q) = Cardinality(Rest(q)) + Cardinality(Polls(q)) - Cardinality({})
  BY <1>4, <1>6, FS_Union
<1>8. Cardinality({}) = 0
  BY FS_EmptySet
<1>9. ASSUME NEW r \in Nat, NEW p \in Nat, NEW z, z = 0, NEW n, n = r + p - z
      PROVE  n = r + p
  BY <1>9
<1>10. Len(q) = Cardinality(Rest(q)) + Cardinality(Polls(q))
  BY <1>2, <1>5, <1>7, <1>8, <1>9
<1>11. QED  BY <1>1, <1>4, <1>5, <1>10

LEMMA CountAppended ==
    ASSUME NEW q \in Seq(Request), NEW c \in Request
    PROVE  LET p == Append(q, c)
           IN  /\ c.timer = "poll" =>
                    /\ Cardinality(Rest(p)) = Cardinality(Rest(q))
                    /\ Cardinality(Polls(p)) = Cardinality(Polls(q)) + 1
               /\ c.timer # "poll" =>
                    /\ Cardinality(Rest(p)) = Cardinality(Rest(q)) + 1
                    /\ Cardinality(Polls(p)) = Cardinality(Polls(q))
<1> DEFINE p == Append(q, c)
           n == Len(q) + 1
<1>1. /\ n \in DOMAIN p /\ p[n] = c /\ \A i \in DOMAIN p : i <= n /\ i \in Nat
      /\ \A i \in DOMAIN p : i # n => i \in DOMAIN q /\ p[i] = q[i]
      /\ \A i \in DOMAIN q : i \in DOMAIN p /\ p[i] = q[i]
  BY Appended
<1>2. n \notin DOMAIN q
  BY LenProperties
<1> HIDE DEF p, n
<1>3. CASE c.timer = "poll"
  <2>1. Rest(p) = Rest(q) /\ Polls(p) = Polls(q) \cup {n} /\ n \notin Polls(q)
    BY <1>1, <1>2, <1>3 DEF Rest, Polls
  <2>2. Cardinality(Polls(q) \cup {n}) = Cardinality(Polls(q)) + 1
    BY <2>1, Counted, FS_AddElement
  <2>3. QED  BY <1>3, <2>1, <2>2 DEF p
<1>4. CASE c.timer # "poll"
  <2>1. Polls(p) = Polls(q) /\ Rest(p) = Rest(q) \cup {n} /\ n \notin Rest(q)
    BY <1>1, <1>2, <1>4 DEF Rest, Polls
  <2>2. Cardinality(Rest(q) \cup {n}) = Cardinality(Rest(q)) + 1
    BY <2>1, Counted, FS_AddElement
  <2>3. QED  BY <1>4, <2>1, <2>2 DEF p
<1>5. QED  BY <1>3, <1>4

\* The costs are numbers.
LEMMA Costs ==
    /\ \A b : KeyRequests(b) \in Nat
    /\ \A f : ShowRequests(f) \in Nat
    /\ PollRequests \in Nat /\ ShowAllRequests \in Nat /\ LongRequests \in Nat
    /\ Cost("poll") = PollRequests /\ Cost("long") = LongRequests
    /\ Cost("led") = 1 /\ Cost("pwm") = 1 /\ Cost("hour") = 0
    /\ \A t : Cost(t) \in Nat
<1>1. (\A b : KeyRequests(b) \in Nat) /\ (\A f : ShowRequests(f) \in Nat)
  BY DEF KeyRequests, ShowRequests
<1>2. PollRequests \in Nat /\ ShowAllRequests \in Nat
  BY <1>1 DEF PollRequests, ShowAllRequests
<1>3. LongRequests \in Nat
  BY <1>2 DEF LongRequests
<1>4. QED  BY <1>1, <1>2, <1>3 DEF Cost

\* Handlers one after another add what each of them adds.
LEMMA AddsMore ==
    ASSUME NEW s, NEW u, NEW v, Sound(s), Sound(u), Sound(v), NEW n \in Nat, NEW m \in Nat,
           Adds(s, u, n), Adds(u, v, m)
    PROVE  Adds(s, v, n + m)
<1>1. s.fifo \in Seq(Request) /\ u.fifo \in Seq(Request) /\ v.fifo \in Seq(Request)
  BY DEF Sound, Contexts
<1> DEFINE rs == Cardinality(Rest(s.fifo))
           ru == Cardinality(Rest(u.fifo))
           rv == Cardinality(Rest(v.fifo))
           ps == Cardinality(Polls(s.fifo))
           pu == Cardinality(Polls(u.fifo))
<1>2. /\ rs \in Nat /\ ru \in Nat /\ rv \in Nat /\ ps \in Nat /\ pu \in Nat
      /\ Len(s.fifo) = rs + ps /\ Len(u.fifo) = ru + pu
  BY <1>1, Counted
<1>3. ru <= rs + n /\ rv <= ru + m /\ pu = ps /\ Cardinality(Polls(v.fifo)) = pu
  BY DEF Adds
<1>4. OpQueueSize \in Nat
  BY GesturesAssumption
<1>5. v.full = TRUE => u.full = TRUE \/ ru + pu + m > OpQueueSize
  BY <1>2 DEF Adds
<1>6. u.full = TRUE => s.full = TRUE \/ rs + ps + n > OpQueueSize
  BY <1>2 DEF Adds
<1>7. \A t \in Timers : v.active[t] = TRUE => s.active[t] = TRUE
  BY DEF Adds
<1> HIDE DEF rs, ru, rv, ps, pu
<1>8. rv <= rs + (n + m)
  BY <1>2, <1>3
<1>9. v.full = TRUE => s.full = TRUE \/ (rs + ps) + (n + m) > OpQueueSize
  BY <1>2, <1>3, <1>4, <1>5, <1>6
<1>10. QED  BY <1>2, <1>3, <1>7, <1>8, <1>9 DEF Adds, rs, rv, ps, pu

LEMMA AddsFewer ==
    ASSUME NEW s, NEW u, Sound(s), Sound(u), NEW n \in Nat, NEW m \in Nat, n <= m, Adds(s, u, n)
    PROVE  Adds(s, u, m)
<1>1. s.fifo \in Seq(Request) /\ u.fifo \in Seq(Request)
  BY DEF Sound, Contexts
<1>2. /\ Cardinality(Rest(s.fifo)) \in Nat /\ Cardinality(Rest(u.fifo)) \in Nat
      /\ Len(s.fifo) \in Nat /\ OpQueueSize \in Nat
  BY <1>1, Counted, GesturesAssumption
<1>3. ASSUME NEW a \in Nat, NEW b \in Nat  PROVE (a <= b + n => a <= b + m) /\ (b + n > a => b + m > a)
  OBVIOUS
<1>4. QED  BY <1>2, <1>3 DEF Adds

LEMMA AddsNothing ==
    ASSUME NEW s, Sound(s)
    PROVE  Adds(s, s, 0)
<1>1. s.fifo \in Seq(Request)
  BY DEF Sound, Contexts
<1>2. Cardinality(Rest(s.fifo)) \in Nat
  BY <1>1, Counted
<1>3. QED  BY <1>2 DEF Adds

\* What is written to the other fields of a context adds nothing.
LEMMA AddsSame ==
    ASSUME NEW s, NEW u, NEW v, NEW n, Adds(s, u, n),
           v.active = u.active, v.fifo = u.fifo, v.full = u.full
    PROVE  Adds(s, v, n)
BY DEF Adds

\* A call adds one request.
LEMMA CallAdds ==
    ASSUME NEW s, Sound(s), NEW c \in Request, c.timer # "poll"
    PROVE  Sound(Call(s, c)) /\ Adds(s, Call(s, c), 1)
<1> DEFINE u == Call(s, c)
<1>1. Sound(u)
  <2>1. c # stop("poll")
    BY DEF stop, Asked
  <2>2. QED  BY <2>1, CallKeeps
<1>2. /\ s.fifo \in Seq(Request) /\ s.active \in [Timers -> BOOLEAN] /\ c.timer \in Timers
      /\ Len(s.fifo) \in Nat /\ OpQueueSize \in Nat
  BY GesturesAssumption, LenProperties, RequestIs DEF Sound, Contexts
<1>3. Cardinality(Rest(s.fifo)) \in Nat /\ Cardinality(Polls(s.fifo)) \in Nat
  BY <1>2, Counted
<1>4. CASE u = s
  <2>1. Adds(s, s, 0) /\ 0 <= 1
    BY AddsNothing
  <2>2. Adds(s, s, 1)
    BY <2>1, AddsFewer
  <2>3. QED  BY <1>1, <1>4, <2>2
<1>5. CASE /\ u.active = Lib!FlagAfterCall(s.active, c)
           /\ \/ Len(s.fifo) < OpQueueSize /\ u.full = FALSE /\ u.fifo = Append(s.fifo, c)
              \/ Len(s.fifo) >= OpQueueSize /\ u.full = TRUE /\ u.fifo = s.fifo
  <2> HIDE DEF u
  <2>1. \A t \in Timers : u.active[t] = TRUE => s.active[t] = TRUE
    BY <1>2, <1>5 DEF Lib!FlagAfterCall
  <2>2. /\ Cardinality(Rest(u.fifo)) <= Cardinality(Rest(s.fifo)) + 1
        /\ Cardinality(Polls(u.fifo)) = Cardinality(Polls(s.fifo))
    <3>1. CASE u.fifo = s.fifo
      BY <1>3, <3>1
    <3>2. CASE u.fifo = Append(s.fifo, c)
      <4>1. /\ Cardinality(Rest(Append(s.fifo, c))) = Cardinality(Rest(s.fifo)) + 1
            /\ Cardinality(Polls(Append(s.fifo, c))) = Cardinality(Polls(s.fifo))
        BY <1>2, CountAppended
      <4>2. QED  BY <1>3, <3>2, <4>1
    <3>3. QED  BY <1>5, <3>1, <3>2
  <2>3. u.full = TRUE => Len(s.fifo) + 1 > OpQueueSize
    BY <1>2, <1>5
  <2>4. QED  BY <1>1, <2>1, <2>2, <2>3 DEF Adds, u
<1>6. QED  BY <1>4, <1>5, CallShape

\* The LED: two requests to light it, one to put it out.
LEMMA LedAdds ==
    ASSUME NEW s, Sound(s)
    PROVE  /\ Sound(LedOn(s)) /\ Adds(s, LedOn(s), 2)
           /\ Sound(LedOff(s)) /\ Adds(s, LedOff(s), 1)
<1>1. /\ start("led") \in Request /\ start("pwm") \in Request /\ stop("pwm") \in Request
      /\ start("led").timer # "poll" /\ start("pwm").timer # "poll" /\ stop("pwm").timer # "poll"
  BY DEF Timers, start, stop, Asked, Request, Lib!Requests
<1>2. Sound(LedOn(s)) /\ Sound(LedOff(s))
  BY LedKeeps
<1>3. Adds(s, s, 1) /\ Adds(s, s, 2)
  <2>1. Adds(s, s, 0) /\ 0 <= 1 /\ 0 <= 2
    BY AddsNothing
  <2>2. QED  BY <2>1, AddsFewer
<1>4. Adds(s, LedOn(s), 2)
  <2> DEFINE u == Call(s, start("led"))
             v == Call(u, start("pwm"))
             w == [v EXCEPT !.blink = TRUE]
  <2>1. Sound(u) /\ Adds(s, u, 1)
    BY <1>1, CallAdds
  <2> HIDE DEF u
  <2>2. Sound(v) /\ Adds(u, v, 1)
    BY <1>1, <2>1, CallAdds
  <2> HIDE DEF v
  <2>3. Adds(s, v, 1 + 1)
    BY <2>1, <2>2, AddsMore
  <2>4. w.active = v.active /\ w.fifo = v.fifo /\ w.full = v.full
    BY <2>2 DEF Sound, Contexts
  <2>5. LedOn(s) = s \/ LedOn(s) = w
    BY DEF LedOn, u, v
  <2> HIDE DEF w
  <2>6. Adds(s, w, 1 + 1)
    BY <2>3, <2>4, AddsSame
  <2>7. QED  BY <1>3, <2>5, <2>6
<1>5. Adds(s, LedOff(s), 1)
  <2> DEFINE v == Call(s, stop("pwm"))
             w == [v EXCEPT !.blink = FALSE]
  <2>1. Sound(v) /\ Adds(s, v, 1)
    BY <1>1, CallAdds
  <2> HIDE DEF v
  <2>2. w.active = v.active /\ w.fifo = v.fifo /\ w.full = v.full
    BY <2>1 DEF Sound, Contexts
  <2>3. LedOff(s) = s \/ LedOff(s) = w
    BY DEF LedOff, v
  <2> HIDE DEF w
  <2>4. Adds(s, w, 1)
    BY <2>1, <2>2, AddsSame
  <2>5. QED  BY <1>3, <2>3, <2>4
<1>6. QED  BY <1>2, <1>4, <1>5

LEMMA ShowAdds ==
    ASSUME NEW s, Sound(s), NEW f
    PROVE  Sound(Show(s, f)) /\ Adds(s, Show(s, f), ShowRequests(f))
<1>1. CASE f \notin Features
  BY <1>1, AddsNothing DEF Show, ShowRequests
<1>2. CASE f \in Features
  <2> DEFINE u == LedOn(s)
             v == LedOff(u)
  <2>1. Sound(u) /\ Adds(s, u, 2)
    BY LedAdds
  <2> HIDE DEF u
  <2>2. Sound(v) /\ Adds(u, v, 1)
    BY <2>1, LedAdds
  <2> HIDE DEF v
  <2>3. Adds(s, v, 2 + 1)
    BY <2>1, <2>2, AddsMore
  <2>4. Show(s, f) = v /\ ShowRequests(f) = 2 + 1
    BY <1>2 DEF Show, ShowRequests, u, v
  <2>5. QED  BY <2>2, <2>3, <2>4
<1>3. QED  BY <1>1, <1>2

LEMMA ShowAllAdds ==
    ASSUME NEW s, Sound(s)
    PROVE  Sound(ShowAll(s)) /\ Adds(s, ShowAll(s), ShowAllRequests)
<1> DEFINE f(i) == ShowRequests(FeatureOrder[i])
           u == Show(s, FeatureOrder[1])
           v == Show(u, FeatureOrder[2])
           w == Show(v, FeatureOrder[3])
<1>1. f(1) \in Nat /\ f(2) \in Nat /\ f(3) \in Nat /\ f(1) + f(2) \in Nat
  BY Costs
<1>2. Sound(u) /\ Adds(s, u, f(1))
  BY ShowAdds
<1> HIDE DEF u
<1>3. Sound(v) /\ Adds(u, v, f(2))
  BY <1>2, ShowAdds
<1> HIDE DEF v
<1>4. Sound(w) /\ Adds(v, w, f(3))
  BY <1>3, ShowAdds
<1>5. w = ShowAll(s) /\ ShowAllRequests = f(1) + f(2) + f(3)
  BY DEF ShowAll, ShowAllRequests, u, v
<1> HIDE DEF w, f
<1>6. Adds(s, v, f(1) + f(2))
  BY <1>1, <1>2, <1>3, AddsMore
<1>7. Adds(s, w, f(1) + f(2) + f(3))
  BY <1>1, <1>3, <1>4, <1>6, AddsMore
<1>8. QED  BY <1>4, <1>5, <1>7

LEMMA RestartAdds ==
    ASSUME NEW s, Sound(s), NEW t \in Timers, t # "poll"
    PROVE  Sound(Restart(s, t)) /\ Adds(s, Restart(s, t), 2)
<1> DEFINE u == Call(s, stop(t))
           v == Call(u, start(t))
<1>1. /\ start(t) \in Request /\ stop(t) \in Request
      /\ start(t).timer # "poll" /\ stop(t).timer # "poll"
  BY RequestsTyped
<1>2. Sound(u) /\ Adds(s, u, 1)
  BY <1>1, CallAdds
<1> HIDE DEF u
<1>3. Sound(v) /\ Adds(u, v, 1)
  BY <1>1, <1>2, CallAdds
<1>4. v = Restart(s, t) /\ 1 + 1 = 2
  BY DEF Restart, u
<1> HIDE DEF v
<1>5. Adds(s, v, 1 + 1)
  BY <1>2, <1>3, AddsMore
<1>6. QED  BY <1>3, <1>4, <1>5

LEMMA PushedAdds ==
    ASSUME NEW s, Sound(s)
    PROVE  Adds(s, Pushed(s), 2)
<1> DEFINE u == Restart(s, "long")
           w == [u EXCEPT !.long = FALSE]
<1>1. Sound(u) /\ Adds(s, u, 2)
  BY RestartAdds DEF Timers
<1>2. w = Pushed(s)
  BY DEF Pushed
<1> HIDE DEF u
<1>3. w.active = u.active /\ w.fifo = u.fifo /\ w.full = u.full
  BY <1>1 DEF Sound, Contexts
<1> HIDE DEF w
<1>4. Adds(s, w, 2)
  BY <1>1, <1>3, AddsSame
<1>5. QED  BY <1>2, <1>4

LEMMA ActedAdds ==
    ASSUME NEW s, Sound(s), NEW b, NEW test \in BOOLEAN, plus_minus_flag \in BOOLEAN
    PROVE  Adds(s, Acted(s, b, test), IF b = "STANDBY" THEN 2 ELSE 0)
<1>1. Adds(s, s, 0)
  BY AddsNothing
<1>2. CASE b \in {"PLUS", "MINUS"}
  <2> DEFINE w == [s EXCEPT !.off = @ \/ plus_minus_flag]
  <2>1. w = Acted(s, b, test) /\ b # "STANDBY"
    BY <1>2 DEF Acted
  <2>2. w.active = s.active /\ w.fifo = s.fifo /\ w.full = s.full
    BY DEF Sound, Contexts
  <2> HIDE DEF w
  <2>3. Adds(s, w, 0)
    BY <1>1, <2>2, AddsSame
  <2>4. QED  BY <2>1, <2>3
<1>3. CASE b \notin {"PLUS", "MINUS"} /\ b # "STANDBY"
  BY <1>1, <1>3 DEF Acted
<1>4. CASE b = "STANDBY"
  <2>1. Acted(s, b, test) = s \/ Acted(s, b, test) = LedOn(s)
    BY <1>4 DEF Acted
  <2>2. 0 <= 2
    OBVIOUS
  <2>3. Adds(s, s, 2)
    BY <1>1, <2>2, AddsFewer
  <2>4. QED  BY <1>4, <2>1, <2>3, LedAdds
<1>5. QED  BY <1>2, <1>3, <1>4

LEMMA ReleasedAdds ==
    ASSUME NEW s, Sound(s), NEW b, NEW test \in BOOLEAN, plus_minus_flag \in BOOLEAN
    PROVE  Adds(s, Released(s, b, test), IF b = "STANDBY" THEN 5 ELSE 3)
<1> DEFINE n == IF b = "STANDBY" THEN 2 ELSE 0
           u == Acted(s, b, test)
           v == Restart(u, "hour")
           w == Call(v, stop("long"))
           x == [w EXCEPT !.long = FALSE]
<1>1. Sound(u) /\ Adds(s, u, n)
  BY ActedAdds, ActedKeeps
<1>2. x = Released(s, b, test)
  BY DEF Released
<1> HIDE DEF u
<1>3. Sound(v) /\ Adds(u, v, 2)
  BY <1>1, RestartAdds DEF Timers
<1> HIDE DEF v
<1>4. Sound(w) /\ Adds(v, w, 1)
  <2>1. stop("long") \in Request /\ stop("long").timer # "poll"
    BY DEF Timers, stop, Asked, Request, Lib!Requests
  <2>2. QED  BY <1>3, <2>1, CallAdds
<1> HIDE DEF w
<1>5. x.active = w.active /\ x.fifo = w.fifo /\ x.full = w.full
  BY <1>4 DEF Sound, Contexts
<1>6. n \in Nat /\ n + 2 \in Nat /\ n + 2 + 1 = IF b = "STANDBY" THEN 5 ELSE 3
  OBVIOUS
<1> HIDE DEF n, x
<1>7. Adds(s, v, n + 2)
  BY <1>1, <1>3, <1>6, AddsMore
<1>8. Adds(s, w, n + 2 + 1)
  BY <1>3, <1>4, <1>6, <1>7, AddsMore
<1>9. Adds(s, x, n + 2 + 1)
  BY <1>5, <1>8, AddsSame
<1>10. QED  BY <1>2, <1>6, <1>9

\* One key.
LEMMA HandlerAdds ==
    ASSUME NEW s, Sound(s), NEW b, NEW test \in BOOLEAN, plus_minus_flag \in BOOLEAN,
           down \subseteq Buttons
    PROVE  Sound(button_event_handler(s, b, test))
           /\ Adds(s, button_event_handler(s, b, test), KeyRequests(b))
<1> DEFINE u == button_event_handler(s, b, test)
<1>1. Sound(u)
  BY HandlerKeeps
<1>2. KeyRequests(b) \in Nat
  BY Costs
<1>3. CASE b \in Btn!Pushes
  <2>1. u = Pushed(s) /\ 2 <= KeyRequests(b)
    BY <1>3 DEF button_event_handler, KeyRequests, Btn!Pushes
  <2>2. Sound(Pushed(s)) /\ Adds(s, Pushed(s), 2)
    BY PushedAdds, PushedKeeps
  <2>3. Adds(s, Pushed(s), KeyRequests(b))
    BY <1>2, <2>1, <2>2, AddsFewer
  <2>4. QED  BY <1>1, <2>1, <2>3
<1>4. CASE b \notin Btn!Pushes /\ b \in Btn!Releases
  <2>1. u = Released(s, b, test) /\ KeyRequests(b) = IF b = "STANDBY" THEN 5 ELSE 3
    BY <1>4 DEF button_event_handler, KeyRequests, Btn!Releases
  <2>2. Adds(s, Released(s, b, test), IF b = "STANDBY" THEN 5 ELSE 3)
    BY ReleasedAdds
  <2>3. QED  BY <1>1, <2>1, <2>2
<1>5. CASE b \notin Btn!Pushes /\ b \notin Btn!Releases
  <2>1. u = s
    BY <1>5 DEF button_event_handler
  <2>2. Adds(s, s, 0) /\ 0 <= KeyRequests(b)
    BY <1>2, AddsNothing
  <2>3. Adds(s, s, KeyRequests(b))
    BY <1>2, <2>2, AddsFewer
  <2>4. QED  BY <2>1, <2>3
<1>6. QED  BY <1>3, <1>4, <1>5

\* One poll.
LEMMA HandledAdds ==
    ASSUME NEW s, Sound(s), NEW test \in BOOLEAN, plus_minus_flag \in BOOLEAN,
           down \subseteq Buttons
    PROVE  Sound(HandledBy(s, test)) /\ Adds(s, HandledBy(s, test), PollRequests)
<1> DEFINE k(i) == KeyRequests(Keys[i])
           u == button_event_handler(s, Keys[1], test)
           v == button_event_handler(u, Keys[2], test)
           w == button_event_handler(v, Keys[3], test)
           x == button_event_handler(w, Keys[4], test)
<1>1. /\ k(1) \in Nat /\ k(2) \in Nat /\ k(3) \in Nat /\ k(4) \in Nat
      /\ k(1) + k(2) \in Nat /\ k(1) + k(2) + k(3) \in Nat
  BY Costs
<1>2. x = HandledBy(s, test) /\ PollRequests = k(1) + k(2) + k(3) + k(4)
  BY DEF HandledBy, PollRequests
<1>3. Sound(u) /\ Adds(s, u, k(1))
  BY HandlerAdds
<1> HIDE DEF u
<1>4. Sound(v) /\ Adds(u, v, k(2))
  BY <1>3, HandlerAdds
<1> HIDE DEF v
<1>5. Sound(w) /\ Adds(v, w, k(3))
  BY <1>4, HandlerAdds
<1> HIDE DEF w
<1>6. Sound(x) /\ Adds(w, x, k(4))
  BY <1>5, HandlerAdds
<1> HIDE DEF x, k
<1>7. Adds(s, v, k(1) + k(2))
  BY <1>1, <1>3, <1>4, AddsMore
<1>8. Adds(s, w, k(1) + k(2) + k(3))
  BY <1>1, <1>4, <1>5, <1>7, AddsMore
<1>9. Adds(s, x, k(1) + k(2) + k(3) + k(4))
  BY <1>1, <1>5, <1>6, <1>8, AddsMore
<1>10. QED  BY <1>2, <1>6, <1>9

LEMMA DueTyped ==
    ASSUME NEW a
    PROVE  \A t : Due(a, t) \in Nat /\ Due(a, t) <= Cost(t)
<1>1. \A t : Cost(t) \in Nat
  BY Costs
<1>2. QED  BY <1>1 DEF Due

\* The driver's own start is the only request for the poll.
LEMMA PollStartAdds ==
    ASSUME NEW s, Sound(s), s.full = FALSE
    PROVE  LET u == [Call(s, start("poll")) EXCEPT !.full = FALSE]
           IN  /\ Cardinality(Rest(u.fifo)) = Cardinality(Rest(s.fifo))
               /\ Cardinality(Polls(u.fifo)) <= Cardinality(Polls(s.fifo)) + 1
<1> DEFINE c == start("poll")
           v == Call(s, c)
           u == [v EXCEPT !.full = FALSE]
<1>1. c \in Request /\ c.timer = "poll" /\ c # stop("poll")
  BY DEF start, stop, Asked, Request, Lib!Requests, Timers
<1> HIDE DEF c
<1>2. Sound(v)
  BY <1>1, CallKeeps
<1>3. v.fifo = s.fifo \/ v.fifo = Append(s.fifo, c)
  BY <1>1, CallShape
<1> HIDE DEF v
<1>4. u.fifo = v.fifo
  BY <1>2 DEF Sound, Contexts
<1> HIDE DEF u
<1>5. s.fifo \in Seq(Request)
  BY DEF Sound, Contexts
<1>6. /\ Cardinality(Rest(Append(s.fifo, c))) = Cardinality(Rest(s.fifo))
      /\ Cardinality(Polls(Append(s.fifo, c))) = Cardinality(Polls(s.fifo)) + 1
  BY <1>1, <1>5, CountAppended
<1>7. Cardinality(Polls(s.fifo)) \in Nat
  BY <1>5, Counted
<1>8. /\ Cardinality(Rest(u.fifo)) = Cardinality(Rest(s.fifo))
      /\ Cardinality(Polls(u.fifo)) <= Cardinality(Polls(s.fifo)) + 1
  <2>1. CASE v.fifo = s.fifo
    BY <1>4, <1>7, <2>1
  <2>2. CASE v.fifo = Append(s.fifo, c)
    BY <1>4, <1>6, <1>7, <2>2
  <2>3. QED  BY <1>3, <2>1, <2>2
<1>9. QED  BY <1>8 DEF u, v, c

\* A handler of a key that queues anything also clears the flag of the long press, unless
\* a call has failed.
LongEnds(s, u) == u.full = TRUE \/ u.active["long"] = FALSE \/ u = s

LEMMA StopEnds ==
    ASSUME NEW s, Sound(s)
    PROVE  LET u == Call(s, stop("long")) IN u.full = TRUE \/ u.active["long"] = FALSE
<1> DEFINE c == stop("long")
<1>1. c \in Request /\ c.type = "stop" /\ c.timer = "long" /\ "long" \in Timers
  BY RequestsTyped, PollIsTimer
<1> HIDE DEF c
<1>2. s.active \in [Timers -> BOOLEAN]
  BY DEF Sound, Contexts
<1>3. Lib!FlagAfterCall(s.active, c)["long"] = FALSE
  BY <1>1, <1>2 DEF Lib!FlagAfterCall
<1>4. \/ Call(s, c) = s /\ s.full = TRUE
      \/ Call(s, c).active = Lib!FlagAfterCall(s.active, c)
  BY <1>1, CallShape
<1>5. QED  BY <1>3, <1>4 DEF c

LEMMA PushedEnds ==
    ASSUME NEW s, Sound(s)
    PROVE  LongEnds(s, Pushed(s))
<1> DEFINE v == Call(s, stop("long"))
           c == start("long")
           w == Call(v, c)
<1>1. v.full = TRUE \/ v.active["long"] = FALSE
  BY StopEnds
<1>2. Sound(v)
  <2>1. stop("long") \in Request /\ stop("long") # stop("poll")
    BY DEF stop, Asked, Request, Lib!Requests, Timers
  <2>2. QED  BY <2>1, CallKeeps
<1>3. c \in Request /\ c.type = "start" /\ c # stop("poll")
  BY DEF start, stop, Asked, Request, Lib!Requests, Timers
<1> HIDE DEF v, c
<1>4. w = v \/ (v.full = FALSE /\ w.active = Lib!FlagAfterCall(v.active, c))
  BY <1>2, <1>3, CallShape
<1>5. w.full = TRUE \/ w.active["long"] = FALSE
  BY <1>1, <1>3, <1>4 DEF Lib!FlagAfterCall
<1>6. w \in Contexts /\ Pushed(s) = [w EXCEPT !.long = FALSE]
  BY <1>2, <1>3, CallKeeps DEF Pushed, Restart, v, c, Sound
<1> HIDE DEF w
<1>7. Pushed(s).full = w.full /\ Pushed(s).active = w.active
  BY <1>6 DEF Contexts
<1>8. QED  BY <1>5, <1>7 DEF LongEnds

LEMMA ReleasedEnds ==
    ASSUME NEW s, Sound(s), NEW b, NEW test \in BOOLEAN, plus_minus_flag \in BOOLEAN
    PROVE  LongEnds(s, Released(s, b, test))
<1> DEFINE u == Acted(s, b, test)
           v == Restart(u, "hour")
           w == Call(v, stop("long"))
<1>1. Sound(u)
  BY ActedKeeps
<1> HIDE DEF u
<1>2. Sound(v)
  BY <1>1, RestartKeeps DEF Timers
<1> HIDE DEF v
<1>3. w.full = TRUE \/ w.active["long"] = FALSE
  BY <1>2, StopEnds
<1>4. Sound(w)
  <2>1. stop("long") \in Request /\ stop("long") # stop("poll")
    BY DEF stop, Asked, Request, Lib!Requests, Timers
  <2>2. QED  BY <1>2, <2>1, CallKeeps
<1>5. Released(s, b, test) = [w EXCEPT !.long = FALSE]
  BY DEF Released, u, v, w
<1> HIDE DEF w
<1>6. Released(s, b, test).full = w.full /\ Released(s, b, test).active = w.active
  BY <1>4, <1>5 DEF Sound, Contexts
<1>7. QED  BY <1>3, <1>6 DEF LongEnds

LEMMA HandledEnds ==
    ASSUME NEW s, Sound(s), NEW test \in BOOLEAN, plus_minus_flag \in BOOLEAN
    PROVE  LongEnds(s, HandledBy(s, test))
<1>1. ASSUME NEW x, Sound(x), NEW b
      PROVE  /\ Sound(button_event_handler(x, b, test))
             /\ LongEnds(x, button_event_handler(x, b, test))
  <2>1. Sound(button_event_handler(x, b, test))
    BY <1>1, HandlerKeeps
  <2>2. LongEnds(x, x)
    BY DEF LongEnds
  <2>3. QED  BY <1>1, <2>1, <2>2, PushedEnds, ReleasedEnds DEF button_event_handler
<1> DEFINE u == button_event_handler(s, Keys[1], test)
           v == button_event_handler(u, Keys[2], test)
           w == button_event_handler(v, Keys[3], test)
           x == button_event_handler(w, Keys[4], test)
<1>2. Sound(u) /\ LongEnds(s, u)
  BY <1>1
<1> HIDE DEF u
<1>3. Sound(v) /\ LongEnds(u, v)
  BY <1>1, <1>2
<1> HIDE DEF v
<1>4. Sound(w) /\ LongEnds(v, w)
  BY <1>1, <1>3
<1> HIDE DEF w
<1>5. LongEnds(w, x)
  BY <1>1, <1>4
<1>6. x = HandledBy(s, test)
  BY DEF HandledBy, u, v, w
<1> HIDE DEF x
<1>7. QED  BY <1>2, <1>3, <1>4, <1>5, <1>6 DEF LongEnds

\* What the handlers of the timers add.
LEMMA PollAdds ==
    ASSUME IInv, Poll
    PROVE  \E h, w : /\ Sound(h) /\ Adds(Expired("poll"), h, Cost("poll"))
                     /\ LongEnds(Expired("poll"), h)
                     /\ Sound(w) /\ Leave(w) /\ w.active = h.active /\ w.full = h.full
                     /\ Cardinality(Rest(w.fifo)) = Cardinality(Rest(h.fifo))
                     /\ Cardinality(Polls(w.fifo)) <= Cardinality(Polls(h.fifo)) + 1
<1> DEFINE s == Expired("poll")
<1>1. PICK test \in BOOLEAN :
        LET h == HandledBy(s, test)
            again == ~h.full /\ PollAgain
        IN  Leave(IF again THEN [Call(h, start("poll")) EXCEPT !.full = FALSE] ELSE h)
  BY DEF Poll
<1> DEFINE h == HandledBy(s, test)
           v == [Call(h, start("poll")) EXCEPT !.full = FALSE]
<1>2. Sound(s)
  BY ExpiredSound, PollIsTimer DEF Poll
<1> HIDE DEF s
<1>3. Sound(h) /\ Adds(s, h, Cost("poll")) /\ LongEnds(s, h)
  BY <1>2, Types, HandledAdds, HandledEnds, Costs DEF IInv, Pins
<1>4. h.full \in BOOLEAN /\ h.fifo \in Seq(Request)
  BY <1>3 DEF Sound, Contexts
<1> HIDE DEF h
<1>5. CASE h.full = FALSE /\ PollAgain
  <2>1. Leave(v)
    BY <1>1, <1>5 DEF h
  <2>2. Sound(v) /\ v.full = FALSE /\ v.active = h.active
    BY <1>3, <1>5, PollStart
  <2>3. /\ Cardinality(Rest(v.fifo)) = Cardinality(Rest(h.fifo))
        /\ Cardinality(Polls(v.fifo)) <= Cardinality(Polls(h.fifo)) + 1
    BY <1>3, <1>5, PollStartAdds
  <2>4. v.full = h.full
    BY <1>5, <2>2
  <2> HIDE DEF v
  <2>5. QED  BY <1>3, <2>1, <2>2, <2>3, <2>4 DEF s
<1>6. CASE h.full = TRUE \/ ~PollAgain
  <2>1. Leave(h)
    BY <1>1, <1>4, <1>6 DEF h
  <2>2. Cardinality(Polls(h.fifo)) <= Cardinality(Polls(h.fifo)) + 1
    <3>1. Cardinality(Polls(h.fifo)) \in Nat
      BY <1>4, Counted
    <3>2. QED  BY <3>1
  <2>3. QED  BY <1>3, <2>1, <2>2 DEF s
<1>7. QED  BY <1>4, <1>5, <1>6

LEMMA LongPressAdds ==
    ASSUME IInv, LongPress
    PROVE  \E w : Sound(w) /\ Leave(w) /\ Adds(Expired("long"), w, Cost("long"))
<1> DEFINE e == Expired("long")
           s == Call(e, stop("long"))
           shown == IF "ENTER" \notin down THEN LedOn(s)
                    ELSE IF soft_blink THEN s ELSE ShowAll(s)
           n == IF "ENTER" \in Buttons /\ Features # {} THEN ShowAllRequests ELSE 2
<1>1. Expires("long") /\ Leave(shown)
  BY DEF LongPress
<1>2. Sound(e)
  BY <1>1, ExpiredSound, PollIsTimer
<1> HIDE DEF e
<1>3. Sound(s) /\ Adds(e, s, 1)
  <2>1. stop("long") \in Request /\ stop("long").timer # "poll"
    BY DEF Timers, stop, Asked, Request, Lib!Requests
  <2>2. QED  BY <1>2, <2>1, CallAdds
<1> HIDE DEF s
<1>4. /\ n \in Nat /\ ShowAllRequests \in Nat /\ 2 <= n
      /\ "ENTER" \in down => ShowAllRequests <= n
  <2>1. Features # {} => ShowAllRequests >= 3
    BY GesturesAssumption, Costs DEF ShowAllRequests, ShowRequests, FeatureOrder
  <2>2. Features = {} => ShowAllRequests = 0
    BY DEF ShowAllRequests, ShowRequests
  <2>3. "ENTER" \in down => "ENTER" \in Buttons
    BY Types DEF IInv, Pins
  <2>4. ShowAllRequests \in Nat
    BY Costs
  <2>5. QED  BY <2>1, <2>2, <2>3, <2>4
<1>5. Sound(shown) /\ Adds(s, shown, n)
  <2>1. Sound(LedOn(s)) /\ Adds(s, LedOn(s), n)
    <3>1. Sound(LedOn(s)) /\ Adds(s, LedOn(s), 2)
      BY <1>3, LedAdds
    <3> HIDE DEF n
    <3>2. QED  BY <1>3, <1>4, <3>1, AddsFewer
  <2>2. Adds(s, s, n)
    <3> HIDE DEF n
    <3>1. Adds(s, s, 0) /\ 0 <= n
      BY <1>3, <1>4, AddsNothing
    <3>2. QED  BY <1>3, <1>4, <3>1, AddsFewer
  <2>3. "ENTER" \in down => Sound(ShowAll(s)) /\ Adds(s, ShowAll(s), n)
    <3>1. Sound(ShowAll(s)) /\ Adds(s, ShowAll(s), ShowAllRequests)
      BY <1>3, ShowAllAdds
    <3> HIDE DEF n
    <3>2. QED  BY <1>3, <1>4, <3>1, AddsFewer
  <2>4. QED  BY <1>3, <2>1, <2>2, <2>3
<1> HIDE DEF shown
<1>6. Cost("long") = 1 + n
  BY Costs DEF LongRequests
<1> HIDE DEF n
<1>7. Adds(e, shown, 1 + n)
  BY <1>2, <1>3, <1>4, <1>5, AddsMore
<1>8. QED  BY <1>1, <1>5, <1>6, <1>7 DEF e

LEMMA LedTimersAdd ==
    ASSUME IInv, LedTimeout \/ PwmTimeout
    PROVE  \E t, w : /\ t \in {"led", "pwm"} /\ Expires(t) /\ Sound(w) /\ Leave(w)
                     /\ Adds(Expired(t), w, Cost(t))
<1>1. CASE LedTimeout
  <2> DEFINE e == Expired("led")
  <2>1. Expires("led") /\ Leave(LedOff(e))
    BY <1>1 DEF LedTimeout
  <2>2. Sound(e)
    BY <2>1, ExpiredSound, PollIsTimer
  <2> HIDE DEF e
  <2>3. Sound(LedOff(e)) /\ Adds(e, LedOff(e), Cost("led"))
    BY <2>2, LedAdds, Costs
  <2>4. QED  BY <2>1, <2>3 DEF e
<1>2. CASE PwmTimeout
  <2> DEFINE e == Expired("pwm")
             c == start("pwm")
  <2>1. Expires("pwm") /\ (Leave(Call(e, c)) \/ Leave(e))
    BY <1>2 DEF PwmTimeout
  <2>2. Sound(e)
    BY <2>1, ExpiredSound, PollIsTimer
  <2> HIDE DEF e
  <2>3. c \in Request /\ c.timer # "poll"
    BY DEF Timers, start, Asked, Request, Lib!Requests
  <2> HIDE DEF c
  <2>4. Sound(Call(e, c)) /\ Adds(e, Call(e, c), Cost("pwm"))
    BY <2>2, <2>3, CallAdds, Costs
  <2>5. Adds(e, e, Cost("pwm"))
    <3>1. Adds(e, e, 0) /\ 0 <= 1 /\ Cost("pwm") = 1
      BY <2>2, AddsNothing, Costs
    <3>2. Adds(e, e, 1)
      BY <2>2, <3>1, AddsFewer
    <3>3. QED  BY <3>1, <3>2
  <2>6. QED  BY <2>1, <2>2, <2>4, <2>5 DEF e
<1>3. QED  BY <1>1, <1>2

-----------------------------------------------------------------------------
(* The long press that ends in the bootloader.                              *)

\* What is queued but for the poll, and what the timers of the LED may still add.
Lit(q, a) == Cardinality(Rest(q)) + Due(a, "led") + Due(a, "pwm")

\* A key out of its rest state is in the mask, and a key in the mask keeps the others from
\* asking for the poll: a single request for it is in the queue then.
AskedOnce ==
    power = "on" =>
        /\ \A b \in Buttons : m_pin_states[b] # "IDLE" => b \in m_pin_active
        /\ m_pin_active # {} => Cardinality(Polls(m_req_fifo)) <= 1

\* When the long press may expire, no handler of a key has run since the queue was last
\* carried out: each would have stopped it.  So only the LED may have filled the queue.
LongAlone ==
    power = "on" =>
        /\ isr = "none" /\ active["long"] = TRUE => Lit(m_req_fifo, active) <= 2
        /\ isr = "tests" => active["long"] = FALSE /\ Lit(m_req_fifo, active) <= 2 + LongRequests

LEMMA LitTyped ==
    ASSUME NEW q \in Seq(Request), NEW a
    PROVE  /\ Lit(q, a) \in Nat /\ Cardinality(Rest(q)) <= Lit(q, a)
           /\ Cardinality(Rest(q)) = 0 => Lit(q, a) <= 2
<1>1. /\ Cardinality(Rest(q)) \in Nat /\ Due(a, "led") \in Nat /\ Due(a, "pwm") \in Nat
      /\ Due(a, "led") <= 1 /\ Due(a, "pwm") <= 1
  BY Counted, DueTyped, Costs
<1>2. QED  BY <1>1 DEF Lit

\* A timer of the LED pays for what its handler adds; the long press adds its own.
LEMMA ExpiredLit ==
    ASSUME IInv, NEW t \in {"poll", "long", "led", "pwm"}, Expires(t), NEW w, Sound(w), NEW n \in Nat,
           Adds(Expired(t), w, n)
    PROVE  /\ t = "long" => w.active["long"] = FALSE
           /\ w.active["long"] = TRUE => active["long"] = TRUE
           /\ Lit(w.fifo, w.active) <= Lit(m_req_fifo, active) + n
           /\ t \in {"led", "pwm"} /\ n = 1 => Lit(w.fifo, w.active) <= Lit(m_req_fifo, active)
<1>1. t \in Timers /\ {"poll", "long", "led", "pwm"} \subseteq Timers
  BY DEF Timers
<1>2. Expired(t).active = [active EXCEPT ![t] = FALSE] /\ Expired(t).fifo = m_req_fifo
  BY <1>1, ExpiredSound
<1>3. active[t] = TRUE /\ active \in [Timers -> BOOLEAN] /\ w.active \in [Timers -> BOOLEAN]
  BY <1>1, Types DEF IInv, Expires, Sound, Contexts
<1>4. \A x \in Timers : w.active[x] = TRUE => active[x] = TRUE /\ x # t
  BY <1>2, <1>3 DEF Adds
<1>5. PICK r \in Nat, rr \in Nat, l \in Nat, ll \in Nat, p \in Nat, pp \in Nat :
        /\ r = Cardinality(Rest(m_req_fifo)) /\ rr = Cardinality(Rest(w.fifo))
        /\ l = Due(active, "led") /\ ll = Due(w.active, "led")
        /\ p = Due(active, "pwm") /\ pp = Due(w.active, "pwm")
  <2>1. m_req_fifo \in Seq(Request) /\ w.fifo \in Seq(Request)
    BY Types DEF IInv, Sound, Contexts
  <2>2. QED  BY <2>1, Counted, DueTyped
<1>6. /\ ll <= l /\ pp <= p
      /\ t = "led" => l = 1 /\ ll = 0
      /\ t = "pwm" => p = 1 /\ pp = 0
  BY <1>1, <1>3, <1>4, <1>5, Costs DEF Due
<1>7. rr <= r + n
  BY <1>2, <1>5 DEF Adds
<1>8. Lit(m_req_fifo, active) = r + l + p /\ Lit(w.fifo, w.active) = rr + ll + pp
  BY <1>5 DEF Lit
<1>n. /\ r \in Nat /\ rr \in Nat /\ l \in Nat /\ ll \in Nat /\ p \in Nat /\ pp \in Nat
  BY <1>5
<1>9. rr + ll + pp <= r + l + p + n
  BY <1>n, <1>6, <1>7
<1>10. t \in {"led", "pwm"} /\ n = 1 => rr + ll + pp <= r + l + p
  BY <1>n, <1>6, <1>7
<1>11. (t = "long" => w.active["long"] = FALSE) /\ (w.active["long"] = TRUE => active["long"] = TRUE)
  BY <1>1, <1>3, <1>4
<1>12. QED  BY <1>8, <1>9, <1>10, <1>11

\* Taking the first request from the queue.
LEMMA PollsOfTail ==
    ASSUME NEW q \in Seq(Request), q # <<>>
    PROVE  /\ Cardinality(Polls(Tail(q))) <= Cardinality(Polls(q))
           /\ Head(q).timer = "poll" => Cardinality(Polls(Tail(q))) <= Cardinality(Polls(q)) - 1
<1> DEFINE p == Tail(q)
           f == [i \in Polls(p) |-> i + 1]
<1>1. /\ p \in Seq(Request) /\ Head(q) = q[1] /\ DOMAIN q = 1..Len(q) /\ DOMAIN p = 1..Len(p)
      /\ Len(p) = Len(q) - 1 /\ Len(q) \in Nat /\ Len(q) >= 1
      /\ \A i \in 1..Len(p) : p[i] = q[i + 1]
  BY HeadTailProperties, EmptySeq
<1>2. \A i \in Polls(p) : i \in Nat /\ i + 1 \in Polls(q) \ {1}
  BY <1>1 DEF Polls
<1>3. /\ IsFiniteSet(Polls(q)) /\ Cardinality(Polls(q)) \in Nat
      /\ Cardinality(Polls(p)) \in Nat
  BY <1>1, Counted
<1>4. /\ IsFiniteSet(Polls(q) \ {1})
      /\ Cardinality(Polls(q) \ {1}) =
           IF 1 \in Polls(q) THEN Cardinality(Polls(q)) - 1 ELSE Cardinality(Polls(q))
  BY <1>3, FS_RemoveElement
<1>5. f \in Injection(Polls(p), Polls(q) \ {1})
  BY <1>2 DEF Injection, IsInjective
<1> HIDE DEF f
<1>6. Cardinality(Polls(p)) <= Cardinality(Polls(q) \ {1})
  BY <1>4, <1>5, FS_Injection
<1>7. Head(q).timer = "poll" => 1 \in Polls(q)
  BY <1>1 DEF Polls
<1>8. QED  BY <1>3, <1>4, <1>6, <1>7

LEMMA AskedOnceStep ==
    ASSUME IInv, IInv', AskedOnce, [Next]_vars
    PROVE  AskedOnce'
<1> SUFFICES ASSUME power' = "on"
             PROVE  /\ \A b \in Buttons : m_pin_states'[b] # "IDLE" => b \in m_pin_active'
                    /\ m_pin_active' # {} => Cardinality(Polls(m_req_fifo')) <= 1
  BY DEF AskedOnce
<1>1. /\ m_req_fifo \in Seq(Request) /\ m_req_fifo' \in Seq(Request) /\ Pins
      /\ active \in [Timers -> BOOLEAN]
  BY Types DEF IInv, TypeOK, Request
<1>2. CASE /\ power = "on" /\ m_pin_states' = m_pin_states /\ m_pin_active' = m_pin_active
           /\ Cardinality(Polls(m_req_fifo')) = Cardinality(Polls(m_req_fifo))
  BY <1>2 DEF AskedOnce
<1>3. ASSUME NEW b \in Buttons, KeyEvent(b)
      PROVE  /\ power = "on" /\ m_pin_states' = m_pin_states /\ m_pin_active' = m_pin_active
             /\ m_pin_active # {} => m_req_fifo' = m_req_fifo
  <2>1. /\ power = "on" /\ isr = "none"
        /\ m_pin_states' = m_pin_states /\ m_pin_active' = m_pin_active
    BY <1>3 DEF KeyEvent, Free
  <2>2. ASSUME m_pin_active # {}  PROVE m_req_fifo' = m_req_fifo
    <3> DEFINE s == Context(active)
               v == [s EXCEPT !.full = FALSE]
    <3>1. Leave(v)
      BY <1>3, <2>2 DEF KeyEvent
    <3>2. Sound(s) /\ s.fifo = m_req_fifo
      BY <2>1, ContextSound
    <3> HIDE DEF s
    <3>3. v.fifo = s.fifo
      BY <3>2 DEF Sound, Contexts
    <3> HIDE DEF v
    <3>4. QED  BY <3>1, <3>2, <3>3 DEF Leave
  <2>3. QED  BY <2>1, <2>2
<1>4. CASE Process
  <2>1. /\ power = "on" /\ m_req_fifo # <<>> /\ m_req_fifo' = Tail(m_req_fifo)
        /\ m_pin_states' = m_pin_states /\ m_pin_active' = m_pin_active
    BY <1>4 DEF Process, pins
  <2>2. PICK p \in Nat, pp \in Nat :
          p = Cardinality(Polls(m_req_fifo)) /\ pp = Cardinality(Polls(m_req_fifo'))
    BY <1>1, Counted
  <2>3. pp <= p
    BY <1>1, <2>1, <2>2, PollsOfTail
  <2>4. m_pin_active # {} => p <= 1
    BY <2>1, <2>2 DEF AskedOnce
  <2>5. m_pin_active' # {} => pp <= 1
    BY <2>1, <2>2, <2>3, <2>4
  <2>6. QED  BY <2>1, <2>2, <2>5 DEF AskedOnce
<1>5. CASE Poll
  <2>1. PICK h, w : /\ Sound(h) /\ Adds(Expired("poll"), h, Cost("poll"))
                    /\ Sound(w) /\ Leave(w)
                    /\ Cardinality(Polls(w.fifo)) <= Cardinality(Polls(h.fifo)) + 1
    BY <1>5, PollAdds
  <2>2. /\ Expires("poll") /\ m_pin_states' = Btn!StatesAfterPoll
        /\ m_pin_active' = Btn!ActiveAfterPoll
    BY <1>5 DEF Poll
  <2>3. power = "on" /\ isr = "none" /\ Expired("poll").fifo = m_req_fifo /\ active["poll"] = TRUE
    BY <1>1, <2>2, ExpiredSound, PollIsTimer DEF Expires
  <2>4. Cardinality(Polls(h.fifo)) = 0
    <3>1. Polls(m_req_fifo) = {}
      BY <2>3 DEF IInv, Tidy, QueuedAreOff, Polls
    <3>2. QED  BY <2>1, <2>3, <3>1, FS_EmptySet DEF Adds
  <2>5. Cardinality(Polls(m_req_fifo')) <= 1
    BY <2>1, <2>4 DEF Leave
  <2>6. ASSUME NEW b \in Buttons, m_pin_states'[b] # "IDLE"  PROVE b \in m_pin_active'
    <3>1. m_pin_states'[b] = Btn!evt_handle(m_pin_states[b], b \in down)
      BY <2>2 DEF Btn!StatesAfterPoll
    <3>2. m_pin_states[b] \in Btn!btn_state_t
      BY <1>1 DEF Pins
    <3>3. b \notin Btn!Releases
      BY <2>6, <3>1, <3>2 DEF Btn!Releases, Btn!evt_handle, Btn!OnInactive, Btn!btn_state_t
    <3>4. m_pin_states[b] # "IDLE" \/ b \in down
      BY <2>6, <3>1, <3>2 DEF Btn!evt_handle, Btn!OnInactive, Btn!btn_state_t
    <3>5. m_pin_states[b] # "IDLE" => b \in m_pin_active
      BY <2>3 DEF AskedOnce
    <3>6. QED  BY <2>2, <3>3, <3>4, <3>5 DEF Btn!ActiveAfterPoll
  <2>7. QED  BY <2>5, <2>6
<1>6. ASSUME LongPress \/ LedTimeout \/ PwmTimeout
      PROVE  /\ power = "on" /\ m_pin_states' = m_pin_states /\ m_pin_active' = m_pin_active
             /\ Cardinality(Polls(m_req_fifo')) = Cardinality(Polls(m_req_fifo))
  <2>1. m_pin_states' = m_pin_states /\ m_pin_active' = m_pin_active
    BY <1>6 DEF LongPress, LedTimeout, PwmTimeout, pins
  <2>2. PICK t, w : /\ t \in {"long", "led", "pwm"} /\ Expires(t) /\ Leave(w)
                    /\ Adds(Expired(t), w, Cost(t))
    <3>1. CASE LongPress
      BY <3>1, LongPressAdds DEF LongPress
    <3>2. CASE LedTimeout \/ PwmTimeout
      BY <3>2, LedTimersAdd
    <3>3. QED  BY <1>6, <3>1, <3>2
  <2>3. t \in Timers
    BY <2>2 DEF Timers
  <2>4. power = "on" /\ Expired(t).fifo = m_req_fifo
    BY <2>2, <2>3, ExpiredSound
  <2>5. QED  BY <2>1, <2>2, <2>4 DEF Adds, Leave
<1>7. ASSUME NEW b \in Buttons, Move(b)
      PROVE  /\ power = "on" /\ m_pin_states' = m_pin_states /\ m_pin_active' = m_pin_active
             /\ m_req_fifo' = m_req_fifo
  BY <1>7 DEF Move, timers
<1>8. ASSUME NEW t \in Timers, Lapse(t)
      PROVE  /\ power = "on" /\ m_pin_states' = m_pin_states /\ m_pin_active' = m_pin_active
             /\ m_req_fifo' = m_req_fifo
  BY <1>8 DEF Lapse, Free, pins
<1>9. CASE LongPressTests \/ CheckFlags \/ UNCHANGED vars
  <2>1. /\ power = "on" /\ m_pin_states' = m_pin_states /\ m_pin_active' = m_pin_active
        /\ m_req_fifo' = m_req_fifo
    BY <1>9 DEF LongPressTests, CheckFlags, Free, vars, timers, pins
  <2>2. QED  BY <1>2, <2>1
<1>10. ~Hour /\ ~EndSession
  BY DEF Hour, EndSession, End
<1>11. QED
  <2>1. ASSUME NEW b \in Buttons, Move(b) \/ KeyEvent(b)
        PROVE  /\ \A x \in Buttons : m_pin_states'[x] # "IDLE" => x \in m_pin_active'
               /\ m_pin_active' # {} => Cardinality(Polls(m_req_fifo')) <= 1
    BY <1>3, <1>7, <2>1 DEF AskedOnce
  <2>2. ASSUME NEW t \in Timers, Lapse(t)
        PROVE  /\ \A x \in Buttons : m_pin_states'[x] # "IDLE" => x \in m_pin_active'
               /\ m_pin_active' # {} => Cardinality(Polls(m_req_fifo')) <= 1
    BY <1>8, <2>2 DEF AskedOnce
  <2>3. CASE LongPress \/ LedTimeout \/ PwmTimeout
    BY <1>2, <1>6, <2>3
  <2>4. QED  BY <1>4, <1>5, <1>9, <1>10, <2>1, <2>2, <2>3 DEF Next

LEMMA LongAloneStep ==
    ASSUME IInv, IInv', LongAlone, [Next]_vars
    PROVE  LongAlone'
<1> SUFFICES ASSUME power' = "on"
             PROVE  /\ isr' = "none" /\ active'["long"] = TRUE => Lit(m_req_fifo', active') <= 2
                    /\ isr' = "tests" => /\ active'["long"] = FALSE
                                         /\ Lit(m_req_fifo', active') <= 2 + LongRequests
  BY DEF LongAlone
<1>1. /\ m_req_fifo \in Seq(Request) /\ m_req_fifo' \in Seq(Request)
      /\ active \in [Timers -> BOOLEAN] /\ {"poll", "long", "led", "pwm"} \subseteq Timers
  BY Types, PollIsTimer DEF IInv, TypeOK, Request
<1>2. CASE /\ active' = active /\ m_req_fifo' = m_req_fifo /\ power' = power
           /\ isr' = isr \/ (isr = "tests" /\ isr' = "none")
  BY <1>2 DEF LongAlone
<1>3. ASSUME NEW b \in Buttons, KeyEvent(b)
      PROVE  isr = "none" /\ isr' = "none" /\ power = "on"
             /\ active' = active /\ Lit(m_req_fifo', active') = Lit(m_req_fifo, active)
  <2> DEFINE s == Context(active)
             u == [Call(s, start("poll")) EXCEPT !.full = FALSE]
             v == [s EXCEPT !.full = FALSE]
  <2>1. power = "on" /\ isr = "none" /\ isr' = isr /\ (Leave(u) \/ Leave(v))
    BY <1>3 DEF KeyEvent, Free
  <2>2. Sound(s) /\ s.full = FALSE /\ s.active = active /\ s.fifo = m_req_fifo
    BY <2>1, ContextSound
  <2>3. v.active = s.active /\ v.fifo = s.fifo
    <3> HIDE DEF s
    <3>1. QED  BY <2>2 DEF Sound, Contexts
  <2>4. u.active = s.active /\ Cardinality(Rest(u.fifo)) = Cardinality(Rest(s.fifo))
    <3>1. u.active = s.active
      BY <2>2, PollStart
    <3>2. Cardinality(Rest(u.fifo)) = Cardinality(Rest(s.fifo))
      BY <2>2, PollStartAdds
    <3>3. QED  BY <3>1, <3>2
  <2> HIDE DEF u, v, s
  <2>5. active' = active /\ Cardinality(Rest(m_req_fifo')) = Cardinality(Rest(m_req_fifo))
    BY <2>1, <2>2, <2>3, <2>4 DEF Leave
  <2>6. QED  BY <2>1, <2>5 DEF Lit
<1>4. CASE Process
  <2>1. isr' = "none" => m_req_fifo' = <<>>
    BY <1>4 DEF Process
  <2>2. isr' # "tests"
    BY <1>4 DEF Process
  <2>3. ASSUME m_req_fifo' = <<>>  PROVE Lit(m_req_fifo', active') <= 2
    <3>1. Rest(<<>>) = {}
      BY DEF Rest
    <3>2. Cardinality(Rest(m_req_fifo')) = 0
      BY <2>3, <3>1, FS_EmptySet
    <3>3. QED  BY <1>1, <3>2, LitTyped
  <2>4. QED  BY <2>1, <2>2, <2>3
<1>5. CASE Poll
  <2> DEFINE e == Expired("poll")
  <2>1. PICK h, w : /\ Sound(h) /\ LongEnds(e, h)
                    /\ Sound(w) /\ Leave(w) /\ w.active = h.active /\ w.full = h.full
                    /\ Cardinality(Rest(w.fifo)) = Cardinality(Rest(h.fifo))
    BY <1>5, PollAdds
  <2>2. Expires("poll") /\ isr' = isr
    BY <1>5 DEF Poll
  <2>3. /\ e.active = [active EXCEPT !["poll"] = FALSE] /\ e.fifo = m_req_fifo
        /\ power = "on" /\ isr = "none"
    BY <1>1, <2>2, ExpiredSound
  <2> HIDE DEF e
  <2>4. w.full = FALSE /\ active' = w.active /\ m_req_fifo' = w.fifo
    <3>1. w.full = FALSE
      BY <2>1, LeaveTyped
    <3>2. QED  BY <2>1, <3>1 DEF Leave
  <2>5. ASSUME active'["long"] = TRUE  PROVE Lit(m_req_fifo', active') <= 2
    <3>1. h = e
      BY <2>1, <2>4, <2>5 DEF LongEnds
    <3>2. active' = [active EXCEPT !["poll"] = FALSE]
      BY <2>1, <2>3, <2>4, <3>1
    <3>3. /\ Due(active', "led") = Due(active, "led") /\ Due(active', "pwm") = Due(active, "pwm")
          /\ active["long"] = TRUE
      BY <1>1, <2>5, <3>2 DEF Due
    <3>4. Cardinality(Rest(m_req_fifo')) = Cardinality(Rest(m_req_fifo))
      BY <2>1, <2>3, <2>4, <3>1
    <3>5. QED  BY <2>3, <3>3, <3>4 DEF LongAlone, Lit
  <2>6. QED  BY <2>2, <2>3, <2>5
<1>6. CASE LongPress
  <2>1. PICK w : Sound(w) /\ Leave(w) /\ Adds(Expired("long"), w, LongRequests)
    BY <1>6, LongPressAdds, Costs
  <2>2. Expires("long") /\ isr' = "tests"
    <3>1. power' = "on" => isr' = "tests"
      BY <1>6 DEF LongPress, Leave
    <3>2. QED  BY <1>6, <3>1 DEF LongPress
  <2>3. /\ w.active["long"] = FALSE /\ Lit(w.fifo, w.active) <= Lit(m_req_fifo, active) + LongRequests
        /\ LongRequests \in Nat
    BY <2>1, <2>2, ExpiredLit, Costs
  <2>4. Lit(m_req_fifo, active) <= 2
    BY <1>1, <2>2 DEF LongAlone, Expires, Free
  <2>5. active' = w.active /\ m_req_fifo' = w.fifo
    BY <2>1 DEF Leave
  <2>6. Lit(m_req_fifo, active) \in Nat /\ Lit(w.fifo, w.active) \in Nat
    BY <1>1, <2>1, LitTyped DEF Sound, Contexts
  <2>7. Lit(w.fifo, w.active) <= 2 + LongRequests
    BY <2>3, <2>4, <2>6
  <2>8. QED  BY <2>2, <2>3, <2>5, <2>7
<1>7. CASE LedTimeout \/ PwmTimeout
  <2>1. PICK t, w : /\ t \in {"led", "pwm"} /\ Expires(t) /\ Sound(w) /\ Leave(w)
                    /\ Adds(Expired(t), w, 1)
    BY <1>7, LedTimersAdd, Costs
  <2>2. isr' = "none" /\ isr = "none" /\ power = "on"
    BY <1>7 DEF LedTimeout, PwmTimeout, Expires, Free
  <2>3. /\ w.active["long"] = TRUE => active["long"] = TRUE
        /\ Lit(w.fifo, w.active) <= Lit(m_req_fifo, active)
    BY <2>1, ExpiredLit
  <2>4. active' = w.active /\ m_req_fifo' = w.fifo
    BY <2>1 DEF Leave
  <2>5. Lit(m_req_fifo, active) \in Nat /\ Lit(w.fifo, w.active) \in Nat
    BY <1>1, <2>1, LitTyped DEF Sound, Contexts
  <2>6. active["long"] = TRUE => Lit(m_req_fifo, active) <= 2
    BY <2>2 DEF LongAlone
  <2>7. w.active["long"] = TRUE => Lit(w.fifo, w.active) <= 2
    BY <2>3, <2>5, <2>6
  <2>8. QED  BY <2>2, <2>4, <2>7
<1>8. ASSUME NEW b \in Buttons, Move(b)  PROVE UNCHANGED <<active, m_req_fifo, power, isr>>
  BY <1>8 DEF Move, timers
<1>9. ASSUME NEW t \in Timers, Lapse(t)  PROVE UNCHANGED <<active, m_req_fifo, power, isr>>
  BY <1>9 DEF Lapse
<1>10. CASE LongPressTests \/ CheckFlags \/ UNCHANGED vars
  <2>1. /\ active' = active /\ m_req_fifo' = m_req_fifo /\ power' = power
        /\ isr' = isr \/ (isr = "tests" /\ isr' = "none")
    BY <1>10 DEF LongPressTests, CheckFlags, vars, timers
  <2>2. QED  BY <1>2, <2>1
<1>11. ~Hour /\ ~EndSession
  BY DEF Hour, EndSession, End
<1>12. QED
  <2>1. ASSUME NEW b \in Buttons, KeyEvent(b)
        PROVE  /\ isr' = "none" /\ active'["long"] = TRUE => Lit(m_req_fifo', active') <= 2
               /\ isr' # "tests"
    BY <1>3, <2>1 DEF LongAlone
  <2>2. QED
    BY <1>2, <1>4, <1>5, <1>6, <1>7, <1>8, <1>9, <1>10, <1>11, <2>1 DEF Next

\* With room for one request for the poll, two of the LED's timers, those of the long press
\* and three to light the LED once more.
LEMMA DfuRuns ==
    ASSUME IInv, AskedOnce, LongAlone, LongRequests + 6 <= OpQueueSize, LongPressTests,
           {"ENTER", "STANDBY"} \subseteq down
    PROVE  power' = "dfu"
<1> DEFINE c == Context(active)
           v == LedOff(c)
           s == LedOn(v)
<1>1. power = "on" /\ isr = "tests" /\ power' = IF s.full THEN "fault" ELSE "dfu"
  BY DEF LongPressTests
<1>2. Sound(c) /\ c.full = FALSE /\ c.fifo = m_req_fifo
  BY <1>1, ContextSound
<1> HIDE DEF c
<1>3. Sound(v) /\ Adds(c, v, 1)
  BY <1>2, LedAdds
<1> HIDE DEF v
<1>4. Sound(s) /\ Adds(v, s, 2)
  BY <1>3, LedAdds
<1> HIDE DEF s
<1>5. Adds(c, s, 1 + 2)
  BY <1>2, <1>3, <1>4, AddsMore
<1>6. m_pin_active # {}
  <2>1. PICK b \in PushedKeys : TRUE
    BY <1>1 DEF IInv, Tidy
  <2>2. b \in Buttons /\ m_pin_states[b] # "IDLE"
    BY DEF PushedKeys
  <2>3. QED  BY <1>1, <2>2 DEF AskedOnce
<1>7. PICK r \in Nat, p \in Nat, l \in Nat :
        /\ r = Cardinality(Rest(m_req_fifo)) /\ p = Cardinality(Polls(m_req_fifo))
        /\ l = Lit(m_req_fifo, active) /\ Len(m_req_fifo) = r + p /\ r <= l
  <2>1. m_req_fifo \in Seq(Request)
    BY Types DEF IInv
  <2>2. QED  BY <2>1, Counted, LitTyped
<1>8. p <= 1 /\ l <= 2 + LongRequests
  BY <1>1, <1>6, <1>7 DEF AskedOnce, LongAlone
<1>9. s.full = TRUE => r + p + (1 + 2) > OpQueueSize
  BY <1>2, <1>5, <1>7 DEF Adds
<1>10. r \in Nat /\ p \in Nat /\ l \in Nat /\ r <= l /\ LongRequests \in Nat /\ OpQueueSize \in Nat
  BY <1>7, Costs, GesturesAssumption
<1>11. ~(r + p + (1 + 2) > OpQueueSize)
  BY <1>8, <1>10
<1>12. s.full = FALSE
  BY <1>4, <1>9, <1>11 DEF Sound, Contexts
<1>13. QED  BY <1>1, <1>12

LEMMA AlwaysAlone == Spec => [](AskedOnce /\ LongAlone)
<1>1. Init => AskedOnce /\ LongAlone
  <2> SUFFICES ASSUME Init  PROVE AskedOnce /\ LongAlone
    OBVIOUS
  <2>1. /\ m_pin_states = [b \in Buttons |-> "IDLE"] /\ m_pin_active = {}
        /\ isr = "none" /\ active["long"] = FALSE
    BY PollIsTimer DEF Init, Btn!Init
  <2>2. QED  BY <2>1 DEF AskedOnce, LongAlone
<1>2. IInv /\ IInv' /\ AskedOnce /\ LongAlone /\ [Next]_vars => AskedOnce' /\ LongAlone'
  BY AskedOnceStep, LongAloneStep
<1>3. QED  BY <1>1, <1>2, Inductive, PTL DEF Spec

\* That is enough for every long press of ENTER and STANDBY to end in the bootloader,
\* however often the keys move: with one feature or none, the ten slots that are
\* configured (sdk_config.h:897).
THEOREM DfuIsReached ==
    ASSUME LongRequests + 6 <= OpQueueSize
    PROVE  Spec => DfuOnGesture
<1>1. IInv /\ AskedOnce /\ LongAlone /\ [Next]_vars =>
        [isr = "tests" /\ isr' = "none" /\ {"ENTER", "STANDBY"} \subseteq down => power' = "dfu"]_vars
  <2> SUFFICES ASSUME IInv, AskedOnce, LongAlone, [Next]_vars, isr = "tests", isr' = "none",
                      {"ENTER", "STANDBY"} \subseteq down
               PROVE  power' = "dfu"
    OBVIOUS
  <2>1. LongPressTests
    BY DEF Next, vars, Move, KeyEvent, Lapse, Process, Poll, LongPress, LedTimeout,
           PwmTimeout, CheckFlags, EndSession, Hour, Expires, Free
  <2>2. QED  BY <2>1, DfuRuns
<1>2. QED  BY <1>1, Inductive, AlwaysAlone, PTL DEF Spec, DfuOnGesture

=============================================================================
