---------------------------- MODULE AntSearch_proofs ----------------------------
(***************************************************************************)
(* What holds of the search for the ANT+ devices for every set of channels,  *)
(* limit of restarts, width of their counter, length of a batch of channel   *)
(* events and of the queue of timer requests: what a closed channel means,   *)
(* what a lit LED means, and when a search may go unseen.                    *)
(***************************************************************************)
EXTENDS AntSearch, SequenceTheorems, TLAPS

Statuses == {"closed", "searching", "tracking"}
Counts   == (-MaxCount - 1)..MaxCount
Leds     == {"off", "search", "flash", "blue"}
Request  == [type : {"start", "stop"}, timer : Timers]

Contexts == [status : [Channels -> Statuses], count : [Channels -> Counts], led : Leds,
             active : [Timers -> BOOLEAN], fifo : {q \in Seq(Request) : Len(q) <= OpQueueSize},
             full : BOOLEAN]

-----------------------------------------------------------------------------
(* Types.                                                                   *)

LEMMA RequestsTyped ==
    ASSUME NEW t \in Timers
    PROVE  start(t) \in Request /\ stop(t) \in Request /\ start(t) # stop(t)
           /\ start(t).timer = t /\ stop(t).timer = t
           /\ start(t).type = "start" /\ stop(t).type = "stop"
BY DEF start, stop, Asked, Request

\* A request of a timer changes its flag and the queue, nothing else.
LEMMA CallType ==
    ASSUME NEW s \in Contexts, NEW c \in Request
    PROVE  /\ Call(s, c) \in Contexts
           /\ Call(s, c).status = s.status /\ Call(s, c).count = s.count /\ Call(s, c).led = s.led
           /\ Call(s, c).full = FALSE =>
                /\ s.full = FALSE
                /\ Lib!Ignored(s.active, c) => Call(s, c) = s
                /\ ~Lib!Ignored(s.active, c) =>
                     /\ Call(s, c).fifo = Append(s.fifo, c)
                     /\ Call(s, c).active = Lib!FlagAfterCall(s.active, c)
<1>1. CASE s.full = TRUE \/ Lib!Ignored(s.active, c)
  <2>1. Call(s, c) = s
    BY <1>1 DEF Call
  <2>2. s.full \in BOOLEAN
    BY DEF Contexts
  <2>3. QED  BY <1>1, <2>1, <2>2
<1>2. CASE s.full = FALSE /\ ~Lib!Ignored(s.active, c)
  <2> DEFINE a == Lib!FlagAfterCall(s.active, c)
             room == Len(s.fifo) < OpQueueSize
             q == IF room THEN Append(s.fifo, c) ELSE s.fifo
  <2>1. a \in [Timers -> BOOLEAN]
    BY DEF Lib!FlagAfterCall, Contexts, Request
  <2>2. q \in Seq(Request) /\ Len(q) <= OpQueueSize
    <3>1. s.fifo \in Seq(Request) /\ Len(s.fifo) \in Nat /\ Len(s.fifo) <= OpQueueSize
      BY DEF Contexts
    <3>2. Append(s.fifo, c) \in Seq(Request) /\ Len(Append(s.fifo, c)) = Len(s.fifo) + 1
      BY <3>1, AppendProperties
    <3>3. QED  BY <3>1, <3>2, SearchAssumption
  <2>3. Call(s, c) = [s EXCEPT !.active = a, !.fifo = q, !.full = ~room]
    BY <1>2 DEF Call
  <2>4. (~room) \in BOOLEAN
    OBVIOUS
  <2> DEFINE f == ~room
  <2>5. room => q = Append(s.fifo, c)
    OBVIOUS
  <2>6. f = FALSE => room
    OBVIOUS
  <2> HIDE DEF a, q, room, f
  <2>7. Call(s, c) = [s EXCEPT !.active = a, !.fifo = q, !.full = f] /\ f \in BOOLEAN
    BY <2>3, <2>4 DEF f
  <2>8. Call(s, c) = [status |-> s.status, count |-> s.count, led |-> s.led,
                      active |-> a, fifo |-> q, full |-> f]
    BY <2>7 DEF Contexts
  <2>9. Call(s, c) \in Contexts
    BY <2>1, <2>2, <2>7, <2>8 DEF Contexts
  <2>10. /\ Call(s, c).status = s.status /\ Call(s, c).count = s.count /\ Call(s, c).led = s.led
         /\ Call(s, c).active = a /\ Call(s, c).fifo = q /\ Call(s, c).full = f
    BY <2>8
  <2>11. QED  BY <1>2, <2>5, <2>6, <2>9, <2>10 DEF a
<1>3. QED
  <2>1. s.full \in BOOLEAN
    BY DEF Contexts
  <2>2. QED  BY <1>1, <1>2, <2>1

LEMMA LedOnType ==
    ASSUME NEW s \in Contexts, NEW what \in {"search", "flash"}
    PROVE  /\ LedOn(s, what) \in Contexts
           /\ LedOn(s, what).status = s.status /\ LedOn(s, what).count = s.count
           /\ LedOn(s, what).full = FALSE => s.full = FALSE
<1> DEFINE u == IF what = "flash" THEN Call(s, start("led")) ELSE s
<1>1. u \in Contexts /\ u.status = s.status /\ u.count = s.count /\ (u.full = FALSE => s.full = FALSE)
  BY CallType, RequestsTyped DEF Timers
<1>2. [u EXCEPT !.led = what] \in Contexts
      /\ [u EXCEPT !.led = what].status = u.status /\ [u EXCEPT !.led = what].count = u.count
      /\ [u EXCEPT !.led = what].full = u.full
  <2> HIDE DEF u
  <2>1. QED  BY <1>1 DEF Contexts, Leds
<1>3. QED  BY <1>1, <1>2 DEF LedOn

LEMMA LedOffType ==
    ASSUME NEW s \in Contexts
    PROVE  /\ LedOff(s) \in Contexts /\ LedOff(s).led = "off"
           /\ LedOff(s).status = s.status /\ LedOff(s).count = s.count
           /\ LedOff(s).active = s.active /\ LedOff(s).fifo = s.fifo /\ LedOff(s).full = s.full
BY DEF LedOff, Contexts, Leds

LEMMA SearchType ==
    ASSUME NEW s \in Contexts
    PROVE  /\ SearchStart(s) \in Contexts /\ SearchStop(s) \in Contexts
           /\ SearchStart(s).status = s.status /\ SearchStart(s).count = s.count
           /\ SearchStop(s).status = s.status /\ SearchStop(s).count = s.count
<1>1. "search" \in Timers /\ start("search") \in Request /\ stop("search") \in Request
  BY RequestsTyped DEF Timers
<1>2. Call(s, start("search")) \in Contexts
      /\ Call(s, start("search")).status = s.status /\ Call(s, start("search")).count = s.count
  BY <1>1, CallType
<1>3. SearchStart(s) \in Contexts
      /\ SearchStart(s).status = s.status /\ SearchStart(s).count = s.count
  BY <1>2, LedOnType DEF SearchStart
<1>4. SearchStop(s) \in Contexts
      /\ SearchStop(s).status = s.status /\ SearchStop(s).count = s.count
  BY <1>1, LedOffType, CallType DEF SearchStop
<1>5. QED  BY <1>3, <1>4

LEMMA OpenType ==
    ASSUME NEW s \in Contexts, NEW c \in Channels
    PROVE  /\ Open(s, c) \in Contexts
           /\ Open(s, c).status = [s.status EXCEPT ![c] = IF @ = "closed" THEN "searching" ELSE @]
           /\ Open(s, c).count = s.count /\ Open(s, c).led = s.led
           /\ Open(s, c).active = s.active /\ Open(s, c).fifo = s.fifo /\ Open(s, c).full = s.full
BY DEF Open, Contexts, Statuses

\* The counter wraps, as an int8_t does.
LEMMA IncrementedType ==
    ASSUME NEW k \in Counts
    PROVE  Incremented(k) \in Counts
BY SearchAssumption DEF Counts, Incremented

\* What a channel event does to the channels: the closing of one counts a restart, and
\* either opens it again or finds its restarts used up.
LEMMA HandleType ==
    ASSUME NEW s \in Contexts, NEW e \in Event
    PROVE  /\ Handle(s, e) \in Contexts
           /\ e.event # "EVENT_CHANNEL_CLOSED" =>
                Handle(s, e).status = s.status /\ Handle(s, e).count = s.count
           /\ e.event = "EVENT_CHANNEL_CLOSED" =>
                /\ \A d \in Channels : d # e.channel =>
                     Handle(s, e).status[d] = s.status[d] /\ Handle(s, e).count[d] = s.count[d]
                /\ \/ Handle(s, e).status[e.channel] # "closed"
                   \/ Handle(s, e).count[e.channel] >= Limit
<1> DEFINE n == Incremented(s.count[e.channel])
           counted == [s EXCEPT !.count[e.channel] = n]
<1>1. e.channel \in Channels /\ e.event \in {"EVENT_RX_SEARCH_TIMEOUT", "EVENT_CHANNEL_CLOSED",
                                             "EVENT_RX_FAIL_GO_TO_SEARCH"}
  BY DEF Event
<1>2. n \in Counts
  <2>1. s.count[e.channel] \in Counts
    BY <1>1 DEF Contexts
  <2>2. QED  BY <2>1, IncrementedType
<1>3. counted \in Contexts /\ counted.status = s.status
      /\ counted.count = [s.count EXCEPT ![e.channel] = n]
  <2> HIDE DEF n
  <2>1. QED  BY <1>1, <1>2 DEF Contexts
<1>4. CASE e.event # "EVENT_CHANNEL_CLOSED"
  <2>1. Handle(s, e) = SearchStop(s) \/ Handle(s, e) = SearchStart(s)
    BY <1>1, <1>4 DEF Handle
  <2>2. QED  BY <1>4, <2>1, SearchType
<1>5. CASE e.event = "EVENT_CHANNEL_CLOSED"
  <2> HIDE DEF n
  <2>1. Handle(s, e) = IF Restarts(n) THEN SearchStart(Open(counted, e.channel)) ELSE counted
    BY <1>5 DEF Handle, n
  <2> HIDE DEF counted
  <2>2. CASE Restarts(n)
    <3> DEFINE o == Open(counted, e.channel)
    <3>1. /\ o \in Contexts /\ o.count = counted.count
          /\ o.status = [counted.status EXCEPT ![e.channel] = IF @ = "closed" THEN "searching" ELSE @]
      BY <1>1, <1>3, OpenType
    <3>2. o.status[e.channel] # "closed" /\ \A d \in Channels : d # e.channel => o.status[d] = s.status[d]
      BY <1>1, <1>3, <3>1 DEF Contexts
    <3> HIDE DEF o
    <3>3. Handle(s, e) = SearchStart(o)
      BY <2>1, <2>2 DEF o
    <3>4. Handle(s, e) \in Contexts /\ Handle(s, e).status = o.status /\ Handle(s, e).count = o.count
      BY <3>1, <3>3, SearchType
    <3>5. \A d \in Channels : d # e.channel => o.count[d] = s.count[d]
      BY <1>1, <1>3, <3>1 DEF Contexts
    <3>6. QED  BY <1>5, <3>2, <3>4, <3>5
  <2>3. CASE ~Restarts(n)
    <3>1. n >= Limit
      BY <1>2, <2>3, SearchAssumption DEF Restarts, Counts
    <3>2. Handle(s, e) = counted
      BY <2>1, <2>3
    <3>3. /\ counted.count[e.channel] = n
          /\ \A d \in Channels : d # e.channel => counted.count[d] = s.count[d]
      BY <1>1, <1>3 DEF Contexts
    <3>4. QED  BY <1>3, <1>5, <3>1, <3>2, <3>3
  <2>4. QED  BY <2>2, <2>3
<1>6. QED  BY <1>4, <1>5

-----------------------------------------------------------------------------
(* The channels.                                                            *)

\* Until main opens the channels nothing happens on them, and the soft blink is wiped
\* only between the two halves of led_pwm_on.
Booting ==
    /\ wiped => main \in {"blue", "red"}
    /\ main # "idle" => pending = <<>> /\ \A c \in Channels : status[c] = "closed"

Opened == TypeOK /\ Booting /\ ClosedIsUsedUp

LEMMA ContextTyped == ASSUME TypeOK PROVE Context \in Contexts
BY DEF TypeOK, Context, Contexts, Statuses, Counts, Leds, Request

\* A handler that finds no queue full leaves the context.
Taken(s) ==
    /\ status' = s.status /\ restart_count' = s.count /\ led' = s.led
    /\ active' = s.active /\ m_req_fifo' = s.fifo

LEMMA ResetStep ==
    ASSUME Restarted
    PROVE  Opened'
<1>1. TypeOK'
  <2>1. /\ active' \in [Timers -> BOOLEAN]
        /\ restart_count' \in [Channels -> (-MaxCount - 1)..MaxCount]
    BY SearchAssumption DEF Restarted
  <2>2. Len(pending') <= MaxPending /\ pending' \in Seq(Event)
    BY SearchAssumption DEF Restarted
  <2>3. /\ m_req_fifo' \in Seq([type : {"start", "stop"}, timer : Timers])
        /\ Len(m_req_fifo') <= OpQueueSize
    BY SearchAssumption DEF Restarted
  <2>4. status' \in [Channels -> {"closed", "searching", "tracking"}] /\ wiped' \in BOOLEAN
    BY DEF Restarted
  <2>5. /\ main' \in {"begin", "blue", "search", "red", "open", "idle"} /\ armed' \subseteq Timers
        /\ led' \in {"off", "search", "flash", "blue"} /\ busy' \in {"none", "events", "requests"}
    BY DEF Restarted
  <2>6. QED  BY <2>1, <2>2, <2>3, <2>4, <2>5 DEF TypeOK
<1>2. QED  BY <1>1 DEF Restarted, Opened, Booting, ClosedIsUsedUp

LEMMA LeaveTyped ==
    ASSUME NEW s \in Contexts, Taken(s), TypeOK,
           main' \in {"begin", "blue", "search", "red", "open", "idle"}, wiped' \in BOOLEAN,
           pending' \in Seq(Event), Len(pending') <= MaxPending,
           busy' \in {"none", "events", "requests"}, armed' \subseteq Timers
    PROVE  TypeOK'
BY DEF TypeOK, Taken, Contexts, Statuses, Counts, Leds, Request

\* A handler that leaves channels and counts alone.
LEMMA ChannelsKept ==
    ASSUME Opened, NEW s \in Contexts, s.status = status, s.count = restart_count, Taken(s),
           UNCHANGED <<pending, busy>>, armed' \subseteq Timers,
           \/ UNCHANGED main /\ wiped' = (wiped \/ main \in {"blue", "red"})
           \/ UNCHANGED boot
           \/ main = "search" /\ main' \in {"red", "open"} /\ UNCHANGED wiped
    PROVE  Opened'
<1>1. UNCHANGED <<status, restart_count, pending, busy>>
  BY DEF Taken
<1>2. main' \in {"begin", "blue", "search", "red", "open", "idle"}
  BY DEF Opened, TypeOK, boot
<1>3. main' = "idle" <=> main = "idle"
  BY DEF boot
<1>4. wiped' \in BOOLEAN
  BY DEF Opened, TypeOK, boot
<1>5. TypeOK'
  BY <1>1, <1>2, <1>4, LeaveTyped DEF Opened, TypeOK
<1>6. wiped' => main' \in {"blue", "red"}
  BY DEF Opened, Booting, boot
<1>7. Booting'
  BY <1>1, <1>3, <1>6 DEF Opened, Booting
<1>8. ClosedIsUsedUp'
  BY <1>1, <1>3 DEF Opened, ClosedIsUsedUp
<1>9. QED  BY <1>5, <1>7, <1>8 DEF Opened

\* The radio: a channel that closes says so.
LEMMA RadioStep ==
    ASSUME Opened, NEW c \in Channels, NEW from \in {"searching", "tracking"},
           NEW to \in Statuses, NEW events \in Seq(Event),
           to = "closed" => \E i \in DOMAIN events : events[i] = Of(c, "EVENT_CHANNEL_CLOSED"),
           Radio(c, from, to, events)
    PROVE  Opened'
<1>1. /\ status[c] = from /\ status' = [status EXCEPT ![c] = to]
      /\ Len(pending) + Len(events) <= MaxPending
      /\ pending' = pending \o events
      /\ UNCHANGED <<boot, restart_count, led, busy, timers>>
  BY DEF Radio
<1>2. pending \in Seq(Event) /\ status \in [Channels -> Statuses]
  BY DEF Opened, TypeOK, Statuses
<1>3. /\ pending' \in Seq(Event) /\ Len(pending') = Len(pending) + Len(events)
      /\ \A i \in 1..Len(pending) : pending'[i] = pending[i]
      /\ \A i \in 1..Len(events) : pending'[Len(pending) + i] = events[i]
  BY <1>1, <1>2, ConcatProperties
<1>4. main = "idle" /\ main' = "idle" /\ UNCHANGED wiped
  BY <1>1 DEF Opened, Booting, boot
<1>5. TypeOK'
  <2>1. status' \in [Channels -> Statuses]
    BY <1>1, <1>2
  <2>2. Len(pending') <= MaxPending
    BY <1>1, <1>3
  <2>3. QED  BY <1>1, <1>3, <1>4, <2>1, <2>2 DEF Opened, TypeOK, Statuses, timers
<1>6. Booting'
  BY <1>4 DEF Opened, Booting
<1>7. ASSUME NEW d \in Channels, status'[d] = "closed"
      PROVE  \/ restart_count'[d] >= Limit
             \/ \E i \in DOMAIN pending' : pending'[i] = [channel |-> d, event |-> "EVENT_CHANNEL_CLOSED"]
  <2>1. CASE d = c
    <3>1. PICK i \in DOMAIN events : events[i] = Of(c, "EVENT_CHANNEL_CLOSED")
      BY <1>1, <1>2, <1>7, <2>1
    <3>2. Len(pending) + i \in DOMAIN pending' /\ pending'[Len(pending) + i] = events[i]
      BY <1>2, <1>3, <3>1
    <3>3. QED  BY <2>1, <3>1, <3>2 DEF Of
  <2>2. CASE d # c
    <3>1. status[d] = "closed" /\ restart_count' = restart_count
      BY <1>1, <1>2, <1>7, <2>2
    <3>2. \/ restart_count[d] >= Limit
          \/ \E i \in DOMAIN pending : pending[i] = [channel |-> d, event |-> "EVENT_CHANNEL_CLOSED"]
      BY <1>4, <3>1 DEF Opened, ClosedIsUsedUp
    <3>3. ASSUME NEW i \in DOMAIN pending  PROVE i \in DOMAIN pending' /\ pending'[i] = pending[i]
      BY <1>2, <1>3
    <3>4. QED  BY <3>1, <3>2, <3>3
  <2>3. QED  BY <2>1, <2>2
<1>8. ClosedIsUsedUp'
  BY <1>7 DEF ClosedIsUsedUp
<1>9. QED  BY <1>5, <1>6, <1>8 DEF Opened

\* The events of a channel are handled one by one: its closing opens it or uses it up.
LEMMA EventTaken ==
    ASSUME Opened, pending # <<>>, Taken(Handle(Context, Head(pending))), pending' = Tail(pending),
           busy' \in {"none", "events"}, UNCHANGED <<boot, armed>>
    PROVE  Opened'
<1> DEFINE e == Head(pending)
           h == Handle(Context, e)
<1>1. /\ pending # <<>> /\ Taken(h) /\ pending' = Tail(pending)
      /\ busy' \in {"none", "events"} /\ UNCHANGED <<boot, armed>>
  OBVIOUS
<1>2. pending \in Seq(Event) /\ Context \in Contexts
  BY ContextTyped DEF Opened, TypeOK
<1>3. /\ e \in Event /\ e = pending[1] /\ pending' \in Seq(Event)
      /\ Len(pending') = Len(pending) - 1 /\ Len(pending) \in Nat
      /\ \A i \in 1..Len(pending') : pending'[i] = pending[i + 1]
  BY <1>1, <1>2, HeadTailProperties
<1>4. main = "idle" /\ main' = "idle" /\ UNCHANGED wiped
  BY <1>1 DEF Opened, Booting, boot
<1>5. /\ h \in Contexts
      /\ e.event # "EVENT_CHANNEL_CLOSED" => h.status = status /\ h.count = restart_count
      /\ e.event = "EVENT_CHANNEL_CLOSED" =>
           /\ \A d \in Channels : d # e.channel => h.status[d] = status[d] /\ h.count[d] = restart_count[d]
           /\ h.status[e.channel] # "closed" \/ h.count[e.channel] >= Limit
  BY <1>2, <1>3, HandleType DEF Context
<1>6. status' = h.status /\ restart_count' = h.count
  BY <1>1 DEF Taken
<1>7. TypeOK'
  <2> HIDE DEF h
  <2>1. Len(pending') <= MaxPending
    <3>1. ASSUME NEW m, NEW n \in Nat, m = n - 1, n <= MaxPending  PROVE m <= MaxPending
      BY <3>1, SearchAssumption
    <3>2. Len(pending) <= MaxPending
      BY DEF Opened, TypeOK
    <3>3. QED  BY <1>3, <3>1, <3>2
  <2>2. QED  BY <1>1, <1>3, <1>4, <1>5, <2>1, LeaveTyped DEF Opened, TypeOK
<1>8. ASSUME NEW d \in Channels, status'[d] = "closed"
      PROVE  \/ restart_count'[d] >= Limit
             \/ \E i \in DOMAIN pending' : pending'[i] = [channel |-> d, event |-> "EVENT_CHANNEL_CLOSED"]
  <2> DEFINE closing == [channel |-> d, event |-> "EVENT_CHANNEL_CLOSED"]
  <2> HIDE DEF h
  <2>1. CASE e = closing
    BY <1>5, <1>6, <1>8, <2>1
  <2>2. CASE e # closing
    <3>1. e.event # "EVENT_CHANNEL_CLOSED" \/ d # e.channel
      BY <1>3, <2>2 DEF Event
    <3>2. status[d] = "closed" /\ restart_count'[d] = restart_count[d]
      BY <1>5, <1>6, <1>8, <3>1
    <3> HIDE DEF closing
    <3>3. restart_count[d] >= Limit \/ \E i \in DOMAIN pending : pending[i] = closing
      BY <1>4, <3>2 DEF Opened, ClosedIsUsedUp, closing
    <3>4. ASSUME NEW i \in DOMAIN pending, pending[i] = closing
          PROVE  i - 1 \in DOMAIN pending' /\ pending'[i - 1] = closing
      <4>1. i \in 1..Len(pending) /\ i # 1
        BY <1>2, <1>3, <2>2, <3>4
      <4>2. i - 1 \in 1..Len(pending')
        BY <1>3, <4>1
      <4>3. pending'[i - 1] = pending[(i - 1) + 1] /\ (i - 1) + 1 = i
        BY <1>3, <4>1, <4>2
      <4>4. QED  BY <1>3, <3>4, <4>2, <4>3
    <3>5. QED  BY <3>2, <3>3, <3>4 DEF closing
  <2>3. QED  BY <2>1, <2>2
<1>9. Booting' /\ ClosedIsUsedUp'
  BY <1>4, <1>8 DEF Opened, Booting, ClosedIsUsedUp
<1>10. QED  BY <1>7, <1>9 DEF Opened

LEMMA EventStep ==
    ASSUME Opened, ChannelEvents
    PROVE  Opened'
<1>1. /\ pending # <<>>
      /\ \/ Restarted
         \/ /\ Taken(Handle(Context, Head(pending))) /\ pending' = Tail(pending)
            /\ busy' \in {"none", "events"} /\ UNCHANGED <<boot, armed>>
  BY DEF ChannelEvents, Leave, Taken
<1>2. QED  BY <1>1, ResetStep, EventTaken

\* The timers' own steps leave the channels alone.
LEMMA ProcessTyped ==
    ASSUME Opened, Process
    PROVE  Opened'
<1> DEFINE r == Head(m_req_fifo)
<1>1. /\ m_req_fifo \in Seq(Request) /\ m_req_fifo # <<>>
      /\ active' = Lib!FlagAfter(active, r) /\ armed' = Lib!ArmedAfter(active, armed, r)
      /\ m_req_fifo' = Tail(m_req_fifo) /\ busy' \in {"none", "requests"}
      /\ UNCHANGED <<boot, status, pending, restart_count, led>>
  BY DEF Opened, TypeOK, Process, Request
<1>2. r \in Request /\ m_req_fifo' \in Seq(Request) /\ Len(m_req_fifo') <= OpQueueSize
  <2>1. /\ Len(m_req_fifo) \in Nat /\ Len(m_req_fifo) <= OpQueueSize
        /\ Len(m_req_fifo') = Len(m_req_fifo) - 1
    BY <1>1, HeadTailProperties DEF Opened, TypeOK
  <2>2. r \in Request /\ m_req_fifo' \in Seq(Request)
    BY <1>1, HeadTailProperties
  <2>3. QED  BY <2>1, <2>2, SearchAssumption
<1>3. active' \in [Timers -> BOOLEAN] /\ armed' \subseteq Timers
  <2> HIDE DEF r
  <2>1. QED  BY <1>1, <1>2 DEF Opened, TypeOK, Lib!FlagAfter, Lib!ArmedAfter, Request
<1>4. TypeOK' /\ Booting' /\ ClosedIsUsedUp'
  <2> HIDE DEF r
  <2>1. QED
    BY <1>1, <1>2, <1>3 DEF Opened, TypeOK, Booting, ClosedIsUsedUp, boot, Request
<1>5. QED  BY <1>4 DEF Opened

LEMMA OpenedStep ==
    ASSUME Opened, [Next]_vars
    PROVE  Opened'
<1>1. Context \in Contexts /\ Context.status = status /\ Context.count = restart_count
  BY ContextTyped DEF Opened, Context
<1>2. start("search") \in Request /\ "search" \in Timers /\ "led" \in Timers
  BY RequestsTyped DEF Timers
<1>3. CASE TestBlue
  BY <1>3 DEF TestBlue, Opened, TypeOK, Booting, ClosedIsUsedUp, timers
<1>4. CASE StartSearch
  <2> DEFINE s == Call(Context, start("search"))
  <2>1. s \in Contexts /\ s.status = status /\ s.count = restart_count
    BY <1>1, <1>2, CallType
  <2>2. /\ main = "search"
        /\ \/ Restarted
           \/ /\ main' \in {"red", "open"} /\ Taken(s)
              /\ UNCHANGED <<wiped, pending, busy, armed>>
    BY <1>4 DEF StartSearch, Leave, Taken
  <2> HIDE DEF s
  <2>3. ~Restarted => armed' \subseteq Timers
    BY <2>2 DEF Opened, TypeOK
  <2>4. QED  BY <2>1, <2>2, <2>3, ChannelsKept, ResetStep
<1>5. CASE Lights
  BY <1>5 DEF Lights, Opened, TypeOK, Booting, ClosedIsUsedUp, timers
<1>6. CASE Reset
  BY <1>6, ResetStep DEF Reset
<1>7. CASE OpenChannels
  BY <1>7 DEF OpenChannels, Opened, TypeOK, Booting, ClosedIsUsedUp, timers
<1>8. ASSUME NEW c \in Channels, Found(c)  PROVE Opened'
  <2>1. Radio(c, "searching", "tracking", <<>>) /\ <<>> \in Seq(Event)
    BY <1>8 DEF Found
  <2>2. QED  BY <2>1, RadioStep DEF Statuses
<1>9. ASSUME NEW c \in Channels, Lost(c)  PROVE Opened'
  <2>1. <<Of(c, "EVENT_RX_FAIL_GO_TO_SEARCH")>> \in Seq(Event)
    BY DEF Of, Event
  <2>2. QED  BY <1>9, <2>1, RadioStep DEF Statuses, Lost
<1>10. ASSUME NEW c \in Channels, GivenUp(c)  PROVE Opened'
  <2> DEFINE events == <<Of(c, "EVENT_RX_SEARCH_TIMEOUT"), Of(c, "EVENT_CHANNEL_CLOSED")>>
  <2>1. Of(c, "EVENT_RX_SEARCH_TIMEOUT") \in Event /\ Of(c, "EVENT_CHANNEL_CLOSED") \in Event
    BY DEF Of, Event
  <2>2. events \in Seq(Event) /\ 2 \in DOMAIN events /\ events[2] = Of(c, "EVENT_CHANNEL_CLOSED")
    BY <2>1
  <2>3. Radio(c, "searching", "closed", events)
    BY <1>10 DEF GivenUp
  <2> HIDE DEF events
  <2>4. QED  BY <2>2, <2>3, RadioStep DEF Statuses
<1>11. ASSUME NEW c \in Channels, Reopen(c)  PROVE Opened'
  <2> DEFINE s == Open(Context, c)
  <2>1. /\ s \in Contexts /\ s.count = restart_count
        /\ s.status = [status EXCEPT ![c] = IF @ = "closed" THEN "searching" ELSE @]
    BY <1>1, OpenType
  <2>2. /\ main = "idle" /\ status' = s.status
        /\ UNCHANGED <<boot, pending, restart_count, led, busy, timers>>
    BY <1>11 DEF Reopen
  <2> HIDE DEF s
  <2>3. TypeOK'
    BY <2>1, <2>2 DEF Opened, TypeOK, boot, timers, Contexts, Statuses
  <2>4. \A d \in Channels : status'[d] = "closed" => status[d] = "closed"
    BY <2>1, <2>2 DEF Opened, TypeOK
  <2>5. Booting' /\ ClosedIsUsedUp'
    BY <2>2, <2>4 DEF Opened, Booting, ClosedIsUsedUp, boot
  <2>6. QED  BY <2>3, <2>5 DEF Opened
<1>12. CASE ChannelEvents
  BY <1>12, EventStep
<1>13. CASE SearchTimeout
  <2> DEFINE s == IF Quiet THEN LedOn(SearchStop(Context), "flash") ELSE Context
  <2>1. s \in Contexts /\ s.status = status /\ s.count = restart_count
    <3>1. /\ SearchStop(Context) \in Contexts /\ SearchStop(Context).status = status
          /\ SearchStop(Context).count = restart_count
      BY <1>1, SearchType
    <3>2. /\ LedOn(SearchStop(Context), "flash") \in Contexts
          /\ LedOn(SearchStop(Context), "flash").status = status
          /\ LedOn(SearchStop(Context), "flash").count = restart_count
      BY <3>1, LedOnType
    <3>3. QED  BY <1>1, <3>2
  <2>2. Restarted \/ (Taken(s) /\ UNCHANGED <<boot, pending, busy, armed>>)
    BY <1>13 DEF SearchTimeout, Leave, Taken
  <2> HIDE DEF s
  <2>3. ~Restarted => armed' \subseteq Timers
    BY <2>2 DEF Opened, TypeOK
  <2>4. QED  BY <2>1, <2>2, <2>3, ChannelsKept, ResetStep
<1>14. CASE LedTimeout
  BY <1>14 DEF LedTimeout, Opened, TypeOK, Booting, ClosedIsUsedUp, Timers
<1>15. ASSUME NEW t \in Timers, Lapse(t)  PROVE Opened'
  BY <1>15 DEF Lapse, Opened, TypeOK, Booting, ClosedIsUsedUp, boot
<1>16. CASE Process
  BY <1>16, ProcessTyped
<1>17. ASSUME NEW shown \in BOOLEAN, KeyFlash(shown)  PROVE Opened'
  <2> DEFINE u == LedOn(Context, "flash")
             s == IF shown THEN LedOff(u) ELSE u
  <2>1. u \in Contexts /\ u.status = status /\ u.count = restart_count
    BY <1>1, LedOnType
  <2>2. s \in Contexts /\ s.status = status /\ s.count = restart_count
    <3> HIDE DEF u
    <3>1. QED  BY <2>1, LedOffType
  <2>3. \/ Restarted
        \/ /\ Taken(s) /\ wiped' = (wiped \/ (shown /\ main \in {"blue", "red"}))
           /\ UNCHANGED <<main, pending, busy, armed>>
    BY <1>17 DEF KeyFlash, Leave, Taken
  <2> HIDE DEF u, s
  <2>4. ~Restarted => armed' \subseteq Timers
    BY <2>3 DEF Opened, TypeOK
  <2>5. CASE shown
    BY <2>2, <2>3, <2>4, <2>5, ChannelsKept, ResetStep
  <2>6. CASE ~shown
    <3>1. ~Restarted => UNCHANGED boot
      BY <2>3, <2>6 DEF boot, Opened, TypeOK
    <3>2. QED  BY <2>2, <2>3, <2>4, <3>1, ChannelsKept, ResetStep
  <2>7. QED  BY <2>5, <2>6
<1>18. CASE UNCHANGED vars
  BY <1>18 DEF vars, timers, boot, Opened, TypeOK, Booting, ClosedIsUsedUp
<1>19. QED
  BY <1>3, <1>4, <1>5, <1>6, <1>7, <1>8, <1>9, <1>10, <1>11, <1>12, <1>13, <1>14, <1>15, <1>16,
     <1>17, <1>18 DEF Next, Main

LEMMA InitOpened == Init => Opened
<1> SUFFICES ASSUME Init  PROVE Opened
  OBVIOUS
<1>1. TypeOK
  <2>1. active \in [Timers -> BOOLEAN] /\ restart_count \in [Channels -> (-MaxCount - 1)..MaxCount]
    BY SearchAssumption DEF Init
  <2>2. Len(pending) <= MaxPending /\ pending \in Seq(Event)
    BY SearchAssumption DEF Init
  <2>3. /\ m_req_fifo \in Seq([type : {"start", "stop"}, timer : Timers])
        /\ Len(m_req_fifo) <= OpQueueSize
    BY SearchAssumption DEF Init
  <2>4. status \in [Channels -> {"closed", "searching", "tracking"}] /\ wiped \in BOOLEAN
    BY DEF Init
  <2>5. /\ main \in {"begin", "blue", "search", "red", "open", "idle"} /\ armed \subseteq Timers
        /\ led \in {"off", "search", "flash", "blue"} /\ busy \in {"none", "events", "requests"}
    BY DEF Init
  <2>6. QED  BY <2>1, <2>2, <2>3, <2>4, <2>5 DEF TypeOK
<1>2. QED  BY <1>1 DEF Init, Opened, Booting, ClosedIsUsedUp

LEMMA AlwaysOpened == SafetySpec => []Opened
<1>1. Init => Opened
  BY InitOpened
<1>2. Opened /\ [Next]_vars => Opened'
  BY OpenedStep
<1>3. QED  BY <1>1, <1>2, PTL DEF SafetySpec

\* A channel is left closed only when its restarts are used up, or the handler is about
\* to open it again: for every limit, also past the wrap of the counter, and however
\* the events of the two channels and the keys that reopen them mix.
THEOREM ClosedMeansSpent == Spec => []ClosedIsUsedUp
<1>1. Opened => ClosedIsUsedUp
  BY DEF Opened
<1>2. QED  BY <1>1, AlwaysOpened, PTL DEF Spec

-----------------------------------------------------------------------------
(* The queue of requests, as one timer sees it.                             *)

Own(q, t) == {i \in DOMAIN q : q[i].timer = t}
EndsInStart(q, t) == \E i \in Own(q, t) : q[i] = start(t) /\ \A j \in Own(q, t) : j <= i
Want(a, q, t) == IF Own(q, t) = {} THEN a[t] = TRUE ELSE EndsInStart(q, t)

LEMMA WantedIsWant ==
    ASSUME TypeOK, NEW t \in Timers
    PROVE  Wanted(t) <=> Want(active, m_req_fifo, t)
<1>1. active[t] \in BOOLEAN
  BY DEF TypeOK
<1>2. CASE Own(m_req_fifo, t) = {}
  BY <1>1, <1>2 DEF Wanted, Want, Own
<1>3. CASE Own(m_req_fifo, t) # {}
  BY <1>3 DEF Wanted, Want, Own, EndsInStart
<1>4. QED  BY <1>2, <1>3

LEMMA QueueAppend ==
    ASSUME NEW q \in Seq(Request), NEW c \in Request, NEW t \in Timers
    PROVE  LET p == Append(q, c) IN
           /\ c.timer # t => /\ Own(p, t) = Own(q, t)
                             /\ EndsInStart(p, t) <=> EndsInStart(q, t)
           /\ c = start(t) => EndsInStart(p, t) /\ Own(p, t) # {}
<1> DEFINE p == Append(q, c)
           n == Len(q) + 1
<1>1. /\ DOMAIN p = 1..n /\ DOMAIN q = 1..Len(q) /\ Len(q) \in Nat /\ p[n] = c
      /\ \A i \in 1..Len(q) : p[i] = q[i]
  BY AppendProperties
<1>2. \A i \in DOMAIN q : i \in DOMAIN p /\ p[i] = q[i] /\ i < n /\ i \in Nat
  BY <1>1
<1>3. \A i \in DOMAIN p : i \in DOMAIN q \/ i = n
  BY <1>1
<1>4. n \in DOMAIN p /\ n \notin DOMAIN q /\ n \in Nat
  BY <1>1
<1> HIDE DEF p, n
<1>5. Own(p, t) = IF c.timer = t THEN Own(q, t) \cup {n} ELSE Own(q, t)
  <2>1. \A i : i \in Own(p, t) <=> i \in Own(q, t) \/ (i = n /\ c.timer = t)
    BY <1>1, <1>2, <1>3, <1>4 DEF Own
  <2>2. QED  BY <2>1
<1>6. \A i \in Own(q, t) : p[i] = q[i] /\ i < n /\ i \in Nat
  BY <1>2 DEF Own
<1>7. start(t).timer = t
  BY RequestsTyped
<1>8. c.timer # t => Own(p, t) = Own(q, t) /\ (EndsInStart(p, t) <=> EndsInStart(q, t))
  BY <1>5, <1>6 DEF EndsInStart
<1>9. ASSUME c = start(t)  PROVE EndsInStart(p, t) /\ Own(p, t) # {}
  <2>1. Own(p, t) = Own(q, t) \cup {n} /\ p[n] = start(t)
    BY <1>1, <1>5, <1>7, <1>9 DEF n
  <2>2. \A j \in Own(p, t) : j <= n
    BY <1>4, <1>6, <2>1
  <2>3. QED  BY <2>1, <2>2 DEF EndsInStart
<1>10. QED  BY <1>8, <1>9 DEF p

LEMMA QueueTail ==
    ASSUME NEW q \in Seq(Request), q # <<>>, NEW t \in Timers
    PROVE  LET p == Tail(q)
               h == Head(q)
           IN
           /\ h.timer # t => /\ Own(p, t) = {} <=> Own(q, t) = {}
                             /\ EndsInStart(p, t) <=> EndsInStart(q, t)
           /\ h = stop(t) => Own(q, t) # {} /\ (EndsInStart(q, t) => EndsInStart(p, t) /\ Own(p, t) # {})
           /\ h = start(t) => Own(p, t) = {} \/ (EndsInStart(q, t) => EndsInStart(p, t))
           /\ h = start(t) => Own(q, t) # {}
<1> DEFINE p == Tail(q)
           h == Head(q)
<1>1. /\ DOMAIN q = 1..Len(q) /\ DOMAIN p = 1..(Len(q) - 1) /\ Len(q) \in Nat /\ Len(q) > 0
      /\ h = q[1] /\ \A i \in 1..(Len(q) - 1) : p[i] = q[i + 1]
  <2>1. Len(p) = Len(q) - 1 /\ p \in Seq(Request)
    BY HeadTailProperties
  <2>2. QED  BY <2>1, HeadTailProperties
<1>2. \A i \in DOMAIN p : i \in Nat /\ i + 1 \in DOMAIN q /\ p[i] = q[i + 1]
  BY <1>1
<1>3. \A i \in DOMAIN q : i = 1 \/ (i - 1 \in DOMAIN p /\ p[i - 1] = q[i] /\ i \in Nat)
  <2> TAKE i \in DOMAIN q
  <2>1. i # 1 => i - 1 \in DOMAIN p /\ i \in Nat /\ (i - 1) + 1 = i
    BY <1>1
  <2>2. QED  BY <1>2, <2>1
<1>4. 1 \in DOMAIN q
  BY <1>1
<1> HIDE DEF p, h
<1>5. \A i \in Own(p, t) : i \in Nat /\ i + 1 \in Own(q, t) /\ p[i] = q[i + 1]
  BY <1>2 DEF Own
<1>6. \A i \in Own(q, t) :
        \/ i = 1 /\ h.timer = t
        \/ i - 1 \in Own(p, t) /\ p[i - 1] = q[i] /\ i \in Nat
  BY <1>1, <1>3 DEF Own
<1>7. h.timer = t => 1 \in Own(q, t)
  BY <1>1, <1>4 DEF Own
<1>8. stop(t).timer = t /\ start(t).timer = t /\ start(t) # stop(t)
  BY RequestsTyped
<1>9. ASSUME EndsInStart(q, t), h # start(t) \/ Own(p, t) # {}
      PROVE  EndsInStart(p, t) /\ Own(p, t) # {}
  <2>1. PICK i \in Own(q, t) : q[i] = start(t) /\ \A j \in Own(q, t) : j <= i
    BY <1>9 DEF EndsInStart
  <2>2. i # 1
    <3>1. CASE h # start(t)
      BY <1>1, <2>1, <3>1
    <3>2. CASE Own(p, t) # {}
      <4>1. PICK k : k \in Own(p, t)
        BY <3>2
      <4>2. k \in Nat /\ k + 1 <= i /\ k \in DOMAIN p
        BY <1>5, <2>1, <4>1 DEF Own
      <4>3. QED  BY <1>1, <4>2
    <3>3. QED  BY <1>9, <3>1, <3>2
  <2>3. i - 1 \in Own(p, t) /\ p[i - 1] = start(t) /\ i \in Nat
    BY <1>6, <2>1, <2>2
  <2>4. \A j \in Own(p, t) : j <= i - 1
    BY <1>5, <2>1, <2>3
  <2>5. QED  BY <2>3, <2>4 DEF EndsInStart
<1>10. EndsInStart(p, t) => EndsInStart(q, t)
  <2> SUFFICES ASSUME EndsInStart(p, t)  PROVE EndsInStart(q, t)
    OBVIOUS
  <2>1. PICK i \in Own(p, t) : p[i] = start(t) /\ \A j \in Own(p, t) : j <= i
    BY DEF EndsInStart
  <2>2. i + 1 \in Own(q, t) /\ q[i + 1] = start(t) /\ i \in Nat
    BY <1>5, <2>1
  <2>3. \A j \in Own(q, t) : j <= i + 1
    <3> TAKE j \in Own(q, t)
    <3>1. CASE j = 1
      BY <2>2, <3>1
    <3>2. CASE j # 1
      BY <1>6, <2>1, <2>2, <3>2
    <3>3. QED  BY <3>1, <3>2
  <2>4. QED  BY <2>2, <2>3 DEF EndsInStart
<1>11. h.timer # t => (Own(p, t) = {} <=> Own(q, t) = {})
  BY <1>5, <1>6
<1>12. h.timer # t => h # start(t)
  BY <1>8
<1>13. QED  BY <1>7, <1>8, <1>9, <1>10, <1>11, <1>12 DEF p, h

-----------------------------------------------------------------------------
(* The two timers: flags a, queue q, who has the LED d, list l.             *)

\* A timer of which requests are queued has its flag clear, as long as none has been
\* carried out: a start of it would have been ignored otherwise, and a stop clears it.
Final(a, q) == \A t \in Timers : Own(q, t) # {} => a[t] = FALSE

\* The LED's own timer is never stopped, and a flash has it running or about to.
FlashFit(a, q, d, l) ==
    /\ \A i \in DOMAIN q : q[i] # stop("led")
    /\ a["led"] = TRUE => "led" \in l
    /\ d = "flash" => a["led"] = TRUE \/ \E i \in DOMAIN q : q[i] = start("led")

SearchFit(a, q, d) == d = "search" => Want(a, q, "search")

Fit(a, q, d, l) == Final(a, q) /\ FlashFit(a, q, d, l) /\ SearchFit(a, q, d)

LEMMA CallSearchStart ==
    ASSUME NEW s \in Contexts, NEW l, Fit(s.active, s.fifo, s.led, l)
    PROVE  LET u == Call(s, start("search")) IN
           u.full = FALSE => /\ Fit(u.active, u.fifo, u.led, l)
                             /\ Want(u.active, u.fifo, "search")
<1> DEFINE c == start("search")
           u == Call(s, c)
<1> SUFFICES ASSUME u.full = FALSE
             PROVE  Fit(u.active, u.fifo, u.led, l) /\ Want(u.active, u.fifo, "search")
  OBVIOUS
<1>1. /\ "search" \in Timers /\ "led" \in Timers /\ c \in Request /\ c.timer = "search"
      /\ c.type = "start" /\ c # stop("led") /\ c # start("led")
  BY RequestsTyped DEF Timers
<1>2. s.fifo \in Seq(Request) /\ s.active \in [Timers -> BOOLEAN]
  BY DEF Contexts
<1>3. /\ u.led = s.led
      /\ Lib!Ignored(s.active, c) => u = s
      /\ ~Lib!Ignored(s.active, c) =>
           u.fifo = Append(s.fifo, c) /\ u.active = Lib!FlagAfterCall(s.active, c)
  BY <1>1, CallType
<1>4. CASE Lib!Ignored(s.active, c)
  <2>1. s.active["search"] = TRUE /\ u = s
    BY <1>1, <1>2, <1>3, <1>4 DEF Lib!Ignored
  <2>2. Own(s.fifo, "search") = {}
    BY <1>1, <2>1 DEF Fit, Final
  <2>3. Want(s.active, s.fifo, "search")
    BY <2>1, <2>2 DEF Want
  <2> HIDE DEF u
  <2>4. QED  BY <2>1, <2>3
<1>5. CASE ~Lib!Ignored(s.active, c)
  <2>1. u.fifo = Append(s.fifo, c) /\ u.active = s.active /\ s.active["search"] = FALSE
    BY <1>1, <1>2, <1>3, <1>5 DEF Lib!Ignored, Lib!FlagAfterCall
  <2> HIDE DEF u, c
  <2>2. EndsInStart(u.fifo, "search") /\ Own(u.fifo, "search") # {}
    BY <1>1, <1>2, <2>1, QueueAppend DEF c
  <2>3. Own(u.fifo, "led") = Own(s.fifo, "led")
    BY <1>1, <1>2, <2>1, QueueAppend
  <2>4. Final(u.active, u.fifo)
    BY <2>1, <2>3 DEF Fit, Final, Timers
  <2>5. FlashFit(u.active, u.fifo, u.led, l)
    <3>1. /\ DOMAIN u.fifo = 1..(Len(s.fifo) + 1) /\ DOMAIN s.fifo = 1..Len(s.fifo) /\ Len(s.fifo) \in Nat
          /\ u.fifo[Len(s.fifo) + 1] = c /\ \A i \in 1..Len(s.fifo) : u.fifo[i] = s.fifo[i]
      BY <1>1, <1>2, <2>1, AppendProperties
    <3>2. \A i \in DOMAIN u.fifo : (i \in DOMAIN s.fifo /\ u.fifo[i] = s.fifo[i]) \/ u.fifo[i] = c
      BY <3>1
    <3>3. \A i \in DOMAIN s.fifo : i \in DOMAIN u.fifo /\ u.fifo[i] = s.fifo[i]
      BY <3>1
    <3>4. QED  BY <1>1, <1>3, <2>1, <3>2, <3>3 DEF Fit, FlashFit
  <2>6. Want(u.active, u.fifo, "search")
    BY <2>2 DEF Want
  <2>7. QED  BY <2>4, <2>5, <2>6 DEF Fit, SearchFit
<1>6. QED  BY <1>4, <1>5

LEMMA CallSearchStop ==
    ASSUME NEW s \in Contexts, NEW l, Fit(s.active, s.fifo, s.led, l), s.led # "search"
    PROVE  LET u == Call(s, stop("search")) IN
           u.full = FALSE => Fit(u.active, u.fifo, u.led, l)
<1> DEFINE c == stop("search")
           u == Call(s, c)
<1> SUFFICES ASSUME u.full = FALSE
             PROVE  Fit(u.active, u.fifo, u.led, l)
  OBVIOUS
<1>1. /\ "search" \in Timers /\ "led" \in Timers /\ c \in Request /\ c.timer = "search"
      /\ c.type = "stop" /\ c # stop("led") /\ c # start("led")
  BY RequestsTyped DEF Timers, stop, Asked
<1>2. s.fifo \in Seq(Request) /\ s.active \in [Timers -> BOOLEAN]
  BY DEF Contexts
<1>3. ~Lib!Ignored(s.active, c)
  BY <1>1 DEF Lib!Ignored
<1>4. u.led = s.led /\ u.fifo = Append(s.fifo, c) /\ u.active = Lib!FlagAfterCall(s.active, c)
  BY <1>1, <1>3, CallType
<1>5. u.active = [s.active EXCEPT !["search"] = FALSE]
  BY <1>1, <1>4 DEF Lib!FlagAfterCall
<1> HIDE DEF u, c
<1>6. Own(u.fifo, "led") = Own(s.fifo, "led")
  BY <1>1, <1>2, <1>4, QueueAppend
<1>7. u.active["search"] = FALSE /\ u.active["led"] = s.active["led"]
  BY <1>1, <1>2, <1>5
<1>8. Final(u.active, u.fifo)
  BY <1>6, <1>7 DEF Fit, Final, Timers
<1>9. FlashFit(u.active, u.fifo, u.led, l)
  <2>1. /\ DOMAIN u.fifo = 1..(Len(s.fifo) + 1) /\ DOMAIN s.fifo = 1..Len(s.fifo) /\ Len(s.fifo) \in Nat
        /\ u.fifo[Len(s.fifo) + 1] = c /\ \A i \in 1..Len(s.fifo) : u.fifo[i] = s.fifo[i]
    BY <1>1, <1>2, <1>4, AppendProperties
  <2>2. \A i \in DOMAIN u.fifo : (i \in DOMAIN s.fifo /\ u.fifo[i] = s.fifo[i]) \/ u.fifo[i] = c
    BY <2>1
  <2>3. \A i \in DOMAIN s.fifo : i \in DOMAIN u.fifo /\ u.fifo[i] = s.fifo[i]
    BY <2>1
  <2>4. QED  BY <1>1, <1>4, <1>7, <2>2, <2>3 DEF Fit, FlashFit
<1>10. QED  BY <1>4, <1>8, <1>9 DEF Fit, SearchFit

LEMMA CallLedStart ==
    ASSUME NEW s \in Contexts, NEW l, Fit(s.active, s.fifo, s.led, l), s.led = "off"
    PROVE  LET u == Call(s, start("led")) IN
           u.full = FALSE => /\ Fit(u.active, u.fifo, "flash", l)
                             /\ Want(u.active, u.fifo, "search") <=> Want(s.active, s.fifo, "search")
<1> DEFINE c == start("led")
           u == Call(s, c)
<1> SUFFICES ASSUME u.full = FALSE
             PROVE  /\ Fit(u.active, u.fifo, "flash", l)
                    /\ Want(u.active, u.fifo, "search") <=> Want(s.active, s.fifo, "search")
  OBVIOUS
<1>1. /\ "search" \in Timers /\ "led" \in Timers /\ c \in Request /\ c.timer = "led"
      /\ c.type = "start" /\ c # stop("led") /\ "search" # "led"
  BY RequestsTyped DEF Timers
<1>2. s.fifo \in Seq(Request) /\ s.active \in [Timers -> BOOLEAN]
  BY DEF Contexts
<1>3. /\ Lib!Ignored(s.active, c) => u = s
      /\ ~Lib!Ignored(s.active, c) =>
           u.fifo = Append(s.fifo, c) /\ u.active = Lib!FlagAfterCall(s.active, c)
  BY <1>1, CallType
<1>4. CASE Lib!Ignored(s.active, c)
  <2>1. s.active["led"] = TRUE /\ u = s
    BY <1>1, <1>2, <1>3, <1>4 DEF Lib!Ignored
  <2> HIDE DEF u
  <2>2. QED  BY <2>1 DEF Fit, FlashFit, SearchFit
<1>5. CASE ~Lib!Ignored(s.active, c)
  <2>1. u.fifo = Append(s.fifo, c) /\ u.active = s.active /\ s.active["led"] = FALSE
    BY <1>1, <1>2, <1>3, <1>5 DEF Lib!Ignored, Lib!FlagAfterCall
  <2> HIDE DEF u, c
  <2>2. /\ Own(u.fifo, "search") = Own(s.fifo, "search")
        /\ EndsInStart(u.fifo, "search") <=> EndsInStart(s.fifo, "search")
    BY <1>1, <1>2, <2>1, QueueAppend
  <2>3. Final(u.active, u.fifo)
    BY <2>1, <2>2 DEF Fit, Final, Timers
  <2>4. /\ DOMAIN u.fifo = 1..(Len(s.fifo) + 1) /\ DOMAIN s.fifo = 1..Len(s.fifo) /\ Len(s.fifo) \in Nat
        /\ u.fifo[Len(s.fifo) + 1] = c /\ \A i \in 1..Len(s.fifo) : u.fifo[i] = s.fifo[i]
    BY <1>1, <1>2, <2>1, AppendProperties
  <2>5. \A i \in DOMAIN u.fifo : (i \in DOMAIN s.fifo /\ u.fifo[i] = s.fifo[i]) \/ u.fifo[i] = c
    BY <2>4
  <2>6. \E i \in DOMAIN u.fifo : u.fifo[i] = start("led")
    BY <2>4 DEF c
  <2>7. FlashFit(u.active, u.fifo, "flash", l)
    BY <1>1, <2>1, <2>5, <2>6 DEF Fit, FlashFit
  <2>8. QED  BY <2>1, <2>2, <2>3, <2>7 DEF Fit, SearchFit, Want
<1>6. QED  BY <1>4, <1>5

LEMMA LedOnFit ==
    ASSUME NEW s \in Contexts, NEW l, Fit(s.active, s.fifo, s.led, l),
           NEW what \in {"search", "flash"}, what = "search" => Want(s.active, s.fifo, "search")
    PROVE  LET u == LedOn(s, what) IN
           u.full = FALSE => /\ Fit(u.active, u.fifo, u.led, l)
                             /\ Want(u.active, u.fifo, "search") <=> Want(s.active, s.fifo, "search")
<1>1. CASE s.led # "off"
  BY <1>1 DEF LedOn
<1>2. CASE s.led = "off" /\ what = "search"
  <2>1. LedOn(s, what) = [s EXCEPT !.led = "search"]
    BY <1>2 DEF LedOn
  <2>2. /\ LedOn(s, what).active = s.active /\ LedOn(s, what).fifo = s.fifo
        /\ LedOn(s, what).led = "search"
    BY <2>1 DEF Contexts
  <2>3. Fit(s.active, s.fifo, "search", l)
    BY <1>2 DEF Fit, FlashFit, SearchFit
  <2>4. QED  BY <2>2, <2>3
<1>3. CASE s.led = "off" /\ what = "flash"
  <2> DEFINE u == Call(s, start("led"))
  <2>1. u \in Contexts
    BY CallType, RequestsTyped DEF Timers
  <2>2. LedOn(s, what) = [u EXCEPT !.led = "flash"]
    BY <1>3 DEF LedOn
  <2>3. /\ LedOn(s, what).active = u.active /\ LedOn(s, what).fifo = u.fifo
        /\ LedOn(s, what).led = "flash" /\ LedOn(s, what).full = u.full
    <3> HIDE DEF u
    <3>1. QED  BY <2>1, <2>2 DEF Contexts
  <2>4. u.full = FALSE => /\ Fit(u.active, u.fifo, "flash", l)
                          /\ Want(u.active, u.fifo, "search") <=> Want(s.active, s.fifo, "search")
    BY <1>3, CallLedStart
  <2> HIDE DEF u
  <2>5. QED  BY <2>3, <2>4
<1>4. QED  BY <1>1, <1>2, <1>3

LEMMA LedOffFit ==
    ASSUME NEW s \in Contexts, NEW l, Fit(s.active, s.fifo, s.led, l)
    PROVE  Fit(LedOff(s).active, LedOff(s).fifo, LedOff(s).led, l)
<1>1. LedOff(s).active = s.active /\ LedOff(s).fifo = s.fifo /\ LedOff(s).led = "off"
  BY LedOffType
<1>2. Fit(s.active, s.fifo, "off", l)
  BY DEF Fit, FlashFit, SearchFit
<1>3. QED  BY <1>1, <1>2

LEMMA SearchStartFit ==
    ASSUME NEW s \in Contexts, NEW l, Fit(s.active, s.fifo, s.led, l)
    PROVE  LET u == SearchStart(s) IN
           u.full = FALSE => Fit(u.active, u.fifo, u.led, l) /\ Want(u.active, u.fifo, "search")
<1> DEFINE v == Call(s, start("search"))
<1>1. v \in Contexts /\ start("search") \in Request
  BY CallType, RequestsTyped DEF Timers
<1>2. v.full = FALSE => Fit(v.active, v.fifo, v.led, l) /\ Want(v.active, v.fifo, "search")
  BY CallSearchStart
<1>3. SearchStart(s) = LedOn(v, "search")
  BY DEF SearchStart
<1> HIDE DEF v
<1>4. LedOn(v, "search").full = FALSE => v.full = FALSE
  BY <1>1, LedOnType
<1>5. QED  BY <1>1, <1>2, <1>3, <1>4, LedOnFit

LEMMA SearchStopFit ==
    ASSUME NEW s \in Contexts, NEW l, Fit(s.active, s.fifo, s.led, l)
    PROVE  LET u == SearchStop(s) IN
           u.full = FALSE => Fit(u.active, u.fifo, u.led, l)
<1> DEFINE v == LedOff(s)
<1>1. v \in Contexts /\ v.led = "off" /\ Fit(v.active, v.fifo, v.led, l)
  BY LedOffType, LedOffFit
<1>2. SearchStop(s) = Call(v, stop("search"))
  BY DEF SearchStop
<1> HIDE DEF v
<1>3. QED  BY <1>1, <1>2, CallSearchStop

\* After the event of a channel that stays in search the timer is wanted, unless the
\* event was the closing of a channel whose restarts are used up.
LEMMA HandleFit ==
    ASSUME NEW s \in Contexts, NEW e \in Event, NEW l, Fit(s.active, s.fifo, s.led, l)
    PROVE  LET u == Handle(s, e) IN
           u.full = FALSE =>
             /\ Fit(u.active, u.fifo, u.led, l)
             /\ \/ e.event = "EVENT_RX_SEARCH_TIMEOUT"
                \/ Want(u.active, u.fifo, "search")
                \/ u.count[e.channel] >= Limit
<1> DEFINE n == Incremented(s.count[e.channel])
           counted == [s EXCEPT !.count[e.channel] = n]
<1>1. e.channel \in Channels /\ e.event \in {"EVENT_RX_SEARCH_TIMEOUT", "EVENT_CHANNEL_CLOSED",
                                             "EVENT_RX_FAIL_GO_TO_SEARCH"}
  BY DEF Event
<1>2. CASE e.event = "EVENT_RX_SEARCH_TIMEOUT"
  <2>1. Handle(s, e) = SearchStop(s)
    BY <1>2 DEF Handle
  <2>2. QED  BY <1>2, <2>1, SearchStopFit
<1>3. CASE e.event = "EVENT_RX_FAIL_GO_TO_SEARCH"
  <2>1. Handle(s, e) = SearchStart(s)
    BY <1>3 DEF Handle
  <2>2. QED  BY <1>3, <2>1, SearchStartFit
<1>4. CASE e.event = "EVENT_CHANNEL_CLOSED"
  <2>1. n \in Counts
    <3>1. s.count[e.channel] \in Counts
      BY <1>1 DEF Contexts
    <3>2. QED  BY <3>1, IncrementedType
  <2>2. Handle(s, e) = IF Restarts(n) THEN SearchStart(Open(counted, e.channel)) ELSE counted
    BY <1>4 DEF Handle
  <2> HIDE DEF n
  <2>3. /\ counted \in Contexts /\ counted.active = s.active /\ counted.fifo = s.fifo
        /\ counted.led = s.led /\ counted.count[e.channel] = n
    BY <1>1, <2>1 DEF Contexts
  <2> HIDE DEF counted
  <2>4. CASE Restarts(n)
    <3> DEFINE o == Open(counted, e.channel)
    <3>1. o \in Contexts /\ o.active = s.active /\ o.fifo = s.fifo /\ o.led = s.led
      BY <1>1, <2>3, OpenType
    <3>2. Handle(s, e) = SearchStart(o)
      BY <2>2, <2>4
    <3> HIDE DEF o
    <3>3. Fit(o.active, o.fifo, o.led, l)
      BY <3>1
    <3>4. QED  BY <3>1, <3>2, <3>3, SearchStartFit
  <2>5. CASE ~Restarts(n)
    <3>1. n >= Limit
      BY <2>1, <2>5, SearchAssumption DEF Restarts, Counts
    <3>2. Handle(s, e) = counted
      BY <2>2, <2>5
    <3>3. QED  BY <2>3, <3>1, <3>2
  <2>6. QED  BY <2>4, <2>5
<1>5. QED  BY <1>1, <1>2, <1>3, <1>4

-----------------------------------------------------------------------------
(* The invariant.                                                           *)

\* main lights the LED for the search only once it wants the search timer; a batch of
\* channel events does not end in a search given up, whose closing follows it.
Watched ==
    /\ Opened
    /\ busy # "requests" => Final(active, m_req_fifo)
    /\ FlashFit(active, m_req_fifo, led, armed)
    /\ SearchFit(active, m_req_fifo, led)
    /\ main \in {"red", "open"} => Want(active, m_req_fifo, "search")
    /\ pending # <<>> => pending[Len(pending)].event # "EVENT_RX_SEARCH_TIMEOUT"
    /\ UnseenSearchIsSpent

LEMMA WatchedFits ==
    ASSUME Watched
    PROVE  /\ busy # "requests" => Fit(active, m_req_fifo, led, armed)
           /\ Wanted("search") <=> Want(active, m_req_fifo, "search")
BY WantedIsWant DEF Watched, Opened, Fit, Timers

LEMMA ResetWatched ==
    ASSUME Restarted
    PROVE  Watched'
<1>1. Opened'
  BY ResetStep
<1>2. /\ main' = "begin" /\ pending' = <<>> /\ led' = "off" /\ m_req_fifo' = <<>>
      /\ active' = [t \in Timers |-> FALSE] /\ "led" \in Timers
  BY DEF Restarted, Timers
<1>3. DOMAIN m_req_fifo' = {}
  BY <1>2
<1>4. \A t \in Timers : Own(m_req_fifo', t) = {}
  BY <1>3 DEF Own
<1>5. active'["led"] = FALSE
  BY <1>2
<1>6. FlashFit(active', m_req_fifo', led', armed')
  BY <1>2, <1>3, <1>5 DEF FlashFit
<1>7. UnseenSearchIsSpent'
  BY <1>2 DEF UnseenSearchIsSpent
<1>8. QED  BY <1>1, <1>2, <1>4, <1>6, <1>7 DEF Watched, Final, SearchFit

LEMMA WantedIsWantNext ==
    ASSUME TypeOK', NEW t \in Timers
    PROVE  Wanted(t)' <=> Want(active', m_req_fifo', t)
<1>1. active'[t] \in BOOLEAN
  BY DEF TypeOK
<1>2. CASE Own(m_req_fifo', t) = {}
  BY <1>1, <1>2 DEF Wanted, Want, Own
<1>3. CASE Own(m_req_fifo', t) # {}
  BY <1>3 DEF Wanted, Want, Own, EndsInStart
<1>4. QED  BY <1>2, <1>3

\* A handler that leaves the channels and their events alone.
LEMMA LeaveWatched ==
    ASSUME Watched, Opened', NEW s \in Contexts, Taken(s), s.status = status, s.count = restart_count,
           UNCHANGED <<pending, busy, armed>>, main' = "idle" => main = "idle",
           Fit(s.active, s.fifo, s.led, armed),
           \/ Want(active, m_req_fifo, "search") => Want(s.active, s.fifo, "search")
           \/ main = "idle" /\ main' = "idle" /\ Quiet,
           main' \in {"red", "open"} => main \in {"red", "open"} \/ Want(s.active, s.fifo, "search")
    PROVE  Watched'
<1>1. /\ active' = s.active /\ m_req_fifo' = s.fifo /\ led' = s.led /\ status' = status
      /\ restart_count' = restart_count /\ pending' = pending /\ armed' = armed
  BY DEF Taken
<1>2. Wanted("search")' <=> Want(active', m_req_fifo', "search")
  BY WantedIsWantNext DEF Opened, Timers
<1>3. Wanted("search") <=> Want(active, m_req_fifo, "search")
  BY WatchedFits
<1>4. UnseenSearchIsSpent'
  <2> SUFFICES ASSUME main' = "idle", pending' = <<>>, NEW c \in Channels, status'[c] = "searching",
                      ~Want(active', m_req_fifo', "search")
               PROVE  \E d \in Channels : restart_count'[d] >= Limit
    BY <1>2 DEF UnseenSearchIsSpent
  <2>1. ~Quiet
    BY <1>1 DEF Quiet
  <2>2. ~Wanted("search")
    BY <1>1, <1>3, <2>1
  <2>3. \E d \in Channels : restart_count[d] >= Limit
    BY <1>1, <2>2 DEF Watched, UnseenSearchIsSpent
  <2>4. QED  BY <1>1, <2>3
<1>5. main' \in {"red", "open"} => Want(active', m_req_fifo', "search")
  BY <1>1 DEF Watched
<1>6. QED  BY <1>1, <1>4, <1>5 DEF Watched, Fit

LEMMA EventTakenWatched ==
    ASSUME Watched, Opened', pending # <<>>, busy # "requests",
           NEW h \in Contexts, h = Handle(Context, Head(pending)), h.full = FALSE, Taken(h),
           pending' = Tail(pending), UNCHANGED <<boot, armed>>
    PROVE  Watched'
<1> DEFINE e == Head(pending)
<1>1. pending \in Seq(Event) /\ Context \in Contexts /\ main = "idle" /\ main' = "idle"
  BY ContextTyped DEF Watched, Opened, TypeOK, Booting, boot
<1>2. /\ e \in Event /\ e = pending[1] /\ Len(pending) \in Nat /\ Len(pending) > 0
      /\ Len(pending') = Len(pending) - 1
      /\ \A i \in 1..Len(pending') : pending'[i] = pending[i + 1]
      /\ pending' = <<>> <=> Len(pending') = 0
  <2>1. /\ e \in Event /\ e = pending[1] /\ Len(pending) \in Nat /\ Len(pending) > 0
        /\ Len(pending') = Len(pending) - 1 /\ pending' \in Seq(Event)
        /\ \A i \in 1..Len(pending') : pending'[i] = pending[i + 1]
    BY <1>1, HeadTailProperties
  <2>2. pending' = <<>> <=> Len(pending') = 0
    BY <2>1, EmptySeq
  <2>3. QED  BY <2>1, <2>2
<1>3. Fit(Context.active, Context.fifo, Context.led, armed)
  BY WatchedFits DEF Context
<1>4. /\ Fit(h.active, h.fifo, h.led, armed)
      /\ \/ e.event = "EVENT_RX_SEARCH_TIMEOUT"
         \/ Want(h.active, h.fifo, "search")
         \/ h.count[e.channel] >= Limit
  BY <1>1, <1>2, <1>3, HandleFit
<1>5. /\ active' = h.active /\ m_req_fifo' = h.fifo /\ led' = h.led /\ restart_count' = h.count
      /\ armed' = armed
  BY DEF Taken
<1>6. pending' # <<>> => pending'[Len(pending')].event # "EVENT_RX_SEARCH_TIMEOUT"
  <2> SUFFICES ASSUME pending' # <<>>  PROVE pending'[Len(pending')] = pending[Len(pending)]
    BY DEF Watched
  <2>1. Len(pending') \in 1..Len(pending') /\ Len(pending') + 1 = Len(pending)
    BY <1>2
  <2>2. QED  BY <1>2, <2>1
<1>7. Wanted("search")' <=> Want(active', m_req_fifo', "search")
  BY WantedIsWantNext DEF Opened, Timers
<1>8. UnseenSearchIsSpent'
  <2>1. ASSUME pending' = <<>>
        PROVE  Want(h.active, h.fifo, "search") \/ h.count[e.channel] >= Limit
    <3>1. Len(pending) = 1
      BY <1>2, <2>1
    <3>2. e.event # "EVENT_RX_SEARCH_TIMEOUT"
      BY <1>2, <3>1 DEF Watched
    <3>3. QED  BY <1>4, <3>2
  <2>2. e.channel \in Channels
    BY <1>2 DEF Event
  <2>3. QED  BY <1>5, <1>7, <2>1, <2>2 DEF UnseenSearchIsSpent
<1>9. QED  BY <1>1, <1>4, <1>5, <1>6, <1>8 DEF Watched, Fit

LEMMA EventWatched ==
    ASSUME Watched, Opened', ChannelEvents
    PROVE  Watched'
<1> DEFINE h == Handle(Context, Head(pending))
<1>1. pending # <<>> /\ busy # "requests"
      /\ (h.full => Restarted)
      /\ (~h.full => /\ Taken(h) /\ pending' = Tail(pending) /\ UNCHANGED <<boot, armed>>)
  BY DEF ChannelEvents, Leave, Taken
<1>2. h \in Contexts
  <2>1. pending \in Seq(Event) /\ Context \in Contexts
    BY ContextTyped DEF Watched, Opened, TypeOK
  <2>2. Head(pending) \in Event
    BY <1>1, <2>1, HeadTailProperties
  <2>3. QED  BY <2>1, <2>2, HandleType
<1> HIDE DEF h
<1>3. h.full \in BOOLEAN
  BY <1>2 DEF Contexts
<1>4. CASE h.full = TRUE
  BY <1>1, <1>4, ResetWatched
<1>5. CASE h.full = FALSE
  BY <1>1, <1>2, <1>5, EventTakenWatched DEF h
<1>6. QED  BY <1>3, <1>4, <1>5

LEMMA ProcessWatched ==
    ASSUME Watched, Opened', Process
    PROVE  Watched'
<1> DEFINE q == m_req_fifo
           r == Head(m_req_fifo)
<1>1. /\ q \in Seq(Request) /\ q # <<>>
      /\ active' = Lib!FlagAfter(active, r) /\ armed' = Lib!ArmedAfter(active, armed, r)
      /\ m_req_fifo' = Tail(q) /\ busy' = (IF Tail(q) = <<>> THEN "none" ELSE "requests")
      /\ UNCHANGED <<boot, status, pending, restart_count, led>>
  BY DEF Watched, Opened, TypeOK, Process, Request
<1>2. /\ r \in Request /\ r = q[1] /\ Len(q) \in Nat /\ Len(q) > 0
      /\ DOMAIN Tail(q) = 1..(Len(q) - 1) /\ DOMAIN q = 1..Len(q)
      /\ \A i \in 1..(Len(q) - 1) : Tail(q)[i] = q[i + 1]
  <2>1. Len(Tail(q)) = Len(q) - 1 /\ Tail(q) \in Seq(Request)
    BY <1>1, HeadTailProperties
  <2>2. QED  BY <1>1, <2>1, HeadTailProperties
<1>3. active \in [Timers -> BOOLEAN] /\ "search" \in Timers /\ "led" \in Timers /\ "search" # "led"
  BY DEF Watched, Opened, TypeOK, Timers
<1>4. r.timer \in Timers /\ r.type \in {"start", "stop"} /\ r = Asked(r.type, r.timer)
  BY <1>2 DEF Request, Asked
<1>5. busy' # "requests" => Final(active', m_req_fifo')
  <2> SUFFICES ASSUME Tail(q) = <<>>  PROVE Final(active', m_req_fifo')
    BY <1>1
  <2>1. DOMAIN m_req_fifo' = {}
    BY <1>1
  <2>2. QED  BY <2>1 DEF Final, Own
<1>6. FlashFit(active', m_req_fifo', led', armed')
  <2>1. \A i \in DOMAIN m_req_fifo' : i + 1 \in DOMAIN q /\ m_req_fifo'[i] = q[i + 1]
    BY <1>1, <1>2
  <2>2. 1 \in DOMAIN q
    BY <1>2
  <2>3. \A i \in DOMAIN q : i = 1 \/ (i - 1 \in DOMAIN m_req_fifo' /\ m_req_fifo'[i - 1] = q[i])
    <3> TAKE i \in DOMAIN q
    <3>1. i # 1 => i - 1 \in 1..(Len(q) - 1) /\ (i - 1) + 1 = i
      BY <1>2
    <3>2. QED  BY <1>1, <1>2, <3>1
  <2>4. r # stop("led")
    BY <1>2, <2>2 DEF Watched, FlashFit
  <2>5. r.timer = "led" => r.type = "start"
    BY <1>4, <2>4 DEF stop
  <2> HIDE DEF r
  <2>6. active'["led"] = TRUE => "led" \in armed'
    BY <1>1, <1>3, <1>4, <2>5 DEF Watched, FlashFit, Lib!FlagAfter, Lib!ArmedAfter
  <2>7. led' = "flash" => active'["led"] = TRUE \/ \E i \in DOMAIN m_req_fifo' : m_req_fifo'[i] = start("led")
    <3> SUFFICES ASSUME led = "flash"
                 PROVE  active'["led"] = TRUE \/ \E i \in DOMAIN m_req_fifo' : m_req_fifo'[i] = start("led")
      BY <1>1
    <3>1. CASE active["led"] = TRUE
      BY <1>1, <1>3, <1>4, <3>1 DEF Lib!FlagAfter
    <3>2. CASE \E i \in DOMAIN q : q[i] = start("led")
      <4>1. PICK i \in DOMAIN q : q[i] = start("led")
        BY <3>2
      <4>2. CASE i = 1
        <5>1. r.timer = "led" /\ r.type = "start"
          BY <1>2, <4>1, <4>2, RequestsTyped, <1>3
        <5>2. QED  BY <1>1, <1>3, <5>1 DEF Lib!FlagAfter
      <4>3. CASE i # 1
        BY <2>3, <4>1, <4>3
      <4>4. QED  BY <4>2, <4>3
    <3>3. QED  BY <3>1, <3>2 DEF Watched, FlashFit
  <2>8. \A i \in DOMAIN m_req_fifo' : m_req_fifo'[i] # stop("led")
    BY <2>1 DEF Watched, FlashFit
  <2>9. QED  BY <2>6, <2>7, <2>8 DEF FlashFit
<1>7. Want(active, q, "search") => Want(active', m_req_fifo', "search")
  <2> DEFINE p == Tail(q)
  <2> SUFFICES ASSUME Want(active, q, "search")  PROVE Want(active', p, "search")
    BY <1>1
  <2>1. CASE r.timer # "search"
    <3>1. active'["search"] = active["search"]
      BY <1>1, <1>3, <1>4, <2>1 DEF Lib!FlagAfter
    <3>2. (Own(p, "search") = {} <=> Own(q, "search") = {})
          /\ (EndsInStart(p, "search") <=> EndsInStart(q, "search"))
      BY <1>1, <1>3, <2>1, QueueTail
    <3>3. QED  BY <3>1, <3>2 DEF Want
  <2>2. CASE r = stop("search")
    <3>1. Own(q, "search") # {} /\ (EndsInStart(q, "search") => EndsInStart(p, "search") /\ Own(p, "search") # {})
      BY <1>1, <1>3, <2>2, QueueTail
    <3>2. QED  BY <3>1 DEF Want
  <2>3. CASE r = start("search")
    <3>1. /\ Own(q, "search") # {}
          /\ Own(p, "search") = {} \/ (EndsInStart(q, "search") => EndsInStart(p, "search"))
      BY <1>1, <1>3, <2>3, QueueTail
    <3>2. r.type = "start" /\ r.timer = "search"
      BY <1>3, <2>3, RequestsTyped
    <3> HIDE DEF r
    <3>3. active'["search"] = TRUE
      BY <1>1, <1>3, <3>2 DEF Lib!FlagAfter
    <3>4. QED  BY <3>1, <3>3 DEF Want
  <2>4. QED  BY <1>4, <2>1, <2>2, <2>3 DEF start, stop
<1>8. UnseenSearchIsSpent'
  <2>1. Wanted("search")' <=> Want(active', m_req_fifo', "search")
    BY WantedIsWantNext DEF Opened, Timers
  <2>2. Wanted("search") <=> Want(active, m_req_fifo, "search")
    BY WatchedFits
  <2>3. QED  BY <1>1, <1>7, <2>1, <2>2 DEF Watched, UnseenSearchIsSpent, boot
<1>9. QED  BY <1>1, <1>5, <1>6, <1>7, <1>8 DEF Watched, SearchFit, boot

LEMMA RadioWatched ==
    ASSUME Watched, Opened', NEW c \in Channels, NEW from, NEW to \in Statuses, NEW events \in Seq(Event),
           events = <<>> => to = "tracking",
           events # <<>> => events[Len(events)].event # "EVENT_RX_SEARCH_TIMEOUT",
           Radio(c, from, to, events)
    PROVE  Watched'
<1>1. /\ status' = [status EXCEPT ![c] = to] /\ pending' = pending \o events
      /\ UNCHANGED <<boot, restart_count, led, busy, timers>>
  BY DEF Radio
<1>2. pending \in Seq(Event) /\ status \in [Channels -> Statuses]
  BY DEF Watched, Opened, TypeOK, Statuses
<1>3. /\ Len(pending') = Len(pending) + Len(events) /\ Len(pending) \in Nat /\ Len(events) \in Nat
      /\ \A i \in 1..Len(pending) : pending'[i] = pending[i]
      /\ \A i \in 1..Len(events) : pending'[Len(pending) + i] = events[i]
      /\ pending' \in Seq(Event)
  BY <1>1, <1>2, ConcatProperties
<1>4. /\ events = <<>> <=> Len(events) = 0
      /\ pending = <<>> <=> Len(pending) = 0
      /\ pending' = <<>> <=> Len(pending') = 0
  BY <1>2, <1>3, EmptySeq
<1>5. pending' # <<>> => pending'[Len(pending')].event # "EVENT_RX_SEARCH_TIMEOUT"
  <2>1. CASE events = <<>>
    <3>1. Len(pending') = Len(pending)
      BY <1>3, <1>4, <2>1
    <3>2. pending' # <<>> => Len(pending) \in 1..Len(pending) /\ pending # <<>>
      BY <1>3, <1>4, <3>1
    <3>3. QED  BY <1>3, <3>1, <3>2 DEF Watched
  <2>2. CASE events # <<>>
    <3>1. Len(events) \in 1..Len(events)
      BY <1>3, <1>4, <2>2
    <3>2. QED  BY <1>3, <2>2, <3>1
  <2>3. QED  BY <2>1, <2>2
<1>6. UnseenSearchIsSpent'
  <2> SUFFICES ASSUME main' = "idle", pending' = <<>>, NEW d \in Channels, status'[d] = "searching"
               PROVE  Wanted("search")' \/ \E x \in Channels : restart_count'[x] >= Limit
    BY DEF UnseenSearchIsSpent
  <2>1. events = <<>> /\ pending = <<>> /\ to = "tracking"
    BY <1>3, <1>4
  <2>2. status[d] = "searching"
    BY <1>1, <1>2, <2>1
  <2>3. Wanted("search") \/ \E x \in Channels : restart_count[x] >= Limit
    BY <1>1, <2>1, <2>2 DEF Watched, UnseenSearchIsSpent, boot
  <2>4. Wanted("search")' <=> Wanted("search")
    BY <1>1 DEF Wanted, timers
  <2>5. QED  BY <1>1, <2>3, <2>4
<1>7. QED  BY <1>1, <1>5, <1>6 DEF Watched, boot, timers

\* A step that changes neither the timers nor the channels.
LEMMA NothingWatched ==
    ASSUME Watched, Opened', UNCHANGED <<status, pending, restart_count, busy, active, m_req_fifo>>,
           main' = "idle" => main = "idle", main' \in {"red", "open"} => main \in {"red", "open"},
           \/ UNCHANGED led \/ led' = "blue" \/ (led' = "search" /\ main = "red"),
           armed' = armed \/ (active["led"] = FALSE /\ armed' = armed \ {"led"})
                          \/ armed' = armed \ {"search"}
    PROVE  Watched'
<1>1. UnseenSearchIsSpent'
  <2>1. Wanted("search")' <=> Wanted("search")
    BY DEF Wanted
  <2>2. QED  BY <2>1 DEF Watched, UnseenSearchIsSpent
<1>2. FlashFit(active', m_req_fifo', led', armed')
  BY DEF Watched, FlashFit
<1>3. SearchFit(active', m_req_fifo', led')
  BY DEF Watched, SearchFit
<1>4. QED  BY <1>1, <1>2, <1>3 DEF Watched

LEMMA WatchedStep ==
    ASSUME Watched, [Next]_vars
    PROVE  Watched'
<1>0. Opened /\ Opened' /\ TypeOK
  BY OpenedStep DEF Watched, Opened
<1>1. Context \in Contexts /\ Context.status = status /\ Context.count = restart_count
      /\ Context.active = active /\ Context.fifo = m_req_fifo /\ Context.led = led
      /\ Context.full = FALSE
  BY <1>0, ContextTyped DEF Context
<1>2. start("search") \in Request /\ "search" \in Timers /\ "led" \in Timers
  BY RequestsTyped DEF Timers
<1>3. CASE TestBlue
  BY <1>0, <1>3, NothingWatched DEF TestBlue, timers
<1>4. CASE StartSearch
  <2> DEFINE s == Call(Context, start("search"))
  <2>1. s \in Contexts /\ s.status = status /\ s.count = restart_count
    BY <1>1, <1>2, CallType
  <2>2. /\ main = "search" /\ busy = "none" /\ (s.full => Restarted)
        /\ (~s.full => /\ main' \in {"red", "open"} /\ Taken(s)
                       /\ UNCHANGED <<wiped, pending, busy, armed>>)
    BY <1>4 DEF StartSearch, Undisturbed, Leave, Taken
  <2>3. Fit(Context.active, Context.fifo, Context.led, armed)
    BY <1>1, <2>2, WatchedFits
  <2>4. s.full = FALSE => Fit(s.active, s.fifo, s.led, armed) /\ Want(s.active, s.fifo, "search")
    BY <1>1, <2>3, CallSearchStart
  <2> HIDE DEF s
  <2>5. s.full \in BOOLEAN
    BY <2>1 DEF Contexts
  <2>6. CASE s.full = TRUE
    BY <2>2, <2>6, ResetWatched
  <2>7. CASE s.full = FALSE
    BY <1>0, <2>1, <2>2, <2>4, <2>7, LeaveWatched
  <2>8. QED  BY <2>5, <2>6, <2>7
<1>5. CASE Lights
  BY <1>0, <1>5, NothingWatched DEF Lights, timers
<1>6. CASE Reset
  BY <1>6, ResetWatched DEF Reset
<1>7. CASE OpenChannels
  <2>1. /\ main = "open" /\ main' = "idle" /\ UNCHANGED <<pending, restart_count, led, busy, timers>>
    BY <1>7 DEF OpenChannels
  <2>2. Wanted("search")' <=> Wanted("search")
    BY <2>1 DEF Wanted, timers
  <2>3. Wanted("search")
    BY <2>1, WatchedFits DEF Watched
  <2>4. QED  BY <1>0, <2>1, <2>2, <2>3 DEF Watched, UnseenSearchIsSpent, timers
<1>8. ASSUME NEW c \in Channels, Found(c)  PROVE Watched'
  <2>1. Radio(c, "searching", "tracking", <<>>) /\ <<>> \in Seq(Event)
    BY <1>8 DEF Found
  <2>2. QED  BY <1>0, <2>1, RadioWatched DEF Statuses
<1>9. ASSUME NEW c \in Channels, Lost(c)  PROVE Watched'
  <2> DEFINE events == <<Of(c, "EVENT_RX_FAIL_GO_TO_SEARCH")>>
  <2>1. /\ events \in Seq(Event) /\ events # <<>>
        /\ events[Len(events)].event # "EVENT_RX_SEARCH_TIMEOUT"
    BY DEF Of, Event
  <2>2. Radio(c, "tracking", "searching", events)
    BY <1>9 DEF Lost
  <2> HIDE DEF events
  <2>3. QED  BY <1>0, <2>1, <2>2, RadioWatched DEF Statuses
<1>10. ASSUME NEW c \in Channels, GivenUp(c)  PROVE Watched'
  <2> DEFINE events == <<Of(c, "EVENT_RX_SEARCH_TIMEOUT"), Of(c, "EVENT_CHANNEL_CLOSED")>>
  <2>1. Of(c, "EVENT_RX_SEARCH_TIMEOUT") \in Event /\ Of(c, "EVENT_CHANNEL_CLOSED") \in Event
    BY DEF Of, Event
  <2>2. /\ events \in Seq(Event) /\ events # <<>>
        /\ events[Len(events)].event # "EVENT_RX_SEARCH_TIMEOUT"
    BY <2>1 DEF Of
  <2>3. Radio(c, "searching", "closed", events)
    BY <1>10 DEF GivenUp
  <2> HIDE DEF events
  <2>4. QED  BY <1>0, <2>2, <2>3, RadioWatched DEF Statuses
<1>11. ASSUME NEW c \in Channels, Reopen(c)  PROVE Watched'
  <2>1. /\ main = "idle" /\ UNCHANGED <<boot, pending, restart_count, led, busy, timers>>
        /\ status' = Open(Context, c).status
    BY <1>11 DEF Reopen
  <2>2. status' = [status EXCEPT ![c] = IF @ = "closed" THEN "searching" ELSE @]
    BY <1>1, <2>1, OpenType
  <2>3. Wanted("search")' <=> Wanted("search")
    BY <2>1 DEF Wanted, timers
  <2>4. UnseenSearchIsSpent'
    <3> SUFFICES ASSUME pending = <<>>, NEW d \in Channels, status'[d] = "searching"
                 PROVE  Wanted("search") \/ \E x \in Channels : restart_count[x] >= Limit
      BY <2>1, <2>3 DEF UnseenSearchIsSpent
    <3>1. CASE status[d] = "searching"
      BY <2>1, <3>1 DEF Watched, UnseenSearchIsSpent
    <3>2. CASE status[d] # "searching"
      <4>1. status[c] = "closed"
        BY <1>0, <2>2, <3>2 DEF TypeOK
      <4>2. restart_count[c] >= Limit
        BY <1>0, <2>1, <4>1 DEF Opened, ClosedIsUsedUp
      <4>3. QED  BY <4>2
    <3>3. QED  BY <3>1, <3>2
  <2>5. QED  BY <1>0, <2>1, <2>4 DEF Watched, boot, timers
<1>12. CASE ChannelEvents
  BY <1>0, <1>12, EventWatched
<1>13. CASE SearchTimeout
  <2> DEFINE v == SearchStop(Context)
             w == LedOn(v, "flash")
             s == IF Quiet THEN w ELSE Context
  <2>1. v \in Contexts /\ v.status = status /\ v.count = restart_count
    BY <1>1, SearchType
  <2>2. w \in Contexts /\ w.status = status /\ w.count = restart_count
        /\ (w.full = FALSE => v.full = FALSE)
    <3> HIDE DEF v
    <3>1. QED  BY <2>1, LedOnType
  <2>3. /\ main = "idle" /\ busy = "none" /\ (s.full => Restarted)
        /\ (~s.full => Taken(s) /\ UNCHANGED <<boot, pending, busy, armed>>)
    BY <1>13 DEF SearchTimeout, Leave, Taken
  <2>4. Fit(Context.active, Context.fifo, Context.led, armed)
    BY <1>1, <2>3, WatchedFits
  <2>5. v.full = FALSE => Fit(v.active, v.fifo, v.led, armed)
    BY <1>1, <2>4, SearchStopFit
  <2> HIDE DEF v
  <2>6. w.full = FALSE => Fit(w.active, w.fifo, w.led, armed)
    BY <2>1, <2>2, <2>5, LedOnFit
  <2> HIDE DEF w
  <2>7. s \in Contexts /\ s.status = status /\ s.count = restart_count
        /\ (s.full = FALSE => Fit(s.active, s.fifo, s.led, armed))
        /\ (Quiet \/ (s.active = active /\ s.fifo = m_req_fifo))
    BY <1>1, <2>2, <2>4, <2>6
  <2> HIDE DEF s
  <2>8. s.full \in BOOLEAN
    BY <2>7 DEF Contexts
  <2>9. CASE s.full = TRUE
    BY <2>3, <2>9, ResetWatched
  <2>10. CASE s.full = FALSE
    BY <1>0, <2>3, <2>7, <2>10, LeaveWatched DEF boot
  <2>11. QED  BY <2>8, <2>9, <2>10
<1>14. CASE LedTimeout
  <2>1. /\ active' = [active EXCEPT !["led"] = FALSE] /\ armed' = armed \ {"led"} /\ led' = "off"
        /\ UNCHANGED <<main, status, pending, restart_count, busy, m_req_fifo>>
    BY <1>14 DEF LedTimeout
  <2>2. active'["led"] = FALSE /\ active'["search"] = active["search"]
    BY <1>0, <1>2, <2>1 DEF TypeOK
  <2>3. Want(active', m_req_fifo', "search") <=> Want(active, m_req_fifo, "search")
    BY <2>1, <2>2 DEF Want
  <2>4. UnseenSearchIsSpent'
    <3>1. Wanted("search")' <=> Wanted("search")
      BY <2>1, <2>2 DEF Wanted
    <3>2. QED  BY <2>1, <3>1 DEF Watched, UnseenSearchIsSpent
  <2>5. Final(active, m_req_fifo) => Final(active', m_req_fifo')
    BY <2>1, <2>2 DEF Final, Timers
  <2>6. FlashFit(active', m_req_fifo', led', armed')
    BY <2>1, <2>2 DEF Watched, FlashFit
  <2>7. QED  BY <1>0, <2>1, <2>3, <2>4, <2>5, <2>6 DEF Watched, SearchFit
<1>15. ASSUME NEW t \in Timers, Lapse(t)  PROVE Watched'
  <2>1. /\ active[t] = FALSE /\ armed' = armed \ {t}
        /\ UNCHANGED <<boot, status, pending, restart_count, led, busy, active, m_req_fifo>>
    BY <1>0, <1>15 DEF Lapse, TypeOK
  <2>2. t = "search" \/ t = "led"
    BY DEF Timers
  <2>3. QED  BY <1>0, <2>1, <2>2, NothingWatched DEF boot
<1>16. CASE Process
  BY <1>0, <1>16, ProcessWatched
<1>17. ASSUME NEW shown \in BOOLEAN, KeyFlash(shown)  PROVE Watched'
  <2> DEFINE u == LedOn(Context, "flash")
             s == IF shown THEN LedOff(u) ELSE u
  <2>1. u \in Contexts /\ u.status = status /\ u.count = restart_count
    BY <1>1, LedOnType
  <2>2. /\ busy = "none" /\ (s.full => Restarted)
        /\ (~s.full => Taken(s) /\ UNCHANGED <<main, pending, busy, armed>>)
    BY <1>17 DEF KeyFlash, Leave, Taken
  <2>3. Fit(Context.active, Context.fifo, Context.led, armed)
    BY <1>1, <2>2, WatchedFits
  <2>4. u.full = FALSE =>
          /\ Fit(u.active, u.fifo, u.led, armed)
          /\ Want(u.active, u.fifo, "search") <=> Want(active, m_req_fifo, "search")
    BY <1>1, <2>3, LedOnFit
  <2> HIDE DEF u
  <2>5. /\ s \in Contexts /\ s.status = status /\ s.count = restart_count
        /\ s.full = u.full /\ s.active = u.active /\ s.fifo = u.fifo
        /\ u.full = FALSE => Fit(s.active, s.fifo, s.led, armed)
    <3>1. /\ LedOff(u) \in Contexts /\ LedOff(u).status = u.status /\ LedOff(u).count = u.count
          /\ LedOff(u).full = u.full /\ LedOff(u).active = u.active /\ LedOff(u).fifo = u.fifo
      BY <2>1, LedOffType
    <3>2. u.full = FALSE => Fit(LedOff(u).active, LedOff(u).fifo, LedOff(u).led, armed)
      BY <2>1, <2>4, LedOffFit
    <3>3. QED  BY <2>1, <2>4, <3>1, <3>2
  <2> HIDE DEF s
  <2>6. s.full \in BOOLEAN
    BY <2>5 DEF Contexts
  <2>7. CASE s.full = TRUE
    BY <2>2, <2>7, ResetWatched
  <2>8. CASE s.full = FALSE
    BY <1>0, <2>2, <2>4, <2>5, <2>8, LeaveWatched
  <2>9. QED  BY <2>6, <2>7, <2>8
<1>18. CASE UNCHANGED vars
  BY <1>0, <1>18, NothingWatched DEF vars, boot, timers
<1>19. QED
  BY <1>3, <1>4, <1>5, <1>6, <1>7, <1>8, <1>9, <1>10, <1>11, <1>12, <1>13, <1>14, <1>15, <1>16,
     <1>17, <1>18 DEF Next, Main

LEMMA AlwaysWatched == SafetySpec => []Watched
<1>1. Init => Watched
  <2> SUFFICES ASSUME Init  PROVE Watched
    OBVIOUS
  <2>1. DOMAIN m_req_fifo = {} /\ active["led"] = FALSE
    BY DEF Init, Timers
  <2>2. \A t \in Timers : Own(m_req_fifo, t) = {}
    BY <2>1 DEF Own
  <2>3. FlashFit(active, m_req_fifo, led, armed)
    BY <2>1 DEF FlashFit, Init
  <2>4. QED
    BY <2>2, <2>3, InitOpened DEF Init, Watched, Final, SearchFit, UnseenSearchIsSpent
<1>2. Watched /\ [Next]_vars => Watched'
  BY WatchedStep
<1>3. QED  BY <1>1, <1>2, PTL DEF SafetySpec

\* The LED is never lit by interrupts without the timer that takes it away again: a flash
\* has its timer running or about to, and a search has its timer wanted, in whatever
\* order the events of both channels, the keys and the two timers come, also where the
\* library ignores a start because a flag is left from a request not yet carried out.
THEOREM LitLedIsTimed == Spec => []LedIsTimed
<1>1. Watched => LedIsTimed
  <2> SUFFICES ASSUME Watched  PROVE LedIsTimed
    OBVIOUS
  <2>1. TypeOK /\ (Wanted("search") <=> Want(active, m_req_fifo, "search"))
    BY WatchedFits DEF Watched, Opened
  <2>2. SearchLedIsWanted
    BY <2>1 DEF Watched, SearchFit, SearchLedIsWanted
  <2>3. active["led"] \in BOOLEAN
    BY <2>1 DEF TypeOK, Timers
  <2>4. FlashIsTimed
    BY <2>3 DEF Watched, FlashFit, FlashIsTimed
  <2>5. QED  BY <2>1, <2>2, <2>4 DEF LedIsTimed
<1>2. QED  BY <1>1, AlwaysWatched, PTL DEF Spec

\* A channel searches while nobody wants the search timer only after some channel has used
\* up its restarts, once the events that wait are handled: the search that one channel
\* stops for both is started again before a batch ends.
THEOREM UnseenMeansSpent == Spec => []UnseenSearchIsSpent
<1>1. Watched => UnseenSearchIsSpent
  BY DEF Watched
<1>2. QED  BY <1>1, AlwaysWatched, PTL DEF Spec
=============================================================================
