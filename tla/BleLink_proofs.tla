---------------------------- MODULE BleLink_proofs ----------------------------
(***************************************************************************)
(* The Bluetooth link, proved for every number of parameter requests and    *)
(* every length of the queue of events.                                     *)
(***************************************************************************)
EXTENDS BleLink, TLAPS

Is(i, what) == i \in DOMAIN events /\ events[i].what = what

Calling == [type : {"start", "stop"}, timer : Timers]

LastIs(type) == m_req_fifo # <<>> /\ m_req_fifo[Len(m_req_fifo)] = Asked(type)

\* Before the bonds are deleted there is nothing.
NothingYet ==
    stage = "deleting" => /\ link = "none" /\ events = <<>> /\ ~claimed
                          /\ m_req_fifo = <<>> /\ armed = {} /\ busy = "none"

\* While the remote advertises, the end of the last link has been handled completely.
AdvertisesAfterEnd ==
    advertising =>
        /\ link = "none" /\ ~claimed
        /\ \A i \in DOMAIN events : ~Is(i, "CONNECTED") /\ ~Is(i, "DISCONNECTED")

\* A connection waits for its handler only with the instance free, alone and before
\* the disconnection.
ConnectionIsFirst ==
    \A i \in DOMAIN events : Is(i, "CONNECTED") =>
        /\ ~claimed
        /\ \A j \in DOMAIN events : (Is(j, "CONNECTED") => j = i) /\ (Is(j, "DISCONNECTED") => i < j)

\* A disconnection waits only once its link is gone, and alone.
DisconnectionIsLast ==
    \A i \in DOMAIN events : Is(i, "DISCONNECTED") =>
        /\ link = "none"
        /\ \A j \in DOMAIN events : Is(j, "DISCONNECTED") => j = i

\* While no requests are being carried out, a set flag means that none are queued, and
\* without a claim it is the flag of a timer out of the list; the last request is a stop
\* then.
TimerIsClaimed ==
    /\ busy = "requests" => m_req_fifo # <<>>
    /\ busy # "requests" /\ active["update"] = TRUE => m_req_fifo = <<>>
    /\ ~claimed /\ busy # "requests" => active["update"] = FALSE \/ armed = {}
    /\ ~claimed /\ stage = "on" /\ m_req_fifo # <<>> => LastIs("stop")

\* One link after the other, from the SoftDevice to the instance.
OneLinkAtATime == NothingYet /\ AdvertisesAfterEnd /\ ConnectionIsFirst /\ DisconnectionIsLast

IInv == TypeOK /\ OneLinkAtATime /\ TimerIsClaimed /\ NegotiationGoesOn

-----------------------------------------------------------------------------
\* The remote starts with nothing.
LEMMA InitIInv == Init => IInv
<1> SUFFICES ASSUME Init PROVE IInv
  OBVIOUS
<1>1. DOMAIN events = {} /\ events \in Seq(LinkEvents)
  BY DEF Init
<1>3. m_req_fifo \in Seq(Calling) /\ Len(m_req_fifo) <= OpQueueSize
  BY LinkAssumption DEF Init
<1>4. active \in [Timers -> BOOLEAN] /\ armed \subseteq Timers /\ busy = "none"
      /\ m_req_fifo = <<>> /\ armed = {} /\ active["update"] = FALSE
  BY DEF Init, Timers
<1>2. TypeOK
  <2>1. /\ stage \in {"deleting", "on", "fault", "nomem"} /\ link \in {"none", "up", "closing"}
        /\ update_count \in 0..MaxUpdates
    BY LinkAssumption DEF Init
  <2>2. {advertising, request, m_conn_handle, claimed, params_ok} \subseteq BOOLEAN
    BY DEF Init
  <2> QED BY <1>1, <1>3, <1>4, <2>1, <2>2 DEF TypeOK, Calling
<1> QED BY <1>1, <1>2, <1>4 DEF Init, IInv, OneLinkAtATime, NothingYet, AdvertisesAfterEnd, ConnectionIsFirst,
                          DisconnectionIsLast, TimerIsClaimed, NegotiationGoesOn

\* Where the events are after one has been posted, and after the first has been taken.
LEMMA Posted ==
    ASSUME TypeOK, NEW e \in LinkEvents, Post(e)
    PROVE  /\ events' \in Seq(LinkEvents)
           /\ DOMAIN events' = 1..(Len(events) + 1) /\ DOMAIN events = 1..Len(events) /\ Len(events) \in Nat
           /\ events'[Len(events) + 1] = e
           /\ \A i \in DOMAIN events : i \in DOMAIN events' /\ events'[i] = events[i]
BY DEF TypeOK, Post

\* The same for an event taken from the front.
LEMMA Taken ==
    ASSUME TypeOK, NEW what, Takes(what)
    PROVE  /\ events' \in Seq(LinkEvents) /\ Is(1, what) /\ stage = "on"
           /\ Head(events) = events[1] /\ Head(events) \in LinkEvents
           /\ DOMAIN events \subseteq Nat
           /\ \A i \in DOMAIN events' : i \in Nat /\ i > 0 /\ i + 1 \in DOMAIN events /\ events'[i] = events[i + 1]
           /\ \A i \in DOMAIN events : i = 1 \/ (i - 1 \in DOMAIN events' /\ events'[i - 1] = events[i])
<1>1. events \in Seq(LinkEvents) /\ events # <<>>
  BY DEF TypeOK, Takes
<1>2. DOMAIN events = 1..Len(events) /\ Len(events) \in Nat \ {0}
  BY <1>1
<1>3. events' = Tail(events) /\ Len(events') = Len(events) - 1 /\ events' \in Seq(LinkEvents)
  BY <1>1 DEF Takes
<1>4. DOMAIN events' = 1..(Len(events) - 1) /\ \A i \in DOMAIN events' : events'[i] = events[i + 1]
  BY <1>1, <1>2, <1>3
<1>5. Head(events) = events[1] /\ events[1] \in LinkEvents
  BY <1>1, <1>2
<1>6. Is(1, what) /\ stage = "on"
  BY <1>2, <1>5 DEF Takes, Is
<1> QED BY <1>2, <1>3, <1>4, <1>5, <1>6

\* An event that is neither a connection nor a disconnection changes nothing in the order of links.
LEMMA OrdinaryPost ==
    ASSUME IInv, NEW e \in LinkEvents, Post(e), e.what \notin {"CONNECTED", "DISCONNECTED"},
           stage = "on", UNCHANGED <<stage, link, advertising, claimed>>
    PROVE  OneLinkAtATime'
<1>1. TypeOK /\ OneLinkAtATime
  BY DEF IInv
<1>2. ASSUME NEW i \in DOMAIN events', NEW what \in {"CONNECTED", "DISCONNECTED"}, Is(i, what)'
      PROVE  i \in DOMAIN events /\ Is(i, what)
  BY <1>1, <1>2, Posted DEF Is
<1>3. NothingYet' /\ AdvertisesAfterEnd'
  BY <1>1, <1>2 DEF OneLinkAtATime, NothingYet, AdvertisesAfterEnd
<1>4. ConnectionIsFirst' /\ DisconnectionIsLast'
  BY <1>1, <1>2 DEF OneLinkAtATime, ConnectionIsFirst, DisconnectionIsLast
<1> QED BY <1>3, <1>4 DEF OneLinkAtATime

\* Nor does taking one.
LEMMA OrdinaryTake ==
    ASSUME IInv, NEW what, Takes(what), what \notin {"CONNECTED", "DISCONNECTED"},
           stage' # "deleting", link = "none" => link' = "none", UNCHANGED <<advertising, claimed>>
    PROVE  OneLinkAtATime'
<1>1. TypeOK /\ OneLinkAtATime
  BY DEF IInv
<1>2. ASSUME NEW i \in DOMAIN events', NEW kind \in {"CONNECTED", "DISCONNECTED"}, Is(i, kind)'
      PROVE  i \in Nat /\ i + 1 \in DOMAIN events /\ Is(i + 1, kind)
  BY <1>1, <1>2, Taken DEF Is
<1>3. NothingYet' /\ AdvertisesAfterEnd'
  BY <1>1, <1>2 DEF OneLinkAtATime, NothingYet, AdvertisesAfterEnd
<1>4. ConnectionIsFirst'
  <2> SUFFICES ASSUME NEW i \in DOMAIN events', Is(i, "CONNECTED")'
               PROVE  ~claimed' /\ \A j \in DOMAIN events' :
                        (Is(j, "CONNECTED")' => j = i) /\ (Is(j, "DISCONNECTED")' => i < j)
    BY DEF ConnectionIsFirst
  <2> QED BY <1>1, <1>2 DEF OneLinkAtATime, ConnectionIsFirst
<1>5. DisconnectionIsLast'
  <2> SUFFICES ASSUME NEW i \in DOMAIN events', Is(i, "DISCONNECTED")'
               PROVE  link' = "none" /\ \A j \in DOMAIN events' : Is(j, "DISCONNECTED")' => j = i
    BY DEF DisconnectionIsLast
  <2> QED BY <1>1, <1>2 DEF OneLinkAtATime, DisconnectionIsLast
<1> QED BY <1>3, <1>4, <1>5 DEF OneLinkAtATime

\* What is queued stays queued until it is taken.
LEMMA QueuedPosted ==
    ASSUME TypeOK, NEW e \in LinkEvents, Post(e)
    PROVE  /\ \A w : Queued(w) => Queued(w)'
           /\ Queued(e.what)'
BY Posted DEF Queued

\* Taking an event of one kind leaves those of others.
LEMMA QueuedTaken ==
    ASSUME TypeOK, NEW what, Takes(what), NEW w, w # what
    PROVE  Queued(w) => Queued(w)'
BY Taken DEF Queued, Is

\* What a call of the timer leaves: a stop is the last request, its flag clear; a start is
\* the last one, or the flag was set.
LEMMA CallsDone ==
    ASSUME TypeOK, NEW type \in {"start", "stop"}, Calls(Asked(type))
    PROVE  /\ stage' \in {stage, "nomem"} /\ armed' = armed
           /\ active' \in [Timers -> BOOLEAN]
           /\ m_req_fifo' \in Seq(Calling) /\ Len(m_req_fifo') <= OpQueueSize
           /\ type = "stop" => /\ active'["update"] = FALSE
                              /\ (stage' = "nomem" \/ LastIs("stop")')
           /\ type = "start" => /\ active' = active
                               /\ \/ active["update"] = TRUE /\ m_req_fifo' = m_req_fifo
                                  \/ active["update"] = FALSE /\ (stage' = "nomem" \/ LastIs("start")')
<1> DEFINE c == Asked(type)
<1>1. c \in Calling /\ c.type = type /\ c.timer = "update" /\ "update" \in Timers
  BY DEF Asked, Calling, Timers
<1>2. active \in [Timers -> BOOLEAN] /\ m_req_fifo \in Seq(Calling) /\ Len(m_req_fifo) <= OpQueueSize
  BY DEF TypeOK, Calling
<1>3. armed' = armed /\ active' = (IF type = "stop" THEN [active EXCEPT !["update"] = FALSE] ELSE active)
  BY <1>1 DEF Calls, Lib!FlagAfterCall
<1>4. Lib!Ignored(active, c) <=> type = "start" /\ active["update"] = TRUE
  <2>1. active["update"] \in BOOLEAN
    BY <1>1, <1>2
  <2> QED BY <1>1, <2>1 DEF Lib!Ignored
<1>5. CASE Lib!Ignored(active, c)
  <2>1. stage' = stage /\ m_req_fifo' = m_req_fifo
    BY <1>5 DEF Calls
  <2>2. type = "start" /\ active["update"] = TRUE
    BY <1>4, <1>5
  <2> QED BY <1>2, <1>3, <2>1, <2>2
<1>6. CASE ~Lib!Ignored(active, c)
  <2>1. \/ /\ Len(m_req_fifo) < OpQueueSize /\ m_req_fifo' = Append(m_req_fifo, c) /\ stage' = stage
        \/ stage' = "nomem" /\ m_req_fifo' = m_req_fifo
    BY <1>6 DEF Calls
  <2>2. type = "start" => active["update"] = FALSE
    <3>1. active["update"] \in BOOLEAN
      BY <1>1, <1>2
    <3> QED BY <1>4, <1>6, <3>1
  <2>3. ASSUME Len(m_req_fifo) < OpQueueSize, m_req_fifo' = Append(m_req_fifo, c)
        PROVE  m_req_fifo' \in Seq(Calling) /\ Len(m_req_fifo') <= OpQueueSize /\ LastIs(type)'
    <3>1. m_req_fifo' \in Seq(Calling) /\ Len(m_req_fifo') = Len(m_req_fifo) + 1
          /\ m_req_fifo'[Len(m_req_fifo) + 1] = c
      BY <1>1, <1>2, <2>3
    <3>2. Len(m_req_fifo) \in Nat /\ OpQueueSize \in Nat
      BY <1>2, LinkAssumption
    <3>3. m_req_fifo' # <<>>
      BY <3>1, <3>2
    <3> QED BY <2>3, <3>1, <3>2, <3>3 DEF LastIs
  <2>4. active' \in [Timers -> BOOLEAN] /\ (type = "stop" => active'["update"] = FALSE)
    BY <1>1, <1>2, <1>3
  <2> QED BY <1>2, <1>3, <2>1, <2>2, <2>3, <2>4
<1> QED BY <1>5, <1>6

\* What the timer looks like does not change with anything else.
LEMMA TimerUntouched ==
    ASSUME UNCHANGED <<active, armed, m_req_fifo>>
    PROVE  Running' = Running /\ Orphaned' = Orphaned /\ \A type : LastIs(type)' = LastIs(type)
BY DEF Running, Orphaned, LastIs

\* A connection is posted while nothing of an earlier link is left.
LEMMA ConnectsKeeps ==
    ASSUME IInv, Connects
    PROVE  IInv'
<1> PICK ok \in BOOLEAN : Post(Params("CONNECTED", ok))
  BY DEF Connects
<1> DEFINE e == Params("CONNECTED", ok)
<1>1. e \in LinkEvents /\ e.what = "CONNECTED" /\ Post(e)
  BY DEF Params, LinkEvents
<1>2. /\ stage = "on" /\ stage' = "on" /\ advertising /\ advertising' = FALSE
      /\ link = "none" /\ link' = "up"
      /\ UNCHANGED <<request, m_conn_handle, claimed>> /\ UNCHANGED <<update_count, params_ok, busy, active, armed, m_req_fifo>>
  BY DEF Connects, app_vars, instance, timers
<1>3. TypeOK /\ ~claimed /\ \A i \in DOMAIN events : ~Is(i, "CONNECTED") /\ ~Is(i, "DISCONNECTED")
  BY <1>2 DEF IInv, OneLinkAtATime, AdvertisesAfterEnd
<1>4. TypeOK'
  <2>1. events' \in Seq(LinkEvents)
    BY <1>1, <1>3, Posted
  <2> QED BY <1>2, <1>3, <2>1 DEF TypeOK
<1>5. OneLinkAtATime'
  <2>1. ASSUME NEW i \in DOMAIN events', NEW what \in {"CONNECTED", "DISCONNECTED"}, Is(i, what)'
        PROVE  i = Len(events) + 1 /\ what = "CONNECTED"
    BY <1>1, <1>3, <2>1, Posted DEF Is
  <2>2. NothingYet' /\ AdvertisesAfterEnd' /\ DisconnectionIsLast'
    BY <1>2, <2>1 DEF NothingYet, AdvertisesAfterEnd, DisconnectionIsLast
  <2>3. ConnectionIsFirst'
    BY <1>2, <1>3, <2>1 DEF ConnectionIsFirst
  <2> QED BY <2>2, <2>3 DEF OneLinkAtATime
<1>6. TimerIsClaimed' /\ NegotiationGoesOn'
  BY <1>2, <1>3, TimerUntouched DEF IInv, TimerIsClaimed, NegotiationGoesOn
<1> QED BY <1>4, <1>5, <1>6 DEF IInv

\* The end of a link is posted behind its connection.
LEMMA DropsKeeps ==
    ASSUME IInv, Drops
    PROVE  IInv'
<1> DEFINE e == Event("DISCONNECTED")
<1>1. e \in LinkEvents /\ e.what = "DISCONNECTED" /\ Post(e)
  BY DEF Event, LinkEvents, Drops
<1>2. /\ stage = "on" /\ link # "none" /\ link' = "none" /\ request' = FALSE
      /\ UNCHANGED <<stage, advertising, m_conn_handle, claimed, update_count, params_ok, busy, active, armed, m_req_fifo>>
  BY DEF Drops, app_vars, instance, timers
<1>3. TypeOK /\ ~advertising /\ \A i \in DOMAIN events : ~Is(i, "DISCONNECTED")
  BY <1>2 DEF IInv, OneLinkAtATime, AdvertisesAfterEnd, DisconnectionIsLast
<1>4. TypeOK'
  <2>1. events' \in Seq(LinkEvents)
    BY <1>1, <1>3, Posted
  <2> QED BY <1>2, <1>3, <2>1 DEF TypeOK
<1>5. OneLinkAtATime'
  <2>1. ASSUME NEW i \in DOMAIN events', Is(i, "CONNECTED")'
        PROVE  i \in DOMAIN events /\ Is(i, "CONNECTED") /\ i < Len(events) + 1
    BY <1>1, <1>3, <2>1, Posted DEF Is
  <2>2. ASSUME NEW i \in DOMAIN events', Is(i, "DISCONNECTED")'
        PROVE  i = Len(events) + 1
    BY <1>1, <1>3, <2>2, Posted DEF Is
  <2>3. NothingYet' /\ AdvertisesAfterEnd' /\ DisconnectionIsLast'
    BY <1>2, <1>3, <2>2 DEF NothingYet, AdvertisesAfterEnd, DisconnectionIsLast
  <2>4. ConnectionIsFirst'
    BY <1>2, <2>1, <2>2 DEF IInv, OneLinkAtATime, ConnectionIsFirst
  <2> QED BY <2>3, <2>4 DEF OneLinkAtATime
<1>6. TimerIsClaimed' /\ NegotiationGoesOn'
  BY <1>2, TimerUntouched DEF IInv, TimerIsClaimed, NegotiationGoesOn
<1> QED BY <1>4, <1>5, <1>6 DEF IInv

\* An answer takes the place of the request it answers.
LEMMA UpdatesKeeps ==
    ASSUME IInv, Answers \/ Updates
    PROVE  IInv'
<1> PICK ok \in BOOLEAN : Post(Params("CONN_PARAM_UPDATE", ok))
  BY DEF Answers, Updates
<1> DEFINE e == Params("CONN_PARAM_UPDATE", ok)
<1>1. e \in LinkEvents /\ e.what = "CONN_PARAM_UPDATE" /\ Post(e)
  BY DEF Params, LinkEvents
<1>2. /\ stage = "on" /\ request' \in {FALSE, request}
      /\ UNCHANGED <<stage, advertising, link, m_conn_handle, claimed, update_count, params_ok, busy, active, armed, m_req_fifo>>
  BY DEF Answers, Updates, app_vars, instance, timers
<1>3. TypeOK
  BY DEF IInv
<1>4. TypeOK'
  <2>1. events' \in Seq(LinkEvents)
    BY <1>1, <1>3, Posted
  <2> QED BY <1>2, <1>3, <2>1 DEF TypeOK
<1>5. OneLinkAtATime'
  BY <1>1, <1>2, OrdinaryPost
<1>6. TimerIsClaimed'
  BY <1>2, TimerUntouched DEF IInv, TimerIsClaimed
<1>7. NegotiationGoesOn'
  BY <1>1, <1>3, QueuedPosted DEF NegotiationGoesOn
<1> QED BY <1>4, <1>5, <1>6, <1>7 DEF IInv

\* Trouble waits its turn.
LEMMA TroublesKeeps ==
    ASSUME IInv, Troubles
    PROVE  IInv'
<1> PICK what \in {"CONN_SEC_FAILED", "GATT_TIMEOUT", "SYS_ATTR_MISSING", "PHY_UPDATE_REQUEST"} : Post(Event(what))
  BY DEF Troubles
<1> DEFINE e == Event(what)
<1>1. e \in LinkEvents /\ e.what = what /\ Post(e)
  BY DEF Event, LinkEvents
<1>2. /\ stage = "on"
      /\ UNCHANGED <<stage, advertising, link, request, m_conn_handle, claimed, update_count, params_ok, busy, active, armed, m_req_fifo>>
  BY DEF Troubles, app_vars, instance, timers
<1>3. TypeOK
  BY DEF IInv
<1>4. TypeOK'
  <2>1. events' \in Seq(LinkEvents)
    BY <1>1, <1>3, Posted
  <2> QED BY <1>2, <1>3, <2>1 DEF TypeOK
<1>5. OneLinkAtATime'
  BY <1>1, <1>2, OrdinaryPost
<1>6. TimerIsClaimed'
  BY <1>2, TimerUntouched DEF IInv, TimerIsClaimed
<1>7. NegotiationGoesOn'
  BY <1>1, <1>2, <1>3, QueuedPosted, TimerUntouched DEF IInv, NegotiationGoesOn
<1> QED BY <1>4, <1>5, <1>6, <1>7 DEF IInv

\* Without events, and with the instance free, there is nothing to go wrong.
LEMMA FreshKeeps ==
    ASSUME TypeOK', events' = <<>>, link' = "none", ~claimed', m_req_fifo' = <<>>, armed' = {},
           busy' = "none"
    PROVE  IInv'
<1>1. DOMAIN events' = {}
  OBVIOUS
<1> QED BY <1>1 DEF IInv, OneLinkAtATime, NothingYet, AdvertisesAfterEnd, ConnectionIsFirst,
                    DisconnectionIsLast, TimerIsClaimed, NegotiationGoesOn

\* Advertising begins.
LEMMA BondsDeletedKeeps ==
    ASSUME IInv, BondsDeleted
    PROVE  IInv'
<1>1. /\ stage' = "on" /\ advertising' = TRUE
      /\ UNCHANGED <<link, request, events>> /\ UNCHANGED app_vars
  BY DEF BondsDeleted
<1>2. /\ link = "none" /\ events = <<>> /\ ~claimed
      /\ m_req_fifo = <<>> /\ armed = {} /\ busy = "none"
  BY DEF BondsDeleted, IInv, OneLinkAtATime, NothingYet
<1>3. UNCHANGED <<m_conn_handle, claimed, update_count, params_ok, busy, active, armed, m_req_fifo>>
  BY <1>1 DEF BondsDeleted, app_vars, instance, timers
<1>4. TypeOK'
  BY <1>1, <1>3 DEF IInv, TypeOK
<1> QED BY <1>1, <1>2, <1>3, <1>4, FreshKeeps

\* A reset forgets everything.
LEMMA RebootKeeps ==
    ASSUME IInv, Reboot
    PROVE  IInv'
<1>1. TypeOK'
  <2>1. /\ stage' = "deleting" /\ link' = "none" /\ events' = <<>> /\ update_count' = 0
    BY DEF Reboot
  <2>2. {advertising', request', m_conn_handle', claimed', params_ok'} \subseteq BOOLEAN
    BY DEF Reboot
  <2>3. events' \in Seq(LinkEvents) /\ update_count' \in 0..MaxUpdates
    BY <2>1, LinkAssumption
  <2>4. /\ active' \in [Timers -> BOOLEAN] /\ armed' \subseteq Timers /\ busy' = "none"
        /\ m_req_fifo' \in Seq(Calling)
    BY DEF Reboot
  <2>5. Len(m_req_fifo') <= OpQueueSize
    BY LinkAssumption DEF Reboot
  <2> QED BY <2>1, <2>2, <2>3, <2>4, <2>5 DEF TypeOK, Calling
<1> QED BY <1>1, FreshKeeps DEF Reboot

TimersTyped ==
    active \in [Timers -> BOOLEAN] /\ armed \subseteq Timers
        /\ m_req_fifo \in Seq(Calling) /\ Len(m_req_fifo) <= OpQueueSize

\* After conn_params_negotiation the parameters are good or the timer is on its way.
LEMMA Negotiated ==
    ASSUME IInv, NEW what, Takes(what), NEW ok \in BOOLEAN, Negotiation(ok), claimed' = TRUE
    PROVE  /\ TimersTyped' /\ stage' \in {"on", "nomem"}
           /\ update_count' \in 0..MaxUpdates /\ params_ok' \in BOOLEAN
           /\ TimerIsClaimed' /\ NegotiationGoesOn'
<1>1. TypeOK /\ TimersTyped /\ stage = "on" /\ busy' = "events" /\ TimerIsClaimed
  BY DEF IInv, TypeOK, TimersTyped, Calling, Takes
<1>2. update_count' \in 0..MaxUpdates /\ params_ok' = ok
  BY <1>1, LinkAssumption DEF Negotiation, TypeOK
<1>3. busy # "requests"
  BY DEF Takes
<1>4. CASE ok = TRUE
  <2>1. UNCHANGED <<stage, active, armed, m_req_fifo>> /\ params_ok' = TRUE
    BY <1>2, <1>4 DEF Negotiation, timers
  <2>2. TimersTyped'
    BY <1>1, <2>1 DEF TimersTyped
  <2>3. TimerIsClaimed'
    BY <1>1, <1>3, <2>1 DEF TimerIsClaimed
  <2>4. NegotiationGoesOn'
    BY <2>1 DEF NegotiationGoesOn
  <2> QED BY <1>1, <1>2, <2>1, <2>2, <2>3, <2>4
<1>5. CASE ok = FALSE
  <2>1. Calls(Asked("start"))
    BY <1>5 DEF Negotiation
  <2>2. /\ stage' \in {stage, "nomem"} /\ armed' = armed /\ active' = active
        /\ active' \in [Timers -> BOOLEAN] /\ m_req_fifo' \in Seq(Calling) /\ Len(m_req_fifo') <= OpQueueSize
        /\ \/ active["update"] = TRUE /\ m_req_fifo' = m_req_fifo
           \/ active["update"] = FALSE /\ (stage' = "nomem" \/ LastIs("start")')
    BY <1>1, <2>1, CallsDone
  <2>3. TimersTyped'
    BY <1>1, <2>2 DEF TimersTyped
  <2>4. TimerIsClaimed'
    BY <1>1, <1>3, <2>2 DEF TimerIsClaimed
  <2>5. NegotiationGoesOn'
    <3>1. stage' # "nomem" => Running' \/ Orphaned'
      <4>1. active["update"] = TRUE => m_req_fifo = <<>>
        BY <1>1, <1>3 DEF TimerIsClaimed
      <4>2. stage' # "nomem" => (m_req_fifo' = <<>> /\ active'["update"] = TRUE) \/ LastIs("start")'
        BY <2>2, <4>1
      <4> QED BY <4>2 DEF Running, Orphaned, LastIs
    <3> QED BY <3>1 DEF NegotiationGoesOn
  <2> QED BY <1>1, <1>2, <2>2, <2>3, <2>4, <2>5
<1> QED BY <1>4, <1>5

\* on_connect always finds the instance free.
LEMMA ConnectedKeeps ==
    ASSUME IInv, Connected
    PROVE  IInv' /\ stage' # "fault"
<1>1. Takes("CONNECTED") /\ TypeOK /\ OneLinkAtATime
  BY DEF Connected, IInv
<1>2. 1 \in DOMAIN events /\ Is(1, "CONNECTED") /\ stage = "on"
  BY <1>1, Taken DEF Is
<1>3. /\ ~claimed
      /\ \A j \in DOMAIN events : (Is(j, "CONNECTED") => j = 1)
  BY <1>1, <1>2 DEF OneLinkAtATime, ConnectionIsFirst
<1> DEFINE ok == Head(events).ok
<1>4. /\ m_conn_handle' = TRUE /\ claimed' = TRUE
      /\ Negotiation(ok)
      /\ UNCHANGED <<advertising, link, request>>
  BY <1>3 DEF Connected
<1>5. ok \in BOOLEAN
  <2>1. Head(events) \in LinkEvents /\ Head(events).what = "CONNECTED"
    BY <1>1, Taken DEF Takes
  <2> QED BY <2>1 DEF LinkEvents
<1>6. TypeOK'
  <2>1. events' \in Seq(LinkEvents)
    BY <1>1, Taken
  <2>2. TimersTyped' /\ stage' \in {"on", "nomem"} /\ update_count' \in 0..MaxUpdates
        /\ params_ok' \in BOOLEAN
    BY <1>1, <1>2, <1>4, <1>5, Negotiated
  <2> QED BY <1>1, <1>4, <2>1, <2>2 DEF TypeOK, TimersTyped, Calling, Takes
<1>7. ASSUME NEW i \in DOMAIN events', NEW kind \in {"CONNECTED", "DISCONNECTED"}, Is(i, kind)'
      PROVE  i \in Nat /\ i > 0 /\ i + 1 \in DOMAIN events /\ Is(i + 1, kind)
  BY <1>1, <1>7, Taken DEF Is
<1>8. NothingYet' /\ AdvertisesAfterEnd' /\ ConnectionIsFirst'
  <2>1. ~advertising
    BY <1>1, <1>2 DEF OneLinkAtATime, AdvertisesAfterEnd
  <2>2. \A i \in DOMAIN events' : ~Is(i, "CONNECTED")'
    BY <1>3, <1>7
  <2>3. stage' # "deleting"
    BY <1>1, <1>2, <1>4, <1>5, Negotiated
  <2> QED BY <1>2, <1>4, <2>1, <2>2, <2>3 DEF NothingYet, AdvertisesAfterEnd, ConnectionIsFirst
<1>9. DisconnectionIsLast'
  <2> SUFFICES ASSUME NEW i \in DOMAIN events', Is(i, "DISCONNECTED")'
               PROVE  link' = "none" /\ \A j \in DOMAIN events' : Is(j, "DISCONNECTED")' => j = i
    BY DEF DisconnectionIsLast
  <2> QED BY <1>1, <1>4, <1>7 DEF OneLinkAtATime, DisconnectionIsLast
<1>10. TimerIsClaimed' /\ NegotiationGoesOn' /\ stage' # "fault"
  BY <1>1, <1>2, <1>4, <1>5, Negotiated
<1> QED BY <1>6, <1>8, <1>9, <1>10 DEF IInv, OneLinkAtATime

\* Nobody advertises yet when a link has ended: main.c starts it, and the second start,
\* by ble_advertising.c, is refused unnoticed.
LEMMA DisconnectedKeeps ==
    ASSUME IInv, Disconnected
    PROVE  IInv' /\ (stage' = "nomem" \/ (stage' = "on" /\ advertising'))
<1>1. Takes("DISCONNECTED") /\ TypeOK /\ OneLinkAtATime
  BY DEF Disconnected, IInv
<1>2. 1 \in DOMAIN events /\ Is(1, "DISCONNECTED") /\ stage = "on"
  BY <1>1, Taken DEF Is
<1>3. /\ advertising = FALSE /\ link = "none"
      /\ \A j \in DOMAIN events : Is(j, "DISCONNECTED") => j = 1
      /\ \A j \in DOMAIN events : ~Is(j, "CONNECTED")
  <2>1. advertising = FALSE /\ link = "none" /\ \A j \in DOMAIN events : Is(j, "DISCONNECTED") => j = 1
    BY <1>1, <1>2 DEF OneLinkAtATime, AdvertisesAfterEnd, DisconnectionIsLast, TypeOK
  <2>2. \A j \in DOMAIN events : ~Is(j, "CONNECTED")
    <3> SUFFICES ASSUME NEW j \in DOMAIN events, Is(j, "CONNECTED") PROVE FALSE
      OBVIOUS
    <3>1. j < 1
      BY <1>1, <1>2 DEF OneLinkAtATime, ConnectionIsFirst
    <3>2. j \in 1..Len(events)
      BY <1>1 DEF TypeOK
    <3> QED BY <3>1, <3>2
  <2> QED BY <2>1, <2>2
<1> DEFINE first == Restart([on |-> advertising, fault |-> FALSE], Observers[1])
           second == Restart(first, Observers[2])
<1>4. first = [on |-> TRUE, fault |-> FALSE]
  BY <1>3 DEF Restart
<1>5. second = [on |-> TRUE, fault |-> FALSE]
  <2>1. Observers[2] # "main"
    BY DEF Observers
  <2> HIDE DEF first
  <2>2. first.on /\ second = [first EXCEPT !.fault = @ \/ Observers[2] = "main"]
    BY <1>4 DEF Restart
  <2> QED BY <1>4, <2>1, <2>2
<1>6. /\ advertising' = TRUE /\ m_conn_handle' = FALSE
      /\ Freed
      /\ UNCHANGED <<link, request, update_count, params_ok>>
  BY <1>5 DEF Disconnected
<1>10. /\ TimersTyped' /\ TimerIsClaimed' /\ stage' \in {"on", "nomem"} /\ claimed' = FALSE
  <2>1. TimersTyped /\ TimerIsClaimed /\ busy # "requests" /\ busy' = "events"
    BY <1>1 DEF IInv, TypeOK, TimersTyped, Calling, Takes
  <2>2. CASE claimed
    <3>1. Calls(Asked("stop")) /\ claimed' = FALSE
      BY <1>6, <2>2 DEF Freed
    <3>2. /\ stage' \in {stage, "nomem"} /\ armed' = armed /\ active' \in [Timers -> BOOLEAN]
          /\ m_req_fifo' \in Seq(Calling) /\ Len(m_req_fifo') <= OpQueueSize
          /\ active'["update"] = FALSE /\ (stage' = "nomem" \/ LastIs("stop")')
      BY <1>1, <3>1, CallsDone
    <3>3. TimersTyped'
      BY <2>1, <3>2 DEF TimersTyped
    <3>4. TimerIsClaimed'
      BY <2>1, <3>2 DEF TimerIsClaimed
    <3> QED BY <1>2, <3>1, <3>2, <3>3, <3>4
  <2>3. CASE ~claimed
    <3>1. UNCHANGED <<stage, active, armed, m_req_fifo>> /\ claimed' = FALSE
      BY <1>6, <2>3 DEF Freed, timers
    <3>2. TimersTyped'
      BY <2>1, <3>1 DEF TimersTyped
    <3>3. TimerIsClaimed'
      BY <2>1, <2>3, <3>1, TimerUntouched DEF TimerIsClaimed
    <3> QED BY <1>2, <3>1, <3>2, <3>3
  <2> QED BY <2>2, <2>3
<1>7. TypeOK'
  <2>1. events' \in Seq(LinkEvents) /\ busy' = "events"
    BY <1>1, Taken DEF Takes
  <2> QED BY <1>1, <1>6, <1>10, <2>1 DEF TypeOK, TimersTyped, Calling
<1>8. \A i \in DOMAIN events' : ~Is(i, "CONNECTED")' /\ ~Is(i, "DISCONNECTED")'
  <2> SUFFICES ASSUME NEW i \in DOMAIN events', NEW kind \in {"CONNECTED", "DISCONNECTED"}, Is(i, kind)'
               PROVE  FALSE
    OBVIOUS
  <2>1. i \in Nat /\ i > 0 /\ i + 1 \in DOMAIN events /\ Is(i + 1, kind)
    BY <1>1, Taken DEF Is
  <2> QED BY <1>3, <2>1
<1>9. OneLinkAtATime'
  BY <1>3, <1>6, <1>8, <1>10 DEF OneLinkAtATime, NothingYet, AdvertisesAfterEnd, ConnectionIsFirst, DisconnectionIsLast
<1> QED BY <1>6, <1>7, <1>9, <1>10 DEF IInv, NegotiationGoesOn

\* New parameters end the negotiation or start its timer.
LEMMA ParamsUpdatedKeeps ==
    ASSUME IInv, ParamsUpdated
    PROVE  IInv' /\ stage' # "fault"
<1>1. Takes("CONN_PARAM_UPDATE") /\ TypeOK /\ stage = "on" /\ busy' = "events" /\ busy # "requests"
  BY DEF ParamsUpdated, IInv, Takes
<1> DEFINE ok == Head(events).ok
<1>2. ok \in BOOLEAN
  <2>1. Head(events) \in LinkEvents /\ Head(events).what = "CONN_PARAM_UPDATE"
    BY <1>1, Taken DEF Takes
  <2> QED BY <2>1 DEF LinkEvents
<1>3. /\ UNCHANGED <<advertising, link, request, m_conn_handle, claimed>>
      /\ \/ claimed /\ Negotiation(ok)
         \/ ~claimed /\ UNCHANGED <<stage, params_ok, update_count, active, armed, m_req_fifo>>
  BY DEF ParamsUpdated, timers
<1>4. /\ TimersTyped' /\ stage' \in {"on", "nomem"} /\ TimerIsClaimed' /\ NegotiationGoesOn'
      /\ update_count' \in 0..MaxUpdates /\ params_ok' \in BOOLEAN
  <2>1. CASE claimed
    <3>1. claimed' = TRUE /\ Negotiation(ok)
      BY <1>1, <1>3, <2>1 DEF TypeOK
    <3> QED BY <1>1, <1>2, <3>1, Negotiated
  <2>2. CASE ~claimed
    <3>1. TimersTyped'
      BY <1>1, <1>3, <2>2 DEF TypeOK, TimersTyped, Calling
    <3>2. TimerIsClaimed'
      BY <1>1, <1>3, <2>2, TimerUntouched DEF IInv, TimerIsClaimed
    <3>3. NegotiationGoesOn'
      BY <1>3, <2>2 DEF NegotiationGoesOn
    <3> QED BY <1>1, <1>3, <2>2, <3>1, <3>2, <3>3 DEF TypeOK
  <2> QED BY <2>1, <2>2
<1>5. TypeOK'
  <2>1. events' \in Seq(LinkEvents)
    BY <1>1, Taken
  <2> QED BY <1>1, <1>3, <1>4, <2>1 DEF TypeOK, TimersTyped, Calling
<1>6. OneLinkAtATime'
  BY <1>1, <1>3, <1>4, OrdinaryTake
<1> QED BY <1>4, <1>5, <1>6 DEF IInv

\* The other events leave the negotiation alone, or end the link or the remote.
LEMMA TroubleHandled ==
    ASSUME IInv, SecurityFailed \/ GattTimeout \/ AttributesMissing \/ PhyRequested
    PROVE  IInv' /\ (stage' = "fault" => link # "up" \/ ~m_conn_handle)
<1> PICK what \in {"CONN_SEC_FAILED", "GATT_TIMEOUT", "SYS_ATTR_MISSING", "PHY_UPDATE_REQUEST"} : Takes(what)
  BY DEF SecurityFailed, GattTimeout, AttributesMissing, PhyRequested
<1>1. TypeOK /\ stage = "on" /\ busy # "requests" /\ busy' = "events"
  BY DEF IInv, Takes
<1>2. /\ UNCHANGED <<advertising, request, claimed, update_count, params_ok, active, armed, m_req_fifo>>
      /\ m_conn_handle' \in {FALSE, m_conn_handle}
      /\ (stage' = "on" /\ (link' = link \/ (link = "up" /\ link' = "closing"))) \/ (stage' = "fault" /\ link' = link)
      /\ stage' = "fault" => link # "up" \/ ~m_conn_handle
  BY <1>1 DEF SecurityFailed, GattTimeout, AttributesMissing, PhyRequested, Disconnect, Fault, app_vars,
              instance, timers
<1>3. TypeOK'
  <2>1. events' \in Seq(LinkEvents)
    BY <1>1, Taken
  <2> QED BY <1>1, <1>2, <2>1 DEF TypeOK
<1>4. OneLinkAtATime'
  BY <1>2, OrdinaryTake
<1>5. TimerIsClaimed'
  BY <1>1, <1>2, TimerUntouched DEF IInv, TimerIsClaimed
<1>6. NegotiationGoesOn'
  BY <1>1, <1>2, QueuedTaken, TimerUntouched DEF IInv, NegotiationGoesOn
<1> QED BY <1>2, <1>3, <1>4, <1>5, <1>6 DEF IInv

\* What does not touch the links and their events keeps them in order.
LEMMA LinksKept ==
    ASSUME IInv, stage = "on", stage' # "deleting", link = "none" => link' = "none",
           UNCHANGED <<advertising, events, claimed>>
    PROVE  OneLinkAtATime'
<1>1. NothingYet' /\ AdvertisesAfterEnd'
  BY DEF IInv, OneLinkAtATime, NothingYet, AdvertisesAfterEnd, Is
<1>2. ConnectionIsFirst' /\ DisconnectionIsLast'
  BY DEF IInv, OneLinkAtATime, ConnectionIsFirst, DisconnectionIsLast, Is
<1> QED BY <1>1, <1>2 DEF OneLinkAtATime

\* A timer that expires is out of the list, its flag clear.
LEMMA Expired ==
    ASSUME IInv, Expires, UNCHANGED <<busy, claimed>>
    PROVE  /\ TimersTyped' /\ TimerIsClaimed' /\ stage = "on" /\ m_req_fifo' = m_req_fifo
           /\ armed' = {} /\ active'["update"] = FALSE /\ busy = "none"
<1>1. TimersTyped /\ TimerIsClaimed /\ stage = "on" /\ busy = "none" /\ "update" \in Timers
  BY DEF IInv, TypeOK, TimersTyped, Calling, Expires, Timers
<1>2. armed' = {} /\ active' = [active EXCEPT !["update"] = FALSE] /\ m_req_fifo' = m_req_fifo
  BY DEF Expires
<1>3. active' \in [Timers -> BOOLEAN] /\ active'["update"] = FALSE
  BY <1>1, <1>2 DEF TimersTyped
<1>4. TimersTyped'
  BY <1>1, <1>2, <1>3 DEF TimersTyped
<1>5. TimerIsClaimed'
  BY <1>1, <1>2, <1>3 DEF TimerIsClaimed, LastIs
<1> QED BY <1>1, <1>2, <1>3, <1>4, <1>5

\* A time-out of the negotiation replaces the timer by a request, unless it ends the link.
LEMMA UpdateTimeoutKeeps ==
    ASSUME IInv, UpdateTimeout
    PROVE  IInv' /\ (stage' = "fault" => link # "up" \/ ~m_conn_handle)
<1>1. /\ TypeOK /\ UNCHANGED <<advertising, events, busy, m_conn_handle, claimed, params_ok>>
      /\ TimersTyped' /\ TimerIsClaimed' /\ stage = "on"
  BY Expired DEF UpdateTimeout, IInv
<1>2. \/ /\ stage' = "on" /\ link' = link /\ request' = TRUE
         /\ update_count < MaxUpdates /\ update_count' \in {update_count, update_count + 1}
      \/ /\ stage' = "on" /\ link = "up" /\ link' = "closing" /\ request' = request
         /\ update_count' = 0
      \/ /\ stage' = "fault" /\ UNCHANGED <<link, request, update_count>>
         /\ link # "up" \/ ~m_conn_handle
  <2>1. update_count \in 0..MaxUpdates /\ MaxUpdates \in Nat
    BY <1>1, LinkAssumption DEF TypeOK
  <2>2. ~Exhausted => update_count < MaxUpdates
    BY <2>1 DEF Exhausted
  <2> QED BY <1>1, <2>2 DEF UpdateTimeout, Refused, Disconnect
<1>3. TypeOK'
  <2>1. update_count \in 0..MaxUpdates /\ MaxUpdates \in Nat
    BY <1>1, LinkAssumption DEF TypeOK
  <2>2. update_count' \in 0..MaxUpdates
    BY <1>2, <2>1
  <2>3. /\ stage' \in {"deleting", "on", "fault", "nomem"} /\ link' \in {"none", "up", "closing"}
        /\ request' \in BOOLEAN
    BY <1>1, <1>2 DEF TypeOK
  <2> QED BY <1>1, <2>2, <2>3 DEF TypeOK, TimersTyped, Calling
<1>4. OneLinkAtATime'
  BY <1>1, <1>2, LinksKept
<1>5. NegotiationGoesOn'
  BY <1>1, <1>2 DEF NegotiationGoesOn
<1> QED BY <1>1, <1>2, <1>3, <1>4, <1>5 DEF IInv

\* A timer that was stopped is not what carries a negotiation on.
LEMMA LapseKeeps ==
    ASSUME IInv, Lapse
    PROVE  IInv' /\ stage' = "on"
<1>1. /\ TypeOK /\ TimersTyped' /\ TimerIsClaimed' /\ stage = "on"
      /\ UNCHANGED <<stage, advertising, link, request, events, busy, m_conn_handle, claimed,
                     update_count, params_ok, m_req_fifo>>
      /\ active["update"] = FALSE
  <2>1. /\ Expires /\ ~active["update"]
        /\ UNCHANGED <<stage, advertising, link, request, events, busy, m_conn_handle, claimed,
                       update_count, params_ok>>
    BY DEF Lapse, instance
  <2>2. active["update"] \in BOOLEAN
    BY DEF IInv, TypeOK, Timers
  <2> QED BY <2>1, <2>2, Expired DEF IInv
<1>2. TypeOK'
  BY <1>1 DEF TypeOK, TimersTyped, Calling
<1>3. OneLinkAtATime'
  BY <1>1, LinksKept
<1>4. NegotiationGoesOn'
  <2>1. ~Orphaned /\ (Running => Running')
    BY <1>1 DEF Orphaned, Running
  <2> QED BY <1>1, <2>1 DEF IInv, NegotiationGoesOn, Queued
<1> QED BY <1>1, <1>2, <1>3, <1>4 DEF IInv

\* Carrying out the last request settles the timer as that request asks.
LEMMA ProcessKeeps ==
    ASSUME IInv, Process
    PROVE  IInv' /\ stage' = "on"
<1> DEFINE head == Head(m_req_fifo)
<1>1. /\ TypeOK /\ TimerIsClaimed /\ stage = "on" /\ busy # "events" /\ m_req_fifo # <<>>
      /\ active' = Lib!FlagAfter(active, head) /\ armed' = Lib!ArmedAfter(active, armed, head)
      /\ m_req_fifo' = Tail(m_req_fifo)
      /\ busy' = IF Tail(m_req_fifo) = <<>> THEN "none" ELSE "requests"
      /\ UNCHANGED <<stage, advertising, link, request, events, m_conn_handle, claimed,
                     update_count, params_ok>>
  BY DEF IInv, Process, instance
<1>2. /\ m_req_fifo \in Seq(Calling) /\ Len(m_req_fifo) \in Nat \ {0} /\ Len(m_req_fifo) <= OpQueueSize
      /\ head \in Calling /\ head = m_req_fifo[1]
      /\ active \in [Timers -> BOOLEAN] /\ armed \subseteq Timers
  <2>1. m_req_fifo \in Seq(Calling) /\ m_req_fifo # <<>> /\ Len(m_req_fifo) <= OpQueueSize
    BY <1>1 DEF TypeOK, Calling
  <2>2. Len(m_req_fifo) \in Nat \ {0}
    BY <2>1
  <2>3. head = m_req_fifo[1] /\ m_req_fifo[1] \in Calling
    BY <2>1, <2>2
  <2> QED BY <1>1, <2>1, <2>2, <2>3 DEF TypeOK
<1>3. /\ m_req_fifo' \in Seq(Calling) /\ Len(m_req_fifo') = Len(m_req_fifo) - 1
      /\ \A i \in 1..Len(m_req_fifo') : m_req_fifo'[i] = m_req_fifo[i + 1]
  BY <1>1, <1>2
<1>4. head.timer = "update" /\ head.type \in {"start", "stop"} /\ "update" \in Timers
  BY <1>2 DEF Calling, Timers
<1>5. /\ active' = (IF head.type = "start" THEN [active EXCEPT !["update"] = TRUE] ELSE active)
      /\ armed' = (IF head.type = "stop" THEN armed \ {"update"}
                   ELSE IF active["update"] THEN armed ELSE armed \cup {"update"})
  BY <1>1, <1>4 DEF Lib!FlagAfter, Lib!ArmedAfter
<1>6. TypeOK'
  <2>1. active' \in [Timers -> BOOLEAN] /\ armed' \subseteq Timers
    BY <1>2, <1>4, <1>5
  <2>2. Len(m_req_fifo') <= OpQueueSize /\ busy' \in {"none", "requests"}
    BY <1>1, <1>2, <1>3, LinkAssumption
  <2> QED BY <1>1, <1>3, <2>1, <2>2 DEF TypeOK, Calling
<1>7. OneLinkAtATime'
  BY <1>1, LinksKept
<1>8. CASE Tail(m_req_fifo) = <<>>
  <2>1. m_req_fifo' = <<>> /\ busy' = "none" /\ Len(m_req_fifo) = 1
    <3>1. m_req_fifo' = <<>> /\ busy' = "none"
      BY <1>1, <1>8
    <3>2. Len(m_req_fifo') = 0
      BY <3>1
    <3> QED BY <1>2, <1>3, <3>1, <3>2
  <2>2. \A type : LastIs(type) => head = Asked(type)
    BY <1>2, <2>1 DEF LastIs
  <2>3. TimerIsClaimed'
    <3>1. ~claimed => armed' = {}
      <4>1. ~claimed => head.type = "stop"
        BY <1>1, <2>2 DEF TimerIsClaimed, Asked
      <4> QED BY <1>2, <1>5, <4>1 DEF Timers
    <3> QED BY <1>1, <2>1, <3>1 DEF TimerIsClaimed
  <2>4. NegotiationGoesOn'
    <3>1. Running => Running' \/ Orphaned'
      <4>1. Running => head = Asked("start")
        BY <1>1, <1>2, <2>1 DEF Running
      <4>2. head.type = "start" => active'["update"] = TRUE
        BY <1>2, <1>4, <1>5
      <4>3. active'["update"] = TRUE => Running' \/ Orphaned'
        BY <2>1 DEF Running, Orphaned
      <4> QED BY <4>1, <4>2, <4>3 DEF Asked
    <3>2. Orphaned => Running' \/ Orphaned'
      <4>1. Orphaned => active'["update"] = TRUE
        BY <1>2, <1>4, <1>5 DEF Orphaned
      <4>2. active'["update"] = TRUE => Running' \/ Orphaned'
        BY <2>1 DEF Running, Orphaned
      <4> QED BY <4>1, <4>2
    <3> QED BY <1>1, <3>1, <3>2 DEF IInv, NegotiationGoesOn, Queued
  <2> QED BY <1>1, <1>6, <1>7, <2>3, <2>4 DEF IInv
<1>9. CASE Tail(m_req_fifo) # <<>>
  <2>1. m_req_fifo' # <<>> /\ busy' = "requests"
    BY <1>1, <1>9
  <2>2. m_req_fifo'[Len(m_req_fifo')] = m_req_fifo[Len(m_req_fifo)]
    <3>1. Len(m_req_fifo') \in Nat \ {0}
      BY <1>3, <2>1
    <3> QED BY <1>2, <1>3, <3>1
  <2>3. TimerIsClaimed'
    BY <1>1, <2>1, <2>2 DEF TimerIsClaimed, LastIs
  <2>4. NegotiationGoesOn'
    <3>1. Running => Running'
      BY <1>1, <2>1, <2>2 DEF Running
    <3>2. Orphaned => Orphaned'
      BY <1>2, <1>4, <1>5 DEF Orphaned
    <3> QED BY <1>1, <3>1, <3>2 DEF IInv, NegotiationGoesOn, Queued
  <2> QED BY <1>1, <1>6, <1>7, <2>3, <2>4 DEF IInv
<1> QED BY <1>8, <1>9

\* The end of a batch changes nothing else.
LEMMA NoMoreEventsKeeps ==
    ASSUME IInv, NoMoreEvents
    PROVE  IInv' /\ stage' = "on"
<1>1. /\ TypeOK /\ stage = "on" /\ busy = "events" /\ busy' = "none"
      /\ UNCHANGED <<stage, advertising, link, request, events, m_conn_handle, claimed,
                     update_count, params_ok, active, armed, m_req_fifo>>
  BY DEF IInv, NoMoreEvents, app_vars, instance, timers
<1>2. TypeOK'
  BY <1>1 DEF TypeOK
<1>3. OneLinkAtATime'
  BY <1>1, LinksKept
<1>4. TimerIsClaimed' /\ NegotiationGoesOn'
  BY <1>1, TimerUntouched DEF IInv, TimerIsClaimed, NegotiationGoesOn, Queued
<1> QED BY <1>1, <1>2, <1>3, <1>4 DEF IInv

-----------------------------------------------------------------------------
\* Every step keeps the invariant, and only a link that has gone, or that main.c has
\* forgotten, comes before a reset.
LEMMA NextKeeps ==
    ASSUME IInv, [Next]_vars
    PROVE  IInv' /\ (stage' = "fault" /\ stage = "on" => link # "up" \/ ~m_conn_handle)
<1>1. CASE Connects \/ Drops \/ Answers \/ Updates \/ Troubles
  <2>1. stage' = stage
    BY <1>1 DEF Connects, Drops, Answers, Updates, Troubles
  <2> QED BY <1>1, <2>1, ConnectsKeeps, DropsKeeps, UpdatesKeeps, TroublesKeeps
<1>2. CASE BondsDeleted
  BY <1>2, BondsDeletedKeeps DEF BondsDeleted
<1>3. CASE Connected
  BY <1>3, ConnectedKeeps
<1>4. CASE Disconnected
  BY <1>4, DisconnectedKeeps
<1>5. CASE ParamsUpdated
  BY <1>5, ParamsUpdatedKeeps
<1>6. CASE SecurityFailed \/ GattTimeout \/ AttributesMissing \/ PhyRequested
  BY <1>6, TroubleHandled
<1>7. CASE UpdateTimeout
  BY <1>7, UpdateTimeoutKeeps
<1>8. CASE Reboot
  BY <1>8, RebootKeeps DEF Reboot
<1>10. CASE Lapse \/ Process \/ NoMoreEvents
  BY <1>10, LapseKeeps, ProcessKeeps, NoMoreEventsKeeps
<1>9. CASE UNCHANGED vars
  <2>1. UNCHANGED <<stage, advertising, link, request, events, m_conn_handle, claimed,
                    update_count, params_ok, busy, active, armed, m_req_fifo>>
    BY <1>9 DEF vars, app_vars, instance, timers
  <2>2. TypeOK'
    BY <2>1 DEF IInv, TypeOK
  <2>3. OneLinkAtATime'
    BY <2>1 DEF IInv, OneLinkAtATime, NothingYet, AdvertisesAfterEnd, ConnectionIsFirst,
                DisconnectionIsLast, Is
  <2>4. TimerIsClaimed' /\ NegotiationGoesOn'
    BY <2>1, TimerUntouched DEF IInv, TimerIsClaimed, NegotiationGoesOn, Queued
  <2> QED BY <2>1, <2>2, <2>3, <2>4 DEF IInv
<1> QED BY <1>1, <1>2, <1>3, <1>4, <1>5, <1>6, <1>7, <1>8, <1>9, <1>10 DEF Next, Handler

\* What is checked follows.
LEMMA IInvImplies == IInv => LinkInv
<1> SUFFICES ASSUME IInv PROVE LinkInv
  OBVIOUS
<1>1. InstanceTracksLink
  <2>1. busy # "requests" /\ "update" \in armed /\ active["update"] => claimed
    BY DEF IInv, TimerIsClaimed
  <2> QED BY <2>1 DEF IInv, OneLinkAtATime, ConnectionIsFirst, InstanceTracksLink, Is
<1> QED BY <1>1 DEF IInv, LinkInv

\* The negotiation of ble_conn_params.c belongs to the link that is up and goes on unless
\* its timer is orphaned, for every number of requests and every queue.
THEOREM NegotiationIsKept == Spec => []LinkInv
<1>1. IInv /\ [Next]_vars => IInv'
  BY NextKeeps
<1> QED BY <1>1, InitIInv, IInvImplies, PTL DEF Spec

\* Two modules start advertising after a disconnection (main.c and ble_advertising.c);
\* the remote goes on, visible, as long as the timers' queue has room.
THEOREM EndIsHarmless == Spec => DisconnectIsHarmless
<1>1. IInv /\ [Next]_vars => IInv' /\ [Disconnected => stage' = "nomem" \/ (stage' = "on" /\ advertising')]_vars
  BY NextKeeps, DisconnectedKeeps
<1> QED BY <1>1, InitIInv, PTL DEF Spec, DisconnectIsHarmless

\* No call of the Bluetooth code that the SoftDevice refuses resets a remote whose link
\* is up and known to main.c.
THEOREM HealthyLinkIsKept == Spec => NoResetOnHealthyLink
<1>1. IInv /\ [Next]_vars =>
        IInv' /\ [stage' = "fault" /\ stage = "on" => link # "up" \/ ~m_conn_handle]_vars
  BY NextKeeps
<1> QED BY <1>1, InitIInv, PTL DEF Spec, NoResetOnHealthyLink

===============================================================================
