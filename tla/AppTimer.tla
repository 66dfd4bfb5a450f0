------------------------------- MODULE AppTimer -------------------------------
(***************************************************************************)
(* The timer library the remote schedules everything with: app_timer2.c of  *)
(* the SDK (components/libraries/timer).  A call of app_timer_start or      *)
(* app_timer_stop changes no timer: it puts a request in a bounded queue,   *)
(* and the RTC interrupt carries the requests out later.  What a call       *)
(* decides at once from (and writes at once to) the timer's active flag can *)
(* therefore disagree with what the queue will make of the timer.           *)
(*                                                                          *)
(* Time is left out: any timer of the sorted list may be the one that       *)
(* expires next, which is what distinct tick values allow.                  *)
(***************************************************************************)
EXTENDS Naturals, Sequences

CONSTANTS Timers,        \* the timer instances (APP_TIMER_DEF)
          Repeating,     \* those created with APP_TIMER_MODE_REPEATED
          OpQueueSize    \* APP_TIMER_CONFIG_OP_QUEUE_SIZE

ASSUME TimerAssumption ==
    /\ Repeating \subseteq Timers
    /\ OpQueueSize \in Nat \ {0}

VARIABLES active,        \* p_timer->active, read and written by the callers
          armed,         \* the timers in m_app_timer_sortlist or mp_active_timer
          m_req_fifo,    \* the queue of requests
          draining,      \* the RTC interrupt is inside timer_req_process
          promised,      \* history: started with NRF_SUCCESS, not stopped or expired since
          fresh          \* history: those of them started at rest, see AtRest

vars == <<active, armed, m_req_fifo, draining, promised, fresh>>

-----------------------------------------------------------------------------
(* The steps of the library as functions of the state they touch, so that a *)
(* handler that makes several calls can be composed from them.              *)

StartReq(t) == [type |-> "start", timer |-> t]
StopReq(t) == [type |-> "stop", timer |-> t]
Requests == [type : {"start", "stop"}, timer : Timers]

\* app_timer_stop clears the flag before anything else, whether or not the
\* request then finds room.
FlagAfterCall(a, c) == IF c.type = "stop" THEN [a EXCEPT ![c.timer] = FALSE] ELSE a

\* Mutant of Ignored: a start of a running timer is queued all the same.
Mutant_NeverIgnored(a, c) == FALSE

\* app_timer_start of a timer whose flag is set returns NRF_SUCCESS and queues nothing.
Ignored(a, c) == c.type = "start" /\ a[c.timer]

\* Mutant of FlagAfter: carrying out a start forgets to set the flag.
Mutant_FlagNotSet(a, r) == a

\* timer_req_process: what one request of the queue does to the flag ...
FlagAfter(a, r) == IF r.type = "start" THEN [a EXCEPT ![r.timer] = TRUE] ELSE a

\* Mutant of ArmedAfter: a start finds the flag set by itself and inserts nothing.
Mutant_NotListed(a, l, r) == IF r.type = "stop" THEN l \ {r.timer} ELSE l

\* ... and to the list.
ArmedAfter(a, l, r) ==
    IF r.type = "stop" THEN l \ {r.timer}
    ELSE IF a[r.timer] THEN l ELSE l \cup {r.timer}

-----------------------------------------------------------------------------
Init ==
    /\ active = [t \in Timers |-> FALSE]
    /\ armed = {}
    /\ m_req_fifo = <<>>
    /\ draining = FALSE
    /\ promised = {}
    /\ fresh = {}

Queued(r) == \E i \in DOMAIN m_req_fifo : m_req_fifo[i] = r

\* Mutant of HasRoom: the queue is taken to be one longer than it is.
Mutant_HasRoom == Len(m_req_fifo) <= OpQueueSize

HasRoom == Len(m_req_fifo) < OpQueueSize

\* The flag is clear and nothing is on its way to the interrupt that could change it.
AtRest(t) == ~active[t] /\ ~Queued(StartReq(t)) /\ ~Queued(StopReq(t))

\* The histories once the timer t is stopped or has expired.
Ended(t) == promised' = promised \ {t} /\ fresh' = fresh \ {t}

\* app_timer_start that returns NRF_SUCCESS.
app_timer_start(t) ==
    /\ ~draining
    /\ Ignored(active, StartReq(t)) \/ HasRoom
    /\ m_req_fifo' = IF Ignored(active, StartReq(t)) THEN m_req_fifo
                     ELSE Append(m_req_fifo, StartReq(t))
    /\ promised' = promised \cup {t}
    /\ fresh' = IF AtRest(t) THEN fresh \cup {t} ELSE fresh
    /\ UNCHANGED <<active, armed, draining>>

\* app_timer_stop that returns NRF_SUCCESS.
app_timer_stop(t) ==
    /\ ~draining
    /\ HasRoom
    /\ active' = FlagAfterCall(active, StopReq(t))
    /\ m_req_fifo' = Append(m_req_fifo, StopReq(t))
    /\ Ended(t)
    /\ UNCHANGED <<armed, draining>>

\* A call that returns NRF_ERROR_NO_MEM and whose caller hands the error to
\* APP_ERROR_CHECK, which resets the chip.  (The key driver's timer_start only logs
\* the error; a refused start changes nothing, so that is a stuttering step here.)
NoMem ==
    /\ ~draining
    /\ ~HasRoom
    /\ active' = [t \in Timers |-> FALSE]
    /\ armed' = {}
    /\ m_req_fifo' = <<>>
    /\ promised' = {}
    /\ fresh' = {}
    /\ UNCHANGED draining

\* Mutant of timer_expire: the expired timer is not taken from the list.
Mutant_NotPopped(t) ==
    /\ ~draining
    /\ t \in armed
    /\ active' = IF t \in Repeating THEN active ELSE [active EXCEPT ![t] = FALSE]
    /\ IF t \in Repeating \/ ~active[t] THEN UNCHANGED <<promised, fresh>> ELSE Ended(t)
    /\ UNCHANGED <<armed, m_req_fifo, draining>>

\* timer_expire: the timer leaves the list; unless it was stopped meanwhile its
\* handler runs (the calls the handler makes are steps of their own), and a
\* repeated timer goes back.
timer_expire(t) ==
    /\ ~draining
    /\ t \in armed
    /\ armed' = IF t \in Repeating /\ active[t] THEN armed ELSE armed \ {t}
    /\ active' = IF t \in Repeating THEN active ELSE [active EXCEPT ![t] = FALSE]
    /\ IF t \in Repeating \/ ~active[t] THEN UNCHANGED <<promised, fresh>> ELSE Ended(t)
    /\ UNCHANGED <<m_req_fifo, draining>>

\* timer_req_process takes the requests one after another until none is left;
\* nothing of the application runs in between.
timer_req_process ==
    /\ m_req_fifo # <<>>
    /\ active' = FlagAfter(active, Head(m_req_fifo))
    /\ armed' = ArmedAfter(active, armed, Head(m_req_fifo))
    /\ m_req_fifo' = Tail(m_req_fifo)
    /\ draining' = (Tail(m_req_fifo) # <<>>)
    /\ UNCHANGED <<promised, fresh>>

Next ==
    \/ \E t \in Timers : app_timer_start(t) \/ app_timer_stop(t) \/ timer_expire(t)
    \/ NoMem
    \/ timer_req_process

\* The compare event is latched by the RTC: draining the queue delays the expiry
\* of a timer and cannot starve it, hence strong fairness.
Fairness == WF_vars(timer_req_process) /\ \A t \in Timers : SF_vars(timer_expire(t))

Spec == Init /\ [][Next]_vars /\ Fairness

-----------------------------------------------------------------------------
TypeOK ==
    /\ active \in [Timers -> BOOLEAN]
    /\ armed \subseteq Timers
    /\ m_req_fifo \in Seq(Requests)
    /\ Len(m_req_fifo) <= OpQueueSize
    /\ draining \in BOOLEAN
    /\ promised \subseteq Timers
    /\ fresh \subseteq promised

\* The header promises of app_timer_start that NRF_SUCCESS means the timer "was
\* successfully started" (app_timer.h:230).  The code keeps that of a timer started at
\* rest, whatever its callers do before and after: until the timer is stopped or
\* expires, it is in the list with its flag set or its start is still to be carried
\* out.  A start behind requests that are still queued, or of a timer whose flag an
\* earlier batch left set, can be lost.
StartedIsRunning ==
    \A t \in fresh : (t \in armed /\ active[t]) \/ Queued(StartReq(t))

\* A timer that was stopped or has expired, and was not started since, does not call
\* its handler, in whatever order its starts and stops were queued: the interrupt never
\* leaves the queue with such a timer in the list and its flag set.
StoppedIsSilent ==
    \A t \in armed : active[t] /\ ~draining => t \in promised

\* No timer is put in the sorted list while it is there already: a second
\* nrf_sortlist_add of one item would close the linked list into a loop.
ListedOnce ==
    \A t \in armed : m_req_fifo # <<>> /\ Head(m_req_fifo) = StartReq(t) => active[t]

\* A single-shot timer started at rest fires unless it is stopped (or the chip resets).
StartedExpires ==
    \A t \in Timers \ Repeating : t \in fresh ~> t \notin fresh
=============================================================================
