------------------------------- MODULE AntSearch -------------------------------
(***************************************************************************)
(* The search for the ANT+ devices: ANT_Search_Start, ANT_Search_Stop and   *)
(* ANT_Search_timeout of main.c, the channel event handlers of ant_lev.c    *)
(* and antplus_controls.c, and the LED that tells the user of it.           *)
(*                                                                          *)
(* Two channels share one search timer and one LED, and the LED is also lit *)
(* by key presses.  The SoftDevice runs the channels and queues events; its *)
(* handler works off all that are queued, one after another, before anything *)
(* else of the application runs, and so does the RTC interrupt with the      *)
(* requests of the timers, which are those of AppTimer.                     *)
(*                                                                          *)
(* At start-up main lights the LED and starts the search while interrupts   *)
(* are enabled: led_pwm_on tests soft_blink and sets it after it has started *)
(* the LED, and a key handler that runs in between finds the LED free.      *)
(***************************************************************************)
EXTENDS Integers, Sequences

CONSTANTS Channels,    \* the channels in use: "ebike" (LEV), "garmin" (Controls)
          Limit,       \* restarts end when restart_count reaches it: 12
          MaxCount,    \* the largest value of the int8_t restart_count: 127
          MaxPending,  \* bound on the channel events of one batch
          OpQueueSize  \* APP_TIMER_CONFIG_OP_QUEUE_SIZE

ASSUME SearchAssumption ==
    /\ Channels \subseteq {"ebike", "garmin"}
    /\ Limit \in Nat /\ MaxCount \in Nat /\ Limit <= MaxCount
    /\ MaxPending \in Nat
    /\ OpQueueSize \in Nat \ {0}

VARIABLES main,                 \* where main is: "begin", "blue" or "red" (led_pwm_on has found
                                \* the LED free), "search", "open", "idle"
          wiped,                \* led_softblink_uninit ran meanwhile
          status,               \* of each channel, as sd_ant_channel_status_get tells it
          pending,              \* channel events queued by the SoftDevice
          restart_count,        \* of each channel's event handler
          led,                  \* what soft_blink stands for: who has the LED
          busy,                 \* what an interrupt is in the middle of: "none", "events", "requests"
          active, armed, m_req_fifo   \* as in AppTimer

timers == <<active, armed, m_req_fifo>>
boot == <<main, wiped>>
vars == <<boot, status, pending, restart_count, led, busy, timers>>

Timers == {"search", "led"}
Asked(type, t) == [type |-> type, timer |-> t]
start(t) == Asked("start", t)
stop(t) == Asked("stop", t)

\* What the callers have made of a timer: its last request in the queue, or else its
\* flag.  Whether the timer is in the list is another matter.
Wanted(t) ==
    LET own == {i \in DOMAIN m_req_fifo : m_req_fifo[i].timer = t}
    IN  IF own = {} THEN active[t]
        ELSE \E i \in own : m_req_fifo[i] = start(t) /\ \A j \in own : j <= i

Lib == INSTANCE AppTimer
       WITH Repeating <- {"search"}, fresh <- {}, draining <- (busy = "requests"),
            promised <- {t \in Timers : Wanted(t)}

-----------------------------------------------------------------------------
(* The calls of the handlers, as functions of what they change.             *)

Context == [status |-> status, count |-> restart_count, led |-> led,
            active |-> active, fifo |-> m_req_fifo, full |-> FALSE]

\* Calls of app_timer_start and app_timer_stop, until one finds the queue full.
Call(s, c) ==
    IF s.full \/ Lib!Ignored(s.active, c) THEN s
    ELSE LET room == Len(s.fifo) < OpQueueSize
         IN  [s EXCEPT !.active = Lib!FlagAfterCall(@, c),
                       !.fifo = IF room THEN Append(@, c) ELSE @,
                       !.full = ~room]

\* led_pwm_on does nothing while the LED is in use; only a flash has a duration.
LedOn(s, what) ==
    IF s.led # "off" THEN s
    ELSE [IF what = "flash" THEN Call(s, start("led")) ELSE s EXCEPT !.led = what]
LedOff(s) == [s EXCEPT !.led = "off"]

\* Mutant of SearchStart: the timer is taken to be running.
Mutant_LedOnly(s) == LedOn(s, "search")

SearchStart(s) == LedOn(Call(s, start("search")), "search")

\* Mutant of SearchStop: whoever has the LED keeps it.
Mutant_LedLeft(s) == Call(s, stop("search"))

SearchStop(s) == Call(LedOff(s), stop("search"))

\* sd_ant_channel_open fails, unnoticed, unless the channel is closed.
Open(s, c) == [s EXCEPT !.status[c] = IF @ = "closed" THEN "searching" ELSE @]

Incremented(n) == IF n = MaxCount THEN -MaxCount - 1 ELSE n + 1

\* Mutant of Restarts: one restart fewer.
Mutant_OneFewer(n) == n < Limit - 1

Restarts(n) == n < Limit

\* ant_lev_disp_evt_handler and antplus_controls_sens_evt_handler.
Handle(s, e) ==
    LET n == Incremented(s.count[e.channel])
        counted == [s EXCEPT !.count[e.channel] = n]
    IN  CASE e.event = "EVENT_RX_SEARCH_TIMEOUT" -> SearchStop(s)
          [] e.event = "EVENT_RX_FAIL_GO_TO_SEARCH" -> SearchStart(s)
          [] e.event = "EVENT_CHANNEL_CLOSED" ->
               IF Restarts(n) THEN SearchStart(Open(counted, e.channel)) ELSE counted

-----------------------------------------------------------------------------
\* The boot, after buttons_init: the channels are not open yet.
Init ==
    /\ main = "begin" /\ wiped = FALSE
    /\ status = [c \in Channels |-> "closed"]
    /\ pending = <<>>
    /\ restart_count = [c \in Channels |-> 0]
    /\ led = "off" /\ busy = "none"
    /\ active = [t \in Timers |-> FALSE]
    /\ armed = {}
    /\ m_req_fifo = <<>>

\* A reset of the chip starts the boot again, with the channels closed.
Restarted ==
    /\ main' = "begin" /\ wiped' = FALSE
    /\ status' = [c \in Channels |-> "closed"]
    /\ pending' = <<>>
    /\ restart_count' = [c \in Channels |-> 0]
    /\ led' = "off" /\ busy' = "none"
    /\ active' = [t \in Timers |-> FALSE]
    /\ armed' = {}
    /\ m_req_fifo' = <<>>

\* A handler leaves the context s and changes else what the action tells, unless
\* APP_ERROR_CHECK of a refused request resets the chip.
Leave(s, rest) ==
    IF s.full THEN Restarted
    ELSE /\ status' = s.status
         /\ restart_count' = s.count
         /\ led' = s.led
         /\ active' = s.active
         /\ m_req_fifo' = s.fifo
         /\ rest

-----------------------------------------------------------------------------
(* main, up to its idle loop, which runs while no interrupt does.           *)

\* No interrupt is at work or pending.
Undisturbed == busy = "none" /\ m_req_fifo = <<>>

\* The test of soft_blink in led_pwm_on(B_LED), if Bluetooth is on.
TestBlue ==
    /\ Undisturbed /\ main = "begin"
    /\ main' \in {"search", IF led = "off" THEN "blue" ELSE "search"}
    /\ UNCHANGED <<wiped, status, pending, restart_count, led, busy, timers>>

\* ANT_Search_Start, up to the test in led_pwm_on(R_LED).
StartSearch ==
    /\ Undisturbed /\ main = "search"
    /\ Leave(Call(Context, start("search")),
             /\ main' = IF led = "off" THEN "red" ELSE "open"
             /\ UNCHANGED <<wiped, pending, busy, armed>>)

\* The rest of led_pwm_on: whoever lit the LED meanwhile loses it.
Lights ==
    /\ Undisturbed
    /\ \/ main = "blue" /\ main' = "search" /\ led' = "blue"
       \/ main = "red" /\ main' = "open" /\ led' = "search"
    /\ wiped' = FALSE
    /\ UNCHANGED <<status, pending, restart_count, busy, timers>>

\* If the state of the soft blink was wiped meanwhile, led_pwm_on uses an empty one:
\* an error or a null pointer, both of which reset the remote.
Reset == Undisturbed /\ wiped /\ Restarted

\* ant_lev_disp_open and antplus_controls_sens_open.
OpenChannels ==
    /\ Undisturbed /\ main = "open"
    /\ main' = "idle"
    /\ status' = [c \in Channels |-> "searching"]
    /\ UNCHANGED <<wiped, pending, restart_count, led, busy, timers>>

-----------------------------------------------------------------------------
\* The radio changes the status of a channel and queues the events of the change.  One
\* that comes while others are being handled belongs to a longer batch (MaxPending).
Radio(c, from, to, events) ==
    /\ status[c] = from
    /\ status' = [status EXCEPT ![c] = to]
    /\ busy # "events" /\ Len(pending) + Len(events) <= MaxPending
    /\ pending' = pending \o events
    /\ UNCHANGED <<boot, restart_count, led, busy, timers>>

Of(c, e) == [channel |-> c, event |-> e]

Found(c) == Radio(c, "searching", "tracking", <<>>)
Lost(c) == Radio(c, "tracking", "searching", <<Of(c, "EVENT_RX_FAIL_GO_TO_SEARCH")>>)

\* A search lasts longer than any handler: the events before it have been handled.
GivenUp(c) ==
    /\ \A i \in DOMAIN pending : pending[i].channel # c
    /\ Radio(c, "searching", "closed", <<Of(c, "EVENT_RX_SEARCH_TIMEOUT"), Of(c, "EVENT_CHANNEL_CLOSED")>>)

\* nrf_sdh_ant_evts_poll: every queued event, in order.  The RTC interrupt, of the same
\* priority and a lower number, goes first when both it and a new batch wait.
ChannelEvents ==
    /\ busy # "requests" /\ pending # <<>>
    /\ busy = "none" => m_req_fifo = <<>>
    /\ Leave(Handle(Context, Head(pending)),
             /\ pending' = Tail(pending)
             /\ busy' = IF Tail(pending) = <<>> THEN "none" ELSE "events"
             /\ UNCHANGED <<boot, armed>>)

\* Mutant of Quiet: a closed channel is not taken for a paired one.
Mutant_AllPaired == \A c \in Channels : status[c] = "tracking"

\* What the search timer takes for success.
Quiet == \A c \in Channels : status[c] # "searching"

\* ANT_Search_timeout; the timer is a repeated one, and main needs less than its
\* period to open the channels.
SearchTimeout ==
    /\ busy = "none" /\ main = "idle" /\ "search" \in armed /\ active["search"]
    /\ Leave(IF Quiet THEN LedOn(SearchStop(Context), "flash") ELSE Context,
             UNCHANGED <<boot, pending, busy, armed>>)

\* led_timer_timeout turns off whatever is lit by then.
LedTimeout ==
    /\ busy = "none" /\ "led" \in armed /\ active["led"]
    /\ active' = [active EXCEPT !["led"] = FALSE]
    /\ armed' = armed \ {"led"}
    /\ led' = "off"
    /\ wiped' = (wiped \/ main \in {"blue", "red"})
    /\ UNCHANGED <<main, status, pending, restart_count, busy, m_req_fifo>>

\* A timer that was stopped meanwhile leaves the list without a call.
Lapse(t) ==
    /\ busy = "none" /\ t \in armed /\ ~active[t]
    /\ armed' = armed \ {t}
    /\ UNCHANGED <<boot, status, pending, restart_count, led, busy, active, m_req_fifo>>

\* The RTC interrupt carries out the queued requests, all of them.
Process ==
    /\ busy # "events" /\ m_req_fifo # <<>>
    /\ active' = Lib!FlagAfter(active, Head(m_req_fifo))
    /\ armed' = Lib!ArmedAfter(active, armed, Head(m_req_fifo))
    /\ m_req_fifo' = Tail(m_req_fifo)
    /\ busy' = IF Tail(m_req_fifo) = <<>> THEN "none" ELSE "requests"
    /\ UNCHANGED <<boot, status, pending, restart_count, led>>

\* A key reopens the channel it sends on: buttons_send_page16, buttons_send_pag73.
Reopen(c) ==
    /\ busy = "none" /\ main = "idle"
    /\ status' = Open(Context, c).status
    /\ UNCHANGED <<boot, pending, restart_count, led, busy, timers>>

\* A key press lights the LED for a time if it is free; the display of a feature
\* (a long ENTER) turns it off again before its time.  Key presses are further apart
\* than the interrupt that carries out their requests.
KeyFlash(shown) ==
    /\ busy = "none" /\ led = "off"
    /\ \A i \in DOMAIN m_req_fifo : m_req_fifo[i].timer # "led"
    /\ LET s == LedOn(Context, "flash")
       IN  Leave(IF shown THEN LedOff(s) ELSE s,
                 /\ wiped' = (wiped \/ (shown /\ main \in {"blue", "red"}))
                 /\ UNCHANGED <<main, pending, busy, armed>>)

Main == TestBlue \/ StartSearch \/ Lights \/ Reset \/ OpenChannels

Next ==
    \/ Main
    \/ \E c \in Channels : Found(c) \/ Lost(c) \/ GivenUp(c) \/ Reopen(c)
    \/ ChannelEvents \/ SearchTimeout \/ LedTimeout \/ Process
    \/ \E t \in Timers : Lapse(t)
    \/ \E shown \in BOOLEAN : KeyFlash(shown)

\* main goes on, queued events are handled, timers expire, requests are carried out.
Fairness ==
    /\ WF_vars(Main)
    /\ WF_vars(ChannelEvents) /\ WF_vars(Process)
    /\ WF_vars(SearchTimeout) /\ WF_vars(LedTimeout)

SafetySpec == Init /\ [][Next]_vars
Spec == SafetySpec /\ Fairness

-----------------------------------------------------------------------------
Event == [channel : Channels, event : {"EVENT_RX_SEARCH_TIMEOUT", "EVENT_CHANNEL_CLOSED",
                                       "EVENT_RX_FAIL_GO_TO_SEARCH"}]

TypeOK ==
    /\ main \in {"begin", "blue", "search", "red", "open", "idle"} /\ wiped \in BOOLEAN
    /\ status \in [Channels -> {"closed", "searching", "tracking"}]
    /\ pending \in Seq(Event) /\ Len(pending) <= MaxPending
    /\ restart_count \in [Channels -> (-MaxCount - 1)..MaxCount]
    /\ led \in {"off", "search", "flash", "blue"} /\ busy \in {"none", "events", "requests"}
    /\ active \in [Timers -> BOOLEAN]
    /\ armed \subseteq Timers
    /\ m_req_fifo \in Seq([type : {"start", "stop"}, timer : Timers])
    /\ Len(m_req_fifo) <= OpQueueSize

\* A channel is left closed only when its restarts are used up: "communication has
\* been lost, try restarting" (ant_lev.c:271), whatever the other channel does.
ClosedIsUsedUp ==
    \A c \in Channels :
        main = "idle" /\ status[c] = "closed" =>
            \/ restart_count[c] >= Limit
            \/ \E i \in DOMAIN pending :
                 pending[i] = [channel |-> c, event |-> "EVENT_CHANNEL_CLOSED"]

\* A channel searches while the search timer is not wanted, so that nothing shows the
\* search or its end, only after some channel has used up its restarts: the search that
\* one channel stops for both (EVENT_RX_SEARCH_TIMEOUT) is started again by its
\* EVENT_CHANNEL_CLOSED, whatever else the same batch of events holds, and a key finds a
\* channel closed to reopen only then.
UnseenSearchIsSpent ==
    main = "idle" /\ pending = <<>> /\ (\E c \in Channels : status[c] = "searching") =>
        Wanted("search") \/ \E c \in Channels : restart_count[c] >= Limit

\* The search never keeps the LED when its timer is not wanted, although either channel's
\* events and the other users of the LED stop and start both.
SearchLedIsWanted == led = "search" => Wanted("search")

\* A flash always has a timer that ends it, in the list or about to be, also one lit while
\* the timer of an earlier flash that was cut short is still running.
FlashIsTimed ==
    led = "flash" => \/ active["led"] /\ "led" \in armed
                     \/ \E i \in DOMAIN m_req_fifo : m_req_fifo[i] = start("led")

\* The LED is never lit by interrupts without the timer that is to take it away, in a
\* state of the right type.
LedIsTimed == TypeOK /\ SearchLedIsWanted /\ FlashIsTimed

\* When no channel searches any more, the search gives the LED up, "When a connection
\* is made, the RED LED will quickly flash and then go out" (operation.md:5), as long as
\* its timer is in the list.  A start, a stop and a start in one batch leave it out, with
\* its flag set, until the next stop.
SearchLedEnds ==
    <>[](\A c \in Channels : status[c] # "searching") =>
        <>[](led # "search" \/ (active["search"] /\ "search" \notin armed))
=============================================================================
