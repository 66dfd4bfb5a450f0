-------------------------------- MODULE Gestures --------------------------------
(***************************************************************************)
(* What main.c makes of the keys: short and long presses, alone or two      *)
(* together.  The module composes the key driver (AppButton), the timer     *)
(* library (AppTimer), the LED of main.c and the handlers                   *)
(* button_event_handler and timer_button_long_press_timeout_handler.        *)
(*                                                                          *)
(* All handlers run at one interrupt priority, so each is one step, except  *)
(* the long-press handler: it waits (nrf_delay_ms) between its display and  *)
(* its tests of the keys, and the user can move keys meanwhile.  The RTC    *)
(* interrupt carries out all requests that are queued, one per step, before *)
(* any other handler runs.                                                  *)
(***************************************************************************)
EXTENDS Naturals, Sequences

CONSTANTS Buttons,      \* the keys the user plays with
          Features,     \* those of ebike, garmin and brake that are configured
          OpQueueSize,  \* APP_TIMER_CONFIG_OP_QUEUE_SIZE
          MaxMoves      \* bound on the moves of the keys, 0 for no bound

Keys == <<"PLUS", "MINUS", "ENTER", "STANDBY">>     \* in the order of buttons[]
FeatureOrder == <<"ebike", "garmin", "brake">>
Timers == {"poll", "long", "hour", "led", "pwm"}

ASSUME GesturesAssumption ==
    /\ Buttons \subseteq {Keys[i] : i \in DOMAIN Keys}
    /\ Features \subseteq {FeatureOrder[i] : i \in DOMAIN FeatureOrder}
    /\ OpQueueSize \in Nat \ {0}
    /\ MaxMoves \in Nat

VARIABLES down, edge, m_pin_states, m_pin_active, cold,   \* as in AppButton
          active, armed, m_req_fifo,                      \* as in AppTimer
          isr,                   \* what an interrupt is in the middle of: "none", "requests",
                                 \* or "tests", the long-press handler past its display
          m_button_long_press, plus_minus_flag, shutdown_flag,
          m_turn_bluetooth_on, m_turn_bluetooth_off,
          soft_blink,            \* the LED is in use
          main,                  \* the idle loop: "loop", or waiting to "sleep" or "reset"
          power,                 \* "on", or how it ended: "off", "reset", "dfu", "fault"
          moves                  \* moves of the keys so far, counted if they are bounded

pins == <<down, edge, m_pin_states, m_pin_active, cold>>
timers == <<active, armed, m_req_fifo>>
flags == <<m_button_long_press, plus_minus_flag, shutdown_flag,
           m_turn_bluetooth_on, m_turn_bluetooth_off>>
vars == <<pins, timers, isr, flags, soft_blink, main, power, moves>>

-----------------------------------------------------------------------------
(* The timer library and the key driver.                                    *)

Asked(type, t) == [type |-> type, timer |-> t]
start(t) == Asked("start", t)
stop(t) == Asked("stop", t)

\* The last word on a timer: its last request in the queue, or else its state.
Running(t) ==
    LET own == {i \in DOMAIN m_req_fifo : m_req_fifo[i].timer = t}
    IN  IF own = {} THEN t \in armed /\ active[t]
        ELSE \E i \in own : m_req_fifo[i] = start(t) /\ \A j \in own : j <= i

Lib == INSTANCE AppTimer
       WITH Repeating <- {}, fresh <- {}, draining <- (isr = "requests"),
            promised <- {t \in Timers : Running(t)}
Btn == INSTANCE AppButton WITH polling <- Running("poll"),
         pushed <- {b \in Buttons : m_pin_states[b] \in {"PRESSED", "RELEASE_DETECTED"}}

\* What a handler works on; full tells that a call returned NRF_ERROR_NO_MEM.
Context(a) ==
    [active |-> a, fifo |-> m_req_fifo, full |-> FALSE, long |-> m_button_long_press,
     blink |-> soft_blink, off |-> shutdown_flag]
Expired(t) == Context([active EXCEPT ![t] = FALSE])

\* Mutant of Call: a full queue takes one more request.
Mutant_NoLimit(s, c) ==
    IF Lib!Ignored(s.active, c) THEN s
    ELSE [s EXCEPT !.active = Lib!FlagAfterCall(@, c), !.fifo = Append(@, c)]

\* Calls of app_timer_start and app_timer_stop, until one fails.
Call(s, c) ==
    IF s.full \/ Lib!Ignored(s.active, c) THEN s
    ELSE LET room == Len(s.fifo) < OpQueueSize
         IN  [s EXCEPT !.active = Lib!FlagAfterCall(@, c),
                       !.fifo = IF room THEN Append(@, c) ELSE @,
                       !.full = ~room]
Restart(s, t) == Call(Call(s, stop(t)), start(t))

\* led_pwm_on with a duration: the LED's timer, and the PWM's first one.
Mutant_Endless(s) == IF s.blink THEN s ELSE [Call(s, start("pwm")) EXCEPT !.blink = TRUE]
LedOn(s) ==
    IF s.blink THEN s ELSE [Call(Call(s, start("led")), start("pwm")) EXCEPT !.blink = TRUE]

\* led_softblink_uninit stops the PWM and leaves the LED's timer running.
Mutant_StopsBoth(s) ==
    IF s.blink THEN [Call(Call(s, stop("led")), stop("pwm")) EXCEPT !.blink = FALSE] ELSE s
LedOff(s) == IF s.blink THEN [Call(s, stop("pwm")) EXCEPT !.blink = FALSE] ELSE s

-----------------------------------------------------------------------------
(* button_event_handler, as a function of the context.                      *)

\* A push restarts the long-press timer.
Pushed(s) == [Restart(s, "long") EXCEPT !.long = FALSE]

\* Mutant of Acted: only the release of PLUS asks for deep sleep.
Mutant_OnlyPlus(s, b, test) ==
    IF b \in {"PLUS", "MINUS"}
    THEN [s EXCEPT !.off = @ \/ (plus_minus_flag /\ b = "PLUS")]
    ELSE IF b = "STANDBY" /\ ~s.long /\ test THEN LedOn(s) ELSE s

\* What a release does, by key.  A short release of STANDBY lights the LED in the
\* test of its brightness, or only advances that test.
Acted(s, b, test) ==
    IF b \in {"PLUS", "MINUS"}
    THEN [s EXCEPT !.off = @ \/ plus_minus_flag]
    ELSE IF b = "STANDBY" /\ ~s.long /\ test THEN LedOn(s) ELSE s

\* Mutant of Released: the long-press timer is left running.
Mutant_LongLeft(s, b, test) ==
    [Restart(Acted(s, b, test), "hour") EXCEPT !.long = FALSE]

\* Every release ends the long press and restarts the hour.
Released(s, b, test) ==
    [Call(Restart(Acted(s, b, test), "hour"), stop("long")) EXCEPT !.long = FALSE]

button_event_handler(s, b, test) ==
    IF b \in Btn!Pushes THEN Pushed(s)
    ELSE IF b \in Btn!Releases THEN Released(s, b, test) ELSE s

\* One poll calls the handler for each key in turn.
HandledBy(s, test) ==
    LET first  == button_event_handler(s, Keys[1], test)
        second == button_event_handler(first, Keys[2], test)
        third  == button_event_handler(second, Keys[3], test)
    IN  button_event_handler(third, Keys[4], test)

-----------------------------------------------------------------------------
\* Past main's initialisation: the hour runs, no other timer does.
Init ==
    /\ active = [t \in Timers |-> t = "hour"]
    /\ armed = {"hour"}
    /\ m_req_fifo = <<>>
    /\ Btn!Init
    /\ isr = "none"
    /\ m_button_long_press = FALSE
    /\ plus_minus_flag = FALSE
    /\ shutdown_flag = FALSE
    /\ m_turn_bluetooth_on = FALSE
    /\ m_turn_bluetooth_off = FALSE
    /\ soft_blink = FALSE
    /\ main = "loop"
    /\ power = "on"
    /\ moves = 0

\* Leaves a handler with the context s.  APP_ERROR_CHECK of a failed call resets.
Leave(s) ==
    /\ active' = s.active
    /\ m_req_fifo' = s.fifo
    /\ m_button_long_press' = s.long
    /\ soft_blink' = s.blink
    /\ shutdown_flag' = s.off
    /\ power' = IF s.full THEN "fault" ELSE "on"

Taken(t) == armed' = armed \ {t}

\* The end of the session: nothing of the RAM survives.
End(how) ==
    /\ power' = how
    /\ edge' = {} /\ m_pin_states' = [b \in Buttons |-> "IDLE"] /\ m_pin_active' = {}
    /\ cold' = {} /\ active' = [t \in Timers |-> FALSE] /\ armed' = {} /\ m_req_fifo' = <<>>
    /\ m_button_long_press' = FALSE /\ plus_minus_flag' = FALSE /\ shutdown_flag' = FALSE
    /\ m_turn_bluetooth_on' = FALSE /\ m_turn_bluetooth_off' = FALSE
    /\ soft_blink' = FALSE /\ isr' = "none" /\ main' = "loop"
    /\ moves' = 0
    /\ UNCHANGED down

\* The processor is free to take an interrupt.
Free == power = "on" /\ isr = "none"

\* The user moves a key, whatever the processor does.
Move(b) ==
    /\ power = "on"
    /\ IF b \in down THEN /\ down' = down \ {b}
                          /\ cold' = cold \ {b}
                     ELSE /\ down' = down \cup {b}
                          /\ cold' = cold
    /\ edge' = edge \cup {b}
    /\ MaxMoves # 0 => moves < MaxMoves
    /\ moves' = IF MaxMoves = 0 THEN 0 ELSE moves + 1
    /\ UNCHANGED <<m_pin_states, m_pin_active, timers, isr, flags, soft_blink, main, power>>

\* gpiote_event_handler; timer_start only logs a failure.
KeyEvent(b) ==
    /\ Free
    /\ b \in edge
    /\ edge' = edge \ {b}
    /\ LET starts == b \in down /\ m_pin_active = {}
           s == IF starts THEN Call(Context(active), start("poll")) ELSE Context(active)
       IN  Leave([s EXCEPT !.full = FALSE])
    /\ UNCHANGED <<down, m_pin_states, m_pin_active, cold, armed, isr, plus_minus_flag,
                   m_turn_bluetooth_on, m_turn_bluetooth_off, main, moves>>

\* The RTC interrupt carries out the queued requests, all of them.
Process ==
    /\ power = "on"
    /\ isr # "tests"
    /\ m_req_fifo # <<>>
    /\ active' = Lib!FlagAfter(active, Head(m_req_fifo))
    /\ armed' = Lib!ArmedAfter(active, armed, Head(m_req_fifo))
    /\ m_req_fifo' = Tail(m_req_fifo)
    /\ isr' = IF Tail(m_req_fifo) = <<>> THEN "none" ELSE "requests"
    /\ UNCHANGED <<pins, flags, soft_blink, main, power, moves>>

\* timer_expire of a timer that was stopped meanwhile: its handler is not called.
Lapse(t) ==
    /\ Free
    /\ t \in armed
    /\ ~active[t]
    /\ Taken(t)
    /\ UNCHANGED <<pins, active, m_req_fifo, isr, flags, soft_blink, main, power, moves>>

Expires(t) == Free /\ t \in armed /\ active[t] /\ Taken(t)

\* Mutant of PollAgain: the mask is read before the keys are sampled.
Mutant_PollAgain == m_pin_active # {}

\* The poll restarts its timer while a key is active.
PollAgain == Btn!ActiveAfterPoll # {}

\* detection_delay_timeout_handler.  It restarts its timer after the application's
\* handlers have run, and only logs a failure of that.
Poll ==
    /\ Expires("poll")
    /\ m_pin_states' = Btn!StatesAfterPoll
    /\ m_pin_active' = Btn!ActiveAfterPoll
    /\ \E test \in BOOLEAN :
         LET s == HandledBy(Expired("poll"), test)
             again == ~s.full /\ PollAgain
         IN  Leave(IF again THEN [Call(s, start("poll")) EXCEPT !.full = FALSE] ELSE s)
    /\ UNCHANGED <<down, edge, cold, isr, plus_minus_flag, m_turn_bluetooth_on,
                   m_turn_bluetooth_off, main, moves>>

\* The display of the configured features, one after the other.
Show(s, f) == IF f \in Features THEN LedOff(LedOn(s)) ELSE s
ShowAll(s) == Show(Show(Show(s, FeatureOrder[1]), FeatureOrder[2]), FeatureOrder[3])

\* The first half of timer_button_long_press_timeout_handler: with ENTER held it
\* shows the configured features, two seconds each, otherwise a short flash.
LongPress ==
    /\ Expires("long")
    /\ LET s == Call(Expired("long"), stop("long"))
           shown == IF "ENTER" \notin down THEN LedOn(s)
                    ELSE IF soft_blink THEN s ELSE ShowAll(s)
       IN  /\ Leave(shown)
           /\ isr' = IF shown.full THEN "none" ELSE "tests"
    /\ UNCHANGED <<pins, plus_minus_flag, m_turn_bluetooth_on, m_turn_bluetooth_off, main, moves>>

\* Its second half, which reads the keys anew.  ENTER and STANDBY enter the
\* bootloader from within the handler; the other pairs leave flags for the idle loop.
LongPressTests ==
    /\ power = "on"
    /\ isr = "tests"
    /\ isr' = "none"
    /\ IF {"ENTER", "STANDBY"} \subseteq down
       THEN LET s == LedOn(LedOff(Context(active)))
            IN  /\ active' = s.active
                /\ m_req_fifo' = s.fifo
                /\ soft_blink' = s.blink
                /\ power' = IF s.full THEN "fault" ELSE "dfu"
                /\ UNCHANGED flags
       ELSE /\ m_turn_bluetooth_on' =
                 (m_turn_bluetooth_on \/ {"PLUS", "STANDBY"} \subseteq down
                                      \/ ("STANDBY" \in down /\ "MINUS" \notin down))
            /\ m_turn_bluetooth_off' =
                 (m_turn_bluetooth_off \/ {"MINUS", "STANDBY"} \subseteq down)
            /\ plus_minus_flag' = (plus_minus_flag \/ {"MINUS", "PLUS"} \subseteq down)
            /\ m_button_long_press' = TRUE
            /\ UNCHANGED <<active, m_req_fifo, soft_blink, power, shutdown_flag>>
    /\ UNCHANGED <<pins, armed, main, moves>>

\* timer_button_press_timeout_handler: an hour without a release.
Hour == Free /\ "hour" \in armed /\ active["hour"] /\ End("off")

\* led_timer_timeout.
LedTimeout ==
    /\ Expires("led")
    /\ Leave(LedOff(Expired("led")))
    /\ UNCHANGED <<pins, isr, plus_minus_flag, m_turn_bluetooth_on, m_turn_bluetooth_off,
                   main, moves>>

\* The PWM's pwm_timeout_handler starts its timer again while the LED is on.
PwmTimeout ==
    /\ Expires("pwm")
    /\ Leave(IF soft_blink THEN Call(Expired("pwm"), start("pwm")) ELSE Expired("pwm"))
    /\ UNCHANGED <<pins, isr, plus_minus_flag, m_turn_bluetooth_on, m_turn_bluetooth_off,
                   main, moves>>

\* check_interrupt_flags in the idle loop, which runs when no interrupt is pending.
\* It waits a second (and saves the settings) before it ends the session, and the
\* interrupts go on meanwhile.
CheckFlags ==
    /\ Free
    /\ m_req_fifo = <<>>
    /\ main = "loop"
    /\ \/ /\ shutdown_flag
          /\ main' = "sleep"
          /\ UNCHANGED flags
       \/ /\ ~shutdown_flag /\ m_turn_bluetooth_on
          /\ main' = "reset"
          /\ m_turn_bluetooth_on' = FALSE
          /\ UNCHANGED <<m_button_long_press, plus_minus_flag, shutdown_flag,
                         m_turn_bluetooth_off>>
       \/ /\ ~shutdown_flag /\ ~m_turn_bluetooth_on /\ m_turn_bluetooth_off
          /\ main' = "reset"
          /\ m_turn_bluetooth_off' = FALSE
          /\ UNCHANGED <<m_button_long_press, plus_minus_flag, shutdown_flag,
                         m_turn_bluetooth_on>>
    /\ UNCHANGED <<pins, timers, isr, soft_blink, power, moves>>

\* nrf_pwr_mgmt_shutdown, sd_nvic_SystemReset.
EndSession ==
    /\ Free
    /\ main # "loop"
    /\ End(IF main = "sleep" THEN "off" ELSE "reset")

Next ==
    \/ \E b \in Buttons : Move(b) \/ KeyEvent(b)
    \/ \E t \in Timers : Lapse(t)
    \/ Process \/ Poll \/ LongPress \/ LongPressTests \/ LedTimeout \/ PwmTimeout
    \/ CheckFlags \/ EndSession \/ Hour

\* Pending interrupts are taken, armed timers expire and the idle loop goes on.  The
\* compare event of a timer is latched, and the idle loop resumes after every
\* interrupt: neither the LED's timer nor the loop is starved by other interrupts.
\* Each condition is stated on the one variable that tells that the action was taken.
Serves ==
    /\ power = "on" /\ isr # "tests"
    /\ m_req_fifo # <<>> /\ m_req_fifo' = Tail(m_req_fifo)
Notices(b) == Free /\ b \in edge /\ edge' = edge \ {b}
Resumes == isr = "tests" /\ isr' = "none"
Acts ==
    /\ Free /\ m_req_fifo = <<>> /\ main = "loop"
    /\ shutdown_flag \/ m_turn_bluetooth_on \/ m_turn_bluetooth_off
    /\ main' \in {"sleep", "reset"}
Ends == Free /\ main # "loop" /\ power' \in {"off", "reset"}

Fairness ==
    /\ WF_m_req_fifo(Serves) /\ WF_isr(Resumes) /\ SF_power(Ends) /\ SF_main(Acts)
    /\ \A b \in Buttons : WF_edge(Notices(b))
    /\ WF_armed(Expires("poll")) /\ WF_armed(Expires("long")) /\ SF_armed(Expires("led"))

Spec == Init /\ [][Next]_vars /\ Fairness

-----------------------------------------------------------------------------
PushedKeys == {b \in Buttons : m_pin_states[b] \in {"PRESSED", "RELEASE_DETECTED"}}

TypeOK ==
    /\ Btn!TypeOK
    /\ active \in [Timers -> BOOLEAN]
    /\ armed \subseteq Timers
    /\ m_req_fifo \in Seq(Lib!Requests) /\ Len(m_req_fifo) <= OpQueueSize
    /\ isr \in {"none", "requests", "tests"}
    /\ {m_button_long_press, plus_minus_flag, shutdown_flag, m_turn_bluetooth_on,
        m_turn_bluetooth_off, soft_blink} \subseteq BOOLEAN
    /\ main \in {"loop", "sleep", "reset"}
    /\ power \in {"on", "off", "reset", "dfu", "fault"}
    /\ moves \in 0..MaxMoves

\* A long press belongs to a key: while no key is pushed in the application's eyes,
\* no long-press timer runs and no long press is remembered that would turn the
\* next short press into a long one.
LongNeedsKey ==
    power = "on" /\ (m_button_long_press \/ Running("long")) => PushedKeys # {}

\* The key driver composed with the timer library and the handlers it calls keeps its
\* specification, its polling neither dies nor misses a key (app_button.c:59-61), with
\* one exception: a request queue that is full leaves no room for the poll, and the
\* driver only logs the refused start (app_button.c:217).
PollRefused == Len(m_req_fifo') = OpQueueSize /\ ~Running("poll")'
KeysSpec == Btn!Init /\ [][Btn!Next \/ PollRefused \/ power' # "on"]_(Btn!vars)

\* A key the driver forgot after a refused start: it is taken to be pushed and not polled.
Forgotten == \E b \in PushedKeys : ~Running("poll")

\* "Long press the [MINUS] + [PLUS] buttons to put the remote control in 'deep sleep'"
\* (operation.md:28): after that long press, letting go of the first of the two keys ends
\* the session, if the driver has told of the key's push and has not forgotten the key.
DeepSleepOnGesture ==
    \A b \in Buttons \cap {"PLUS", "MINUS"} :
        <>[](b \notin down) =>
            (plus_minus_flag /\ b \in PushedKeys ~> power # "on" \/ Forgotten)

\* "Long Press both the [ENTER] + [STANDBY] buttons at the same time to initate
\* Device Firmware Update (DFU) mode" (operation.md:25): a long-press handler that
\* finds both held ends in the bootloader.
DfuOnGesture ==
    [][isr = "tests" /\ isr' = "none" /\ {"ENTER", "STANDBY"} \subseteq down
         => power' = "dfu"]_vars

\* A flash of the LED ends, whoever else uses the LED or its timers.
FlashEnds == soft_blink ~> (~soft_blink \/ power # "on")

\* "Long press the [PLUS] + [STANDBY] buttons to start bluetooth" (operation.md:26).
BluetoothOnGesture ==
    <>[](down = {"PLUS", "STANDBY"} /\ cold = {}) => <>(m_turn_bluetooth_on \/ power # "on")
=============================================================================
