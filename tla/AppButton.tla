------------------------------- MODULE AppButton -------------------------------
(***************************************************************************)
(* The key driver, app_button.c of the SDK (components/libraries/button).   *)
(* A level change of any pin raises a GPIOTE interrupt that only starts a   *)
(* polling timer; each expiry of that timer samples every pin, moves one    *)
(* debouncing state machine per pin, calls the application's handler for    *)
(* pushes and releases, and starts the timer again while some key is        *)
(* active.                                                                  *)
(*                                                                          *)
(* The interrupt handlers run at one priority, one at a time: each is one   *)
(* step.  Here the polling timer is a flag; Gestures.tla puts the timer     *)
(* library in its place.                                                    *)
(***************************************************************************)
CONSTANT Buttons       \* mp_buttons, the configured pins

VARIABLES down,          \* the pins at their active level, moved by the user
          edge,          \* the pins with a GPIOTE event not yet handled
          m_pin_states,  \* the state machine of each pin
          m_pin_active,  \* the bit mask of active pins
          polling,       \* m_detection_delay_timer_id is running
          pushed,        \* the keys the application has last been told are pushed
          cold           \* history: held since before app_button_enable

vars == <<down, edge, m_pin_states, m_pin_active, polling, pushed, cold>>

btn_state_t == {"IDLE", "PRESS_ARMED", "PRESS_DETECTED", "PRESSED", "RELEASE_DETECTED"}

\* Mutant of OnInactive: a transition of the table is missing.
Mutant_NeverReleased(s) == IF s = "PRESSED" THEN "PRESSED" ELSE "IDLE"

\* evt_handle: the next state for an active and for an inactive sample.
OnActive(s) ==
    CASE s = "IDLE"        -> "PRESS_ARMED"
      [] s = "PRESS_ARMED" -> "PRESS_DETECTED"
      [] OTHER             -> "PRESSED"
OnInactive(s) ==
    CASE s = "PRESS_DETECTED" -> "PRESS_ARMED"
      [] s = "PRESSED"        -> "RELEASE_DETECTED"
      [] OTHER                -> "IDLE"

evt_handle(s, value) == IF value THEN OnActive(s) ELSE OnInactive(s)

\* Mutant of Releases: the release event comes with the first inactive sample.
Mutant_EarlyRelease == {b \in Buttons \ down : m_pin_states[b] = "PRESSED"}

\* The keys for which a poll calls the application's handler.
Pushes == {b \in down : m_pin_states[b] = "PRESS_DETECTED"}
Releases == {b \in Buttons \ down : m_pin_states[b] = "RELEASE_DETECTED"}

\* A pin joins the mask when it leaves IDLE and leaves it with the release event.
ActiveAfterPoll ==
    (m_pin_active \cup {b \in down : m_pin_states[b] = "IDLE"}) \ Releases

StatesAfterPoll == [b \in Buttons |-> evt_handle(m_pin_states[b], b \in down)]

-----------------------------------------------------------------------------
\* app_button_init and app_button_enable.  A key held at that moment raises no
\* event: the pin's sense is set for the next change of its level.
Init ==
    /\ down \in SUBSET Buttons
    /\ edge = {}
    /\ m_pin_states = [b \in Buttons |-> "IDLE"]
    /\ m_pin_active = {}
    /\ polling = FALSE
    /\ pushed = {}
    /\ cold = down

\* The user moves a key; a contact that bounces moves it several times.
Press(b) ==
    /\ b \notin down
    /\ down' = down \cup {b}
    /\ edge' = edge \cup {b}
    /\ UNCHANGED <<m_pin_states, m_pin_active, polling, pushed, cold>>

Lift(b) ==
    /\ b \in down
    /\ down' = down \ {b}
    /\ edge' = edge \cup {b}
    /\ cold' = cold \ {b}
    /\ UNCHANGED <<m_pin_states, m_pin_active, polling, pushed>>

\* Mutant of gpiote_event_handler: "no other pin is active" read as "no other pin
\* is at its active level".
Mutant_OnlyKey(b) ==
    /\ b \in edge
    /\ edge' = edge \ {b}
    /\ polling' = (polling \/ (down = {b} /\ m_pin_active = {}))
    /\ UNCHANGED <<down, m_pin_states, m_pin_active, pushed, cold>>

\* gpiote_event_handler, which reads the level anew.
gpiote_event_handler(b) ==
    /\ b \in edge
    /\ edge' = edge \ {b}
    /\ polling' = (polling \/ (b \in down /\ m_pin_active = {}))
    /\ UNCHANGED <<down, m_pin_states, m_pin_active, pushed, cold>>

\* Mutant of detection_delay_timeout_handler: the mask is tested before the pins
\* are sampled.
Mutant_StaleMask ==
    /\ polling
    /\ m_pin_states' = StatesAfterPoll
    /\ m_pin_active' = ActiveAfterPoll
    /\ polling' = (m_pin_active # {})
    /\ pushed' = (pushed \cup Pushes) \ Releases
    /\ UNCHANGED <<down, edge, cold>>

\* detection_delay_timeout_handler.
detection_delay_timeout_handler ==
    /\ polling
    /\ m_pin_states' = StatesAfterPoll
    /\ m_pin_active' = ActiveAfterPoll
    /\ polling' = (ActiveAfterPoll # {})
    /\ pushed' = (pushed \cup Pushes) \ Releases
    /\ UNCHANGED <<down, edge, cold>>

Next ==
    \/ \E b \in Buttons : Press(b) \/ Lift(b) \/ gpiote_event_handler(b)
    \/ detection_delay_timeout_handler

\* The timer expires and a pending interrupt is taken.
Fairness ==
    /\ WF_vars(detection_delay_timeout_handler)
    /\ \A b \in Buttons : WF_vars(gpiote_event_handler(b))

SafetySpec == Init /\ [][Next]_vars
Spec == SafetySpec /\ Fairness

-----------------------------------------------------------------------------
TypeOK ==
    /\ down \subseteq Buttons
    /\ edge \subseteq Buttons
    /\ m_pin_states \in [Buttons -> btn_state_t]
    /\ m_pin_active \subseteq Buttons
    /\ polling \in BOOLEAN
    /\ pushed \subseteq Buttons
    /\ cold \subseteq down

\* A key pressed after start-up is never left unwatched: it is being polled, or
\* its GPIOTE event is still to be handled and will start the polling.
HeldKeyIsWatched == \A b \in down \ cold : polling \/ b \in edge

\* A key that is out of its rest state is polled until it is back.
UnrestIsPolled == \A b \in Buttons : m_pin_states[b] # "IDLE" => polling

\* The application hears pushes and releases alternately: a key is pushed in its
\* eyes exactly while the state machine says so, whatever the order of samples.
ToldIsTrue ==
    pushed = {b \in Buttons : m_pin_states[b] \in {"PRESSED", "RELEASE_DETECTED"}}

\* A key held long enough is reported as pushed, and one let go as released.
HeldIsReported == \A b \in Buttons : <>[](b \in down \ cold) => <>[](b \in pushed)
LiftedIsReported == \A b \in Buttons : <>[](b \notin down) => <>[](b \notin pushed)

\* What the application was told last of a key that rests ends up true.
LastWordIsTrue == HeldIsReported /\ LiftedIsReported
=============================================================================
