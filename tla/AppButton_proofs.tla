--------------------------- MODULE AppButton_proofs ---------------------------
(***************************************************************************)
(* Safety of the key driver, proved for every set of keys and every order   *)
(* of presses, bounces, interrupts and polls.                               *)
(***************************************************************************)
EXTENDS AppButton, TLAPS

\* The mask covers every pin out of its rest state (it may cover more: a bounce
\* leaves the bit of an idle pin set).
MaskCovers == \A b \in Buttons : m_pin_states[b] # "IDLE" => b \in m_pin_active

\* While the mask is not empty the polling timer runs; the GPIOTE handler relies
\* on it when it leaves the timer alone.
MaskIsPolled == m_pin_active # {} => polling

IInv == TypeOK /\ MaskCovers /\ MaskIsPolled /\ HeldKeyIsWatched /\ ToldIsTrue

-----------------------------------------------------------------------------
\* The debouncing stays within its five states, and where it goes.
LEMMA EvtHandle ==
    ASSUME NEW s \in btn_state_t, NEW v \in BOOLEAN
    PROVE  /\ evt_handle(s, v) \in btn_state_t
           /\ evt_handle(s, v) = "IDLE" <=> ~v /\ s \in {"IDLE", "PRESS_ARMED", "RELEASE_DETECTED"}
           /\ evt_handle(s, v) \in {"PRESSED", "RELEASE_DETECTED"} <=>
                \/ v /\ s \in {"PRESS_DETECTED", "PRESSED", "RELEASE_DETECTED"}
                \/ ~v /\ s = "PRESSED"
BY DEF evt_handle, OnActive, OnInactive, btn_state_t

LEMMA InitIInv == Init => IInv
BY DEF Init, IInv, TypeOK, MaskCovers, MaskIsPolled, HeldKeyIsWatched, ToldIsTrue, btn_state_t

\* A key that moves leaves its event behind.
LEMMA MoveKeeps ==
    ASSUME IInv, NEW b \in Buttons, Press(b) \/ Lift(b)
    PROVE  IInv'
<1> USE DEF IInv
<1>1. UNCHANGED <<m_pin_states, m_pin_active, polling, pushed>>
  BY DEF Press, Lift
<1>2. TypeOK'
  BY DEF TypeOK, Press, Lift
<1>3. MaskCovers' /\ MaskIsPolled' /\ ToldIsTrue'
  BY <1>1 DEF MaskCovers, MaskIsPolled, ToldIsTrue
<1>4. HeldKeyIsWatched'
  BY DEF HeldKeyIsWatched, Press, Lift
<1> QED BY <1>2, <1>3, <1>4

\* The event of a held key starts the polling, unless the mask says it runs.
LEMMA EventKeeps ==
    ASSUME IInv, NEW b \in Buttons, gpiote_event_handler(b)
    PROVE  IInv'
<1> USE DEF IInv, gpiote_event_handler
<1>1. UNCHANGED <<down, m_pin_states, m_pin_active, pushed, cold>>
  OBVIOUS
<1>2. TypeOK'
  BY DEF TypeOK
<1>3. polling => polling'
  OBVIOUS
<1>4. MaskCovers' /\ MaskIsPolled' /\ ToldIsTrue'
  BY <1>1, <1>3 DEF MaskCovers, MaskIsPolled, ToldIsTrue
<1>5. HeldKeyIsWatched'
  <2>1. SUFFICES ASSUME NEW c \in down \ cold PROVE polling' \/ c \in edge'
    BY <1>1 DEF HeldKeyIsWatched
  <2>2. CASE c # b
    BY <1>3, <2>1, <2>2 DEF HeldKeyIsWatched
  <2>3. CASE c = b
    BY <1>3, <2>1, <2>3 DEF MaskIsPolled
  <2> QED BY <2>2, <2>3
<1> QED BY <1>2, <1>4, <1>5

\* A poll leaves the timer running for every key it has seen held.
LEMMA PollKeeps ==
    ASSUME IInv, detection_delay_timeout_handler
    PROVE  IInv'
<1> USE DEF IInv
<1>1. /\ UNCHANGED <<down, edge, cold>>
      /\ m_pin_states' = [b \in Buttons |-> evt_handle(m_pin_states[b], b \in down)]
      /\ m_pin_active' = (m_pin_active \cup {b \in down : m_pin_states[b] = "IDLE"}) \ Releases
      /\ polling' = (m_pin_active' # {})
      /\ pushed' = (pushed \cup Pushes) \ Releases
  BY DEF detection_delay_timeout_handler, StatesAfterPoll, ActiveAfterPoll
<1>2. /\ m_pin_states \in [Buttons -> btn_state_t] /\ down \subseteq Buttons
      /\ m_pin_active \subseteq Buttons /\ pushed \subseteq Buttons
  BY DEF TypeOK
<1>3. \A b \in Buttons : m_pin_states[b] \in btn_state_t /\ (b \in down) \in BOOLEAN
  BY <1>2
<1>4. \A b \in Buttons : m_pin_states'[b] = evt_handle(m_pin_states[b], b \in down)
  BY <1>1
<1>5. TypeOK'
  <2>1. m_pin_states' \in [Buttons -> btn_state_t]
    BY <1>1, <1>3, EvtHandle
  <2> QED BY <1>1, <1>2, <2>1 DEF TypeOK, Pushes
<1>6. MaskCovers'
  <2>1. SUFFICES ASSUME NEW b \in Buttons, m_pin_states'[b] # "IDLE"
                 PROVE  b \in m_pin_active'
    BY DEF MaskCovers
  <2>2. b \in down \/ m_pin_states[b] \in {"PRESS_DETECTED", "PRESSED"}
    <3>1. SUFFICES ASSUME b \notin down
                   PROVE  m_pin_states[b] \in {"PRESS_DETECTED", "PRESSED"}
      OBVIOUS
    <3>2. evt_handle(m_pin_states[b], FALSE) # "IDLE"
      BY <1>4, <2>1, <3>1 DEF evt_handle
    <3> QED BY <1>3, <3>2, EvtHandle DEF btn_state_t
  <2>3. b \notin Releases
    BY <2>2 DEF Releases
  <2> QED BY <1>1, <2>2, <2>3 DEF MaskCovers
<1>7. MaskIsPolled'
  BY <1>1 DEF MaskIsPolled
<1>8. HeldKeyIsWatched'
  <2>1. SUFFICES ASSUME NEW b \in down PROVE polling'
    BY <1>1 DEF HeldKeyIsWatched
  <2>2. b \in m_pin_active' /\ b \in Buttons
    BY <1>1, <1>2 DEF MaskCovers, Releases
  <2> QED BY <1>1, <2>2
<1>9. ToldIsTrue'
  <2>1. \A b \in Buttons : b \in pushed <=> m_pin_states[b] \in {"PRESSED", "RELEASE_DETECTED"}
    BY DEF ToldIsTrue
  <2>2. ASSUME NEW b \in Buttons
        PROVE  b \in pushed' <=> m_pin_states'[b] \in {"PRESSED", "RELEASE_DETECTED"}
    BY <1>1, <1>2, <1>3, <1>4, <2>1, EvtHandle DEF Pushes, Releases, btn_state_t
  <2>3. pushed' \subseteq Buttons
    BY <1>5 DEF TypeOK
  <2> QED BY <2>2, <2>3 DEF ToldIsTrue
<1> QED BY <1>5, <1>6, <1>7, <1>8, <1>9

LEMMA StutterKeeps == ASSUME IInv, UNCHANGED vars PROVE IInv'
BY DEF IInv, vars, TypeOK, MaskCovers, MaskIsPolled, HeldKeyIsWatched, ToldIsTrue

LEMMA Inductive == SafetySpec => []IInv
<1>1. IInv /\ [Next]_vars => IInv'
  BY MoveKeeps, EventKeeps, PollKeeps, StutterKeeps DEF Next
<1> QED BY InitIInv, <1>1, PTL DEF SafetySpec

-----------------------------------------------------------------------------
\* Every variable keeps its type: the four bits of a pin hold one of five states.
THEOREM KeyTypes == SafetySpec => []TypeOK
<1>1. IInv => TypeOK
  BY DEF IInv
<1> QED BY <1>1, Inductive, PTL

\* gpiote_event_handler may leave the timer alone when m_pin_active is not 0: no
\* key pressed after start-up is left unwatched.
THEOREM WatchedKeys == SafetySpec => []HeldKeyIsWatched
<1>1. IInv => HeldKeyIsWatched
  BY DEF IInv
<1> QED BY <1>1, Inductive, PTL

\* The polling timer does not stop while a pin is out of its rest state.
THEOREM PolledKeys == SafetySpec => []UnrestIsPolled
<1>1. IInv => UnrestIsPolled
  BY DEF IInv, MaskCovers, MaskIsPolled, UnrestIsPolled
<1> QED BY <1>1, Inductive, PTL

\* button_event_handler hears of a key alternately that it is pushed and released.
THEOREM PairedEvents == SafetySpec => []ToldIsTrue
<1>1. IInv => ToldIsTrue
  BY DEF IInv
<1> QED BY <1>1, Inductive, PTL
=============================================================================
