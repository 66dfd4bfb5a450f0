-------------------------------- MODULE BleLink --------------------------------
(***************************************************************************)
(* The Bluetooth link of a remote in configuration mode: ble_evt_handler,   *)
(* pm_evt_handler and on_conn_params_evt of main.c with the two SDK modules *)
(* they share the SoftDevice's events with, ble_advertising.c (advertise    *)
(* again after a disconnection) and ble_conn_params.c (negotiate the        *)
(* connection parameters).                                                  *)
(*                                                                          *)
(* The SoftDevice and the central act at any time; what they did reaches    *)
(* the handlers as queued events, one per step.  All that are queued are    *)
(* worked off before anything else of the application runs, and so are the  *)
(* requests of the negotiation's timer, which is one of AppTimer.  A call   *)
(* that is refused ends in APP_ERROR_CHECK, which resets the remote.  One   *)
(* link at a time.                                                          *)
(***************************************************************************)
EXTENDS Naturals, Sequences

CONSTANTS MaxUpdates,  \* MAX_CONN_PARAMS_UPDATE_COUNT: 3
          MaxEvents,   \* bound on the events and requests that wait
          OpQueueSize  \* APP_TIMER_CONFIG_OP_QUEUE_SIZE

ASSUME LinkAssumption ==
    MaxUpdates \in Nat \ {0} /\ MaxEvents \in Nat \ {0} /\ OpQueueSize \in Nat \ {0}

VARIABLES stage,         \* "deleting" the bonds, "on", or stopped: by a "fault" of a
                         \* Bluetooth call, or by "nomem", the full queue of the timers
          advertising,   \* the SoftDevice advertises
          link,          \* the SoftDevice's link: "none", "up" or "closing"
          request,       \* a connection parameter update procedure is pending
          events,        \* BLE events queued by the SoftDevice
          m_conn_handle, \* of main.c: TRUE if it is valid
          claimed,       \* the instance of ble_conn_params.c has a link
          update_count, params_ok,          \* of that instance
          busy,                             \* what an interrupt is in the middle of: "none",
                                            \* "events" or "requests"
          active, armed, m_req_fifo         \* of its timer, as in AppTimer

timers == <<active, armed, m_req_fifo>>
instance == <<claimed, update_count, params_ok>>
app_vars == <<m_conn_handle, instance, timers>>
vars == <<stage, advertising, link, request, events, busy, app_vars>>

Timers == {"update"}
Asked(type) == [type |-> type, timer |-> "update"]

Lib == INSTANCE AppTimer
       WITH Repeating <- {}, draining <- (busy = "requests"), promised <- {}, fresh <- {}

Event(what) == [what |-> what]
Params(what, ok) == [what |-> what, ok |-> ok]
Queued(what) == \E i \in DOMAIN events : events[i].what = what

-----------------------------------------------------------------------------
(* The central and the SoftDevice.                                          *)

Post(e) == events' = Append(events, e)
Room == Len(events) + Len(m_req_fifo) < MaxEvents

\* What comes while others are being handled belongs to a longer batch (MaxEvents).
Between == busy # "events"

\* A central connects; advertising ends with the connection.
Connects ==
    /\ stage = "on" /\ advertising /\ link = "none" /\ Room
    /\ advertising' = FALSE
    /\ link' = "up"
    /\ \E ok \in BOOLEAN : Post(Params("CONNECTED", ok))
    /\ UNCHANGED <<stage, request, busy, app_vars>>

\* The link ends: lost, closed by the central, or closed as this side asked.
Drops ==
    /\ stage = "on" /\ link # "none"
    /\ link' = "none"
    /\ request' = FALSE
    /\ Post(Event("DISCONNECTED"))
    /\ UNCHANGED <<stage, advertising, busy, app_vars>>

\* The central grants a request, or declines it.
Answers ==
    /\ stage = "on" /\ link = "up" /\ request
    /\ request' = FALSE
    /\ \E ok \in BOOLEAN : Post(Params("CONN_PARAM_UPDATE", ok))
    /\ UNCHANGED <<stage, advertising, link, busy, app_vars>>

\* The central sets new parameters of its own accord.
Updates ==
    /\ stage = "on" /\ link = "up" /\ Room /\ Between
    /\ \E ok \in BOOLEAN : Post(Params("CONN_PARAM_UPDATE", ok))
    /\ UNCHANGED <<stage, advertising, link, request, busy, app_vars>>

\* Pairing fails, the central stops answering, reads a descriptor whose value has not
\* been set, or asks for another PHY.
Troubles ==
    /\ stage = "on" /\ link = "up" /\ Room /\ Between
    /\ \E what \in {"CONN_SEC_FAILED", "GATT_TIMEOUT", "SYS_ATTR_MISSING",
                      "PHY_UPDATE_REQUEST"} : Post(Event(what))
    /\ UNCHANGED <<stage, advertising, link, request, busy, app_vars>>

-----------------------------------------------------------------------------
(* The handlers.                                                            *)

Fault == stage' = "fault" /\ UNCHANGED <<advertising, link, request, app_vars>>

\* sd_ble_gap_disconnect with a valid handle.
Disconnect ==
    /\ link = "up"
    /\ link' = "closing"
    /\ UNCHANGED stage

\* nrf_sdh_ble_evts_poll hands the first event to its handler, if it is of this kind.
\* The RTC interrupt goes first when both it and a new batch of events wait.
Takes(what) ==
    /\ stage = "on" /\ events # <<>> /\ Head(events).what = what
    /\ busy = "events" \/ (busy = "none" /\ m_req_fifo = <<>>)
    /\ events' = Tail(events)
    /\ busy' = "events"

\* sd_ble_evt_get finds no more events.
NoMoreEvents ==
    /\ stage = "on" /\ busy = "events" /\ events = <<>>
    /\ busy' = "none"
    /\ UNCHANGED <<stage, advertising, link, request, events, app_vars>>

\* app_timer_start or app_timer_stop.  Other modules' timers share the queue, so that it
\* may be full at any time; the error ends in conn_params_error_handler.
Calls(c) ==
    /\ active' = Lib!FlagAfterCall(active, c)
    /\ UNCHANGED armed
    /\ IF Lib!Ignored(active, c) THEN UNCHANGED <<stage, m_req_fifo>>
       ELSE \/ /\ Len(m_req_fifo) < OpQueueSize
               /\ m_req_fifo' = Append(m_req_fifo, c)
               /\ UNCHANGED stage
            \/ stage' = "nomem" /\ UNCHANGED m_req_fifo

\* PM_EVT_PEERS_DELETE_SUCCEEDED, at the start: advertising begins.
BondsDeleted ==
    /\ stage = "deleting"
    /\ stage' = "on"
    /\ advertising' = TRUE
    /\ UNCHANGED <<link, request, events, busy, app_vars>>

\* Mutants of Negotiation: the requests are counted anew each time, and the timer is
\* started for the first of them only.
Mutant_CountsAnew(ok) ==
    /\ params_ok' = ok
    /\ update_count' = 0
    /\ IF ok THEN UNCHANGED <<stage, timers>> ELSE Calls(Asked("start"))
Mutant_FirstOnly(ok) ==
    /\ params_ok' = ok
    /\ update_count' = IF ok \/ ~claimed THEN 0 ELSE update_count
    /\ IF ok \/ update_count # 0 THEN UNCHANGED <<stage, timers>> ELSE Calls(Asked("start"))

\* conn_params_negotiation, once the parameters have been looked at.  A running timer
\* is left alone, also if the parameters are good by now.
Negotiation(ok) ==
    /\ params_ok' = ok
    /\ update_count' = IF ok \/ ~claimed THEN 0 ELSE update_count
    /\ IF ok THEN UNCHANGED <<stage, timers>> ELSE Calls(Asked("start"))

\* The handler of main.c, then on_connect of ble_conn_params.c, which has an instance
\* for one link and reports an error if it is in use.
Connected ==
    /\ Takes("CONNECTED")
    /\ IF claimed THEN Fault
       ELSE /\ m_conn_handle' = TRUE
            /\ claimed' = TRUE
            /\ Negotiation(Head(events).ok)
            /\ UNCHANGED <<advertising, link, request>>

\* Mutant of Observers: the order of the priorities of sdk_config.h is reversed.
Mutant_SdkFirst == <<"ble_advertising", "main">>

\* Who starts advertising after a disconnection, by observer priority.
Observers == <<"main", "ble_advertising">>

\* ble_advertising_start fails while advertising is on; only main checks the result.
Restart(s, observer) ==
    IF s.on THEN [s EXCEPT !.fault = @ \/ observer = "main"] ELSE [s EXCEPT !.on = TRUE]

\* on_disconnect of ble_conn_params.c.
Freed ==
    /\ claimed' = FALSE
    /\ IF claimed THEN Calls(Asked("stop")) ELSE UNCHANGED <<stage, timers>>

Disconnected ==
    /\ Takes("DISCONNECTED")
    /\ m_conn_handle' = FALSE
    /\ LET s == Restart(Restart([on |-> advertising, fault |-> FALSE], Observers[1]), Observers[2])
       IN  /\ advertising' = s.on
           /\ IF s.fault THEN stage' = "fault" /\ UNCHANGED <<claimed, timers>> ELSE Freed
    /\ UNCHANGED <<link, request, update_count, params_ok>>

ParamsUpdated ==
    /\ Takes("CONN_PARAM_UPDATE")
    /\ IF claimed THEN Negotiation(Head(events).ok)
       ELSE UNCHANGED <<stage, params_ok, update_count, timers>>
    /\ UNCHANGED <<advertising, link, request, m_conn_handle, claimed>>

\* PM_EVT_CONN_SEC_FAILED: the handle is cleared before it is used to disconnect, and
\* the error of that call is ignored.
SecurityFailed ==
    /\ Takes("CONN_SEC_FAILED")
    /\ m_conn_handle' = FALSE
    /\ UNCHANGED <<stage, advertising, link, request, instance, timers>>

\* BLE_GATTC_EVT_TIMEOUT and BLE_GATTS_EVT_TIMEOUT disconnect the link of the event.
GattTimeout ==
    /\ Takes("GATT_TIMEOUT")
    /\ \/ Disconnect /\ UNCHANGED <<advertising, request, app_vars>>
       \/ link # "up" /\ Fault

\* sd_ble_gatts_sys_attr_set with the handle of main.c.
AttributesMissing ==
    /\ Takes("SYS_ATTR_MISSING")
    /\ IF m_conn_handle /\ link = "up" THEN UNCHANGED <<stage, advertising, link, request, app_vars>>
       ELSE Fault

\* BLE_GAP_EVT_PHY_UPDATE_REQUEST: sd_ble_gap_phy_update with the handle of the event.
PhyRequested ==
    /\ Takes("PHY_UPDATE_REQUEST")
    /\ IF link = "up" THEN UNCHANGED <<stage, advertising, link, request, app_vars>> ELSE Fault

\* Mutant of Refused: a pending procedure counts as an error.
Mutant_BusyToo == link # "up" \/ request

\* The errors of sd_ble_gap_conn_param_update; NRF_ERROR_BUSY is none.
Refused == link # "up"

Exhausted == update_count >= MaxUpdates

\* The timer expires and is taken from the list.
Expires ==
    /\ stage = "on" /\ busy = "none" /\ "update" \in armed
    /\ armed' = {}
    /\ active' = [active EXCEPT !["update"] = FALSE]
    /\ UNCHANGED m_req_fifo

\* update_timeout_handler: another request, which the SoftDevice ignores while one is
\* pending, or after MaxUpdates of them BLE_CONN_PARAMS_EVT_FAILED, upon which main.c
\* disconnects.
UpdateTimeout ==
    /\ Expires /\ active["update"] /\ claimed
    /\ \/ /\ ~Exhausted /\ ~Refused
          /\ request' = TRUE
          /\ update_count' = IF request THEN update_count ELSE update_count + 1
          /\ UNCHANGED <<stage, link>>
       \/ /\ Exhausted /\ m_conn_handle
          /\ Disconnect
          /\ update_count' = 0
          /\ UNCHANGED request
       \/ /\ IF Exhausted THEN ~(m_conn_handle /\ link = "up") ELSE Refused
          /\ stage' = "fault"
          /\ UNCHANGED <<link, request, update_count>>
    /\ UNCHANGED <<advertising, events, busy, m_conn_handle, claimed, params_ok>>

\* A timer that was stopped meanwhile leaves the list without a call.
Lapse ==
    /\ Expires /\ ~active["update"]
    /\ UNCHANGED <<stage, advertising, link, request, events, busy, m_conn_handle, instance>>

\* The RTC interrupt carries out the queued requests, all of them.
Process ==
    /\ stage = "on" /\ busy # "events" /\ m_req_fifo # <<>>
    /\ active' = Lib!FlagAfter(active, Head(m_req_fifo))
    /\ armed' = Lib!ArmedAfter(active, armed, Head(m_req_fifo))
    /\ m_req_fifo' = Tail(m_req_fifo)
    /\ busy' = IF Tail(m_req_fifo) = <<>> THEN "none" ELSE "requests"
    /\ UNCHANGED <<stage, advertising, link, request, events, m_conn_handle, instance>>

-----------------------------------------------------------------------------
\* advertising_init, conn_params_init and advertising_start(true) of ble_init: the
\* bonds are being deleted and the SoftDevice knows no link.
Init ==
    /\ stage = "deleting"
    /\ link = "none"
    /\ events = <<>>
    /\ update_count = 0
    /\ advertising = FALSE /\ request = FALSE
    /\ m_conn_handle = FALSE /\ claimed = FALSE /\ params_ok = FALSE
    /\ busy = "none"
    /\ active = [t \in Timers |-> FALSE]
    /\ armed = {}
    /\ m_req_fifo = <<>>

\* The reset that an error ends in.
Reboot ==
    /\ stage \in {"fault", "nomem"}
    /\ stage' = "deleting"
    /\ link' = "none"
    /\ events' = <<>>
    /\ update_count' = 0
    /\ advertising' = FALSE /\ request' = FALSE
    /\ m_conn_handle' = FALSE /\ claimed' = FALSE /\ params_ok' = FALSE
    /\ busy' = "none"
    /\ active' = [t \in Timers |-> FALSE]
    /\ armed' = {}
    /\ m_req_fifo' = <<>>

Handler ==
    \/ Connected \/ Disconnected \/ ParamsUpdated
    \/ SecurityFailed \/ GattTimeout \/ AttributesMissing \/ PhyRequested

Next ==
    \/ Connects \/ Drops \/ Answers \/ Updates \/ Troubles
    \/ BondsDeleted \/ Handler \/ NoMoreEvents
    \/ UpdateTimeout \/ Lapse \/ Process
    \/ Reboot

\* Interrupts are served, the compare event of a timer is latched by the RTC while others
\* are (hence strong fairness), and the SoftDevice ends a link that is closing and a
\* procedure that is pending.  A central need not connect, stay or leave.
Fairness ==
    /\ WF_vars(BondsDeleted) /\ WF_vars(Reboot)
    /\ WF_vars(Handler) /\ WF_vars(NoMoreEvents) /\ WF_vars(Process) /\ SF_vars(UpdateTimeout)
    /\ WF_vars(Answers) /\ WF_vars(link = "closing" /\ Drops)

Spec == Init /\ [][Next]_vars /\ Fairness

-----------------------------------------------------------------------------
LinkEvents ==
    [what : {"CONNECTED", "CONN_PARAM_UPDATE"}, ok : BOOLEAN]
        \cup [what : {"DISCONNECTED", "CONN_SEC_FAILED", "GATT_TIMEOUT", "SYS_ATTR_MISSING",
                      "PHY_UPDATE_REQUEST"}]

\* The type of the state.
TypeOK ==
    /\ stage \in {"deleting", "on", "fault", "nomem"}
    /\ link \in {"none", "up", "closing"}
    /\ {advertising, request, m_conn_handle, claimed, params_ok} \subseteq BOOLEAN
    /\ events \in Seq(LinkEvents)
    /\ update_count \in 0..MaxUpdates
    /\ busy \in {"none", "events", "requests"}
    /\ active \in [Timers -> BOOLEAN]
    /\ armed \subseteq Timers
    /\ m_req_fifo \in Seq([type : {"start", "stop"}, timer : Timers])
    /\ Len(m_req_fifo) <= OpQueueSize

\* The single instance of ble_conn_params.c keeps up with the links one by one: while a
\* connection waits for its handler, the instance is free or the disconnection before
\* it comes first, so that on_connect never runs out of instances; and the timer never
\* goes off without a claim, although the stop that comes with the end of a link
\* (on_disconnect) may be queued behind starts.
InstanceTracksLink ==
    /\ busy # "requests" /\ "update" \in armed /\ active["update"] => claimed
    /\ \A i \in DOMAIN events :
         events[i].what = "CONNECTED" => ~claimed \/ \E j \in 1..(i - 1) : events[j].what = "DISCONNECTED"

\* The flag of the timer is set and the timer is not in the list: what a start and a stop
\* that are carried out in one go leave behind (app_timer2.c), because a connection with
\* bad parameters and its end were handled in one batch.  No start has an effect then,
\* until the next stop.
Orphaned == active["update"] /\ "update" \notin armed

\* The timer is in the list, or will be when the queued requests have been carried out.
Running ==
    IF m_req_fifo = <<>> THEN active["update"] /\ "update" \in armed
    ELSE m_req_fifo[Len(m_req_fifo)] = Asked("start")

\* A negotiation is never forgotten half way: as long as a living link's parameters are
\* not accepted, its timer, a pending request or a waiting event carries it on
\* (conn_params_negotiation runs for every event and restarts the timer; a request that
\* is refused as busy is not repeated and lives off the pending one), unless the timer
\* was orphaned by an earlier link.
NegotiationGoesOn ==
    stage = "on" /\ link = "up" /\ claimed /\ ~params_ok =>
        \/ Running \/ request
        \/ Queued("CONN_PARAM_UPDATE") \/ Queued("DISCONNECTED")
        \/ Orphaned

\* The instance of the negotiation belongs to the link that is up and carries its
\* negotiation on, in a state of the right type.
LinkInv == TypeOK /\ InstanceTracksLink /\ NegotiationGoesOn

\* The end of a link, which makes two modules start advertising (main.c and
\* ble_advertising.c), leaves the remote running and visible, whatever came before, as
\* long as the timers' queue has room.
DisconnectIsHarmless == [][Disconnected => stage' = "nomem" \/ (stage' = "on" /\ advertising')]_vars

\* A remote whose link is up and known to main.c is not reset by the Bluetooth code:
\* no order of the central's requests, the answers and the timer brings about a call
\* that the SoftDevice refuses with an error.
NoResetOnHealthyLink == [][stage' = "fault" /\ stage = "on" => link # "up" \/ ~m_conn_handle]_vars

\* Unacceptable connection parameters do not last: the central grants better ones, or
\* after MaxUpdates requests the link is closed (on_conn_params_evt), or it ends anyway,
\* if only by a reset (which NoResetOnHealthyLink confines), unless an earlier link has
\* left the timer orphaned.
NegotiationEnds == claimed /\ ~params_ok ~> params_ok \/ ~claimed \/ Orphaned
=============================================================================
