------------------------------ MODULE KeyMessages ------------------------------
(***************************************************************************)
(* What the keys send: buttons_send_page16 of ant_lev.c (the travel mode,   *)
(* page 16, to the bike) and buttons_send_pag73 of antplus_controls.c (page *)
(* up and down, page 73, to the bike computer).                             *)
(*                                                                          *)
(* A message is an acknowledged one, but nothing is done about a refused or *)
(* lost message: the remote goes on counting for itself.  The two devices   *)
(* and the radio are external; AntSearch has the channels' events.          *)
(***************************************************************************)
EXTENDS Integers, Functions

CONSTANTS Step, Top,       \* of the travel mode: 8 and 56
          Byte,            \* 256: the travel mode is a uint8_t
          Wrap,            \* 256: so is the sequence number of page 73
          Configurations,  \* of the features configured, "ebike" and "garmin"
          Strays,          \* the travel modes that decoding an uninitialised buffer may leave
          MaxMissed        \* bound on the presses the other side has not heard of

ASSUME MessagesAssumption ==
    /\ Byte \in Nat /\ Step \in 1..Byte /\ Top \in 0..(Byte - 1) /\ Top % Step = 0
    /\ Wrap \in Nat \ {0} /\ MaxMissed \in Nat
    /\ Configurations \subseteq SUBSET {"ebike", "garmin"}
    /\ Strays \subseteq 0..(Byte - 1)

VARIABLES features,   \* ebike and garmin of main.c
          status,     \* of each feature's channel
          transfer,   \* on each channel, the acknowledged message under way, if any
          travel_mode, sequence,   \* of page_16; of the static buffer of page 73
          level,      \* the bike's travel mode
          heard,      \* the last command of this session the bike computer heard, if any
          base,       \* the travel mode the remote goes on from: the one the bike heard last,
                      \* or, if later, the 0 of a new session or a stray one
          missed, newer,      \* the presses since then (or the command last heard), and
                              \* those since the one last sent
          synced, strayed     \* the bike still has the mode "base"; a stray mode was decoded

remote == <<travel_mode, sequence>>
others == <<level, heard>>
counts == <<base, missed, newer>>
vars == <<features, status, transfer, remote, others, counts, synced, strayed>>

Features == {"ebike", "garmin"}
Modes == {m \in 0..Top : m % Step = 0}
None == [f \in Features |-> <<>>]
Zero == [f \in Features |-> 0]

-----------------------------------------------------------------------------
\* sd_ant_channel_open: fails unless the channel is closed.
Opened(f) == status' = [status EXCEPT ![f] = IF @ = "closed" THEN "searching" ELSE @]

\* sd_ant_acknowledge_message_tx, the result of which is ignored: refused if the channel
\* has no connection or is busy with the last message.
Send(f, message) ==
    /\ missed[f] < MaxMissed
    /\ missed' = [missed EXCEPT ![f] = @ + 1]
    /\ UNCHANGED base
    /\ IF status[f] = "tracking" /\ transfer[f] = <<>>
       THEN transfer' = [transfer EXCEPT ![f] = <<message>>] /\ newer' = [newer EXCEPT ![f] = 0]
       ELSE newer' = [newer EXCEPT ![f] = @ + 1] /\ UNCHANGED transfer

\* Mutant of Stepped: no ends.
Mutant_NoEnds(mode, key) == (mode + (IF key = "PLUS" THEN Step ELSE Byte - Step)) % Byte

\* The ends of the range are tested for equality.
Stepped(mode, key) ==
    CASE key = "PLUS" -> IF mode = Top THEN mode ELSE (mode + Step) % Byte
      [] key = "MINUS" -> IF mode = 0 THEN mode ELSE (mode + Byte - Step) % Byte

\* Mutant of Page16: the page is encoded before the step.
Mutant_Early(key) == [key |-> key, mode |-> travel_mode]

Page16(key) == [key |-> key, mode |-> Stepped(travel_mode, key)]

\* The release of PLUS or MINUS after a short press.
ShortPress(key) ==
    /\ "ebike" \in features
    /\ Opened("ebike")
    /\ travel_mode' = Stepped(travel_mode, key)
    /\ Send("ebike", Page16(key))
    /\ UNCHANGED <<features, sequence, others, synced, strayed>>

\* The release after a long press does no more than open the channel.
LongPress ==
    /\ "ebike" \in features
    /\ Opened("ebike")
    /\ UNCHANGED <<features, transfer, remote, others, counts, synced, strayed>>

\* Mutant of Numbered: the sequence number of a buffer that is not static.
Mutant_NotKept == 1

Numbered == (sequence + 1) % Wrap

\* antplus_controls_page_73_encode; "asked" only records the command.
Page73(command) ==
    [sequence |-> Numbered, lsb |-> command % 256, msb |-> (command \div 2) % 256, asked |-> command]

\* A short ENTER (0: page up), or a long PLUS (0) or MINUS (1).
PageKey(command) ==
    /\ "garmin" \in features
    /\ sequence' = Numbered
    /\ Send("garmin", Page73(command))
    /\ Opened("garmin")
    /\ UNCHANGED <<features, travel_mode, others, synced, strayed>>

-----------------------------------------------------------------------------
(* The radio and the other devices.                                         *)

\* The other end hears the message; presses newer than it are not among those heard.
Heard(f) ==
    /\ missed' = [missed EXCEPT ![f] = newer[f]]
    /\ IF f = "ebike"
       THEN level' = transfer[f][1].mode /\ base' = level' /\ synced' = TRUE /\ UNCHANGED heard
       ELSE heard' = transfer[f] /\ UNCHANGED <<level, base, synced>>
    /\ UNCHANGED <<travel_mode, newer, strayed>>

\* The handler of ant_lev.c decodes a buffer that it has not filled, and finds a page 16.
Stray ==
    /\ travel_mode' \in Strays /\ base' = travel_mode'
    /\ missed' = [missed EXCEPT !["ebike"] = 0] /\ newer' = [newer EXCEPT !["ebike"] = 0]
    /\ synced' = FALSE /\ strayed' = TRUE
    /\ UNCHANGED heard

\* EVENT_TRANSFER_TX_COMPLETED or _FAILED; also a message that was heard may fail.  No
\* further message follows (ant_lev.c:241): p_sens_cb is never set, and what the firmware
\* reads through the null pointer is byte 6 of the flash, part of the reset vector, and 0:
\* ANT_REQUEST_CONTROLLER_IDLE.
TransferEnds(f) ==
    /\ transfer[f] # <<>>
    /\ transfer' = [transfer EXCEPT ![f] = <<>>]
    /\ \/ Heard(f)
       \/ UNCHANGED <<travel_mode, others, counts, synced, strayed>>
       \/ f = "ebike" /\ level' \in {level, transfer[f][1].mode} /\ Stray
    /\ UNCHANGED <<features, status, sequence>>

\* The channel finds its device, loses it, is closed or restarted.
ChannelChanges(f) ==
    /\ f \in features
    /\ \E s \in {"closed", "searching", "tracking"} \ {status[f]} : status' = [status EXCEPT ![f] = s]
    /\ UNCHANGED <<features, transfer, remote, others, counts, synced, strayed>>

\* The rider uses the bike's own display; its pages change nothing that page 16 is made of.
BikeChanges ==
    /\ "ebike" \in features
    /\ level' \in Modes
    /\ synced' = FALSE
    /\ UNCHANGED <<features, status, transfer, remote, heard, counts, strayed>>

\* ant_lev_disp_init and antplus_controls_sens_init of a new session, while the bike goes on.
Session ==
    /\ features' = features
    /\ status' = [f \in Features |-> IF f \in features THEN "searching" ELSE "closed"]
    /\ transfer' = None
    /\ travel_mode' = 0 /\ sequence' = 0
    /\ heard' = <<>>
    /\ base' = 0 /\ missed' = Zero /\ newer' = Zero
    /\ synced' = FALSE /\ strayed' = FALSE
    /\ UNCHANGED level

Init ==
    /\ features \in Configurations
    /\ status = [f \in Features |-> IF f \in features THEN "searching" ELSE "closed"]
    /\ transfer = None
    /\ travel_mode = 0 /\ sequence = 0
    /\ level \in Modes
    /\ heard = <<>>
    /\ base = 0 /\ missed = Zero /\ newer = Zero
    /\ synced = FALSE /\ strayed = FALSE

Next ==
    \/ \E key \in {"PLUS", "MINUS"} : ShortPress(key)
    \/ LongPress
    \/ \E command \in {0, 1} : PageKey(command)
    \/ \E f \in Features : TransferEnds(f) \/ ChannelChanges(f)
    \/ BikeChanges
    \/ Session

Spec == Init /\ [][Next]_vars

-----------------------------------------------------------------------------
\* The type of the state.
TypeOK ==
    /\ features \in Configurations
    /\ status \in [Features -> {"closed", "searching", "tracking"}]
    /\ \A m \in Range(transfer["ebike"]) : m \in [key : {"PLUS", "MINUS"}, mode : 0..(Byte - 1)]
    /\ \A m \in Range(transfer["garmin"]) \cup Range(heard) :
         m \in [sequence : 0..(Wrap - 1), lsb : 0..255, msb : 0..255, asked : {0, 1}]
    /\ travel_mode \in 0..(Byte - 1) /\ level \in 0..(Byte - 1) /\ base \in 0..(Byte - 1)
    /\ sequence \in 0..(Wrap - 1)
    /\ missed \in [Features -> 0..MaxMissed] /\ newer \in [Features -> 0..MaxMissed]
    /\ synced \in BOOLEAN /\ strayed \in BOOLEAN

\* From the mode that the bike heard last the remote's own count is off by no more than
\* the presses that got lost since (refused, failed or under way), also at the ends of the
\* range, which it leaves only after a stray mode; and the bike has that mode until
\* something but a message changes it.
LagIsMissed ==
    /\ synced => level = base
    /\ ~strayed => travel_mode - base \in (-Step * missed["ebike"])..(Step * missed["ebike"])

\* Both commands of main.c arrive as they were meant, although the upper byte is made
\* by a shift of one bit.
CommandArrives == \A m \in Range(heard) : m.msb * 256 + m.lsb = m.asked

\* What the other devices have heard is behind the remote by the missed presses and not
\* distorted, in a state of the right type.
MessagesInv == TypeOK /\ LagIsMissed /\ CommandArrives

\* With no press lost since, a press that changes the bike's mode puts it one step, in the
\* direction of the key, from the mode the remote counts from; at an end of the range, to
\* that end.  That mode is the one the bike heard last; but at the first press of a session
\* it is 0 whatever the bike is set to (ant_lev.c:80), so that there PLUS may lower the
\* level and MINUS turn it to 0 from anywhere, and after a stray mode it is that one.
OneLevelPerPress ==
    [][\A m \in Range(transfer["ebike"]) :
         transfer'["ebike"] = <<>> /\ level' # level /\ missed["ebike"] - newer["ebike"] = 1
             => level' = CASE m.key = "PLUS" -> IF base = Top THEN Top ELSE (base + Step) % Byte
                           [] m.key = "MINUS" -> IF base = 0 THEN 0 ELSE (base - Step) % Byte]_vars

\* The bike computer tells every command it hears from the one before by the sequence
\* number, unless a whole turn of the numbers was lost in between.
NeverTakenForRepeat ==
    [][heard # <<>> /\ heard' # <<>> /\ missed'["garmin"] < missed["garmin"]
         /\ missed["garmin"] - newer["garmin"] < Wrap
             => heard'[1].sequence # heard[1].sequence]_vars

=============================================================================
