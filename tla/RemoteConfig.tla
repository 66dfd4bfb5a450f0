---------------------------- MODULE RemoteConfig ----------------------------
(***************************************************************************)
(* The configuration life cycle of main.c: the idle loop evaluates, in     *)
(* check_interrupt_flags(), what the interrupt handlers left in globals,   *)
(* saves a new configuration through eeprom.c (module ConfigFlash) and     *)
(* resets; the next boot runs what it finds in flash.                      *)
(*                                                                         *)
(* All handlers (SoftDevice events, app_timer, GPIOTE) have interrupt      *)
(* priority 6: they run one at a time, to completion, between any two      *)
(* loads of the main thread.  The firmware is built with -O0 and           *)
(* new_ant_device_id is not volatile, so each of its occurrences in        *)
(* check_interrupt_flags() is a load of its own, and a step of its own.    *)
(***************************************************************************)
EXTENDS Naturals, Sequences, FiniteSets

CONSTANTS
  Capacity, MaxRequests, Faults,   \* see ConfigFlash
  Values,                          \* the characteristic values a client writes
  MaxWrites                        \* bound on characteristic writes per boot

VARIABLES
  pc,        \* where the main thread is
  newId,     \* new_ant_device_id
  oldId,     \* old_ant_device_id
  on,        \* which of ebike, garmin and brake are 1
  flags,     \* m_turn_bluetooth_on, m_turn_bluetooth_off, shutdown_flag
  ble,       \* bluetooth was started by this boot
  timer,     \* bluetooth_timer is running
  gpregret,  \* the retained register holds BOOTLOADER_DFU_START
  writes,    \* characteristic writes of this boot, bounded by MaxWrites
  log,       \* history: the configurations saved, in the order of their saves
  flash, ops, step, latest, desc, ram, phase, accepted   \* ConfigFlash

Flash == INSTANCE ConfigFlash

ram_vars == <<newId, oldId, on, flags, ble, timer, writes>>
flash_vars == <<flash, ops, step, latest, desc, ram, phase, accepted>>
vars == <<pc, gpregret, log, ram_vars, flash_vars>>

Features == {"ebike", "garmin", "brake"}
Flags    == {"bluetooth_on", "bluetooth_off", "shutdown"}

(* The characteristic values that are commands, 0x90..0x95 and 0x99. *)
Switch(c)  == CASE c \in {144, 145} -> "ebike"
                [] c \in {146, 147} -> "garmin"
                [] c \in {148, 149} -> "brake"
Mutant_Switches == (144..149) \ {148}   \* the case for 0x94 is missing
Switches   == 144..149
TurnsOn(c) == c % 2 = 0
Dfu        == 153
Commands   == Switches \cup {Dfu}
Byte       == 0..255

ASSUME RemoteAssumption ==
  Values \subseteq Byte /\ MaxWrites \in Nat /\ Flash!FlashAssumption

Config  == [id : Byte, bt : BOOLEAN, on : SUBSET Features]
Factory == [id |-> 0, bt |-> FALSE, on |-> {"ebike"}]

(* The configuration of save request n. *)
Content(n) == IF n = 0 THEN Factory ELSE log[n]

Running == {"ids", "select", "adopt", "save", "flags", "on", "off"}
Pc      == Running \cup {"boot", "wait", "stop", "sleep", "dfu"}

Goto(label) == pc' = label

-----------------------------------------------------------------------------
Init ==
  /\ pc = "boot" /\ gpregret = FALSE /\ log = <<>>
  /\ newId = 0 /\ oldId = 0 /\ on = {} /\ flags = {} /\ ble = FALSE
  /\ timer = FALSE /\ writes = 0
  /\ Flash!Init

(* Mutant: the device resets while flash operations are queued. *)
Mutant_GoDown(label) ==
  /\ Goto(label)
  /\ newId' = 0 /\ oldId' = 0 /\ on' = {} /\ flags' = {} /\ ble' = FALSE
  /\ timer' = FALSE /\ writes' = 0
  /\ Flash!LoseRam
  /\ UNCHANGED log

(* The device goes down: RAM is lost, flash and the retained register stay. *)
GoDown(label) ==
  /\ Goto(label)
  /\ Faults \/ ops = <<>>
  /\ newId' = 0 /\ oldId' = 0 /\ on' = {} /\ flags' = {} /\ ble' = FALSE
  /\ timer' = FALSE /\ writes' = 0
  /\ Flash!LoseRam
  /\ UNCHANGED log

(* Mutant: the five minute timer is not started. *)
Mutant_Boot ==
  /\ pc = "boot" /\ ~gpregret
  /\ Flash!BootFound \/ Flash!BootDefault
  /\ LET c == Content(ram') IN
       /\ newId' = c.id /\ oldId' = c.id /\ on' = c.on
       /\ ble' = c.bt /\ timer' = FALSE
  /\ Goto("ids")
  /\ UNCHANGED <<flags, writes, gpregret, log>>

(* main() up to the idle loop: eeprom_init() and what it hands out. *)
Boot ==
  /\ pc = "boot" /\ ~gpregret
  /\ Flash!BootFound \/ Flash!BootDefault
  /\ LET c == Content(ram') IN
       /\ newId' = c.id /\ oldId' = c.id /\ on' = c.on
       /\ ble' = c.bt /\ timer' = c.bt
  /\ Goto("ids")
  /\ UNCHANGED <<flags, writes, gpregret, log>>

BootFault == pc = "boot" /\ ~gpregret /\ Flash!BootFault /\ UNCHANGED vars

(* The bootloader takes over, clears the register, and starts the firmware. *)
EnterDfu ==
  /\ pc = "boot" /\ gpregret
  /\ Goto("dfu")
  /\ UNCHANGED <<gpregret, log, ram_vars, flash_vars>>
LeaveDfu ==
  /\ pc = "dfu"
  /\ gpregret' = FALSE
  /\ Goto("boot")
  /\ UNCHANGED <<log, ram_vars, flash_vars>>

-----------------------------------------------------------------------------
(* check_interrupt_flags(): new_ant_device_id != old_ant_device_id? *)
CompareIds ==
  /\ pc = "ids"
  /\ Goto(IF newId # oldId THEN "select" ELSE "flags")
  /\ UNCHANGED <<gpregret, log, ram_vars, flash_vars>>

(* Mutant: a case without break falls through to the default. *)
Mutant_SelectSwitch ==
  /\ pc = "select" /\ newId \in Switches
  /\ on' = IF TurnsOn(newId) THEN on \cup {Switch(newId)} ELSE on \ {Switch(newId)}
  /\ oldId' = newId
  /\ Goto("save")
  /\ UNCHANGED <<newId, flags, ble, timer, writes, gpregret, log, flash_vars>>

(* switch (new_ant_device_id): a feature is turned on or off ... *)
SelectSwitch ==
  /\ pc = "select" /\ newId \in Switches
  /\ on' = IF TurnsOn(newId) THEN on \cup {Switch(newId)} ELSE on \ {Switch(newId)}
  /\ Goto("save")
  /\ UNCHANGED <<newId, oldId, flags, ble, timer, writes, gpregret, log, flash_vars>>

(* Mutant: the wait begins without a request. *)
Mutant_SelectDfu_NoRequest ==
  /\ pc = "select" /\ newId = Dfu
  /\ Goto("wait")
  /\ UNCHANGED <<gpregret, log, ram_vars, flash_vars>>

(* Mutant: the reset does not follow. *)
Mutant_SelectDfu_NoReset ==
  /\ pc = "select" /\ newId = Dfu
  /\ gpregret' = TRUE
  /\ Goto("flags")
  /\ UNCHANGED <<log, ram_vars, flash_vars>>

(* ... or the bootloader is requested ... *)
SelectDfu ==
  /\ pc = "select" /\ newId = Dfu
  /\ gpregret' = TRUE
  /\ Goto("wait")
  /\ UNCHANGED <<log, ram_vars, flash_vars>>

(* ... or anything else is a device number, which is loaded once more. *)
SelectId ==
  /\ pc = "select" /\ newId \notin Commands
  /\ Goto("adopt")
  /\ UNCHANGED <<gpregret, log, ram_vars, flash_vars>>
Adopt ==
  /\ pc = "adopt"
  /\ oldId' = newId
  /\ Goto("save")
  /\ UNCHANGED <<newId, on, flags, ble, timer, writes, gpregret, log, flash_vars>>

(* Mutant: the main loop goes on after a save. *)
Mutant_Save(bt) ==
  /\ Flash!Update
  /\ log' = Append(log, [id |-> oldId, bt |-> bt, on |-> on])
  /\ Goto("flags")
  /\ UNCHANGED <<newId, oldId, on, ble, timer, writes, gpregret>>

(* eeprom_write_variables(), then wait_and_reset(). *)
Save(bt) ==
  /\ Flash!Update
  /\ log' = Append(log, [id |-> oldId, bt |-> bt, on |-> on])
  /\ Goto("wait")
  /\ UNCHANGED <<newId, oldId, on, ble, timer, writes, gpregret>>

SaveConfig == pc = "save" /\ Save(FALSE) /\ UNCHANGED flags

(* Mutant: shutdown_flag is never tested. *)
Mutant_TestShutdown ==
  /\ pc = "flags"
  /\ Goto("on")
  /\ UNCHANGED <<gpregret, log, ram_vars, flash_vars>>

(* No flag: the next test.  shutdown_flag is tested first ... *)
TestShutdown ==
  /\ pc = "flags"
  /\ Goto(IF "shutdown" \in flags THEN "stop" ELSE "on")
  /\ UNCHANGED <<gpregret, log, ram_vars, flash_vars>>

(* ... then the two bluetooth flags. *)
TestBluetooth(label, flag, bt, next) ==
  /\ pc = label
  /\ IF flag \in flags
     THEN flags' = flags \ {flag} /\ Save(bt)
     ELSE Goto(next) /\ UNCHANGED <<gpregret, log, ram_vars, flash_vars>>

TestOn  == TestBluetooth("on", "bluetooth_on", TRUE, "off")
TestOff == TestBluetooth("off", "bluetooth_off", FALSE, "ids")

(* No room in flash: APP_ERROR_CHECK in eeprom_write_variables() resets. *)
SaveFault ==
  /\ \/ pc = "save"
     \/ pc = "on" /\ "bluetooth_on" \in flags
     \/ pc = "off" /\ "bluetooth_off" \in flags
  /\ ~Flash!HasSpace
  /\ GoDown("boot")
  /\ UNCHANGED gpregret

(* sd_nvic_SystemReset() at the end of wait_and_reset(). *)
SystemReset == pc = "wait" /\ GoDown("boot") /\ UNCHANGED gpregret

(* shutdown() from the main thread: system off. *)
SystemOff == pc = "stop" /\ GoDown("sleep") /\ UNCHANGED gpregret

(* A button wakes the device from system off: it starts from reset. *)
Wake ==
  /\ pc = "sleep"
  /\ Goto("boot")
  /\ UNCHANGED <<gpregret, log, ram_vars, flash_vars>>

-----------------------------------------------------------------------------
(* The interrupt handlers, which run as long as the firmware does. *)
Awake == pc \in Running \cup {"wait", "stop"}

(* ant_id_write_handler(): a bluetooth client writes the characteristic. *)
BleWrite(v) ==
  /\ Awake /\ ble /\ writes < MaxWrites
  /\ newId' = v
  /\ writes' = writes + 1
  /\ UNCHANGED <<pc, oldId, on, flags, ble, timer, gpregret, log, flash_vars>>

(* The long press handler raises bluetooth flags - both of them for PLUS,    *)
(* MINUS and STANDBY - and the release handler raises shutdown_flag.         *)
Gesture(raised) ==
  /\ Awake
  /\ flags' = flags \cup raised
  /\ UNCHANGED <<pc, newId, oldId, on, ble, timer, writes, gpregret, log, flash_vars>>

(* bluetooth_timer_timeout(): five minutes after a boot with bluetooth.      *)
BluetoothTimeout ==
  /\ Awake /\ timer
  /\ timer' = FALSE
  /\ flags' = flags \cup {"bluetooth_off"}
  /\ UNCHANGED <<pc, newId, oldId, on, ble, writes, gpregret, log, flash_vars>>

(* ENTER + STANDBY: the handler requests the bootloader, waits and resets;  *)
(* nothing else runs meanwhile.                                             *)
DfuGesture == Awake /\ gpregret' = TRUE /\ GoDown("boot")

(* timer_button_press_timeout_handler(): an hour without a button. *)
IdleShutdown == Awake /\ GoDown("sleep") /\ UNCHANGED gpregret

(* The battery is taken out: the retained register is lost, too. *)
PowerLoss == Faults /\ gpregret' = FALSE /\ GoDown("boot")

(* fds and fstorage callbacks. *)
FlashProgress ==
  /\ Flash!FlashStep \/ Flash!TimeOut
  /\ UNCHANGED <<pc, gpregret, log, ram_vars>>

Main == \/ Boot \/ CompareIds \/ SelectSwitch \/ SelectDfu \/ SelectId \/ Adopt
        \/ SaveConfig \/ TestShutdown \/ TestOn \/ TestOff
        \/ SaveFault \/ SystemReset \/ SystemOff

Gestures == {{"bluetooth_on"}, {"bluetooth_off"},
             {"bluetooth_on", "bluetooth_off"}, {"shutdown"}}

Next == \/ Main \/ BootFault \/ EnterDfu \/ LeaveDfu \/ Wake
        \/ \E v \in Values : BleWrite(v)
        \/ \E raised \in Gestures : Gesture(raised)
        \/ BluetoothTimeout \/ DfuGesture \/ IdleShutdown \/ PowerLoss
        \/ FlashProgress

Spec == Init /\ [][Next]_vars

(* The main loop is woken by every event, the SoftDevice executes queued     *)
(* flash writes, a running timer expires and the bootloader hands over.      *)
FairSpec == /\ Spec
            /\ WF_vars(Main) /\ WF_vars(FlashProgress)
            /\ WF_vars(BluetoothTimeout) /\ WF_vars(EnterDfu \/ LeaveDfu)
-----------------------------------------------------------------------------
(* Types; a save request for every log entry; the main thread and eeprom.c   *)
(* in agreement; fds queues hold the boot's write and one update at most, so *)
(* FDS_OP_QUEUE_SIZE (4) leaves room.                                        *)
TypeOK ==
  /\ pc \in Pc /\ newId \in Byte /\ oldId \in Byte /\ on \subseteq Features
  /\ flags \subseteq Flags /\ ble \in BOOLEAN /\ timer \in BOOLEAN
  /\ gpregret \in BOOLEAN /\ writes \in 0..MaxWrites
  /\ log \in Seq(Config) /\ Len(log) = accepted
  /\ pc = "wait" => phase = "saved" \/ gpregret
  /\ pc \in {"boot", "sleep", "dfu"} => phase = "down"
  /\ Len(ops) <= 2

(* Whatever the client and the buttons do meanwhile, the main thread uses    *)
(* eeprom.c as ConfigFlash assumes: at most one save per boot, then a reset. *)
FlashSpec == Flash!Spec

(* Only device numbers are stored as device numbers: "Valid inputs are       *)
(* hexadecimal 0x01 - 0x59" and the wild card 0x00 (configuration.md:11),    *)
(* and main.c keeps the commands apart from the identifiers (main.c:1256).   *)
(* The code breaks it: a command that is written between the switch on       *)
(* new_ant_device_id and its copy is saved as a device number.               *)
ValidIds == \A n \in DOMAIN log : log[n].id \in 0..89

(* ... and that takes a second write.  In a boot whose client has written    *)
(* once so far, a command is obeyed and not stored, whatever gestures, saves *)
(* and time-outs fall between the three loads of new_ant_device_id.          *)
OneWriteIsObeyed ==
  [][log' # log /\ writes <= 1 =>
       LET new == log'[Len(log')]
       IN  new.id = Content(ram).id \/ new.id \notin 144..149 \cup {153}]_vars

(* A save changes one thing of the configuration that is running, and one    *)
(* that changes an option turns bluetooth off: check_interrupt_flags() never *)
(* mixes the effects of two requests into one record.                        *)
SaveChangesOneThing ==
  [][log' # log =>
       LET old == Content(ram)
           new == log'[Len(log')]
           features == (old.on \ new.on) \cup (new.on \ old.on)
       IN /\ Cardinality(features) + (IF old.id = new.id THEN 0 ELSE 1) <= 1
          /\ new.bt => features = {} /\ old.id = new.id]_vars

(* If the waits are long enough, a boot runs what was saved last.            *)
LastSaveRuns == [][pc = "boot" /\ pc' = "ids" =>
                     /\ oldId' = Content(accepted).id
                     /\ on' = Content(accepted).on
                     /\ ble' = Content(accepted).bt]_vars

(* "Bluetooth will also automatically turn off after 5 minutes"              *)
(* (operation.md:40-41): a boot without it follows, or the remote sleeps,    *)
(* or it is in the bootloader's hands.                                       *)
BluetoothEnds ==
  ble ~> \/ pc = "ids" /\ ~ble
         \/ pc = "sleep" \/ gpregret \/ accepted = MaxRequests

(* The bootloader, once requested, is reached, unless the idle timer powers  *)
(* the device off first.                                                     *)
DfuReached == gpregret ~> pc \in {"dfu", "sleep"}

(* The PLUS + MINUS gesture ends in system off, unless a reset comes first.  *)
ShutdownHonoured ==
  "shutdown" \in flags ~> pc \in {"sleep", "boot"} \/ accepted = MaxRequests

(* If the waits are long enough, ConfigFlash keeps one valid copy between   *)
(* its operations, and every accepted save becomes what a boot would load,   *)
(* whatever the client, the gestures and the timers do.                      *)
SingleCopy == Flash!SingleCopy
SavedEventually == Flash!SavedEventually
=============================================================================
