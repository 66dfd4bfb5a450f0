------------------------- MODULE RemoteConfig_proofs -------------------------
(***************************************************************************)
(* What holds of the configuration life cycle for every capacity, number   *)
(* of saves, characteristic values and faults: the main thread is a        *)
(* correct client of the store, whose theorems (ConfigFlash_proofs) then   *)
(* hold of the whole.                                                      *)
(***************************************************************************)
EXTENDS RemoteConfig, SequenceTheorems, FiniteSetTheorems, TLAPS

Store == INSTANCE ConfigFlash_proofs

(* Where the main thread is tells the phase of the store; a device that is  *)
(* down has forgotten everything.                                           *)
InPhase ==
  /\ pc \in Pc /\ gpregret \in BOOLEAN
  /\ pc \in Running \cup {"stop"} => phase = "up"
  /\ pc = "wait" => phase = "saved" \/ (phase = "up" /\ gpregret)
  /\ pc \in {"boot", "sleep", "dfu"} => phase = "down"
  /\ phase = "down" => ops = <<>> /\ step = "idle" /\ latest = 0 /\ desc = 0 /\ ram = 0

-----------------------------------------------------------------------------
(* The device goes down: a reset of the store, or nothing new to it.        *)
LEMMA GoDownStep ==
  ASSUME InPhase, NEW label \in {"boot", "sleep"}, GoDown(label),
         UNCHANGED gpregret \/ gpregret' \in BOOLEAN
  PROVE  /\ InPhase'
         /\ Flash!Reset \/ UNCHANGED Flash!vars
         /\ UNCHANGED <<flash, accepted, log>>
<1>1. /\ pc' = label /\ (Faults \/ ops = <<>>) /\ Flash!LoseRam /\ UNCHANGED log
  BY DEF GoDown, Goto
<1>2. /\ phase' = "down" /\ ops' = <<>> /\ step' = "idle" /\ latest' = 0 /\ desc' = 0 /\ ram' = 0
      /\ UNCHANGED <<flash, accepted>>
  BY <1>1 DEF Flash!LoseRam
<1>3. InPhase'
  <2>1. gpregret' \in BOOLEAN
    BY DEF InPhase
  <2>2. pc' \in {"boot", "sleep"} /\ pc' \in Pc /\ pc' \notin Running \cup {"stop", "wait"}
    BY <1>1 DEF Pc, Running
  <2>3. QED  BY <1>2, <2>1, <2>2 DEF InPhase
<1>4. ASSUME phase = "down"  PROVE UNCHANGED Flash!vars
  <2>1. ops = <<>> /\ step = "idle" /\ latest = 0 /\ desc = 0 /\ ram = 0
    BY <1>4 DEF InPhase
  <2>2. QED  BY <1>2, <1>4, <2>1 DEF Flash!vars
<1>5. ASSUME phase # "down"  PROVE Flash!Reset
  BY <1>1, <1>5 DEF Flash!Reset
<1>6. QED  BY <1>1, <1>2, <1>3, <1>4, <1>5

(* A save, which happens once in a boot.                                    *)
LEMMA SaveStep ==
  ASSUME InPhase, pc \in {"save", "on", "off"}, NEW bt \in BOOLEAN, Save(bt)
  PROVE  InPhase' /\ Flash!WriteVariables
<1>1. phase = "up" /\ Flash!Update /\ pc' = "wait" /\ phase' = "saved" /\ UNCHANGED gpregret
  BY DEF InPhase, Running, Save, Goto, Flash!Update
<1>2. QED  BY <1>1 DEF InPhase, Pc, Running, Flash!WriteVariables

(* Every step of the life cycle is one of the store, or leaves it alone.    *)
LEMMA StoreStep ==
  ASSUME InPhase, [Next]_vars
  PROVE  InPhase' /\ [Flash!Next]_Flash!vars
<1>1. CASE Boot
  <2>1. /\ pc = "boot" /\ pc' = "ids" /\ UNCHANGED gpregret
        /\ Flash!BootFound \/ Flash!BootDefault
    BY <1>1 DEF Boot, Goto
  <2>2. phase' = "up"
    BY <2>1 DEF Flash!BootFound, Flash!BootDefault
  <2>3. QED  BY <2>1, <2>2 DEF InPhase, Pc, Running, Flash!Next
<1>2. CASE CompareIds \/ SelectSwitch \/ SelectId \/ Adopt \/ TestShutdown
  <2>1. UNCHANGED <<gpregret, flash_vars>>
    BY <1>2 DEF CompareIds, SelectSwitch, SelectId, Adopt, TestShutdown
  <2>2. /\ pc \in {"ids", "select", "adopt", "flags"}
        /\ pc' \in {"select", "flags", "save", "adopt", "stop", "on"}
    BY <1>2 DEF CompareIds, SelectSwitch, SelectId, Adopt, TestShutdown, Goto
  <2>3. QED  BY <2>1, <2>2 DEF InPhase, Pc, Running, flash_vars, Flash!vars
<1>3. CASE SelectDfu
  BY <1>3 DEF SelectDfu, Goto, InPhase, Pc, Running, flash_vars, Flash!vars
<1>4. CASE SaveConfig
  BY <1>4, SaveStep DEF SaveConfig, Flash!Next
<1>5. CASE TestOn \/ TestOff
  <2>1. PICK bt \in BOOLEAN, flag \in Flags, label \in {"on", "off"}, next \in {"off", "ids"} :
             TestBluetooth(label, flag, bt, next)
    <3>1. CASE TestOn
      BY <3>1 DEF TestOn, Flags
    <3>2. CASE TestOff
      BY <3>2 DEF TestOff, Flags
    <3>3. QED  BY <1>5, <3>1, <3>2
  <2>2. CASE flag \in flags
    BY <2>1, <2>2, SaveStep DEF TestBluetooth, Flash!Next
  <2>3. CASE flag \notin flags
    BY <2>1, <2>3 DEF TestBluetooth, Goto, InPhase, Pc, Running, flash_vars, Flash!vars
  <2>4. QED  BY <2>2, <2>3
<1>6. CASE SaveFault \/ SystemReset \/ SystemOff \/ DfuGesture \/ IdleShutdown \/ PowerLoss
  <2>1. PICK label \in {"boot", "sleep"} : GoDown(label)
    BY <1>6 DEF SaveFault, SystemReset, SystemOff, DfuGesture, IdleShutdown, PowerLoss
  <2>2. UNCHANGED gpregret \/ gpregret' \in BOOLEAN
    BY <1>6 DEF SaveFault, SystemReset, SystemOff, DfuGesture, IdleShutdown, PowerLoss
  <2>3. QED  BY <2>1, <2>2, GoDownStep DEF Flash!Next
<1>7. CASE EnterDfu \/ LeaveDfu \/ Wake
  BY <1>7 DEF EnterDfu, LeaveDfu, Wake, Goto, InPhase, Pc, Running, flash_vars, Flash!vars
<1>8. CASE \/ \E v \in Values : BleWrite(v)
           \/ \E raised \in Gestures : Gesture(raised)
           \/ BluetoothTimeout
  <2>1. UNCHANGED <<pc, gpregret, flash_vars>>
    BY <1>8 DEF BleWrite, Gesture, BluetoothTimeout
  <2>2. QED  BY <2>1 DEF InPhase, flash_vars, Flash!vars
<1>9. CASE FlashProgress
  <2>1. Flash!FlashStep \/ Flash!TimeOut
    BY <1>9 DEF FlashProgress
  <2>2. step # "idle" /\ UNCHANGED <<pc, gpregret, phase>>
    BY <1>9, <2>1 DEF FlashProgress, Flash!FlashStep, Flash!TimeOut, Flash!FindFails,
      Flash!WriteBegin, Flash!WriteId, Flash!WriteData, Flash!WriteFinalize, Flash!FlagDirty
  <2>3. QED  BY <2>1, <2>2 DEF InPhase, Flash!Next
<1>10. CASE BootFault \/ UNCHANGED vars
  BY <1>10 DEF BootFault, vars, InPhase, flash_vars, Flash!vars
<1>11. QED  BY <1>1, <1>2, <1>3, <1>4, <1>5, <1>6, <1>7, <1>8, <1>9, <1>10 DEF Next, Main

LEMMA AlwaysInPhase == Spec => []InPhase
<1>1. Init => InPhase
  BY DEF Init, Flash!Init, InPhase, Pc, Running
<1>2. InPhase /\ [Next]_vars => InPhase'
  BY StoreStep
<1>3. QED  BY <1>1, <1>2, PTL DEF Spec

(* Whatever the client, the keys and the timers do, the main thread uses    *)
(* the store as ConfigFlash says: one save per boot, then a reset           *)
(* (main.c:1298, 1311, 1319).                                               *)
THEOREM MainUsesStore == Spec => FlashSpec
<1>1. Init => Flash!Init
  BY DEF Init
<1>2. InPhase /\ [Next]_vars => [Flash!Next]_Flash!vars
  BY StoreStep
<1>3. QED  BY <1>1, <1>2, AlwaysInPhase, PTL DEF Spec, FlashSpec, Flash!Spec

-----------------------------------------------------------------------------
(* What ConfigFlash_proofs establishes of the store holds here.             *)
LEMMA StoreAssumed == Store!FlashAssumption
BY RemoteAssumption DEF Flash!FlashAssumption, Store!FlashAssumption

(* The two instances are one module: expanded, they are the same formulas.  *)
LEMMA SameStore ==
  /\ Flash!Init <=> Store!Init
  /\ [Flash!Next]_Flash!vars <=> [Store!Next]_Store!vars
BY DEF
    Flash!Init, Store!Init, Flash!Next, Store!Next, Flash!vars, Store!vars,
    Flash!Valid, Store!Valid, Flash!First, Store!First, Flash!Stored,
    Store!Stored, Flash!Victims, Store!Victims, Flash!LargestId,
    Store!LargestId, Flash!Erased, Store!Erased, Flash!Reserved,
    Store!Reserved, Flash!HasSpace, Store!HasSpace, Flash!Finish,
    Store!Finish, Flash!LoseRam, Store!LoseRam, Flash!BootFound,
    Store!BootFound, Flash!BootDefault, Store!BootDefault, Flash!BootFault,
    Store!BootFault, Flash!Update, Store!Update, Flash!WriteVariables,
    Store!WriteVariables, Flash!WriteFault, Store!WriteFault, Flash!Reset,
    Store!Reset, Flash!FindFails, Store!FindFails, Flash!WriteBegin,
    Store!WriteBegin, Flash!WriteId, Store!WriteId, Flash!WriteData,
    Store!WriteData, Flash!WriteFinalize, Store!WriteFinalize,
    Flash!FlagDirty, Store!FlagDirty, Flash!TimeOut, Store!TimeOut,
    Flash!FlashStep, Store!FlashStep

LEMMA StoreInvariant == Spec => []Store!IInv
<1>1. FlashSpec => Store!Spec
  BY SameStore, PTL DEF FlashSpec, Flash!Spec, Store!Spec
<1>2. Store!Spec => []Store!IInv
  BY Store!Inductive, StoreAssumed DEF Store!Inductive
<1>3. QED  BY <1>1, <1>2, MainUsesStore, PTL

(* Through the store, the whole firmware implements ConfigRegister: what a  *)
(* boot loads was saved by the main thread, is complete, and never gives    *)
(* way to an older save, whatever interrupts the flash (main.c:1297).       *)
THEOREM RemoteIsARegister == Spec => Flash!RegisterSpec
<1>1. Store!Spec => Store!RegisterSpec
  BY Store!FlashIsARegister, StoreAssumed DEF Store!FlashIsARegister
<1>2. FlashSpec => Store!Spec
  BY SameStore, PTL DEF FlashSpec, Flash!Spec, Store!Spec
<1>3. /\ Store!Register!Init <=> Flash!Register!Init
      /\ [Store!Register!Next]_Store!Register!vars <=> [Flash!Register!Next]_Flash!Register!vars
  BY DEF Store!Register!Init, Flash!Register!Init, Store!Register!Next, Flash!Register!Next,
         Store!Register!Accept, Flash!Register!Accept, Store!Register!Switch,
         Flash!Register!Switch, Store!Register!vars, Flash!Register!vars,
         Flash!Stored, Store!Stored, Flash!First, Store!First, Flash!Valid, Store!Valid
<1>4. Store!RegisterSpec => Flash!RegisterSpec
  BY <1>3, PTL DEF Store!RegisterSpec, Flash!RegisterSpec, Store!Register!Spec,
                   Flash!Register!Spec
<1>5. QED  BY <1>1, <1>2, <1>4, MainUsesStore, PTL

-----------------------------------------------------------------------------
(* The boot's write and one update are all that is ever queued.             *)
ShortQueue == Len(ops) <= 2 /\ (phase = "up" => Len(ops) <= 1)

(* Until the main thread saves, it runs the configuration it loaded, but    *)
(* for the one thing that the save is about.                                *)
OneChange ==
  /\ pc \in {"ids", "select", "adopt", "flags", "on", "off"} =>
       on = Content(ram).on /\ oldId = Content(ram).id
  /\ pc = "save" =>
       \/ on = Content(ram).on
       \/ /\ oldId = Content(ram).id
          /\ \E f \in Features : (on \ Content(ram).on) \cup (Content(ram).on \ on) \subseteq {f}

Life == TypeOK /\ ShortQueue /\ OneChange

(* What RAM holds is the configuration of a save that was made.             *)
LEMMA RamIsSaved == Store!IInv => ram \in 0..accepted /\ accepted \in Nat
BY DEF Store!IInv, Store!TypeOK, Store!Fresh

LEMMA ContentType ==
  ASSUME TypeOK, NEW n \in 0..accepted, accepted \in Nat
  PROVE  Content(n) \in Config
<1>1. log \in Seq(Config) /\ Len(log) = accepted
  BY DEF TypeOK
<1>2. CASE n = 0
  BY <1>2 DEF Content, Factory, Config, Byte, Features
<1>3. CASE n # 0
  <2>1. n \in 1..Len(log)
    BY <1>1, <1>3
  <2>2. QED  BY <1>1, <1>3, <2>1 DEF Content
<1>4. QED  BY <1>2, <1>3

(* Flash operations come and go at the head of the queue.                   *)
LEMMA ProgressStep ==
  ASSUME Store!IInv, ShortQueue, Flash!FlashStep \/ Flash!TimeOut
  PROVE  ShortQueue' /\ UNCHANGED <<latest, desc, ram, phase, accepted>>
<1>1. UNCHANGED <<latest, desc, ram, phase, accepted>>
  BY DEF Flash!FlashStep, Flash!TimeOut, Flash!FindFails, Flash!WriteBegin, Flash!WriteId,
         Flash!WriteData, Flash!WriteFinalize, Flash!FlagDirty
<1>2. UNCHANGED ops \/ (Flash!Finish /\ step # "idle")
  BY DEF Flash!FlashStep, Flash!TimeOut, Flash!FindFails, Flash!WriteBegin, Flash!WriteId,
         Flash!WriteData, Flash!WriteFinalize, Flash!FlagDirty
<1>3. ASSUME Flash!Finish, step # "idle"  PROVE Len(ops') <= Len(ops) /\ Len(ops) \in Nat
  <2>1. ops \in Seq(Store!Op) /\ ops # <<>> /\ ops' = Tail(ops)
    BY <1>3 DEF Store!IInv, Store!TypeOK, Flash!Finish
  <2>2. Len(ops') = Len(ops) - 1 /\ Len(ops) \in Nat
    BY <2>1, HeadTailProperties
  <2>3. QED  BY <2>2
<1>4. ShortQueue'
  <2>1. CASE UNCHANGED ops
    BY <1>1, <2>1 DEF ShortQueue
  <2>2. CASE Flash!Finish /\ step # "idle"
    <3>1. ASSUME NEW m \in Nat, NEW n \in Nat, NEW b \in Nat, m <= n, n <= b  PROVE m <= b
      BY <3>1
    <3>2. Len(ops') \in Nat /\ Len(ops) \in Nat /\ Len(ops') <= Len(ops)
      BY <1>3, <2>2, HeadTailProperties DEF Store!IInv, Store!TypeOK, Flash!Finish
    <3>3. QED  BY <1>1, <3>1, <3>2 DEF ShortQueue
  <2>3. QED  BY <1>2, <2>1, <2>2
<1>5. QED  BY <1>1, <1>4

(* The device goes down.                                                    *)
LEMMA DownLife ==
  ASSUME InPhase, Store!IInv', Life, NEW label \in {"boot", "sleep"}, GoDown(label),
         UNCHANGED gpregret \/ gpregret' \in BOOLEAN
  PROVE  Life'
<1>1. /\ pc' = label /\ newId' = 0 /\ oldId' = 0 /\ on' = {} /\ flags' = {}
      /\ ble' = FALSE /\ timer' = FALSE /\ writes' = 0 /\ log' = log
      /\ phase' = "down" /\ ops' = <<>> /\ accepted' = accepted
  BY DEF GoDown, Goto, Flash!LoseRam
<1>2. Len(ops') = 0
  BY <1>1
<1>3. gpregret' \in BOOLEAN
  BY DEF InPhase
<1>4. pc' \in Pc /\ pc' \in {"boot", "sleep"}
  BY <1>1 DEF Pc
<1>5. newId' \in Byte /\ oldId' \in Byte /\ writes' \in 0..MaxWrites
  BY <1>1, RemoteAssumption DEF Byte
<1>6. TypeOK'
  <2>1. Len(ops') <= 2 /\ pc' # "wait"
    BY <1>2, <1>4
  <2>2. ble' \in BOOLEAN /\ timer' \in BOOLEAN /\ on' \subseteq Features /\ flags' \subseteq Flags
    BY <1>1
  <2>3. log' \in Seq(Config) /\ Len(log') = accepted'
    BY <1>1 DEF Life, TypeOK
  <2>4. QED  BY <1>1, <1>3, <1>4, <1>5, <2>1, <2>2, <2>3 DEF TypeOK
<1>7. ShortQueue' /\ OneChange'
  BY <1>1, <1>2, <1>4 DEF ShortQueue, OneChange
<1>8. QED  BY <1>6, <1>7 DEF Life

(* A save adds a configuration to the log and a second operation at most.   *)
LEMMA SaveLife ==
  ASSUME InPhase, InPhase', Store!IInv, Store!IInv', Life, pc \in {"save", "on", "off"},
         NEW bt \in BOOLEAN, Save(bt), flags' \subseteq Flags
  PROVE  /\ Life'
         /\ log' = Append(log, [id |-> oldId, bt |-> bt, on |-> on])
         /\ log'[Len(log')] = [id |-> oldId, bt |-> bt, on |-> on]
<1> DEFINE new == [id |-> oldId, bt |-> bt, on |-> on]
<1>1. /\ phase = "up" /\ pc' = "wait" /\ phase' = "saved" /\ accepted' = accepted + 1
      /\ log' = Append(log, new)
      /\ ops' = Append(ops, [code |-> "update", id |-> latest + 1, victim |-> desc])
      /\ UNCHANGED <<newId, oldId, on, ble, timer, writes, gpregret>>
  BY DEF InPhase, Running, Save, Goto, Flash!Update
<1>2. new \in Config /\ log \in Seq(Config) /\ Len(log) = accepted /\ accepted \in Nat
  BY RamIsSaved DEF Life, TypeOK, Config
<1>3. log' \in Seq(Config) /\ Len(log') = accepted' /\ log'[Len(log')] = new
  <2> HIDE DEF new
  <2>1. QED  BY <1>1, <1>2, AppendProperties
<1>4. Len(ops') <= 2
  <2>1. ops \in Seq(Store!Op) /\ Len(ops) \in Nat /\ Len(ops) <= 1
    BY <1>1 DEF Store!IInv, Store!TypeOK, Life, ShortQueue
  <2>2. Len(ops') = Len(ops) + 1
    <3>1. [code |-> "update", id |-> latest + 1, victim |-> desc] \in Store!Op
      BY DEF Store!IInv, Store!TypeOK, Store!Op
    <3>2. QED  BY <1>1, <2>1, <3>1, AppendProperties
  <2>3. ASSUME NEW m \in Nat, m <= 1  PROVE m + 1 <= 2
    BY <2>3
  <2>4. QED  BY <2>1, <2>2, <2>3
<1>5. pc' \in Pc /\ pc' \notin {"ids", "select", "adopt", "flags", "on", "off", "save"}
  BY <1>1 DEF Pc
<1>6. TypeOK'
  BY <1>1, <1>3, <1>4, <1>5 DEF Life, TypeOK
<1>7. ShortQueue' /\ OneChange'
  BY <1>1, <1>4, <1>5 DEF ShortQueue, OneChange
<1>8. QED  BY <1>1, <1>3, <1>6, <1>7 DEF Life

(* The main thread's tests, which leave store and log alone.                *)
LEMMA MainLife ==
  ASSUME InPhase, InPhase', Life,
         \/ CompareIds \/ SelectSwitch \/ SelectDfu \/ SelectId \/ Adopt \/ TestShutdown
         \/ \E bt \in BOOLEAN, flag \in Flags, label \in {"on", "off"}, next \in {"off", "ids"} :
              TestBluetooth(label, flag, bt, next) /\ flag \notin flags
  PROVE  Life'
<1>1. /\ UNCHANGED <<newId, flags, ble, timer, writes, log, flash_vars>>
      /\ pc' \in Pc
  BY DEF CompareIds, SelectSwitch, SelectDfu, SelectId, Adopt, TestShutdown, TestBluetooth,
         Goto, ram_vars, InPhase
<1>2. ShortQueue' /\ Content(ram)' = Content(ram)
  BY <1>1 DEF Life, ShortQueue, flash_vars, Content
<1>3. gpregret' \in BOOLEAN
  BY DEF InPhase
<1>4. on' \subseteq Features /\ oldId' \in Byte
  <2>1. CASE SelectSwitch
    <3>1. Switch(newId) \in Features
      BY <2>1 DEF SelectSwitch, Switches, Switch, Features
    <3>2. QED  BY <2>1, <3>1 DEF SelectSwitch, Life, TypeOK
  <2>2. CASE ~SelectSwitch
    BY <2>2 DEF CompareIds, SelectDfu, SelectId, Adopt, TestShutdown, TestBluetooth, ram_vars,
                Life, TypeOK
  <2>3. QED  BY <2>1, <2>2
<1>5. TypeOK'
  BY <1>1, <1>3, <1>4 DEF Life, TypeOK, InPhase, flash_vars
<1>6. OneChange'
  <2>1. CASE SelectSwitch
    <3>1. Switch(newId) \in Features
      BY <2>1 DEF SelectSwitch, Switches, Switch, Features
    <3>2. /\ pc' = "save" /\ oldId' = Content(ram).id /\ on = Content(ram).on
          /\ on' = IF TurnsOn(newId) THEN on \cup {Switch(newId)} ELSE on \ {Switch(newId)}
      BY <2>1 DEF SelectSwitch, Goto, Life, OneChange
    <3>3. (on' \ Content(ram).on) \cup (Content(ram).on \ on') \subseteq {Switch(newId)}
      BY <3>2
    <3>4. QED  BY <1>2, <3>1, <3>2, <3>3 DEF OneChange
  <2>2. CASE Adopt
    <3>1. pc' = "save" /\ on' = Content(ram).on
      BY <2>2 DEF Adopt, Goto, Life, OneChange
    <3>2. QED  BY <1>2, <3>1 DEF OneChange
  <2>3. CASE ~SelectSwitch /\ ~Adopt
    <3>1. /\ UNCHANGED <<on, oldId>> /\ pc \in {"ids", "select", "flags", "on", "off"}
          /\ pc' # "save"
      BY <2>3 DEF CompareIds, SelectDfu, SelectId, TestShutdown, TestBluetooth, Goto, ram_vars
    <3>2. QED  BY <1>2, <3>1 DEF OneChange, Life
  <2>4. QED  BY <2>1, <2>2, <2>3
<1>7. QED  BY <1>2, <1>5, <1>6 DEF Life

(* A boot runs what it found, or the factory defaults.                      *)
LEMMA BootLife ==
  ASSUME InPhase, InPhase', Store!IInv', Life, Boot
  PROVE  /\ Life'
         /\ pc' = "ids" /\ oldId' = Content(ram').id /\ newId' = oldId'
         /\ on' = Content(ram').on /\ ble' = Content(ram').bt
         /\ UNCHANGED <<writes, log, accepted>>
<1> DEFINE c == Content(ram')
<1>1. /\ newId' = c.id /\ oldId' = c.id /\ on' = c.on /\ ble' = c.bt /\ timer' = c.bt
      /\ pc' = "ids" /\ UNCHANGED <<flags, writes, gpregret, log>>
      /\ Flash!BootFound \/ Flash!BootDefault
  BY DEF Boot, Goto
<1>2. phase' = "up" /\ accepted' = accepted /\ Len(ops') <= 1
  <2>1. CASE Flash!BootFound
    <3>1. phase = "down" /\ phase' = "up" /\ UNCHANGED <<ops, accepted>>
      BY <2>1 DEF Flash!BootFound
    <3>2. ops = <<>>
      BY <3>1 DEF InPhase
    <3>3. QED  BY <3>1, <3>2
  <2>2. CASE Flash!BootDefault
    BY <2>2 DEF Flash!BootDefault
  <2>3. QED  BY <1>1, <2>1, <2>2
<1>3. c \in Config
  <2>1. ram' \in 0..accepted /\ accepted \in Nat
    BY <1>2 DEF Store!IInv, Store!TypeOK, Store!Fresh
  <2>2. QED  BY <2>1, ContentType DEF Life
<1>4. /\ newId' \in Byte /\ oldId' \in Byte /\ on' \subseteq Features /\ ble' \in BOOLEAN
      /\ timer' \in BOOLEAN
  <2> HIDE DEF c
  <2>1. QED  BY <1>1, <1>3 DEF Config
<1>5. Content(ram)' = c
  BY <1>1 DEF Content
<1>6. TypeOK' /\ ShortQueue' /\ OneChange'
  BY <1>1, <1>2, <1>4, <1>5 DEF Life, TypeOK, ShortQueue, OneChange, InPhase
<1>7. QED  BY <1>1, <1>2, <1>6 DEF Life

(* What the interrupt handlers change, none of which the main thread is     *)
(* running.                                                                 *)
LEMMA HandlerLife ==
  ASSUME Life, \/ \E v \in Values : BleWrite(v)
               \/ \E raised \in Gestures : Gesture(raised)
               \/ BluetoothTimeout
  PROVE  Life' /\ UNCHANGED <<pc, log, accepted, on, oldId>>
<1>1. UNCHANGED <<pc, oldId, on, ble, gpregret, log, flash_vars>>
  BY DEF BleWrite, Gesture, BluetoothTimeout
<1>2. newId' \in Byte /\ writes' \in 0..MaxWrites
  BY RemoteAssumption DEF BleWrite, Gesture, BluetoothTimeout, Life, TypeOK
<1>3. flags' \subseteq Flags /\ timer' \in BOOLEAN
  BY DEF BleWrite, Gesture, BluetoothTimeout, Life, TypeOK, Gestures, Flags
<1>4. TypeOK' /\ ShortQueue' /\ OneChange'
  BY <1>1, <1>2, <1>3 DEF Life, TypeOK, ShortQueue, OneChange, flash_vars, Content
<1>5. QED  BY <1>1, <1>4 DEF Life, flash_vars

(* Bootloader, waking up, and the flash.                                    *)
LEMMA OutsideLife ==
  ASSUME InPhase', Store!IInv, Life,
         EnterDfu \/ LeaveDfu \/ Wake \/ FlashProgress \/ BootFault \/ UNCHANGED vars
  PROVE  Life' /\ UNCHANGED <<ram_vars, log, accepted>>
<1>1. CASE FlashProgress
  <2>1. UNCHANGED <<pc, gpregret, log, ram_vars, ram, phase, accepted>> /\ ShortQueue'
    BY <1>1, ProgressStep DEF FlashProgress, Life
  <2>2. QED  BY <2>1 DEF Life, TypeOK, ShortQueue, OneChange, ram_vars, Content
<1>2. CASE EnterDfu \/ LeaveDfu \/ Wake \/ BootFault \/ UNCHANGED vars
  <2>1. UNCHANGED <<log, ram_vars, flash_vars>>
    BY <1>2 DEF EnterDfu, LeaveDfu, Wake, BootFault, vars
  <2>2. pc' = pc \/ (pc \in {"boot", "sleep", "dfu"} /\ pc' \in {"boot", "dfu"})
    BY <1>2 DEF EnterDfu, LeaveDfu, Wake, BootFault, vars, Goto
  <2>3. TypeOK'
    <3>1. pc' = "wait" => phase' = "saved" \/ gpregret'
      BY DEF InPhase
    <3>2. pc' \in {"boot", "sleep", "dfu"} => phase' = "down"
      BY DEF InPhase
    <3>3. pc' \in Pc /\ gpregret' \in BOOLEAN
      BY DEF InPhase
    <3>4. QED  BY <2>1, <3>1, <3>2, <3>3 DEF Life, TypeOK, ram_vars, flash_vars
  <2>4. ShortQueue' /\ OneChange'
    BY <2>1, <2>2 DEF Life, ShortQueue, OneChange, ram_vars, flash_vars, Content
  <2>5. QED  BY <2>1, <2>3, <2>4 DEF Life, flash_vars
<1>3. QED  BY <1>1, <1>2

(* Life is inductive, given where the main thread is and the store.         *)
LEMMA LifeStep ==
  ASSUME InPhase, InPhase', Store!IInv, Store!IInv', Life, [Next]_vars
  PROVE  Life'
<1>1. CASE Boot
  BY <1>1, BootLife
<1>2. CASE CompareIds \/ SelectSwitch \/ SelectDfu \/ SelectId \/ Adopt \/ TestShutdown
  BY <1>2, MainLife
<1>3. CASE SaveConfig
  <2>1. pc = "save" /\ Save(FALSE) /\ flags' \subseteq Flags
    BY <1>3 DEF SaveConfig, Life, TypeOK
  <2>2. QED  BY <2>1, SaveLife
<1>4. CASE TestOn \/ TestOff
  <2>1. PICK bt \in BOOLEAN, flag \in Flags, label \in {"on", "off"}, next \in {"off", "ids"} :
             TestBluetooth(label, flag, bt, next)
    <3>1. CASE TestOn
      BY <3>1 DEF TestOn, Flags
    <3>2. CASE TestOff
      BY <3>2 DEF TestOff, Flags
    <3>3. QED  BY <1>4, <3>1, <3>2
  <2>2. CASE flag \in flags
    <3>1. pc \in {"save", "on", "off"} /\ Save(bt) /\ flags' \subseteq Flags
      BY <2>1, <2>2 DEF TestBluetooth, Life, TypeOK
    <3>2. QED  BY <3>1, SaveLife
  <2>3. CASE flag \notin flags
    BY <2>1, <2>3, MainLife
  <2>4. QED  BY <2>2, <2>3
<1>5. CASE SaveFault \/ SystemReset \/ SystemOff \/ DfuGesture \/ IdleShutdown \/ PowerLoss
  <2>1. PICK label \in {"boot", "sleep"} : GoDown(label)
    BY <1>5 DEF SaveFault, SystemReset, SystemOff, DfuGesture, IdleShutdown, PowerLoss
  <2>2. UNCHANGED gpregret \/ gpregret' \in BOOLEAN
    BY <1>5 DEF SaveFault, SystemReset, SystemOff, DfuGesture, IdleShutdown, PowerLoss
  <2>3. QED  BY <2>1, <2>2, DownLife
<1>6. CASE \/ \E v \in Values : BleWrite(v)
           \/ \E raised \in Gestures : Gesture(raised)
           \/ BluetoothTimeout
  BY <1>6, HandlerLife
<1>7. CASE EnterDfu \/ LeaveDfu \/ Wake \/ FlashProgress \/ BootFault \/ UNCHANGED vars
  BY <1>7, OutsideLife
<1>8. QED  BY <1>1, <1>2, <1>3, <1>4, <1>5, <1>6, <1>7 DEF Next, Main

LEMMA AlwaysLife == Spec => []Life
<1>1. Init => Life
  <2> SUFFICES ASSUME Init  PROVE Life
    OBVIOUS
  <2>1. Len(ops) = 0 /\ Len(log) = 0 /\ log \in Seq(Config)
    BY DEF Init, Flash!Init
  <2>2. 0 \in Byte /\ 0 \in 0..MaxWrites
    BY RemoteAssumption DEF Byte
  <2>3. TypeOK
    <3>1. gpregret \in BOOLEAN /\ ble \in BOOLEAN /\ timer \in BOOLEAN
      BY DEF Init
    <3>2. /\ pc = "boot" /\ phase = "down" /\ newId = 0 /\ oldId = 0 /\ on = {} /\ flags = {}
          /\ writes = 0 /\ accepted = 0
      BY DEF Init, Flash!Init
    <3>3. pc \in Pc /\ pc # "wait"
      BY <3>2 DEF Pc
    <3>4. QED  BY <2>1, <2>2, <3>1, <3>2, <3>3 DEF TypeOK
  <2>4. QED  BY <2>1, <2>3 DEF Init, Flash!Init, Life, ShortQueue, OneChange
<1>2. InPhase /\ InPhase' /\ Store!IInv /\ Store!IInv' /\ Life /\ [Next]_vars => Life'
  BY LifeStep
<1>3. QED  BY <1>1, <1>2, AlwaysInPhase, StoreInvariant, PTL DEF Spec

(* Types, main thread and store in agreement, and never more than two       *)
(* operations queued, for every value of the constants (main.c:1297).       *)
THEOREM LifeTypes == Spec => []TypeOK
<1>1. Life => TypeOK
  BY DEF Life
<1>2. QED  BY <1>1, AlwaysLife, PTL

(* The log grows by a save only.                                            *)
LEMMA LogGrows ==
  ASSUME InPhase, InPhase', Store!IInv, Store!IInv', Life, [Next]_vars, log' # log
  PROVE  \E bt \in BOOLEAN :
           /\ log'[Len(log')] = [id |-> oldId, bt |-> bt, on |-> on]
           /\ pc \in {"save", "on", "off"} /\ (pc = "save" => bt = FALSE)
<1>1. CASE SaveConfig
  <2>1. pc = "save" /\ Save(FALSE) /\ flags' \subseteq Flags
    BY <1>1 DEF SaveConfig, Life, TypeOK
  <2>2. QED  BY <2>1, SaveLife
<1>2. CASE TestOn \/ TestOff
  <2>1. PICK bt \in BOOLEAN, flag \in Flags, label \in {"on", "off"}, next \in {"off", "ids"} :
             TestBluetooth(label, flag, bt, next)
    <3>1. CASE TestOn
      BY <3>1 DEF TestOn, Flags
    <3>2. CASE TestOff
      BY <3>2 DEF TestOff, Flags
    <3>3. QED  BY <1>2, <3>1, <3>2
  <2>2. pc \in {"on", "off"} /\ Save(bt) /\ flags' \subseteq Flags
    BY <2>1 DEF TestBluetooth, Life, TypeOK
  <2>3. QED  BY <2>2, SaveLife
<1>3. CASE ~SaveConfig /\ ~TestOn /\ ~TestOff
  <2>1. log' = log
    BY <1>3 DEF Next, Main, vars, Boot, BootFault, EnterDfu, LeaveDfu, CompareIds, SelectSwitch,
      SelectDfu, SelectId, Adopt, TestShutdown, SaveFault, SystemReset, SystemOff, Wake,
      BleWrite, Gesture, BluetoothTimeout, DfuGesture, IdleShutdown, PowerLoss, FlashProgress,
      GoDown
  <2>2. QED  BY <2>1
<1>4. QED  BY <1>1, <1>2, <1>3

(* A save changes one thing of the configuration that runs, and turning a   *)
(* feature on or off turns Bluetooth off, however writes and gestures fall  *)
(* between the three loads of new_ant_device_id (main.c:1251).              *)
THEOREM OneThingPerSave == Spec => SaveChangesOneThing
<1> DEFINE old == Content(ram)
           new == log'[Len(log')]
           features == (old.on \ new.on) \cup (new.on \ old.on)
           Changes == /\ Cardinality(features) + (IF old.id = new.id THEN 0 ELSE 1) <= 1
                      /\ new.bt => features = {} /\ old.id = new.id
<1>1. InPhase /\ InPhase' /\ Store!IInv /\ Store!IInv' /\ Life /\ [Next]_vars
        => [log' # log => Changes]_vars
  <2> SUFFICES ASSUME InPhase, InPhase', Store!IInv, Store!IInv', Life, [Next]_vars, log' # log
               PROVE  Changes
    OBVIOUS
  <2>1. PICK bt \in BOOLEAN :
          /\ new = [id |-> oldId, bt |-> bt, on |-> on]
          /\ pc \in {"save", "on", "off"} /\ (pc = "save" => bt = FALSE)
    BY LogGrows
  <2>2. new.id = oldId /\ new.on = on /\ new.bt = bt
    BY <2>1
  <2> HIDE DEF old, new
  <2>3. \/ pc # "save" /\ on = old.on /\ oldId = old.id
        \/ pc = "save" /\ on = old.on
        \/ /\ pc = "save" /\ oldId = old.id
           /\ \E f \in Features : (on \ old.on) \cup (old.on \ on) \subseteq {f}
    BY <2>1 DEF Life, OneChange, old
  <2>4. features = {} \/ \E f : features = {f}
    BY <2>2, <2>3
  <2>5. Cardinality(features) \in {0, 1} /\ (features = {} => Cardinality(features) = 0)
    <3>1. CASE features = {}
      BY <3>1, FS_EmptySet, Zenon
    <3>2. CASE features # {}
      <4>1. PICK f : features = {f}
        BY <2>4, <3>2
      <4>2. Cardinality(features) = 1
        BY <4>1, FS_Singleton, Zenon
      <4>3. QED  BY <3>2, <4>2
    <3>3. QED  BY <3>1, <3>2
  <2>6. features = {} \/ old.id = new.id
    BY <2>2, <2>3
  <2>7. new.bt => features = {} /\ old.id = new.id
    BY <2>1, <2>2, <2>3
  <2>8. Cardinality(features) + (IF old.id = new.id THEN 0 ELSE 1) <= 1
    <3> HIDE DEF features
    <3>1. QED  BY <2>5, <2>6
  <2>9. QED  BY <2>7, <2>8
<1>2. QED  BY <1>1, AlwaysInPhase, StoreInvariant, AlwaysLife, PTL DEF Spec, SaveChangesOneThing

-----------------------------------------------------------------------------
(* Where one write leaves the main thread: the switch is reached by a write *)
(* only, and what is copied after it was no command unless another write    *)
(* has come.                                                                *)
OneWrite ==
  /\ pc \in {"boot", "sleep", "dfu"} => writes = 0
  /\ pc \in Running \cup {"wait", "stop"} /\ writes = 0 => newId = oldId
  /\ pc \in {"select", "adopt"} => writes # 0
  /\ pc = "adopt" /\ writes <= 1 => newId \notin Commands
  /\ pc = "save" /\ writes <= 1 => oldId = Content(ram).id \/ oldId \notin Commands

LEMMA OneWriteStep ==
  ASSUME InPhase, InPhase', Store!IInv, Store!IInv', Life, OneWrite, [Next]_vars
  PROVE  OneWrite'
<1>1. CASE Boot
  <2>1. pc = "boot" /\ pc' = "ids" /\ newId' = oldId' /\ UNCHANGED writes
    BY <1>1, BootLife DEF Boot
  <2>2. QED  BY <2>1 DEF OneWrite
<1>2. CASE CompareIds
  <2>1. pc = "ids" /\ pc' = (IF newId # oldId THEN "select" ELSE "flags")
        /\ UNCHANGED <<newId, oldId, writes>>
    BY <1>2 DEF CompareIds, Goto, ram_vars
  <2>2. writes = 0 => newId = oldId
    BY <2>1 DEF OneWrite, Running
  <2>3. QED  BY <2>1, <2>2 DEF OneWrite
<1>3. CASE SelectSwitch
  <2>1. pc = "select" /\ pc' = "save" /\ UNCHANGED <<newId, oldId, writes, log, ram>>
    BY <1>3 DEF SelectSwitch, Goto, flash_vars
  <2>2. oldId' = Content(ram)'.id
    BY <2>1 DEF Life, OneChange, Content
  <2>3. QED  BY <2>1, <2>2 DEF OneWrite
<1>4. CASE SelectDfu \/ SelectId \/ TestShutdown
  <2>1. UNCHANGED <<newId, oldId, writes>>
    BY <1>4 DEF SelectDfu, SelectId, TestShutdown, ram_vars
  <2>2. /\ pc \in {"select", "flags"} /\ pc' \in {"wait", "adopt", "stop", "on"}
        /\ pc' = "adopt" => pc = "select" /\ newId \notin Commands
    BY <1>4 DEF SelectDfu, SelectId, TestShutdown, Goto
  <2>3. QED  BY <2>1, <2>2 DEF OneWrite, Running
<1>5. CASE Adopt
  <2>1. pc = "adopt" /\ pc' = "save" /\ oldId' = newId /\ UNCHANGED <<newId, writes>>
    BY <1>5 DEF Adopt, Goto
  <2>2. writes # 0 /\ (writes <= 1 => newId \notin Commands)
    BY <2>1 DEF OneWrite
  <2>3. QED  BY <2>1, <2>2 DEF OneWrite
<1>6. CASE SaveConfig \/ TestOn \/ TestOff
  <2>1. /\ pc \in {"save", "on", "off"} /\ pc' \in {"wait", "off", "ids"}
        /\ UNCHANGED <<newId, oldId, writes>>
    BY <1>6 DEF SaveConfig, TestOn, TestOff, TestBluetooth, Save, Goto, ram_vars
  <2>2. QED  BY <2>1 DEF OneWrite, Running
<1>7. CASE SaveFault \/ SystemReset \/ SystemOff \/ DfuGesture \/ IdleShutdown \/ PowerLoss
  <2>1. PICK label \in {"boot", "sleep"} : GoDown(label)
    BY <1>7 DEF SaveFault, SystemReset, SystemOff, DfuGesture, IdleShutdown, PowerLoss
  <2>2. pc' \in {"boot", "sleep"} /\ writes' = 0
    BY <2>1 DEF GoDown, Goto
  <2>3. QED  BY <2>2 DEF OneWrite, Running
<1>8. CASE \E v \in Values : BleWrite(v)
  <2>1. PICK v \in Values : BleWrite(v)
    BY <1>8
  <2>2. writes' = writes + 1 /\ UNCHANGED <<pc, oldId, log, ram>>
    BY <2>1 DEF BleWrite, flash_vars
  <2>3. pc \notin {"boot", "sleep", "dfu"}
    BY <2>1 DEF BleWrite, Awake, Running
  <2>4. writes \in Nat
    BY RemoteAssumption DEF Life, TypeOK
  <2>5. pc = "adopt" => ~(writes' <= 1)
    BY <2>2, <2>4 DEF OneWrite
  <2>6. pc = "save" /\ writes' <= 1 => oldId' = Content(ram)'.id \/ oldId' \notin Commands
    BY <2>2, <2>4 DEF OneWrite, Content
  <2>7. writes' # 0
    BY <2>2, <2>4
  <2>8. QED  BY <2>2, <2>3, <2>5, <2>6, <2>7 DEF OneWrite
<1>9. CASE BluetoothTimeout \/ \E raised \in Gestures : Gesture(raised)
  <2>1. UNCHANGED <<pc, newId, oldId, writes, log, ram>>
    BY <1>9 DEF BluetoothTimeout, Gesture, flash_vars
  <2>2. QED  BY <2>1 DEF OneWrite, Content
<1>10. CASE EnterDfu \/ LeaveDfu \/ Wake \/ FlashProgress \/ BootFault \/ UNCHANGED vars
  <2>1. UNCHANGED <<newId, oldId, writes, log, accepted>>
    BY <1>10, OutsideLife DEF ram_vars
  <2>2. pc' = pc \/ (pc \in {"boot", "sleep", "dfu"} /\ pc' \in {"boot", "dfu"})
    BY <1>10 DEF EnterDfu, LeaveDfu, Wake, FlashProgress, BootFault, vars, Goto
  <2>3. pc = "save" => ram' = ram
    <3>1. CASE FlashProgress
      BY <3>1, ProgressStep DEF FlashProgress, Life
    <3>2. CASE EnterDfu \/ LeaveDfu \/ Wake
      BY <3>2 DEF EnterDfu, LeaveDfu, Wake, flash_vars
    <3>3. CASE BootFault \/ UNCHANGED vars
      BY <3>3 DEF BootFault, vars, flash_vars
    <3>4. QED  BY <1>10, <3>1, <3>2, <3>3
  <2>4. QED  BY <2>1, <2>2, <2>3 DEF OneWrite, Content, Running
<1>11. QED
  BY <1>1, <1>2, <1>3, <1>4, <1>5, <1>6, <1>7, <1>8, <1>9, <1>10 DEF Next, Main

(* A command is obeyed and never stored as a device number unless a second  *)
(* characteristic write of the same boot is there when it is saved, for     *)
(* every number of writes, every value written and every fault              *)
(* (main.c:1262-1298).                                                      *)
THEOREM CommandsNeedTwoWrites == Spec => OneWriteIsObeyed
<1> DEFINE new == log'[Len(log')]
<1>1. Init => OneWrite
  BY DEF Init, OneWrite, Running
<1>2. InPhase /\ InPhase' /\ Store!IInv /\ Store!IInv' /\ Life /\ OneWrite /\ [Next]_vars
        => OneWrite'
  BY OneWriteStep
<1>3. InPhase /\ InPhase' /\ Store!IInv /\ Store!IInv' /\ Life /\ OneWrite /\ [Next]_vars
        => [log' # log /\ writes <= 1 =>
              new.id = Content(ram).id \/ new.id \notin 144..149 \cup {153}]_vars
  <2> SUFFICES ASSUME InPhase, InPhase', Store!IInv, Store!IInv', Life, OneWrite, [Next]_vars,
                      log' # log, writes <= 1
               PROVE  new.id = Content(ram).id \/ new.id \notin 144..149 \cup {153}
    OBVIOUS
  <2>1. PICK bt \in BOOLEAN :
          /\ new = [id |-> oldId, bt |-> bt, on |-> on]
          /\ pc \in {"save", "on", "off"}
    BY LogGrows
  <2>2. new.id = oldId
    BY <2>1
  <2>3. oldId = Content(ram).id \/ oldId \notin Commands
    BY <2>1 DEF OneWrite, Life, OneChange
  <2>4. QED  BY <2>2, <2>3 DEF Commands, Switches, Dfu
<1>4. QED
  BY <1>1, <1>2, <1>3, AlwaysInPhase, StoreInvariant, AlwaysLife, PTL DEF Spec, OneWriteIsObeyed

-----------------------------------------------------------------------------
(* The store's results for undisturbed flash operations.                    *)
LEMMA StoreQuiet == ASSUME ~Faults PROVE Spec => []Store!Quiet
<1>1. FlashSpec => Store!Spec
  BY SameStore, PTL DEF FlashSpec, Flash!Spec, Store!Spec
<1>2. Store!Spec => []Store!Quiet
  BY Store!QuietInductive, StoreAssumed DEF Store!QuietInductive
<1>3. QED  BY <1>1, <1>2, MainUsesStore, PTL

(* wait_and_reset() waits for what it must: if no reset cuts a flash        *)
(* operation short, one valid copy is left whenever nothing is queued,      *)
(* whatever the client, the keys and the timers do (main.c:464).            *)
THEOREM OneCopyIsLeft == ASSUME ~Faults PROVE Spec => []SingleCopy
<1>1. FlashSpec => Store!Spec
  BY SameStore, PTL DEF FlashSpec, Flash!Spec, Store!Spec
<1>2. Store!Spec => []Store!SingleCopy
  BY Store!CopyIsSingle, StoreAssumed DEF Store!CopyIsSingle
<1>3. Store!SingleCopy => SingleCopy
  BY DEF SingleCopy, Store!SingleCopy, Flash!SingleCopy, Store!Valid, Flash!Valid,
         Store!Cardinality, Flash!Cardinality
<1>4. QED  BY <1>1, <1>2, <1>3, MainUsesStore, PTL

(* ... and every boot runs the configuration saved last (main.c:1402).      *)
THEOREM LastSaveIsRun == ASSUME ~Faults PROVE Spec => LastSaveRuns
<1> DEFINE Runs == /\ oldId' = Content(accepted).id /\ on' = Content(accepted).on
                   /\ ble' = Content(accepted).bt
<1>1. InPhase /\ InPhase' /\ Store!IInv /\ Store!IInv' /\ Store!Quiet /\ Life /\ [Next]_vars
        => [pc = "boot" /\ pc' = "ids" => Runs]_vars
  <2> SUFFICES ASSUME InPhase, InPhase', Store!IInv, Store!IInv', Store!Quiet, Life, [Next]_vars,
                      pc = "boot", pc' = "ids"
               PROVE  Runs
    OBVIOUS
  <2>1. Boot
    BY DEF Next, Main, vars, Boot, BootFault, EnterDfu, LeaveDfu, CompareIds, SelectSwitch,
      SelectDfu, SelectId, Adopt, TestShutdown, TestOn, TestOff, TestBluetooth, SaveConfig, Save,
      SaveFault, SystemReset, SystemOff, Wake, BleWrite, Gesture, BluetoothTimeout, DfuGesture,
      IdleShutdown, PowerLoss, FlashProgress, GoDown, Goto, Awake, Running
  <2>2. oldId' = Content(ram').id /\ on' = Content(ram').on /\ ble' = Content(ram').bt
        /\ log' = log
    BY <2>1, BootLife
  <2>3. phase = "down" /\ ops = <<>> /\ step = "idle"
    BY DEF InPhase
  <2>4. Store!Stored = accepted
    BY <2>3, Store!StoredIsLast, StoreAssumed DEF Store!StoredIsLast
  <2>5. ram' = Store!Stored
    <3>1. Flash!BootFound \/ Flash!BootDefault
      BY <2>1 DEF Boot
    <3>2. QED  BY <3>1 DEF Flash!BootFound, Flash!BootDefault, Flash!Stored, Store!Stored,
                 Flash!First, Store!First, Flash!Valid, Store!Valid
  <2>6. Content(ram') = Content(accepted)
    BY <2>4, <2>5
  <2>7. QED  BY <2>2, <2>6
<1>2. QED
  BY <1>1, AlwaysInPhase, StoreInvariant, StoreQuiet, AlwaysLife, PTL DEF Spec, LastSaveRuns
=============================================================================
