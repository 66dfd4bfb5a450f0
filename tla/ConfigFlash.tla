---------------------------- MODULE ConfigFlash ----------------------------
(***************************************************************************)
(* The configuration record: eeprom.c on top of the parts of fds.c it      *)
(* calls (find, write, update).  The data pages are one sequence of        *)
(* records in the order record_find() scans them.  A flash operation is a  *)
(* chain of single writes driven by fstorage callbacks, and the power may  *)
(* go, or the reset at the end of wait_and_reset() may strike, between any *)
(* two of them.                                                            *)
(*                                                                         *)
(* A configuration is represented by the number of the save request that   *)
(* carried it (0: the factory defaults of eeprom_init()).                  *)
(***************************************************************************)
EXTENDS Naturals, Sequences, FiniteSets

CONSTANTS
  Capacity,     \* how many configuration records fit the data pages
  MaxRequests,  \* bound on the number of save requests
  Faults        \* may a reset strike mid-operation, may a flash write time out?

ASSUME FlashAssumption == /\ Capacity \in Nat \ {0}
                          /\ MaxRequests \in Nat
                          /\ Faults \in BOOLEAN

VARIABLES
  flash,     \* the records, oldest address first
  ops,       \* the queue m_queue: operations not completed
  step,      \* write.step of the operation at its head
  latest,    \* m_latest_rec_id
  desc,      \* m_desc_config.record_id
  ram,       \* m_configurations
  phase,     \* "down": before eeprom_init(), "up": running, "saved": will reset
  accepted   \* history: number of saves fds_record_update() accepted

vars == <<flash, ops, step, latest, desc, ram, phase, accepted>>

Erased == MaxRequests + 1   \* what flash words hold before they are written

Step  == {"idle", "begin", "id", "data", "finalize", "dirty"}
Phase == {"down", "up", "saved"}
Record == [id : Nat, data : Nat, state : {"partial", "valid", "dirty"}]
Op     == [code : {"write", "update"}, id : Nat, victim : Nat]

-----------------------------------------------------------------------------
(* header_check(): only a finalized record that was not flagged is valid. *)
Valid == {i \in DOMAIN flash : flash[i].state = "valid"}

(* record_find(): the first valid record in page order. *)
First == CHOOSE i \in Valid : \A j \in Valid : i <= j

(* What a boot would load. *)
Stored == IF Valid = {} THEN 0 ELSE flash[First].data

(* record_find_by_desc(): the records the update at hand will flag. *)
Victims(op) == {i \in Valid : flash[i].id = op.victim}

(* page_scan(): the largest identifier of a valid record. *)
LargestId == IF Valid = {} THEN 0
             ELSE CHOOSE n \in {flash[i].id : i \in Valid} :
                    \A i \in Valid : flash[i].id <= n

(* Mutant: the last record may overrun the page. *)
Mutant_HasSpace == Len(flash) + Len(ops) <= Capacity

(* page_has_space(), words already reserved by queued operations included. *)
Reserved == Len(ops) - (IF step \in {"idle", "begin"} THEN 0 ELSE 1)
HasSpace == Len(flash) + Reserved < Capacity

(* queue_process(): an operation is over, the next one in the queue starts. *)
Finish ==
  /\ ops' = Tail(ops)
  /\ step' = IF Tail(ops) = <<>> THEN "idle" ELSE "begin"

-----------------------------------------------------------------------------
Init ==
  /\ flash = <<>> /\ ops = <<>> /\ step = "idle"
  /\ latest = 0 /\ desc = 0 /\ ram = 0
  /\ phase = "down" /\ accepted = 0

(* Mutant: identifiers start over after a boot. *)
Mutant_BootFound_NoScan ==
  /\ phase = "down" /\ Valid # {}
  /\ ram' = Stored /\ desc' = flash[First].id /\ latest' = 0
  /\ phase' = "up"
  /\ UNCHANGED <<flash, ops, step, accepted>>

(* Mutant: the descriptor of the record found is not kept. *)
Mutant_BootFound_NoDescriptor ==
  /\ phase = "down" /\ Valid # {}
  /\ ram' = Stored /\ desc' = 0 /\ latest' = LargestId
  /\ phase' = "up"
  /\ UNCHANGED <<flash, ops, step, accepted>>

(* eeprom_init(): a record is found and copied to RAM. *)
BootFound ==
  /\ phase = "down" /\ Valid # {}
  /\ ram' = Stored
  /\ desc' = flash[First].id
  /\ latest' = LargestId
  /\ phase' = "up"
  /\ UNCHANGED <<flash, ops, step, accepted>>

(* eeprom_init(): no record, the defaults are queued for writing. *)
BootDefault ==
  /\ phase = "down" /\ Valid = {} /\ HasSpace
  /\ ram' = 0
  /\ latest' = 1 /\ desc' = 1
  /\ ops' = <<[code |-> "write", id |-> 1, victim |-> 0]>>
  /\ step' = "begin"
  /\ phase' = "up"
  /\ UNCHANGED <<flash, accepted>>

(* eeprom_init(): no room for the defaults, APP_ERROR_CHECK resets. *)
BootFault ==
  /\ phase = "down" /\ Valid = {} /\ ~HasSpace
  /\ UNCHANGED vars

(* eeprom_write_variables(): RAM is overwritten and the update is queued. *)
Update ==
  /\ HasSpace /\ accepted < MaxRequests
  /\ ram' = accepted + 1
  /\ accepted' = accepted + 1
  /\ latest' = latest + 1 /\ desc' = latest + 1
  /\ ops' = Append(ops, [code |-> "update", id |-> latest + 1, victim |-> desc])
  /\ step' = IF ops = <<>> THEN "begin" ELSE step
  /\ phase' = "saved"
  /\ UNCHANGED flash

(* Every caller goes on to wait_and_reset(): there is one update per boot. *)
WriteVariables == phase = "up" /\ Update

(* RAM, and with it the operation queue, is lost; flash stays as it is. *)
LoseRam ==
  /\ phase' = "down"
  /\ ops' = <<>> /\ step' = "idle"
  /\ latest' = 0 /\ desc' = 0 /\ ram' = 0
  /\ UNCHANGED <<flash, accepted>>

(* eeprom_write_variables() without room left: APP_ERROR_CHECK resets. *)
WriteFault ==
  /\ phase = "up" /\ ~HasSpace /\ accepted < MaxRequests
  /\ LoseRam

(* The reset of wait_and_reset(), a power loss, a fault reset or system off. *)
(* Without Faults it waits for the flash queue, which no code does.          *)
Reset ==
  /\ phase # "down"
  /\ Faults \/ ops = <<>>
  /\ LoseRam

-----------------------------------------------------------------------------
(* FDS_OP_WRITE_FIND_RECORD: the record to replace is gone, the update      *)
(* fails with FDS_ERR_NOT_FOUND; fds_evt_handler() ignores the event.       *)
FindFails ==
  /\ step = "begin"
  /\ Head(ops).code = "update" /\ Victims(Head(ops)) = {}
  /\ Finish
  /\ UNCHANGED <<flash, latest, desc, ram, phase, accepted>>

(* FDS_OP_WRITE_HEADER_BEGIN: key and length, the record starts to exist. *)
WriteBegin ==
  /\ step = "begin"
  /\ Head(ops).code = "update" => Victims(Head(ops)) # {}
  /\ flash' = Append(flash, [id |-> 0, data |-> Erased, state |-> "partial"])
  /\ step' = "id"
  /\ UNCHANGED <<ops, latest, desc, ram, phase, accepted>>

(* Mutant: the step after the identifier skips the data. *)
Mutant_WriteId ==
  /\ step = "id"
  /\ flash' = [flash EXCEPT ![Len(flash)].id = Head(ops).id]
  /\ step' = "finalize"
  /\ UNCHANGED <<ops, latest, desc, ram, phase, accepted>>

(* FDS_OP_WRITE_RECORD_ID. *)
WriteId ==
  /\ step = "id"
  /\ flash' = [flash EXCEPT ![Len(flash)].id = Head(ops).id]
  /\ step' = "data"
  /\ UNCHANGED <<ops, latest, desc, ram, phase, accepted>>

(* FDS_OP_WRITE_DATA: copies m_configurations as it is by now. *)
WriteData ==
  /\ step = "data"
  /\ flash' = [flash EXCEPT ![Len(flash)].data = ram]
  /\ step' = "finalize"
  /\ UNCHANGED <<ops, latest, desc, ram, phase, accepted>>

(* Mutant: an update ends like a write, the old record stays. *)
Mutant_WriteFinalize ==
  /\ step = "finalize"
  /\ flash' = [flash EXCEPT ![Len(flash)].state = "valid"]
  /\ Finish
  /\ UNCHANGED <<latest, desc, ram, phase, accepted>>

(* FDS_OP_WRITE_HEADER_FINALIZE: the file id makes the record valid. *)
WriteFinalize ==
  /\ step = "finalize"
  /\ flash' = [flash EXCEPT ![Len(flash)].state = "valid"]
  /\ IF Head(ops).code = "update"
     THEN step' = "dirty" /\ UNCHANGED ops
     ELSE Finish
  /\ UNCHANGED <<latest, desc, ram, phase, accepted>>

(* FDS_OP_WRITE_FLAG_DIRTY: the replaced record is flagged, the update done. *)
FlagDirty ==
  /\ step = "dirty"
  /\ \E i \in Victims(Head(ops)) :
       flash' = [flash EXCEPT ![i].state = "dirty"]
  /\ Finish
  /\ UNCHANGED <<latest, desc, ram, phase, accepted>>

(* The SoftDevice gives a flash write up after its retries: the operation   *)
(* ends where it is, its event is ignored, a record begun stays partial.    *)
TimeOut ==
  /\ Faults /\ step # "idle"
  /\ Finish
  /\ UNCHANGED <<flash, latest, desc, ram, phase, accepted>>

FlashStep == FindFails \/ WriteBegin \/ WriteId \/ WriteData \/ WriteFinalize \/ FlagDirty

Next == \/ BootFound \/ BootDefault \/ BootFault
        \/ WriteVariables \/ WriteFault \/ Reset
        \/ FlashStep \/ TimeOut

Spec == Init /\ [][Next]_vars

(* The SoftDevice keeps executing queued flash writes, and a device that is *)
(* down is switched on again.                                               *)
FairSpec == Spec /\ WF_vars(FlashStep) /\ WF_vars(BootFound \/ BootDefault)
-----------------------------------------------------------------------------
(* Types, the queue and its step in agreement, and the pages never overrun: *)
(* write_space_reserve() counts what queued operations will still take.     *)
TypeOK ==
  /\ flash \in Seq(Record) /\ ops \in Seq(Op) /\ step \in Step
  /\ latest \in Nat /\ desc \in Nat /\ ram \in Nat
  /\ phase \in Phase /\ accepted \in 0..MaxRequests
  /\ (step = "idle") = (ops = <<>>)
  /\ phase = "down" => ops = <<>>
  /\ Len(flash) + Reserved <= Capacity

(* record_find_by_desc() relies on it: no two valid records have one id,    *)
(* although identifiers are recomputed from flash at each boot and the one  *)
(* of a torn record is given out again.                                     *)
UniqueIds == \A i, j \in Valid : flash[i].id = flash[j].id => i = j

(* The flash implements the register: whatever is interrupted, a boot loads *)
(* a complete configuration, and never an older one than the last boot did. *)
Register == INSTANCE ConfigRegister WITH stored <- Stored
RegisterSpec == Register!Spec

(* A completed update is what the next boot loads: "Once set, the           *)
(* configuration options are permanently stored" (configuration.md:4).      *)
LatestWins == [][step = "dirty" /\ flash' # flash => Stored' = accepted]_vars

(* Between operations one copy of the configuration is valid, no more: an   *)
(* update replaces its record.                                              *)
SingleCopy == ops = <<>> => Cardinality(Valid) <= 1

(* An accepted save is eventually what a boot would load. *)
SavedEventually == \A n \in 1..MaxRequests : accepted = n ~> Stored >= n
=============================================================================
