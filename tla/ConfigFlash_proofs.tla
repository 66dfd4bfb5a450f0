------------------------- MODULE ConfigFlash_proofs -------------------------
(***************************************************************************)
(* What holds of the configuration record whatever the number of records   *)
(* the pages take, of saves, of resets and of flash time-outs.             *)
(***************************************************************************)
EXTENDS ConfigFlash, SequenceTheorems, FiniteSetTheorems, WellFoundedInduction, TLAPS

(* Valid records lie in page order as they were written: identifiers grow,  *)
(* contents never go back.                                                  *)
Ordered ==
  \A i, j \in Valid : i < j => /\ flash[i].id < flash[j].id
                               /\ flash[i].data <= flash[j].data

(* Nothing is stored that was not accepted; RAM holds what is to be written *)
(* next, and that is not older than anything stored.                        *)
Fresh ==
  /\ ram <= accepted
  /\ \A i \in Valid : flash[i].data <= accepted
  /\ ops # <<>> => \A i \in Valid : flash[i].data <= ram

(* Identifiers given out since the boot exceed those in flash.              *)
NewIds ==
  /\ desc <= latest
  /\ phase # "down" => \A i \in Valid : flash[i].id <= latest
  /\ \A k \in DOMAIN ops : ops[k].id <= latest /\ ops[k].victim < ops[k].id
  /\ \A k, l \in DOMAIN ops : k < l => ops[k].id < ops[l].id
  /\ \A k \in DOMAIN ops, i \in Valid :
       (k = 1 /\ step = "dirty") \/ flash[i].id < ops[k].id

(* The record in progress is the last one of the pages, and not valid; an   *)
(* update that is about to flag the old record has validated the new one.   *)
InProgress ==
  /\ step \in {"id", "data", "finalize"} =>
       Len(flash) > 0 /\ flash[Len(flash)].state = "partial"
  /\ step \in {"data", "finalize", "dirty"} => flash[Len(flash)].id = ops[1].id
  /\ step = "finalize" =>
       /\ flash[Len(flash)].data <= ram
       /\ \A i \in Valid : flash[i].data <= flash[Len(flash)].data
  /\ step = "dirty" => Len(flash) \in Valid

IInv == TypeOK /\ Ordered /\ Fresh /\ NewIds /\ InProgress

-----------------------------------------------------------------------------
(* A set of naturals has a least element ...                                *)
LEMMA MinExists ==
  ASSUME NEW T \in SUBSET Nat, T # {}
  PROVE  \E x \in T : \A y \in T : x <= y
<1>1. PICK x \in T : \A y \in T : ~ (<<y, x>> \in OpToRel(<, Nat))
  BY WFMin, NatLessThanWellFounded
<1>2. \A y \in T : ~ (y < x)
  <2> TAKE y \in T
  <2>1. x \in Nat /\ y \in Nat
    OBVIOUS
  <2>2. QED  BY <2>1, <1>1, Zenon DEF OpToRel
<1>3. QED  BY <1>2

(* ... and, when it is bounded, a greatest one.                             *)
LEMMA MaxExists ==
  ASSUME NEW n \in Nat, NEW T \in SUBSET (0..n), T # {}
  PROVE  \E x \in T : \A y \in T : y <= x
<1> DEFINE S == {n - x : x \in T}
<1>1. S \in SUBSET Nat /\ S # {}
  <2>1. \A x \in T : n - x \in Nat
    OBVIOUS
  <2>2. QED  BY <2>1, Zenon
<1>2. PICK s \in S : \A y \in S : s <= y
  BY <1>1, MinExists
<1>3. PICK x \in T : s = n - x
  BY <1>2
<1>4. \A y \in T : y <= x
  <2> TAKE y \in T
  <2>1. n - x <= n - y
    BY <1>2, <1>3
  <2>2. QED  BY <2>1
<1>5. QED  BY <1>4

(* record_find() returns the first valid record if there is one.            *)
LEMMA FirstIsFirst ==
  ASSUME TypeOK, Valid # {}
  PROVE  First \in Valid /\ \A j \in Valid : First <= j
<1>1. Valid \in SUBSET Nat
  BY DEF TypeOK, Valid
<1>2. \E i \in Valid : \A j \in Valid : i <= j
  BY <1>1, MinExists
<1>3. QED  BY <1>2 DEF First

(* page_scan() finds the largest valid identifier: the one of the last      *)
(* valid record.                                                            *)
LEMMA LargestIsLargest ==
  ASSUME TypeOK, Ordered, Valid # {}
  PROVE  /\ \E i \in Valid : flash[i].id = LargestId
         /\ \A i \in Valid : flash[i].id <= LargestId
         /\ LargestId \in Nat
<1>1. Len(flash) \in Nat /\ Valid \in SUBSET (0..Len(flash))
  BY DEF TypeOK, Valid
<1>2. PICK last \in Valid : \A i \in Valid : i <= last
  BY <1>1, MaxExists
<1>3. \A i \in Valid : flash[i] \in Record
  BY DEF TypeOK, Valid
<1>4. \A i \in Valid : flash[i].id <= flash[last].id
  <2> TAKE i \in Valid
  <2>1. CASE i = last
    BY <2>1, <1>3 DEF Record
  <2>2. CASE i < last
    BY <2>2, <1>3 DEF Ordered, Record
  <2>3. QED  BY <2>1, <2>2, <1>1, <1>2
<1> DEFINE Ids == {flash[i].id : i \in Valid}
           IsLargest(n) == \A i \in Valid : flash[i].id <= n
<1>5. \E n \in Ids : IsLargest(n)
  BY <1>4
<1>6. LargestId = CHOOSE n \in Ids : IsLargest(n)
  BY DEF LargestId
<1>7. LargestId \in Ids /\ IsLargest(LargestId)
  <2> HIDE DEF Ids, IsLargest
  <2> QED  BY <1>5, <1>6
<1>8. QED  BY <1>7, <1>3 DEF Record
-----------------------------------------------------------------------------
(* The shapes of the two sequences, which every step below starts from.     *)
LEMMA Shapes ==
  ASSUME TypeOK
  PROVE  /\ Len(flash) \in Nat /\ DOMAIN flash = 1..Len(flash)
         /\ \A i \in DOMAIN flash : flash[i] \in Record
         /\ Len(ops) \in Nat /\ DOMAIN ops = 1..Len(ops)
         /\ \A k \in DOMAIN ops : ops[k] \in Op
         /\ Valid \in SUBSET (1..Len(flash))
         /\ ops = <<>> <=> Len(ops) = 0
         /\ step # "idle" <=> Len(ops) > 0
BY DEF TypeOK, Valid

(* queue_process(): the queue moves up by one.                              *)
LEMMA FinishEffect ==
  ASSUME TypeOK, step # "idle", Finish
  PROVE  /\ ops' \in Seq(Op) /\ Len(ops') = Len(ops) - 1
         /\ DOMAIN ops' = 1..(Len(ops) - 1)
         /\ \A k \in DOMAIN ops' : k + 1 \in DOMAIN ops /\ ops'[k] = ops[k + 1]
         /\ step' = IF ops' = <<>> THEN "idle" ELSE "begin"
         /\ ops' = <<>> <=> Len(ops) = 1
<1>1. ops \in Seq(Op) /\ ops # <<>>
  BY DEF TypeOK
<1>2. ops' = Tail(ops) /\ step' = IF ops' = <<>> THEN "idle" ELSE "begin"
  BY DEF Finish
<1>3. /\ ops' \in Seq(Op) /\ Len(ops') = Len(ops) - 1
      /\ \A k \in 1..Len(ops') : ops'[k] = ops[k + 1]
  BY <1>1, <1>2, HeadTailProperties
<1>4. DOMAIN ops' = 1..Len(ops') /\ DOMAIN ops = 1..Len(ops) /\ Len(ops) \in Nat
  BY <1>1, <1>3
<1>5. ops' = <<>> <=> Len(ops) = 1
  BY <1>3, <1>4, EmptySeq
<1>6. QED  BY <1>2, <1>3, <1>4, <1>5

(* Operations end one after the other: whatever becomes of the first one,   *)
(* the identifiers of those behind it stay ahead of what is in flash.       *)
LEMMA FinishKeepsIds ==
  ASSUME IInv, step # "idle", Finish, UNCHANGED <<latest, desc, phase>>,
         Valid' \subseteq Valid, \A i \in Valid' : flash'[i].id = flash[i].id
  PROVE  NewIds'
<1> USE Shapes, FinishEffect DEF IInv
<1>1. TypeOK /\ NewIds
  OBVIOUS
<1>2. desc' <= latest' /\ (phase' # "down" => \A i \in Valid' : flash'[i].id <= latest')
  BY <1>1 DEF NewIds
<1>3. \A k \in DOMAIN ops' : ops'[k].id <= latest' /\ ops'[k].victim < ops'[k].id
  BY <1>1 DEF NewIds
<1>4. \A k, l \in DOMAIN ops' : k < l => ops'[k].id < ops'[l].id
  BY <1>1 DEF NewIds
<1>5. \A k \in DOMAIN ops', i \in Valid' : flash'[i].id < ops'[k].id
  BY <1>1 DEF NewIds
<1>6. QED  BY <1>2, <1>3, <1>4, <1>5 DEF NewIds

LEMMA QueueStep ==
  ASSUME IInv, FindFails \/ TimeOut
  PROVE  IInv'
<1> USE DEF IInv
<1>1. /\ TypeOK /\ Ordered /\ Fresh /\ step # "idle" /\ Finish
      /\ UNCHANGED <<flash, latest, desc, ram, phase, accepted>>
  BY DEF FindFails, TimeOut
<1>2. Valid' = Valid
  BY <1>1 DEF Valid
<1>3. TypeOK'
  <2>1. ops' \in Seq(Op) /\ step' \in Step /\ (step' = "idle") = (ops' = <<>>)
    BY <1>1, FinishEffect DEF Step
  <2>2. phase' = "down" => ops' = <<>>
    BY <1>1, Shapes DEF TypeOK
  <2>3. Len(flash') + Reserved' <= Capacity
    <3>1. Reserved' = Len(ops) - 1 /\ Reserved >= Len(ops) - 1 /\ Reserved \in Int
      BY <1>1, FinishEffect, Shapes DEF Reserved
    <3>2. QED  BY <1>1, <3>1, Shapes, FlashAssumption DEF TypeOK
  <2>4. QED  BY <1>1, <2>1, <2>2, <2>3 DEF TypeOK
<1>4. Ordered' /\ Fresh'
  BY <1>1, <1>2, FinishEffect, Shapes DEF Ordered, Fresh
<1>5. NewIds'
  BY <1>1, <1>2, FinishKeepsIds
<1>6. InProgress'
  BY <1>1, FinishEffect DEF InProgress
<1>7. QED  BY <1>3, <1>4, <1>5, <1>6

(* eeprom_init() with a record in flash: the boot takes over its contents   *)
(* and goes on numbering after the largest identifier.                      *)
LEMMA BootFoundStep ==
  ASSUME IInv, BootFound
  PROVE  IInv'
<1> USE DEF IInv
<1>1. /\ TypeOK /\ Ordered /\ Fresh /\ phase = "down" /\ Valid # {}
      /\ ram' = flash[First].data /\ desc' = flash[First].id /\ latest' = LargestId
      /\ phase' = "up"
      /\ UNCHANGED <<flash, ops, step, accepted>>
  BY DEF BootFound, Stored
<1>2. Valid' = Valid /\ ops = <<>> /\ step = "idle"
  BY <1>1 DEF Valid, TypeOK
<1>3. First \in Valid /\ LargestId \in Nat /\ \A i \in Valid : flash[i].id <= LargestId
  BY <1>1, FirstIsFirst, LargestIsLargest
<1>4. TypeOK'
  <2>1. ram' \in Nat /\ desc' \in Nat /\ latest' \in Nat /\ phase' \in Phase
    BY <1>1, <1>3, Shapes DEF Record, Phase
  <2>2. Reserved' = Reserved
    BY <1>1 DEF Reserved
  <2>3. QED  BY <1>1, <1>2, <2>1, <2>2 DEF TypeOK
<1>5. Ordered' /\ Fresh'
  BY <1>1, <1>2, <1>3 DEF Ordered, Fresh
<1>6. NewIds'
  BY <1>1, <1>2, <1>3 DEF NewIds
<1>7. InProgress'
  BY <1>1, <1>2 DEF InProgress
<1>8. QED  BY <1>4, <1>5, <1>6, <1>7

(* eeprom_init() without one: the defaults are queued for writing.          *)
LEMMA BootDefaultStep ==
  ASSUME IInv, BootDefault
  PROVE  IInv'
<1> DEFINE op == [code |-> "write", id |-> 1, victim |-> 0]
<1> USE DEF IInv
<1>1. /\ TypeOK /\ Ordered /\ Fresh /\ phase = "down" /\ Valid = {} /\ HasSpace
      /\ ram' = 0 /\ desc' = 1 /\ latest' = 1 /\ ops' = <<op>> /\ step' = "begin"
      /\ phase' = "up"
      /\ UNCHANGED <<flash, accepted>>
  BY DEF BootDefault
<1>2. Valid' = {} /\ ops = <<>> /\ step = "idle"
  BY <1>1 DEF Valid, TypeOK
<1>3. op \in Op /\ ops' \in Seq(Op) /\ Len(ops') = 1 /\ DOMAIN ops' = {1} /\ ops'[1] = op
  BY <1>1 DEF Op
<1>4. TypeOK'
  <2>1. ops' \in Seq(Op) /\ step' \in Step /\ phase' \in Phase /\ ops' # <<>>
    BY <1>1, <1>3 DEF Step, Phase
  <2>2. Reserved' = 1 /\ Len(flash) + Reserved < Capacity /\ Reserved \in Nat
    BY <1>1, <1>2, <1>3, Shapes DEF Reserved, HasSpace
  <2>3. Len(flash') + Reserved' <= Capacity
    <3>1. Reserved = 0
      BY <1>2, Shapes DEF Reserved
    <3>2. QED  BY <1>1, <2>2, <3>1, Shapes, FlashAssumption
  <2>4. QED  BY <1>1, <2>1, <2>3 DEF TypeOK
<1>5. Ordered' /\ Fresh'
  BY <1>1, <1>2 DEF Ordered, Fresh, TypeOK
<1>6. NewIds'
  BY <1>1, <1>2, <1>3 DEF NewIds
<1>7. InProgress'
  BY <1>1, <1>2 DEF InProgress
<1>8. QED  BY <1>4, <1>5, <1>6, <1>7

(* eeprom_write_variables(): the update gets the next identifier.           *)
LEMMA UpdateStep ==
  ASSUME IInv, WriteVariables
  PROVE  IInv'
<1> DEFINE op == [code |-> "update", id |-> latest + 1, victim |-> desc]
<1> USE DEF IInv
<1>1. /\ TypeOK /\ Ordered /\ Fresh /\ NewIds /\ InProgress /\ phase = "up"
      /\ HasSpace /\ accepted < MaxRequests
      /\ ram' = accepted + 1 /\ accepted' = accepted + 1
      /\ latest' = latest + 1 /\ desc' = latest + 1
      /\ ops' = Append(ops, op)
      /\ step' = IF ops = <<>> THEN "begin" ELSE step
      /\ phase' = "saved" /\ UNCHANGED flash
  BY DEF WriteVariables, Update
<1>2. Valid' = Valid
  BY <1>1 DEF Valid
<1>3. op \in Op /\ ops \in Seq(Op) /\ latest \in Nat /\ accepted \in Nat /\ desc \in Nat
  BY <1>1 DEF Op, TypeOK
<1>4. /\ ops' \in Seq(Op) /\ ops' # <<>> /\ Len(ops') = Len(ops) + 1
      /\ \A k \in 1..Len(ops) : ops'[k] = ops[k]
      /\ ops'[Len(ops) + 1] = op
  BY <1>1, <1>3, AppendProperties
<1>5. DOMAIN ops' = 1..(Len(ops) + 1) /\ DOMAIN ops = 1..Len(ops) /\ Len(ops) \in Nat
  BY <1>1, <1>4, Shapes
<1>6. step' = "dirty" <=> step = "dirty"
  BY <1>1 DEF TypeOK
<1>7. TypeOK'
  <2>1. step' \in Step /\ phase' \in Phase /\ step' # "idle"
    BY <1>1 DEF TypeOK, Step, Phase
  <2>2. Reserved' = Reserved + 1 /\ Reserved \in Int
    BY <1>1, <1>4, Shapes DEF Reserved
  <2>3. Len(flash') + Reserved' <= Capacity
    BY <1>1, <2>2, Shapes, FlashAssumption DEF HasSpace
  <2>4. accepted' \in 0..MaxRequests /\ ram' \in Nat /\ latest' \in Nat /\ desc' \in Nat
    BY <1>1, <1>3, FlashAssumption
  <2>5. QED  BY <1>1, <1>4, <2>1, <2>3, <2>4 DEF TypeOK
<1>8. Ordered'
  BY <1>1, <1>2 DEF Ordered
<1>9. Fresh'
  <2>1. \A i \in Valid : flash[i].data <= accepted /\ flash[i].data \in Nat
    BY <1>1, Shapes DEF Fresh, Record, Valid
  <2>2. QED  BY <1>1, <1>2, <1>3, <2>1 DEF Fresh
<1>10. NewIds'
  <2>1. \A i \in Valid : flash[i].id <= latest /\ flash[i].id \in Nat
    BY <1>1, Shapes DEF NewIds, Record, Valid
  <2>2. \A k \in DOMAIN ops : ops[k].id <= latest /\ ops[k].id \in Nat
    BY <1>1, Shapes DEF NewIds, Op
  <2>3. \A k \in DOMAIN ops' : ops'[k].id <= latest' /\ ops'[k].victim < ops'[k].id
    BY <1>1, <1>3, <1>4, <1>5, <2>2 DEF NewIds
  <2>4. \A k, l \in DOMAIN ops' : k < l => ops'[k].id < ops'[l].id
    BY <1>1, <1>3, <1>4, <1>5, <2>2 DEF NewIds
  <2>5. \A k \in DOMAIN ops', i \in Valid :
          (k = 1 /\ step' = "dirty") \/ flash[i].id < ops'[k].id
    <3> TAKE k \in DOMAIN ops', i \in Valid
    <3>1. CASE k \in DOMAIN ops
      BY <3>1, <1>1, <1>4, <1>5, <1>6 DEF NewIds
    <3>2. CASE k = Len(ops) + 1
      BY <3>2, <1>3, <1>4, <2>1
    <3>3. QED  BY <3>1, <3>2, <1>5
  <2>6. desc' <= latest' /\ \A i \in Valid : flash[i].id <= latest'
    BY <1>1, <1>3, <2>1
  <2>7. QED  BY <1>1, <1>2, <2>3, <2>4, <2>5, <2>6 DEF NewIds
<1>11. InProgress'
  <2>1. CASE ops = <<>>
    BY <2>1, <1>1 DEF InProgress
  <2>2. CASE ops # <<>>
    <3>1. step' = step /\ ops'[1] = ops[1]
      BY <2>2, <1>1, <1>4, Shapes
    <3>2. ASSUME step = "finalize"
          PROVE  flash[Len(flash)].data <= ram'
      <4>1. flash[Len(flash)].data \in Nat /\ flash[Len(flash)].data <= ram
        BY <3>2, <1>1, Shapes DEF InProgress, Record
      <4>2. ram <= accepted /\ ram \in Nat
        BY <1>1 DEF Fresh, TypeOK
      <4>3. QED  BY <4>1, <4>2, <1>1, <1>3
    <3>3. QED  BY <3>1, <3>2, <1>1, <1>2 DEF InProgress
  <2>3. QED  BY <2>1, <2>2
<1>12. QED  BY <1>7, <1>8, <1>9, <1>10, <1>11

(* RAM is lost: what is in flash keeps its order.                           *)
LEMMA LoseRamStep ==
  ASSUME IInv, WriteFault \/ Reset
  PROVE  IInv'
<1> USE DEF IInv
<1>1. /\ TypeOK /\ Ordered /\ Fresh /\ phase' = "down"
      /\ ops' = <<>> /\ step' = "idle" /\ latest' = 0 /\ desc' = 0 /\ ram' = 0
      /\ UNCHANGED <<flash, accepted>>
  BY DEF WriteFault, Reset, LoseRam
<1>2. Valid' = Valid
  BY <1>1 DEF Valid
<1>3. TypeOK'
  <2>1. ops' \in Seq(Op) /\ step' \in Step /\ phase' \in Phase /\ Reserved' = 0
    BY <1>1 DEF Step, Phase, Reserved
  <2>2. Reserved >= 0 /\ Reserved \in Int
    BY <1>1, Shapes DEF Reserved, TypeOK, Step
  <2>3. Len(flash') + Reserved' <= Capacity
    BY <1>1, <2>1, <2>2, Shapes, FlashAssumption DEF TypeOK
  <2>4. QED  BY <1>1, <2>1, <2>3 DEF TypeOK
<1>4. Ordered' /\ Fresh'
  BY <1>1, <1>2 DEF Ordered, Fresh, TypeOK
<1>5. NewIds' /\ InProgress'
  BY <1>1, <1>2 DEF NewIds, InProgress
<1>6. QED  BY <1>3, <1>4, <1>5

-----------------------------------------------------------------------------
(* FDS_OP_WRITE_HEADER_BEGIN adds a record that is not valid.               *)
LEMMA WriteBeginStep ==
  ASSUME IInv, WriteBegin
  PROVE  IInv' /\ Valid' = Valid /\ \A i \in Valid : flash'[i] = flash[i]
<1> DEFINE new == [id |-> 0, data |-> Erased, state |-> "partial"]
<1> USE DEF IInv
<1>1. /\ TypeOK /\ Ordered /\ Fresh /\ NewIds /\ step = "begin"
      /\ flash' = Append(flash, new) /\ step' = "id"
      /\ UNCHANGED <<ops, latest, desc, ram, phase, accepted>>
  BY DEF WriteBegin
<1>2. new \in Record
  BY FlashAssumption DEF Record, Erased
<1>3. /\ flash' \in Seq(Record) /\ Len(flash') = Len(flash) + 1
      /\ \A i \in 1..Len(flash) : flash'[i] = flash[i]
      /\ flash'[Len(flash')] = new
  BY <1>1, <1>2, AppendProperties DEF TypeOK
<1>4. Valid' = Valid
  <2>1. DOMAIN flash' = 1..(Len(flash) + 1) /\ new.state # "valid"
    BY <1>3
  <2>2. QED  BY <2>1, <1>1, <1>3, Shapes DEF Valid
<1>5. \A i \in Valid : flash'[i] = flash[i]
  BY <1>1, <1>3, Shapes
<1>6. TypeOK'
  <2>1. Reserved' = Reserved - 1 /\ Reserved \in Int
    BY <1>1, Shapes DEF Reserved
  <2>2. step' \in Step /\ (step' = "idle") = (ops' = <<>>)
    BY <1>1 DEF TypeOK, Step
  <2>3. QED  BY <1>1, <1>3, <2>1, <2>2, Shapes, FlashAssumption DEF TypeOK
<1>7. Ordered' /\ Fresh' /\ NewIds'
  BY <1>1, <1>4, <1>5 DEF Ordered, Fresh, NewIds
<1>8. InProgress'
  BY <1>1, <1>3, Shapes DEF InProgress
<1>9. QED  BY <1>4, <1>5, <1>6, <1>7, <1>8

(* FDS_OP_WRITE_RECORD_ID and FDS_OP_WRITE_DATA fill it in.                 *)
LEMMA FillStep ==
  ASSUME IInv, WriteId \/ WriteData
  PROVE  IInv' /\ Valid' = Valid /\ \A i \in Valid : flash'[i] = flash[i]
<1> DEFINE n == Len(flash)
           new == IF step = "id" THEN [flash[n] EXCEPT !.id = Head(ops).id]
                                 ELSE [flash[n] EXCEPT !.data = ram]
<1> USE DEF IInv
<1>1. /\ TypeOK /\ Ordered /\ Fresh /\ NewIds /\ InProgress
      /\ step \in {"id", "data"} /\ flash' = [flash EXCEPT ![n] = new]
      /\ step' = IF step = "id" THEN "data" ELSE "finalize"
      /\ UNCHANGED <<ops, latest, desc, ram, phase, accepted>>
  BY DEF WriteId, WriteData
<1>2. n \in 1..Len(flash) /\ flash[n] \in Record /\ flash[n].state = "partial"
  BY <1>1, Shapes DEF InProgress
<1>3. ops \in Seq(Op) /\ ops # <<>> /\ Head(ops) = ops[1] /\ ops[1] \in Op
  BY <1>1, Shapes DEF TypeOK
<1>4. new \in Record /\ new.state = "partial"
  BY <1>1, <1>2, <1>3 DEF Record, TypeOK, Op
<1>5. /\ flash' \in Seq(Record) /\ Len(flash') = Len(flash)
      /\ \A i \in 1..Len(flash) : flash'[i] = IF i = n THEN new ELSE flash[i]
  BY <1>1, <1>2, <1>4, ExceptSeq DEF TypeOK
<1>6. Valid' = Valid /\ n \notin Valid
  <2>1. DOMAIN flash' = 1..Len(flash)
    BY <1>5
  <2>2. QED  BY <2>1, <1>1, <1>2, <1>4, <1>5, Shapes DEF Valid
<1>7. \A i \in Valid : flash'[i] = flash[i]
  BY <1>1, <1>5, <1>6, Shapes
<1>8. TypeOK'
  <2>1. Reserved' = Reserved /\ step' \in Step /\ (step' = "idle") = (ops' = <<>>)
    BY <1>1 DEF Reserved, TypeOK, Step
  <2>2. QED  BY <1>1, <1>5, <2>1 DEF TypeOK
<1>9. Ordered' /\ Fresh'
  BY <1>1, <1>6, <1>7 DEF Ordered, Fresh
<1>10. NewIds'
  BY <1>1, <1>6, <1>7 DEF NewIds
<1>11. InProgress'
  <2>1. flash'[Len(flash')] = new /\ Len(flash') > 0
    BY <1>2, <1>5
  <2>2. CASE step = "id"
    BY <2>1, <2>2, <1>1, <1>2, <1>3, <1>4 DEF InProgress, Record
  <2>3. CASE step = "data"
    <3>1. new.id = ops[1].id /\ new.data = ram /\ ram <= ram
      BY <2>3, <1>1, <1>2 DEF InProgress, Record, TypeOK
    <3>2. \A i \in Valid : flash[i].data <= ram
      BY <1>1, <1>3 DEF Fresh
    <3>3. QED  BY <2>1, <2>3, <3>1, <3>2, <1>1, <1>4, <1>6, <1>7 DEF InProgress
  <2>4. QED  BY <2>2, <2>3, <1>1
<1>12. QED  BY <1>6, <1>7, <1>8, <1>9, <1>10, <1>11

(* FDS_OP_WRITE_HEADER_FINALIZE makes it valid: the last of the valid       *)
(* records, with the largest identifier and the latest contents.            *)
LEMMA WriteFinalizeStep ==
  ASSUME IInv, WriteFinalize
  PROVE  /\ IInv'
         /\ Valid' = Valid \cup {Len(flash)}
         /\ \A i \in Valid : flash'[i] = flash[i] /\ i < Len(flash)
         /\ flash'[Len(flash)].data <= accepted
<1> DEFINE n == Len(flash)
           new == [flash[n] EXCEPT !.state = "valid"]
<1> USE DEF IInv
<1>1. /\ TypeOK /\ Ordered /\ Fresh /\ NewIds /\ InProgress /\ step = "finalize"
      /\ flash' = [flash EXCEPT ![n] = new]
      /\ \/ step' = "dirty" /\ UNCHANGED ops
         \/ Finish
      /\ UNCHANGED <<latest, desc, ram, phase, accepted>>
  BY DEF WriteFinalize
<1>2. n \in 1..Len(flash) /\ flash[n] \in Record /\ flash[n].state = "partial"
  BY <1>1, Shapes DEF InProgress
<1>3. new \in Record /\ new.state = "valid" /\ new.id = flash[n].id /\ new.data = flash[n].data
  BY <1>2 DEF Record
<1>4. /\ flash' \in Seq(Record) /\ Len(flash') = Len(flash)
      /\ \A i \in 1..Len(flash) : flash'[i] = IF i = n THEN new ELSE flash[i]
  BY <1>1, <1>2, <1>3, ExceptSeq DEF TypeOK
<1>5. Valid' = Valid \cup {n} /\ n \notin Valid
  <2>1. DOMAIN flash' = 1..Len(flash)
    BY <1>4
  <2>2. QED  BY <2>1, <1>1, <1>2, <1>3, <1>4, Shapes DEF Valid
<1>6. \A i \in Valid : flash'[i] = flash[i] /\ i < n /\ flash[i] \in Record
  BY <1>1, <1>4, <1>5, Shapes
<1>7. /\ flash'[n] = new /\ new.id = ops[1].id /\ new.data <= ram /\ new.data \in Nat
      /\ \A i \in Valid : flash[i].data <= new.data
  BY <1>1, <1>2, <1>3, <1>4 DEF InProgress, Record
<1>8. new.data <= accepted
  BY <1>1, <1>7 DEF Fresh, TypeOK
<1>9. /\ ops \in Seq(Op) /\ ops # <<>> /\ ops[1] \in Op /\ 1 \in DOMAIN ops
      /\ \A i \in Valid : flash[i].id < ops[1].id
  BY <1>1, Shapes DEF TypeOK, NewIds
<1>10. TypeOK'
  <2>1. Len(flash') + Reserved' <= Capacity
    <3>1. Reserved' = Reserved
      <4>1. Reserved = Len(ops) - 1
        BY <1>1 DEF Reserved
      <4>2. CASE step' = "dirty" /\ UNCHANGED ops
        BY <4>1, <4>2 DEF Reserved
      <4>3. CASE Finish
        <5>1. Len(ops') = Len(ops) - 1 /\ step' \in {"idle", "begin"}
          BY <4>3, <1>1, FinishEffect
        <5>2. QED  BY <4>1, <5>1, Shapes DEF Reserved
      <4>4. QED  BY <4>2, <4>3, <1>1
    <3>2. QED  BY <1>1, <1>4, <3>1 DEF TypeOK
  <2>2. ops' \in Seq(Op) /\ step' \in Step /\ (step' = "idle") = (ops' = <<>>)
    BY <1>1, FinishEffect DEF TypeOK, Step
  <2>3. phase' = "down" => ops' = <<>>
    BY <1>1, <1>9 DEF TypeOK
  <2>4. QED  BY <1>1, <1>4, <2>1, <2>2, <2>3 DEF TypeOK
<1>11. Ordered'
  <2> SUFFICES ASSUME NEW i \in Valid', NEW j \in Valid', i < j
               PROVE  flash'[i].id < flash'[j].id /\ flash'[i].data <= flash'[j].data
    BY DEF Ordered
  <2>1. i \in Valid
    <3>1. i \in Nat /\ j \in Nat /\ j <= n
      BY <1>1, <1>2, <1>5, <1>6, Shapes
    <3>2. QED  BY <3>1, <1>2, <1>5
  <2>2. CASE j \in Valid
    BY <2>1, <2>2, <1>1, <1>6 DEF Ordered
  <2>3. CASE j = n
    BY <2>1, <2>3, <1>6, <1>7, <1>9
  <2>4. QED  BY <2>2, <2>3, <1>5
<1>12. Fresh'
  <2>1. \A i \in Valid' : flash'[i].data <= accepted /\ flash'[i].data <= ram
    <3> TAKE i \in Valid'
    <3>1. CASE i \in Valid
      BY <3>1, <1>1, <1>6, <1>9 DEF Fresh
    <3>2. CASE i = n
      BY <3>2, <1>7, <1>8
    <3>3. QED  BY <3>1, <3>2, <1>5
  <2>2. QED  BY <2>1, <1>1 DEF Fresh
<1>13. NewIds'
  <2>1. \A i \in Valid' : flash'[i].id <= ops[1].id /\ flash'[i].id \in Nat
    <3> TAKE i \in Valid'
    <3>1. CASE i \in Valid
      BY <3>1, <1>6, <1>9 DEF Record, Op
    <3>2. CASE i = n
      BY <3>2, <1>7, <1>9 DEF Op
    <3>3. QED  BY <3>1, <3>2, <1>5
  <2>2. ops[1].id <= latest /\ phase # "down" /\ desc <= latest
    BY <1>1, <1>9 DEF NewIds, TypeOK
  <2>3. \A i \in Valid' : flash'[i].id <= latest'
    BY <2>1, <2>2, <1>1, <1>9 DEF TypeOK, Op
  <2>4. CASE step' = "dirty" /\ UNCHANGED ops
    <3>1. \A k \in DOMAIN ops, i \in Valid' : k = 1 \/ flash'[i].id < ops[k].id
      <4> TAKE k \in DOMAIN ops, i \in Valid'
      <4>1. ASSUME k # 1  PROVE  ops[1].id < ops[k].id
        BY <4>1, <1>1, <1>9, Shapes DEF NewIds
      <4>2. QED  BY <4>1, <2>1, <1>9, Shapes DEF Op
    <3>2. QED  BY <2>4, <3>1, <2>2, <2>3, <1>1 DEF NewIds
  <2>5. CASE Finish
    <3>1. \A k \in DOMAIN ops' : /\ k + 1 \in DOMAIN ops /\ ops'[k] = ops[k + 1]
                                 /\ 1 < k + 1 /\ k \in Nat
      BY <2>5, <1>1, FinishEffect
    <3>2. \A k \in DOMAIN ops' : /\ ops'[k].id <= latest
                                 /\ ops'[k].victim < ops'[k].id
                                 /\ ops[1].id < ops'[k].id
                                 /\ ops'[k].id \in Nat
      BY <3>1, <1>1, <1>9, Shapes DEF NewIds, Op
    <3>3. \A k, l \in DOMAIN ops' : k < l => ops'[k].id < ops'[l].id
      BY <3>1, <1>1 DEF NewIds
    <3>4. \A k \in DOMAIN ops', i \in Valid' : flash'[i].id < ops'[k].id
      BY <3>2, <2>1, <1>9 DEF Op
    <3>5. QED  BY <3>2, <3>3, <3>4, <2>2, <2>3, <1>1 DEF NewIds
  <2>6. QED  BY <2>4, <2>5, <1>1
<1>14. InProgress'
  <2>1. CASE step' = "dirty" /\ UNCHANGED ops
    BY <2>1, <1>4, <1>5, <1>7 DEF InProgress
  <2>2. CASE Finish
    BY <2>2, <1>1, FinishEffect DEF InProgress
  <2>3. QED  BY <2>1, <2>2, <1>1
<1>15. QED  BY <1>5, <1>6, <1>7, <1>8, <1>10, <1>11, <1>12, <1>13, <1>14

(* FDS_OP_WRITE_FLAG_DIRTY takes an older record out.                       *)
LEMMA FlagDirtyStep ==
  ASSUME IInv, FlagDirty
  PROVE  /\ IInv'
         /\ Valid' \subseteq Valid /\ Len(flash) \in Valid'
         /\ \A i \in Valid' : flash'[i] = flash[i]
<1> DEFINE n == Len(flash)
<1> USE DEF IInv
<1>1. /\ TypeOK /\ Ordered /\ Fresh /\ NewIds /\ InProgress /\ step = "dirty" /\ Finish
      /\ UNCHANGED <<latest, desc, ram, phase, accepted>>
  BY DEF FlagDirty
<1>2. PICK v \in Valid : /\ flash[v].id = Head(ops).victim
                         /\ flash' = [flash EXCEPT ![v].state = "dirty"]
  BY DEF FlagDirty, Victims
<1> DEFINE old == [flash[v] EXCEPT !.state = "dirty"]
<1>3. ops \in Seq(Op) /\ ops # <<>> /\ Head(ops) = ops[1] /\ ops[1] \in Op /\ 1 \in DOMAIN ops
  BY <1>1, Shapes DEF TypeOK
<1>4. v \in 1..Len(flash) /\ flash[v] \in Record /\ old \in Record /\ old.state # "valid"
  BY <1>1, Shapes DEF Record
<1>5. /\ flash' \in Seq(Record) /\ Len(flash') = Len(flash)
      /\ \A i \in 1..Len(flash) : flash'[i] = IF i = v THEN old ELSE flash[i]
  BY <1>1, <1>2, <1>4, ExceptSeq DEF TypeOK
<1>6. Valid' = Valid \ {v}
  <2>1. DOMAIN flash' = 1..Len(flash)
    BY <1>5
  <2>2. QED  BY <2>1, <1>1, <1>4, <1>5, Shapes DEF Valid
<1>7. \A i \in Valid' : flash'[i] = flash[i]
  BY <1>1, <1>5, <1>6, Shapes
<1>8. n \in Valid'
  <2>1. n \in Valid /\ flash[n].id = ops[1].id
    BY <1>1 DEF InProgress
  <2>2. flash[v].id < flash[n].id
    BY <2>1, <1>1, <1>2, <1>3 DEF NewIds
  <2>3. n # v
    BY <2>2, <1>4 DEF Record
  <2>4. QED  BY <2>1, <2>3, <1>6
<1>9. TypeOK'
  <2>1. Reserved' = Reserved
    BY <1>1, FinishEffect, Shapes DEF Reserved
  <2>2. ops' \in Seq(Op) /\ step' \in Step /\ (step' = "idle") = (ops' = <<>>)
    BY <1>1, FinishEffect DEF Step
  <2>3. phase' = "down" => ops' = <<>>
    BY <1>1, <1>3 DEF TypeOK
  <2>4. QED  BY <1>1, <1>5, <2>1, <2>2, <2>3 DEF TypeOK
<1>10. Ordered' /\ Fresh'
  BY <1>1, <1>3, <1>6, <1>7 DEF Ordered, Fresh
<1>11. NewIds'
  BY <1>1, <1>6, <1>7, FinishKeepsIds
<1>12. InProgress'
  BY <1>1, FinishEffect DEF InProgress
<1>13. QED  BY <1>6, <1>7, <1>8, <1>9, <1>10, <1>11, <1>12

-----------------------------------------------------------------------------
(* IInv is an inductive invariant.                                          *)
LEMMA Inductive == Spec => []IInv
<1>1. Init => IInv
  <2> SUFFICES ASSUME Init  PROVE IInv
    OBVIOUS
  <2>1. Valid = {}
    BY DEF Init, Valid
  <2>2. TypeOK
    BY FlashAssumption DEF Init, TypeOK, Reserved, Step, Phase
  <2>3. QED  BY <2>1, <2>2 DEF Init, IInv, Ordered, Fresh, NewIds, InProgress
<1>2. IInv /\ [Next]_vars => IInv'
  <2> SUFFICES ASSUME IInv, [Next]_vars  PROVE IInv'
    OBVIOUS
  <2>1. CASE BootFound
    BY <2>1, BootFoundStep
  <2>2. CASE BootDefault
    BY <2>2, BootDefaultStep
  <2>3. CASE WriteVariables
    BY <2>3, UpdateStep
  <2>4. CASE WriteFault \/ Reset
    BY <2>4, LoseRamStep
  <2>5. CASE FindFails \/ TimeOut
    BY <2>5, QueueStep
  <2>6. CASE WriteBegin
    BY <2>6, WriteBeginStep
  <2>7. CASE WriteId \/ WriteData
    BY <2>7, FillStep
  <2>8. CASE WriteFinalize
    BY <2>8, WriteFinalizeStep
  <2>9. CASE FlagDirty
    BY <2>9, FlagDirtyStep
  <2>10. CASE UNCHANGED vars
    BY <2>10 DEF vars, IInv, TypeOK, Ordered, Fresh, NewIds, InProgress, Reserved, Valid
  <2>11. QED  BY <2>1, <2>2, <2>3, <2>4, <2>5, <2>6, <2>7, <2>8, <2>9, <2>10
              DEF Next, FlashStep, BootFault
<1>3. QED  BY <1>1, <1>2, PTL DEF Spec

(* Types, the queue in agreement with its step, and room in the pages for   *)
(* everything queued, whatever is reset or times out.                       *)
THEOREM TypeCorrect == Spec => []TypeOK
<1>1. IInv => TypeOK
  BY DEF IInv
<1>2. QED  BY <1>1, Inductive, PTL

(* No two valid records ever have the same identifier, so flagging the      *)
(* replaced record by its identifier never hits another one.                *)
THEOREM IdsAreUnique == Spec => []UniqueIds
<1>1. IInv => UniqueIds
  <2> SUFFICES ASSUME IInv, NEW i \in Valid, NEW j \in Valid,
                      flash[i].id = flash[j].id
               PROVE  i = j
    BY DEF UniqueIds
  <2>1. TypeOK /\ Ordered
    BY DEF IInv
  <2>2. i \in Nat /\ j \in Nat /\ flash[i].id \in Nat
    BY <2>1, Shapes DEF Record
  <2>3. ~ (i < j) /\ ~ (j < i)
    BY <2>1, <2>2 DEF Ordered
  <2>4. QED  BY <2>2, <2>3
<1>2. QED  BY <1>1, Inductive, PTL

(* Whatever the valid records are, a boot loads a configuration that was    *)
(* accepted.                                                                *)
LEMMA StoredBound ==
  ASSUME IInv
  PROVE  Stored \in Nat /\ Stored <= accepted /\ accepted \in Nat
<1>1. TypeOK /\ Fresh /\ accepted \in Nat
  BY DEF IInv, TypeOK
<1>2. CASE Valid = {}
  BY <1>1, <1>2 DEF Stored
<1>3. CASE Valid # {}
  BY <1>1, <1>3, FirstIsFirst, Shapes DEF Stored, Fresh, Record
<1>4. QED  BY <1>2, <1>3

(* A step that leaves the valid records as they are leaves Stored alone.    *)
LEMMA StoredSame ==
  ASSUME TypeOK, Valid' = Valid, \A i \in Valid : flash'[i] = flash[i]
  PROVE  Stored' = Stored
<1>1. First' = First
  BY DEF First
<1>2. Valid # {} => First \in Valid
  BY FirstIsFirst
<1>3. QED  BY <1>1, <1>2 DEF Stored

(* The first valid record after a step.                                     *)
LEMMA NextFirst ==
  ASSUME TypeOK', Valid' # {}
  PROVE  First' \in Valid' /\ \A j \in Valid' : First' <= j
<1>1. Valid' \in SUBSET Nat
  BY DEF TypeOK, Valid
<1>2. \E i \in Valid' : \A j \in Valid' : i <= j
  BY <1>1, MinExists
<1>3. QED  BY <1>2 DEF First

(* A step that validates the first record of all, or after which a record   *)
(* that was valid already is the first one, moves Stored forward.           *)
LEMMA StoredForward ==
  ASSUME IInv, IInv', Valid' # {}, accepted' = accepted,
         Valid # {} => First' \in Valid /\ flash'[First'] = flash[First']
  PROVE  Register!Switch \/ UNCHANGED Register!vars
<1>1. TypeOK /\ Ordered /\ TypeOK' /\ Fresh'
  BY DEF IInv
<1>2. First' \in Valid' /\ Stored' = flash'[First'].data
  BY <1>1, NextFirst DEF Stored
<1>3. Stored' \in Nat /\ Stored' <= accepted
  <2>1. flash' \in Seq(Record) /\ First' \in DOMAIN flash'
    BY <1>1, <1>2 DEF TypeOK, Valid
  <2>2. flash'[First'].data \in Nat
    <3>1. flash'[First'] \in Record
      BY <2>1
    <3>2. QED  BY <3>1 DEF Record
  <2>3. QED  BY <1>1, <1>2, <2>2 DEF Fresh
<1>4. Stored \in Nat /\ accepted \in Nat /\ Stored <= Stored'
  <2>1. CASE Valid = {}
    BY <2>1, <1>3, StoredBound DEF Stored
  <2>2. CASE Valid # {}
    <3>1. First \in Valid /\ First <= First' /\ First' \in Valid
      BY <2>2, <1>1, FirstIsFirst
    <3>2. flash[First].data <= flash[First'].data
      <4>1. First \in Nat /\ First' \in Nat /\ flash[First].data \in Nat
        BY <1>1, <3>1, Shapes DEF Record
      <4>2. First < First' \/ First = First'
        BY <3>1, <4>1
      <4>3. QED  BY <1>1, <3>1, <4>1, <4>2 DEF Ordered
    <3>3. QED  BY <2>2, <3>1, <3>2, <1>2, StoredBound DEF Stored
  <2>3. QED  BY <2>1, <2>2
<1>5. CASE Stored' = Stored
  BY <1>5 DEF Register!vars
<1>6. CASE Stored' # Stored
  <2>1. Stored' \in (Stored + 1)..accepted
    BY <1>3, <1>4, <1>6
  <2>2. QED  BY <2>1 DEF Register!Switch
<1>7. QED  BY <1>5, <1>6

(* The flash implements the register: across resets and time-outs at any    *)
(* point, a boot never loads a torn configuration, nor one older than what  *)
(* a boot would have loaded before.                                         *)
THEOREM FlashIsARegister == Spec => RegisterSpec
<1>1. Init => Register!Init
  BY DEF Init, Register!Init, Stored, Valid
<1>2. IInv /\ IInv' /\ [Next]_vars => [Register!Next]_Register!vars
  <2> SUFFICES ASSUME IInv, IInv', [Next]_vars
               PROVE  Register!Next \/ UNCHANGED Register!vars
    OBVIOUS
  <2>1. TypeOK /\ Ordered
    BY DEF IInv
  <2>2. CASE UNCHANGED <<flash, accepted>>
    BY <2>2 DEF Register!vars, Stored, First, Valid
  <2>3. CASE WriteVariables
    <3>1. accepted' = accepted + 1 /\ UNCHANGED flash
      BY <2>3 DEF WriteVariables, Update
    <3>2. Stored' = Stored
      BY <3>1 DEF Stored, First, Valid
    <3>3. QED  BY <3>1, <3>2 DEF Register!Next, Register!Accept
  <2>4. CASE WriteBegin \/ WriteId \/ WriteData
    <3>1. Valid' = Valid /\ \A i \in Valid : flash'[i] = flash[i]
      BY <2>4, WriteBeginStep, FillStep
    <3>2. accepted' = accepted
      BY <2>4 DEF WriteBegin, WriteId, WriteData
    <3>3. QED  BY <2>1, <3>1, <3>2, StoredSame DEF Register!vars
  <2>5. CASE WriteFinalize
    <3>1. /\ Valid' = Valid \cup {Len(flash)}
          /\ \A i \in Valid : flash'[i] = flash[i] /\ i < Len(flash)
      BY <2>5, WriteFinalizeStep
    <3>2. ASSUME Valid # {}  PROVE First' \in Valid
      <4>1. First \in Valid /\ First < Len(flash) /\ First \in Nat /\ Len(flash) \in Nat
        BY <3>1, <3>2, <2>1, FirstIsFirst, Shapes
      <4>2. First' \in Valid' /\ First' <= First
        BY <3>1, <4>1, NextFirst DEF IInv
      <4>3. First' # Len(flash)
        BY <4>1, <4>2
      <4>4. QED  BY <3>1, <4>2, <4>3
    <3>3. accepted' = accepted
      BY <2>5 DEF WriteFinalize
    <3>4. QED  BY <3>1, <3>2, <3>3, StoredForward DEF Register!Next
  <2>6. CASE FlagDirty
    <3>1. /\ Valid' \subseteq Valid /\ Valid' # {}
          /\ \A i \in Valid' : flash'[i] = flash[i]
      BY <2>6, FlagDirtyStep
    <3>2. First' \in Valid'
      BY <3>1, NextFirst DEF IInv
    <3>3. accepted' = accepted
      BY <2>6 DEF FlagDirty
    <3>4. QED  BY <3>1, <3>2, <3>3, StoredForward DEF Register!Next
  <2>7. QED
    BY <2>2, <2>3, <2>4, <2>5, <2>6
    DEF Next, FlashStep, vars, BootFound, BootDefault, BootFault, WriteFault, Reset,
        LoseRam, FindFails, TimeOut
<1>3. QED  BY <1>1, <1>2, Inductive, PTL DEF Spec, RegisterSpec, Register!Spec

-----------------------------------------------------------------------------
(* Without faults.  The queue holds the default write, or an update that    *)
(* will replace the record of the write before it, or both in this order.   *)
QueueShape ==
  /\ phase = "up" => IF ops = <<>> THEN \E i \in Valid : flash[i].id = desc
                     ELSE Len(ops) = 1 /\ ops[1].code = "write" /\ ops[1].id = desc
  /\ phase = "saved" /\ ops # <<>> => ops[Len(ops)].code = "update"
  /\ Len(ops) <= 2
  /\ Len(ops) = 2 => ops[1].code = "write" /\ ops[2].victim = ops[1].id

(* One record is valid, but for the new one an update has just validated;   *)
(* what an update is to replace is there, and a write finds nothing.        *)
OneCopy ==
  /\ step # "dirty" => \A i, j \in Valid : i = j
  /\ step = "dirty" =>
       /\ ops[1].code = "update"
       /\ \A i \in Valid : i = Len(flash) \/ flash[i].id = ops[1].victim
  /\ ops # <<>> /\ ops[1].code = "write" => Valid = {}
  /\ ops # <<>> /\ ops[1].code = "update" => \E v \in Valid : flash[v].id = ops[1].victim

(* RAM holds the last save, the record in progress takes it over, and when  *)
(* the queue is empty the valid record is it.                               *)
Current ==
  /\ phase # "down" => ram = accepted
  /\ phase # "saved" \/ ops = <<>> =>
       \/ Valid = {} /\ accepted = 0
       \/ \E v \in Valid : flash[v].data = accepted
  /\ step \in {"finalize", "dirty"} /\ (phase = "up" \/ ops[1].code = "update") =>
       flash[Len(flash)].data = accepted

Quiet == QueueShape /\ OneCopy /\ Current

(* A boot loads the only valid record.                                      *)
LEMMA StoredOnly ==
  ASSUME TypeOK, NEW v \in Valid, \A i \in Valid : i = v
  PROVE  Stored = flash[v].data
<1>1. First = v /\ Valid # {}
  BY FirstIsFirst
<1>2. QED  BY <1>1 DEF Stored

(* With nothing queued, or no save yet, that is the last one accepted.      *)
LEMMA StoredIsLast ==
  ASSUME IInv, Quiet, step # "dirty", phase # "saved" \/ ops = <<>>
  PROVE  Stored = accepted
<1>1. TypeOK /\ \A i, j \in Valid : i = j
  BY DEF IInv, Quiet, OneCopy
<1>2. CASE Valid = {} /\ accepted = 0
  BY <1>2 DEF Stored
<1>3. CASE \E v \in Valid : flash[v].data = accepted
  BY <1>1, <1>3, StoredOnly
<1>4. QED  BY <1>2, <1>3 DEF Quiet, Current

(* A boot, which takes over the last save or finds none.                    *)
LEMMA QuietBoot ==
  ASSUME IInv, Quiet, BootFound \/ BootDefault
  PROVE  Quiet'
<1> USE DEF IInv
<1>1. TypeOK /\ phase = "down" /\ ops = <<>> /\ step = "idle" /\ UNCHANGED <<flash, accepted>>
  BY DEF BootFound, BootDefault, TypeOK
<1>2. Stored = accepted /\ Valid' = Valid /\ phase' = "up"
  BY <1>1, StoredIsLast DEF Valid, BootFound, BootDefault
<1>3. CASE BootFound
  <2>1. First \in Valid /\ desc' = flash[First].id /\ ram' = Stored /\ UNCHANGED <<ops, step>>
    BY <1>1, <1>3, FirstIsFirst DEF BootFound
  <2>2. Len(ops) = 0
    BY <1>1
  <2>3. QED  BY <1>1, <1>2, <2>1, <2>2 DEF Quiet, QueueShape, OneCopy, Current
<1>4. CASE BootDefault
  <2> DEFINE op == [code |-> "write", id |-> 1, victim |-> 0]
  <2>1. /\ Valid = {} /\ ops' = <<op>> /\ step' = "begin" /\ desc' = 1 /\ ram' = 0
        /\ accepted = 0
    BY <1>2, <1>4 DEF BootDefault, Stored
  <2>2. Len(ops') = 1 /\ ops'[1] = op /\ ops' # <<>>
    BY <2>1
  <2>3. QED  BY <1>1, <1>2, <2>1, <2>2 DEF Quiet, QueueShape, OneCopy, Current
<1>5. QED  BY <1>3, <1>4

(* What appending to a queue gives. *)
LEMMA AppendAt ==
  ASSUME NEW S, NEW q \in Seq(S), NEW e \in S
  PROVE  /\ Append(q, e) # <<>> /\ Len(Append(q, e)) = Len(q) + 1
         /\ \A i \in 1..Len(q) : Append(q, e)[i] = q[i]
         /\ Append(q, e)[Len(q) + 1] = e
BY AppendProperties

(* An update is queued, behind the write of the record it replaces if that  *)
(* is still to be done.                                                     *)
LEMMA QuietUpdate ==
  ASSUME IInv, Quiet, WriteVariables
  PROVE  Quiet'
<1> DEFINE op == [code |-> "update", id |-> latest + 1, victim |-> desc]
<1> USE DEF IInv
<1>1. /\ TypeOK /\ phase = "up" /\ phase' = "saved" /\ ram' = accepted' /\ UNCHANGED flash
      /\ ops' = Append(ops, op) /\ step' = IF ops = <<>> THEN "begin" ELSE step
  BY DEF WriteVariables, Update
<1>2. Valid' = Valid /\ step # "dirty"
  BY <1>1, Shapes DEF Valid, Quiet, QueueShape, OneCopy, TypeOK
<1>3. CASE ops = <<>>
  <2>1. ops' # <<>> /\ Len(ops') = 1 /\ ops'[1] = op /\ step' = "begin"
    BY <1>1, <1>3
  <2>2. \E v \in Valid : flash[v].id = desc
    BY <1>1, <1>3 DEF Quiet, QueueShape
  <2>3. QED  BY <1>1, <1>2, <2>1, <2>2 DEF Quiet, QueueShape, OneCopy, Current
<1>4. CASE ops # <<>>
  <2>1. Len(ops) = 1 /\ ops[1].code = "write" /\ ops[1].id = desc /\ ops \in Seq(Op)
    BY <1>1, <1>4 DEF Quiet, QueueShape, TypeOK
  <2>2. op \in Op
    BY <1>1 DEF TypeOK, Op
  <2>3. ops' # <<>> /\ Len(ops') = 2 /\ ops'[1] = ops[1] /\ ops'[2] = op /\ step' = step
    <3>1. /\ Append(ops, op) # <<>> /\ Len(Append(ops, op)) = Len(ops) + 1
          /\ \A i \in 1..Len(ops) : Append(ops, op)[i] = ops[i]
          /\ Append(ops, op)[Len(ops) + 1] = op
      <4> HIDE DEF op
      <4>1. ops \in Seq(Op)
        BY <2>1
      <4>2. QED  BY ONLY <4>1, <2>2, AppendAt
    <3>2. QED  BY <1>1, <1>4, <2>1, <3>1
  <2>4. QED  BY <1>1, <1>2, <1>4, <2>1, <2>3 DEF Quiet, QueueShape, OneCopy, Current
<1>5. QED  BY <1>3, <1>4

(* RAM is lost: nothing was queued, or no save was accepted since the boot. *)
LEMMA QuietLoseRam ==
  ASSUME IInv, Quiet, ~Faults, WriteFault \/ Reset
  PROVE  Quiet'
<1> USE DEF IInv
<1>1. /\ TypeOK /\ phase' = "down" /\ ops' = <<>> /\ step' = "idle" /\ UNCHANGED <<flash, accepted>>
      /\ phase = "up" \/ ops = <<>>
  BY DEF WriteFault, Reset, LoseRam
<1>2. step # "dirty" /\ Len(ops') = 0 /\ Valid' = Valid
  BY <1>1, Shapes DEF Quiet, QueueShape, OneCopy, TypeOK, Valid
<1>3. QED  BY <1>1, <1>2 DEF Quiet, QueueShape, OneCopy, Current

(* A record is begun; the update at hand finds what it is to replace.       *)
LEMMA QuietBegin ==
  ASSUME IInv, Quiet, FindFails \/ WriteBegin
  PROVE  Quiet'
<1> USE DEF IInv
<1>1. TypeOK /\ step = "begin" /\ ops # <<>> /\ Head(ops) = ops[1]
  BY Shapes DEF FindFails, WriteBegin, TypeOK
<1>2. ~FindFails
  BY <1>1 DEF FindFails, Victims, Quiet, OneCopy
<1>3. WriteBegin /\ step' = "id" /\ UNCHANGED <<ops, latest, desc, ram, phase, accepted>>
  BY <1>2 DEF WriteBegin
<1>4. Valid' = Valid /\ \A i \in Valid : flash'[i] = flash[i]
  BY <1>3, WriteBeginStep
<1>5. QED  BY <1>1, <1>3, <1>4 DEF Quiet, QueueShape, OneCopy, Current

(* It takes its contents from RAM.                                          *)
LEMMA QuietFill ==
  ASSUME IInv, Quiet, WriteId \/ WriteData
  PROVE  Quiet'
<1> USE DEF IInv
<1>1. /\ TypeOK /\ InProgress /\ step \in {"id", "data"} /\ step' \in {"data", "finalize"}
      /\ step' = "finalize" => flash' = [flash EXCEPT ![Len(flash)].data = ram]
      /\ UNCHANGED <<ops, latest, desc, ram, phase, accepted>>
  BY DEF WriteId, WriteData
<1>2. Valid' = Valid /\ \A i \in Valid : flash'[i] = flash[i]
  BY FillStep
<1>3. phase # "down" /\ ram = accepted
  BY <1>1, Shapes DEF TypeOK, Quiet, Current
<1>4. step' = "finalize" => flash'[Len(flash')].data = accepted'
  <2>1. Len(flash) \in DOMAIN flash /\ flash[Len(flash)] \in Record
    BY <1>1, Shapes DEF InProgress
  <2>2. step' = "finalize" =>
          Len(flash') = Len(flash) /\ flash'[Len(flash)] = [flash[Len(flash)] EXCEPT !.data = ram]
    BY <1>1, <2>1 DEF TypeOK
  <2>3. QED  BY <1>1, <1>3, <2>1, <2>2 DEF Record
<1>5. QED  BY <1>1, <1>2, <1>3, <1>4 DEF Quiet, QueueShape, OneCopy, Current

(* It becomes valid: the only copy, or the second one next to the victim.   *)
LEMMA QuietFinalize ==
  ASSUME IInv, Quiet, WriteFinalize
  PROVE  Quiet'
<1> USE DEF IInv
<1> DEFINE n == Len(flash)
<1>1. /\ TypeOK /\ InProgress /\ step = "finalize" /\ ops # <<>> /\ phase # "down"
      /\ Head(ops) = ops[1] /\ ops[1] \in Op /\ Len(ops) \in 1..2
      /\ UNCHANGED <<latest, desc, ram, phase, accepted>>
  <2>1. TypeOK /\ InProgress /\ step = "finalize" /\ UNCHANGED <<latest, desc, ram, phase, accepted>>
    BY DEF WriteFinalize
  <2>2. ops \in Seq(Op) /\ ops # <<>> /\ phase # "down" /\ Len(ops) \in Nat /\ Len(ops) <= 2
    BY <2>1, Shapes DEF TypeOK, Quiet, QueueShape
  <2>3. Len(ops) \in 1..2 /\ 1 \in DOMAIN ops /\ Head(ops) = ops[1] /\ ops[1] \in Op
    BY <2>1, <2>2, Shapes
  <2>4. QED  BY <2>1, <2>2, <2>3
<1>2. /\ n \in DOMAIN flash /\ flash[n] \in Record
      /\ flash' = [flash EXCEPT ![n].state = "valid"]
  BY <1>1, Shapes DEF InProgress, WriteFinalize
<1>3. Len(flash') = n /\ flash'[n].id = flash[n].id /\ flash'[n].data = flash[n].data
  <2>1. flash'[n] = [flash[n] EXCEPT !.state = "valid"] /\ flash \in Seq(Record)
    BY <1>1, <1>2 DEF TypeOK
  <2>2. Len(flash') = n
    BY <1>2, <2>1
  <2>3. QED  BY <1>2, <2>1, <2>2 DEF Record
<1>4. /\ Valid' = Valid \cup {n}
      /\ \A i \in Valid : flash'[i] = flash[i]
  BY WriteFinalizeStep
<1>5. flash'[n].id = ops[1].id
  BY <1>1, <1>3 DEF InProgress
<1>6. CASE ops[1].code = "update"
  <2>1. step' = "dirty" /\ ops' = ops /\ flash[n].data = accepted /\ Len(ops) = 1 /\ phase # "up"
    BY <1>1, <1>6 DEF WriteFinalize, Quiet, QueueShape, Current
  <2>2. \E v \in Valid : flash[v].id = ops[1].victim
    BY <1>1, <1>6 DEF Quiet, OneCopy
  <2>3. \A i \in Valid' : i = n \/ flash'[i].id = ops[1].victim
    BY <1>1, <1>4, <2>2 DEF Quiet, OneCopy
  <2>4. QED  BY <1>1, <1>3, <1>4, <1>6, <2>1, <2>2, <2>3 DEF Quiet, QueueShape, OneCopy, Current
<1>7. CASE ops[1].code # "update"
  <2>1. ops[1].code = "write" /\ Valid = {} /\ Finish
    BY <1>1, <1>7 DEF Op, WriteFinalize, Quiet, OneCopy
  <2>2. Valid' = {n} /\ step' # "dirty" /\ step' # "finalize"
    BY <1>4, <2>1 DEF Finish
  <2>3. CASE Len(ops) = 1
    <3>1. ops' = <<>> /\ Len(ops') = 0
      BY <1>1, <2>1, <2>3, FinishEffect
    <3>2. phase = "up" /\ desc = ops[1].id /\ flash[n].data = accepted
      BY <1>1, <2>1, <2>3 DEF Quiet, QueueShape, Current, TypeOK, Phase
    <3>3. QED  BY <1>1, <1>3, <1>5, <2>2, <3>1, <3>2 DEF Quiet, QueueShape, OneCopy, Current
  <2>4. CASE Len(ops) = 2
    <3>1. ops' # <<>> /\ Len(ops') = 1 /\ ops'[1] = ops[2]
      BY <1>1, <2>1, <2>4, FinishEffect
    <3>2. phase = "saved" /\ ops[2].code = "update" /\ ops[2].victim = ops[1].id
      BY <1>1, <2>4 DEF Quiet, QueueShape, TypeOK, Phase
    <3>3. QED  BY <1>1, <1>3, <1>5, <2>2, <3>1, <3>2 DEF Quiet, QueueShape, OneCopy, Current
  <2>5. QED  BY <1>1, <2>3, <2>4
<1>8. QED  BY <1>6, <1>7

(* The victim is flagged, and the new record alone is valid.                *)
LEMMA QuietFlagDirty ==
  ASSUME IInv, Quiet, FlagDirty
  PROVE  Quiet' /\ Stored' = accepted
<1> USE DEF IInv
<1> DEFINE n == Len(flash)
<1>1. /\ TypeOK /\ Ordered /\ NewIds /\ step = "dirty" /\ ops # <<>> /\ phase # "down" /\ Finish
      /\ Head(ops) = ops[1] /\ Len(ops) \in Nat /\ Len(ops) > 0
      /\ UNCHANGED <<latest, desc, ram, phase, accepted>>
  BY Shapes DEF FlagDirty, TypeOK
<1>2. PICK v \in Valid : /\ flash[v].id = ops[1].victim
                         /\ flash' = [flash EXCEPT ![v].state = "dirty"]
  BY <1>1 DEF FlagDirty, Victims
<1>3. v \notin Valid'
  BY <1>1, <1>2, Shapes DEF Valid, Record
<1>4. /\ Valid' \subseteq Valid /\ n \in Valid' /\ IInv'
      /\ \A i \in Valid' : flash'[i] = flash[i]
  BY FlagDirtyStep
<1>5. \A i \in Valid' : i = n
  <2> TAKE i \in Valid'
  <2>1. i \in Valid /\ i # v /\ i \in Nat /\ v \in Nat
    BY <1>1, <1>2, <1>3, <1>4, Shapes
  <2>2. flash[i].id # flash[v].id
    <3>1. flash[i].id \in Nat /\ flash[v].id \in Nat
      BY <2>1, <1>1, <1>2, Shapes DEF Record
    <3>2. i < v \/ v < i
      BY <2>1
    <3>3. QED  BY <1>1, <1>2, <2>1, <3>1, <3>2 DEF Ordered
  <2>3. QED  BY <1>1, <1>2, <2>1, <2>2 DEF Quiet, OneCopy
<1>6. ops[1].code = "update" /\ Len(ops) = 1 /\ flash'[n].data = accepted /\ phase # "up"
  <2>1. ops[1].code = "update" /\ flash[n].data = accepted
    BY <1>1 DEF Quiet, OneCopy, Current
  <2>2. "update" # "write"
    OBVIOUS
  <2>3. Len(ops) <= 2 /\ Len(ops) # 2
    BY <2>1, <2>2 DEF Quiet, QueueShape
  <2>4. phase # "up"
    BY <1>1, <2>1, <2>2, Zenon DEF Quiet, QueueShape
  <2>5. Len(ops) = 1
    <3>1. ASSUME NEW k \in Nat, k > 0, k <= 2, k # 2  PROVE k = 1
      BY <3>1
    <3>2. QED  BY <1>1, <2>3, <3>1
  <2>6. flash'[n].data = accepted
    <3>1. flash'[n] = flash[n]
      BY <1>4
    <3>2. QED  BY <2>1, <3>1
  <2>7. QED  BY <2>1, <2>4, <2>5, <2>6
<1>7. ops' = <<>> /\ step' = "idle" /\ Len(ops') = 0
  BY <1>1, <1>6, FinishEffect
<1>8. Quiet'
  BY <1>1, <1>4, <1>5, <1>6, <1>7 DEF Quiet, QueueShape, OneCopy, Current
<1>9. Stored' = flash'[n].data
  <2>1. First' = n /\ Valid' # {}
    BY <1>4, <1>5, NextFirst
  <2>2. QED  BY <2>1 DEF Stored
<1>10. QED  BY <1>6, <1>8, <1>9

(* Quiet is inductive given IInv.                                           *)
LEMMA QuietInductive == ASSUME ~Faults PROVE Spec => []Quiet
<1>1. Init => Quiet
  <2> SUFFICES ASSUME Init  PROVE Quiet
    OBVIOUS
  <2>1. Valid = {} /\ Len(ops) = 0
    BY DEF Init, Valid
  <2>2. QED  BY <2>1 DEF Init, Quiet, QueueShape, OneCopy, Current
<1>2. IInv /\ Quiet /\ [Next]_vars => Quiet'
  <2> SUFFICES ASSUME IInv, Quiet, [Next]_vars  PROVE Quiet'
    OBVIOUS
  <2>1. CASE BootFound \/ BootDefault
    BY <2>1, QuietBoot
  <2>2. CASE WriteVariables
    BY <2>2, QuietUpdate
  <2>3. CASE WriteFault \/ Reset
    BY <2>3, QuietLoseRam
  <2>4. CASE FindFails \/ WriteBegin
    BY <2>4, QuietBegin
  <2>5. CASE WriteId \/ WriteData
    BY <2>5, QuietFill
  <2>6. CASE WriteFinalize
    BY <2>6, QuietFinalize
  <2>7. CASE FlagDirty
    BY <2>7, QuietFlagDirty
  <2>8. CASE UNCHANGED vars
    BY <2>8 DEF vars, Quiet, QueueShape, OneCopy, Current, Valid
  <2>9. QED  BY <2>1, <2>2, <2>3, <2>4, <2>5, <2>6, <2>7, <2>8
             DEF Next, FlashStep, BootFault, TimeOut
<1>3. QED  BY <1>1, <1>2, Inductive, PTL DEF Spec

(* If no reset and no time-out interrupts a flash operation, one copy of    *)
(* the configuration is valid whenever nothing is queued (fds.c:1290).      *)
THEOREM CopyIsSingle == ASSUME ~Faults PROVE Spec => []SingleCopy
<1>1. IInv /\ Quiet => SingleCopy
  <2> SUFFICES ASSUME IInv, Quiet, ops = <<>>  PROVE Cardinality(Valid) <= 1
    BY DEF SingleCopy
  <2>1. step # "dirty"
    BY DEF IInv, TypeOK
  <2>2. \A i, j \in Valid : i = j
    BY <2>1 DEF Quiet, OneCopy
  <2>3. CASE Valid = {}
    BY <2>3, FS_EmptySet
  <2>4. CASE Valid # {}
    <3>1. PICK v \in Valid : Valid = {v}
      BY <2>2, <2>4
    <3>2. Cardinality(Valid) = 1
      BY <3>1, FS_Singleton, Zenon
    <3>3. QED  BY <3>2
  <2>5. QED  BY <2>3, <2>4
<1>2. QED  BY <1>1, Inductive, QuietInductive, PTL

(* ... and the record an update leaves behind when it is done is what was   *)
(* saved last (eeprom.c:127): LatestWins fails by interrupted updates only. *)
THEOREM UpdateIsLatest == ASSUME ~Faults PROVE Spec => LatestWins
<1>1. IInv /\ Quiet /\ [Next]_vars => [step = "dirty" /\ flash' # flash => Stored' = accepted]_vars
  <2> SUFFICES ASSUME IInv, Quiet, [Next]_vars, step = "dirty", flash' # flash
               PROVE  Stored' = accepted
    OBVIOUS
  <2>1. FlagDirty
    BY DEF Next, vars, FlashStep, BootFound, BootDefault, BootFault, WriteVariables, Update,
           WriteFault, Reset, LoseRam, FindFails, WriteBegin, WriteId, WriteData,
           WriteFinalize, TimeOut
  <2>2. QED  BY <2>1, QuietFlagDirty
<1>2. QED  BY <1>1, Inductive, QuietInductive, PTL DEF Spec, LatestWins
=============================================================================
