-------------------------- MODULE KeyMessages_proofs --------------------------
(***************************************************************************)
(* The travel mode and the page commands, proved for every step, range,     *)
(* width and wrap of the numbers, every stray mode and any number of missed *)
(* presses, with both features at once; and the pages of the LEV profile,   *)
(* for all the values they can carry.                                       *)
(***************************************************************************)
EXTENDS KeyMessages, LevPages, TLAPS

Page16s == [key : {"PLUS", "MINUS"}, mode : 0..(Byte - 1)]
Page73s == [sequence : 0..(Wrap - 1), lsb : 0..255, msb : 0..255, asked : {0, 1}]
AtMostOne(S) == {<<>>} \cup {<<m>> : m \in S}

\* Within n presses of the travel mode.
Within(mode, n) == travel_mode - mode \in (-(Step * n))..(Step * n)

\* What the type invariant leaves open: one message at a time, on each channel its own.
Transfers ==
    /\ transfer \in [Features -> AtMostOne(Page16s \cup Page73s)]
    /\ transfer["ebike"] \in AtMostOne(Page16s)
    /\ transfer["garmin"] \in AtMostOne(Page73s)
    /\ heard \in AtMostOne(Page73s)

\* The presses since the last message are among those since the one last heard.
NewerAreMissed == \A f \in Features : newer[f] <= missed[f]

\* Without a stray mode the remote counts in whole steps within the range, which is
\* why it meets the ends although it tests them for equality.
CountsInSteps == ~strayed => travel_mode \in Modes

\* A message under way is as old as the presses that came after it.
MessageIsRecent ==
    ~strayed /\ transfer["ebike"] # <<>> => Within(transfer["ebike"][1].mode, newer["ebike"])

LevelIsNear == (synced => level = base) /\ (~strayed => Within(base, missed["ebike"]))

Undistorted(m) == m.msb * 256 + m.lsb = m.asked
CommandsAreSound == \A m \in Range(transfer["garmin"]) \cup Range(heard) : Undistorted(m)

IInv ==
    /\ TypeOK /\ Transfers /\ NewerAreMissed
    /\ CountsInSteps /\ MessageIsRecent /\ LevelIsNear /\ CommandsAreSound

-----------------------------------------------------------------------------
\* Multiples of a step.
LEMMA Quotient ==
    ASSUME NEW a \in Nat, NEW s \in Nat \ {0}, a % s = 0
    PROVE  \E q \in Nat : a = s * q
<1>1. a = (s * (a \div s)) + (a % s) /\ a \div s \in Int
  OBVIOUS
<1>2. a \div s >= 0
  OBVIOUS
<1>3. a \div s \in Nat /\ a = s * (a \div s)
  BY <1>1, <1>2
<1> QED BY <1>3

\* A product is a multiple.
LEMMA Multiple ==
    ASSUME NEW q \in Nat, NEW s \in Nat \ {0}
    PROVE  s * q \in Nat /\ (s * q) % s = 0
OBVIOUS

\* The next multiple is one step away at least.
LEMMA NextMultiple ==
    ASSUME NEW q \in Nat, NEW r \in Nat, NEW s \in Nat \ {0}, s * q < s * r
    PROVE  s * q + s <= s * r
<1>1. q + 1 <= r
  OBVIOUS
<1>2. s * (q + 1) <= s * r
  BY <1>1
<1> QED BY <1>2

\* Bytes are not changed by the width of a byte.
LEMMA Byteful ==
    ASSUME NEW b \in Nat \ {0}, NEW n \in 0..(b - 1)
    PROVE  n % b = n /\ (n + b) % b = n
OBVIOUS

\* A key moves a mode of the range by one step in its direction, or not at all, and
\* within the range.
LEMMA SteppedInRange ==
    ASSUME NEW mode \in Modes, NEW key \in {"PLUS", "MINUS"}
    PROVE  /\ Stepped(mode, key) \in Modes /\ Stepped(mode, key) - mode \in (-Step)..Step
           /\ Stepped(mode, key) \in {mode, IF key = "PLUS" THEN mode + Step ELSE mode - Step}
<1> USE MessagesAssumption
<1>1. mode \in Nat /\ mode <= Top /\ mode % Step = 0 /\ Step \in Nat \ {0}
  BY DEF Modes
<1>2. PICK q \in Nat : mode = Step * q
  BY <1>1, Quotient
<1>3. Top \in Nat /\ Top % Step = 0
  OBVIOUS
<1>4. PICK r \in Nat : Top = Step * r
  BY <1>1, <1>3, Quotient
<1>5. CASE key = "PLUS" /\ mode # Top
  <2>1. mode + Step <= Top
    BY <1>1, <1>2, <1>4, <1>5, NextMultiple
  <2>2. Stepped(mode, key) = mode + Step
    <3>1. Stepped(mode, key) = (mode + Step) % Byte
      BY <1>5 DEF Stepped
    <3>2. mode + Step \in 0..(Byte - 1) /\ Byte \in Nat \ {0}
      BY <1>1, <2>1
    <3> QED BY <3>1, <3>2, Byteful
  <2>3. mode + Step = Step * (q + 1)
    BY <1>1, <1>2
  <2>4. (mode + Step) % Step = 0
    BY <1>1, <2>3, q + 1 \in Nat, Multiple
  <2>5. Stepped(mode, key) \in Modes
    BY <1>1, <2>1, <2>2, <2>4 DEF Modes
  <2> QED BY <1>1, <1>5, <2>2, <2>5
<1>6. CASE key = "MINUS" /\ mode # 0
  <2>1. q # 0
    BY <1>1, <1>2, <1>6
  <2>2. mode - Step = Step * (q - 1) /\ q - 1 \in Nat
    BY <1>1, <1>2, <2>1
  <2>3. mode - Step \in Nat /\ (mode - Step) % Step = 0
    <3>1. Step * (q - 1) \in Nat /\ (Step * (q - 1)) % Step = 0
      BY <1>1, <2>2, Multiple
    <3> QED BY <2>2, <3>1
  <2>4. Stepped(mode, key) = mode - Step
    <3>1. Stepped(mode, key) = (mode + Byte - Step) % Byte
      BY <1>6 DEF Stepped
    <3>2. mode + Byte - Step = (mode - Step) + Byte
      BY <1>1
    <3>3. mode - Step \in 0..(Byte - 1) /\ Byte \in Nat \ {0}
      BY <1>1, <2>3
    <3> QED BY <3>1, <3>2, <3>3, Byteful
  <2>5. Stepped(mode, key) \in Modes
    BY <1>1, <2>3, <2>4 DEF Modes
  <2> QED BY <1>1, <1>6, <2>4, <2>5
<1>7. CASE (key = "PLUS" /\ mode = Top) \/ (key = "MINUS" /\ mode = 0)
  BY <1>1, <1>7 DEF Stepped
<1> QED BY <1>5, <1>6, <1>7

\* Whatever the mode, the result is a byte.
LEMMA SteppedIsByte ==
    ASSUME NEW mode \in 0..(Byte - 1), NEW key \in {"PLUS", "MINUS"}
    PROVE  Stepped(mode, key) \in 0..(Byte - 1)
BY MessagesAssumption DEF Stepped

\* Distances add up.
LEMMA Apart ==
    ASSUME NEW a \in Int, NEW b \in Int, NEW c \in Int, NEW far \in Nat, NEW s \in Nat,
           b - a \in (-far)..far, c - b \in (-s)..s
    PROVE  c - a \in (-(far + s))..(far + s)
OBVIOUS

\* One press more, one step further at most.
LEMMA OneFurther ==
    ASSUME NEW mode \in Int, NEW n \in Nat, travel_mode \in Int, travel_mode' \in Int,
           Within(mode, n), travel_mode' - travel_mode \in (-Step)..Step
    PROVE  travel_mode' - mode \in (-(Step * (n + 1)))..(Step * (n + 1))
<1> DEFINE far == Step * n
<1>1. Step \in Nat /\ far \in Nat /\ Step * (n + 1) = far + Step
  BY MessagesAssumption
<1>2. travel_mode - mode \in (-far)..far
  BY DEF Within
<1>3. travel_mode' - mode \in (-(far + Step))..(far + Step)
  <2> HIDE DEF far
  <2> QED BY <1>1, <1>2, Apart
<1> QED BY <1>1, <1>3

-----------------------------------------------------------------------------
\* Every session begins with it.
LEMMA InitIInv == Init => IInv
<1> SUFFICES ASSUME Init PROVE IInv
  OBVIOUS
<1> USE MessagesAssumption DEF Init
<1>1. 0 \in Modes /\ Modes \subseteq 0..(Byte - 1)
  BY DEF Modes
<1>2. TypeOK
  <2>1. status \in [Features -> {"closed", "searching", "tracking"}]
    BY DEF Features
  <2>2. Range(transfer["ebike"]) = {} /\ Range(transfer["garmin"]) \cup Range(heard) = {}
    BY DEF None, Features, Range
  <2>3. missed \in [Features -> 0..MaxMissed] /\ newer \in [Features -> 0..MaxMissed]
    BY DEF Zero
  <2>4. /\ travel_mode \in 0..(Byte - 1) /\ level \in 0..(Byte - 1) /\ base \in 0..(Byte - 1)
        /\ sequence \in 0..(Wrap - 1)
    BY <1>1
  <2> QED BY <2>1, <2>2, <2>3, <2>4 DEF TypeOK
<1>3. Transfers
  BY DEF Transfers, AtMostOne, None, Features
<1>4. NewerAreMissed
  BY DEF NewerAreMissed, Zero, Features
<1>5. CountsInSteps /\ MessageIsRecent /\ LevelIsNear
  BY <1>1 DEF CountsInSteps, MessageIsRecent, LevelIsNear, Within, Zero, None, Features
<1>6. CommandsAreSound
  BY DEF CommandsAreSound, Range, None, Features
<1> QED BY <1>2, <1>3, <1>4, <1>5, <1>6 DEF IInv

\* What TypeOK says of messages follows from Transfers.
LEMMA RangeOfOne ==
    ASSUME NEW S, NEW q \in AtMostOne(S)
    PROVE  /\ Range(q) \subseteq S
           /\ q # <<>> => q[1] \in S /\ Range(q) = {q[1]} /\ q = <<q[1]>>
BY DEF AtMostOne, Range

\* A message is sent or refused; either way one more press is missed.
LEMMA SendCounts ==
    ASSUME IInv, NEW f \in Features, NEW m, Send(f, m)
    PROVE  /\ missed' \in [Features -> 0..MaxMissed] /\ newer' \in [Features -> 0..MaxMissed]
           /\ NewerAreMissed' /\ base' = base
           /\ missed'[f] = missed[f] + 1
           /\ \A g \in Features \ {f} : transfer'[g] = transfer[g] /\ missed'[g] = missed[g] /\ newer'[g] = newer[g]
           /\ \/ transfer' = transfer /\ newer'[f] = newer[f] + 1
              \/ transfer' = [transfer EXCEPT ![f] = <<m>>] /\ newer'[f] = 0
<1> USE MessagesAssumption
<1>1. /\ missed \in [Features -> 0..MaxMissed] /\ newer \in [Features -> 0..MaxMissed]
      /\ \A g \in Features : newer[g] <= missed[g]
      /\ transfer \in [Features -> AtMostOne(Page16s \cup Page73s)]
  BY DEF IInv, TypeOK, NewerAreMissed, Transfers
<1>2. missed[f] < MaxMissed /\ missed' = [missed EXCEPT ![f] = missed[f] + 1] /\ base' = base
  BY DEF Send
<1>3. \/ transfer' = [transfer EXCEPT ![f] = <<m>>] /\ newer' = [newer EXCEPT ![f] = 0]
      \/ transfer' = transfer /\ newer' = [newer EXCEPT ![f] = newer[f] + 1]
  BY DEF Send
<1>4. missed' \in [Features -> 0..MaxMissed] /\ newer' \in [Features -> 0..MaxMissed]
  BY <1>1, <1>2, <1>3
<1>5. NewerAreMissed'
  BY <1>1, <1>2, <1>3 DEF NewerAreMissed
<1> QED BY <1>1, <1>2, <1>3, <1>4, <1>5

\* Page 16 carries a byte.
LEMMA Page16Type ==
    ASSUME IInv, NEW key \in {"PLUS", "MINUS"}
    PROVE  Page16(key) \in Page16s
<1>1. travel_mode \in 0..(Byte - 1)
  BY DEF IInv, TypeOK
<1>2. Stepped(travel_mode, key) \in 0..(Byte - 1)
  BY <1>1, SteppedIsByte
<1> QED BY <1>2 DEF Page16, Page16s

\* Both commands fit one byte, so the shift of their upper byte does no harm.
LEMMA Page73Type ==
    ASSUME IInv, NEW command \in {0, 1}
    PROVE  Page73(command) \in Page73s /\ Undistorted(Page73(command))
<1>1. command % 256 = command /\ (command \div 2) % 256 = 0
  OBVIOUS
<1>2. Page73(command) = [sequence |-> Numbered, lsb |-> command, msb |-> 0, asked |-> command]
  BY <1>1 DEF Page73
<1>3. Numbered \in 0..(Wrap - 1)
  <2>1. sequence + 1 \in Int /\ Wrap \in Nat \ {0}
    BY MessagesAssumption DEF IInv, TypeOK
  <2> QED BY <2>1 DEF Numbered
<1> QED BY <1>2, <1>3 DEF Page73s, Undistorted

\* The status of a channel is all that changes.
LEMMA StatusKeeps ==
    ASSUME IInv, UNCHANGED <<features, transfer, remote, others, counts, synced, strayed>>,
           status' \in [Features -> {"closed", "searching", "tracking"}]
    PROVE  IInv'
<1>1. UNCHANGED <<features, transfer, travel_mode, sequence, level, heard, base, missed, newer,
                  synced, strayed>>
  BY DEF remote, others, counts
<1>2. TypeOK'
  BY <1>1 DEF IInv, TypeOK
<1>3. Transfers'
  BY <1>1 DEF IInv, Transfers
<1>6. CountsInSteps'
  BY <1>1 DEF IInv, CountsInSteps
<1>5. NewerAreMissed'
  BY <1>1 DEF IInv, NewerAreMissed
<1>4. MessageIsRecent' /\ LevelIsNear' /\ CommandsAreSound'
  BY <1>1 DEF IInv, MessageIsRecent, LevelIsNear, CommandsAreSound, Within
<1> QED BY <1>2, <1>3, <1>4, <1>5, <1>6 DEF IInv

\* Opening a channel keeps the types.
LEMMA OpenedType ==
    ASSUME TypeOK, NEW f \in Features, Opened(f)
    PROVE  status' \in [Features -> {"closed", "searching", "tracking"}]
BY DEF TypeOK, Opened

\* A press moves the travel mode by what the message will carry.
LEMMA ShortPressKeeps ==
    ASSUME IInv, NEW key \in {"PLUS", "MINUS"}, ShortPress(key)
    PROVE  IInv'
<1> DEFINE page == Page16(key)
<1> "ebike" \in Features /\ "garmin" \in Features /\ "garmin" # "ebike"
  BY DEF Features
<1>1. /\ UNCHANGED <<features, sequence, level, heard, synced, strayed>>
      /\ travel_mode' = Stepped(travel_mode, key) /\ page.mode = travel_mode'
      /\ Send("ebike", page)
  BY DEF ShortPress, others, Page16
<1>2. /\ missed' \in [Features -> 0..MaxMissed] /\ newer' \in [Features -> 0..MaxMissed]
      /\ NewerAreMissed' /\ missed'["ebike"] = missed["ebike"] + 1 /\ base' = base
      /\ transfer'["garmin"] = transfer["garmin"]
      /\ \/ transfer' = transfer /\ newer'["ebike"] = newer["ebike"] + 1
         \/ transfer' = [transfer EXCEPT !["ebike"] = <<page>>] /\ newer'["ebike"] = 0
  BY <1>1, SendCounts
<1>3. page \in Page16s
  BY Page16Type
<1>4. Transfers'
  BY <1>1, <1>2, <1>3 DEF IInv, Transfers, AtMostOne
<1>5. TypeOK'
  <2>1. status' \in [Features -> {"closed", "searching", "tracking"}]
    BY OpenedType DEF ShortPress, IInv
  <2>2. travel_mode' \in 0..(Byte - 1)
    BY <1>1, <1>3 DEF Page16s
  <2>3. /\ Range(transfer'["ebike"]) \subseteq Page16s
        /\ Range(transfer'["garmin"]) \subseteq Page73s /\ Range(heard') \subseteq Page73s
    BY <1>4, RangeOfOne DEF Transfers
  <2> QED BY <1>1, <1>2, <2>1, <2>2, <2>3 DEF IInv, TypeOK, Page16s, Page73s
<1>6. ASSUME ~strayed
      PROVE  travel_mode' \in Modes /\ travel_mode' - travel_mode \in (-Step)..Step
             /\ travel_mode \in Int /\ travel_mode' \in Int
  BY <1>1, <1>6, SteppedInRange DEF IInv, CountsInSteps, Modes
<1>7. CountsInSteps'
  BY <1>1, <1>6 DEF CountsInSteps
<1>8. MessageIsRecent'
  <2> SUFFICES ASSUME ~strayed, transfer'["ebike"] # <<>>
               PROVE  travel_mode' - transfer'["ebike"][1].mode
                        \in (-(Step * newer'["ebike"]))..(Step * newer'["ebike"])
    BY <1>1 DEF MessageIsRecent, Within
  <2>1. CASE transfer' = transfer /\ newer'["ebike"] = newer["ebike"] + 1
    <3>1. Within(transfer["ebike"][1].mode, newer["ebike"])
      BY <2>1 DEF IInv, MessageIsRecent
    <3>2. transfer["ebike"][1].mode \in Int /\ newer["ebike"] \in Nat
      <4>1. transfer["ebike"] \in AtMostOne(Page16s) /\ transfer["ebike"] # <<>>
        BY <2>1 DEF IInv, Transfers
      <4>2. transfer["ebike"][1] \in Page16s
        BY <4>1, RangeOfOne
      <4>3. newer["ebike"] \in 0..MaxMissed
        BY DEF IInv, TypeOK
      <4> QED BY <4>2, <4>3, MessagesAssumption DEF Page16s
    <3> QED BY <1>6, <2>1, <3>1, <3>2, OneFurther
  <2>2. CASE transfer' = [transfer EXCEPT !["ebike"] = <<page>>] /\ newer'["ebike"] = 0
    <3>1. transfer'["ebike"] = <<page>>
      BY <2>2 DEF IInv, Transfers
    <3>2. transfer'["ebike"][1].mode = travel_mode'
      BY <1>1, <3>1
    <3>3. Step * 0 = 0
      BY MessagesAssumption
    <3> QED BY <1>6, <2>2, <3>2, <3>3
  <2> QED BY <1>2, <2>1, <2>2
<1>9. LevelIsNear'
  <2> SUFFICES ASSUME ~strayed
               PROVE  travel_mode' - base
                        \in (-(Step * missed'["ebike"]))..(Step * missed'["ebike"])
    BY <1>1, <1>2 DEF IInv, LevelIsNear, Within
  <2>1. Within(base, missed["ebike"]) /\ base \in Int /\ missed["ebike"] \in Nat
    BY MessagesAssumption DEF IInv, LevelIsNear, TypeOK
  <2> QED BY <1>2, <1>6, <2>1, OneFurther
<1>10. CommandsAreSound'
  BY <1>1, <1>2 DEF IInv, CommandsAreSound
<1> QED BY <1>2, <1>4, <1>5, <1>7, <1>8, <1>9, <1>10 DEF IInv

\* A page command leaves the travel mode alone.
LEMMA PageKeyKeeps ==
    ASSUME IInv, NEW command \in {0, 1}, PageKey(command)
    PROVE  IInv'
<1> DEFINE page == Page73(command)
<1> "ebike" \in Features /\ "garmin" \in Features /\ "garmin" # "ebike"
  BY DEF Features
<1>1. /\ UNCHANGED <<features, travel_mode, level, heard, synced, strayed>>
      /\ sequence' = Numbered
      /\ Send("garmin", page)
  BY DEF PageKey, others
<1>2. /\ missed' \in [Features -> 0..MaxMissed] /\ newer' \in [Features -> 0..MaxMissed]
      /\ NewerAreMissed' /\ base' = base
      /\ transfer'["ebike"] = transfer["ebike"] /\ missed'["ebike"] = missed["ebike"]
      /\ newer'["ebike"] = newer["ebike"]
      /\ transfer' = transfer \/ transfer' = [transfer EXCEPT !["garmin"] = <<page>>]
  BY <1>1, SendCounts
<1>3. page \in Page73s /\ Undistorted(page)
  BY Page73Type
<1>4. Transfers'
  BY <1>1, <1>2, <1>3 DEF IInv, Transfers, AtMostOne
<1>5. TypeOK'
  <2>1. status' \in [Features -> {"closed", "searching", "tracking"}]
    BY OpenedType DEF PageKey, IInv
  <2>2. sequence' \in 0..(Wrap - 1)
    BY <1>1, <1>3 DEF Page73s, Page73
  <2>3. /\ Range(transfer'["ebike"]) \subseteq Page16s
        /\ Range(transfer'["garmin"]) \subseteq Page73s /\ Range(heard') \subseteq Page73s
    BY <1>4, RangeOfOne DEF Transfers
  <2> QED BY <1>1, <1>2, <2>1, <2>2, <2>3 DEF IInv, TypeOK, Page16s, Page73s
<1>6. CountsInSteps' /\ MessageIsRecent' /\ LevelIsNear'
  BY <1>1, <1>2 DEF IInv, CountsInSteps, MessageIsRecent, LevelIsNear, Within
<1>7. CommandsAreSound'
  <2>1. transfer'["garmin"] = transfer["garmin"] \/ transfer'["garmin"] = <<page>>
    BY <1>2 DEF IInv, Transfers
  <2>2. Range(<<page>>) = {page}
    BY DEF Range
  <2> QED BY <1>1, <1>3, <2>1, <2>2 DEF IInv, CommandsAreSound
<1> QED BY <1>2, <1>4, <1>5, <1>6, <1>7 DEF IInv

\* The other end takes over a message that is as recent as the presses that remain missed.
LEMMA HeardKeeps ==
    ASSUME IInv, NEW f \in Features, TransferEnds(f), Heard(f)
    PROVE  IInv'
<1> "ebike" \in Features /\ "garmin" \in Features /\ "garmin" # "ebike"
  BY DEF Features
<1>1. /\ UNCHANGED <<features, status, travel_mode, sequence, newer, strayed>>
      /\ transfer[f] # <<>> /\ transfer' = [transfer EXCEPT ![f] = <<>>]
      /\ missed' = [missed EXCEPT ![f] = newer[f]]
  BY DEF TransferEnds, Heard
<1>2. \/ /\ f = "ebike" /\ level' = transfer["ebike"][1].mode /\ base' = level'
         /\ synced' = TRUE /\ heard' = heard
      \/ f = "garmin" /\ heard' = transfer["garmin"] /\ UNCHANGED <<level, base, synced>>
  BY DEF Heard, Features
<1>4. /\ Transfers /\ TypeOK /\ NewerAreMissed
      /\ newer \in [Features -> 0..MaxMissed] /\ missed \in [Features -> 0..MaxMissed]
  BY DEF IInv, TypeOK
<1>5. /\ transfer'[f] = <<>> /\ \A g \in Features \ {f} : transfer'[g] = transfer[g]
      /\ transfer' \in [Features -> AtMostOne(Page16s \cup Page73s)]
  BY <1>1, <1>4 DEF Transfers, AtMostOne
<1>7. Transfers'
  BY <1>2, <1>4, <1>5 DEF Transfers, AtMostOne
<1>8. NewerAreMissed' /\ missed' \in [Features -> 0..MaxMissed]
  <2>1. missed' \in [Features -> 0..MaxMissed]
    BY <1>1, <1>4
  <2>2. \A g \in Features : missed'[g] = missed[g] \/ missed'[g] = newer[g]
    BY <1>1, <1>4
  <2>3. \A g \in Features : newer[g] <= missed[g] /\ newer[g] <= newer[g]
    BY <1>4, MessagesAssumption DEF NewerAreMissed
  <2> QED BY <1>1, <2>1, <2>2, <2>3 DEF NewerAreMissed
<1>9. ASSUME f = "ebike"
      PROVE  transfer["ebike"][1] \in Page16s /\ transfer["ebike"] # <<>>
  BY <1>1, <1>4, <1>9, RangeOfOne DEF Transfers
<1>10. TypeOK'
  <2>1. level' \in 0..(Byte - 1) /\ base' \in 0..(Byte - 1) /\ synced' \in BOOLEAN
    BY <1>2, <1>4, <1>9 DEF TypeOK, Page16s
  <2>2. /\ Range(transfer'["ebike"]) \subseteq Page16s
        /\ Range(transfer'["garmin"]) \subseteq Page73s /\ Range(heard') \subseteq Page73s
    BY <1>7, RangeOfOne DEF Transfers
  <2> QED BY <1>1, <1>4, <1>8, <2>1, <2>2 DEF TypeOK, Page16s, Page73s
<1>11. CountsInSteps' /\ MessageIsRecent'
  BY <1>1, <1>5 DEF IInv, CountsInSteps, MessageIsRecent, Within
<1>12. LevelIsNear'
  <2>1. CASE f = "ebike" /\ base' = transfer["ebike"][1].mode /\ base' = level'
    <3>1. missed'["ebike"] = newer["ebike"]
      BY <1>1, <1>4, <2>1
    <3> QED BY <1>1, <1>9, <2>1, <3>1 DEF IInv, MessageIsRecent, LevelIsNear, Within
  <2>2. CASE f = "garmin" /\ UNCHANGED <<level, base, synced>>
    <3>1. missed'["ebike"] = missed["ebike"]
      BY <1>1, <1>4, <2>2
    <3> QED BY <1>1, <2>2, <3>1 DEF IInv, LevelIsNear, Within
  <2> QED BY <1>2, <2>1, <2>2
<1>13. CommandsAreSound'
  <2>1. Range(transfer'["garmin"]) \subseteq Range(transfer["garmin"])
    BY <1>5, Range(<<>>) = {} DEF Range, Features
  <2>2. Range(heard') \subseteq Range(transfer["garmin"]) \cup Range(heard)
    BY <1>2
  <2> QED BY <2>1, <2>2 DEF IInv, CommandsAreSound
<1> QED BY <1>7, <1>8, <1>10, <1>11, <1>12, <1>13 DEF IInv

\* A message that nobody hears leaves the presses missed, unless a stray mode takes their place.
LEMMA NothingHeardKeeps ==
    ASSUME IInv, NEW f \in Features, TransferEnds(f), ~Heard(f)
    PROVE  IInv'
<1> "ebike" \in Features /\ "garmin" \in Features /\ "garmin" # "ebike"
  BY DEF Features
<1>1. /\ UNCHANGED <<features, status, sequence, heard>>
      /\ transfer[f] # <<>> /\ transfer' = [transfer EXCEPT ![f] = <<>>]
  BY DEF TransferEnds, Stray, others
<1>2. \/ UNCHANGED <<travel_mode, level, base, missed, newer, synced, strayed>>
      \/ /\ f = "ebike" /\ level' \in {level, transfer["ebike"][1].mode}
         /\ travel_mode' \in Strays /\ base' = travel_mode' /\ synced' = FALSE /\ strayed' = TRUE
         /\ missed' = [missed EXCEPT !["ebike"] = 0] /\ newer' = [newer EXCEPT !["ebike"] = 0]
  BY DEF TransferEnds, Stray, others, counts
<1>3. /\ Transfers /\ TypeOK /\ NewerAreMissed
      /\ newer \in [Features -> 0..MaxMissed] /\ missed \in [Features -> 0..MaxMissed]
  BY DEF IInv, TypeOK
<1>4. /\ transfer'[f] = <<>> /\ \A g \in Features \ {f} : transfer'[g] = transfer[g]
      /\ transfer' \in [Features -> AtMostOne(Page16s \cup Page73s)]
  BY <1>1, <1>3 DEF Transfers, AtMostOne
<1>5. Transfers'
  BY <1>1, <1>3, <1>4 DEF Transfers, AtMostOne
<1>6. /\ newer' \in [Features -> 0..MaxMissed] /\ missed' \in [Features -> 0..MaxMissed]
      /\ NewerAreMissed'
  <2>1. newer' \in [Features -> 0..MaxMissed] /\ missed' \in [Features -> 0..MaxMissed]
    BY <1>2, <1>3, MessagesAssumption
  <2>2. \A g \in Features : \/ newer'[g] = newer[g] /\ missed'[g] = missed[g]
                            \/ newer'[g] = 0 /\ missed'[g] = 0
    BY <1>2, <1>3
  <2> QED BY <1>3, <2>1, <2>2 DEF NewerAreMissed
<1>7. ASSUME f = "ebike" PROVE transfer["ebike"][1].mode \in 0..(Byte - 1)
  <2>1. transfer["ebike"] # <<>> /\ transfer["ebike"] \in AtMostOne(Page16s)
    BY <1>1, <1>3, <1>7 DEF Transfers
  <2>2. transfer["ebike"][1] \in Page16s
    BY <2>1, RangeOfOne
  <2> QED BY <2>2 DEF Page16s
<1>8. TypeOK'
  <2>1. level' \in 0..(Byte - 1)
    BY <1>2, <1>3, <1>7 DEF TypeOK
  <2>2. /\ travel_mode' \in 0..(Byte - 1) /\ base' \in 0..(Byte - 1)
        /\ synced' \in BOOLEAN /\ strayed' \in BOOLEAN
    BY <1>2, <1>3, MessagesAssumption DEF TypeOK
  <2>3. /\ Range(transfer'["ebike"]) \subseteq Page16s
        /\ Range(transfer'["garmin"]) \subseteq Page73s /\ Range(heard') \subseteq Page73s
    BY <1>5, RangeOfOne DEF Transfers
  <2> QED BY <1>1, <1>3, <1>6, <2>1, <2>2, <2>3 DEF TypeOK, Page16s, Page73s
<1>9. CountsInSteps' /\ LevelIsNear'
  BY <1>2 DEF IInv, CountsInSteps, LevelIsNear, Within
<1>10. MessageIsRecent'
  BY <1>2, <1>4 DEF IInv, MessageIsRecent, Within
<1>11. CommandsAreSound'
  <2>1. Range(transfer'["garmin"]) \subseteq Range(transfer["garmin"])
    BY <1>4, Range(<<>>) = {} DEF Range, Features
  <2> QED BY <1>1, <2>1 DEF IInv, CommandsAreSound
<1> QED BY <1>5, <1>6, <1>8, <1>9, <1>10, <1>11 DEF IInv

\* The bike's own display ends what the bike knew of this session.
LEMMA BikeChangesKeeps ==
    ASSUME IInv, BikeChanges
    PROVE  IInv'
<1>1. /\ UNCHANGED <<features, status, transfer, travel_mode, sequence, heard, base, missed, newer,
                     strayed>>
      /\ level' \in Modes /\ synced' = FALSE
  BY DEF BikeChanges, remote, counts
<1>2. level' \in 0..(Byte - 1)
  BY <1>1, MessagesAssumption DEF Modes
<1>3. TypeOK'
  BY <1>1, <1>2 DEF IInv, TypeOK
<1>4. Transfers'
  BY <1>1 DEF IInv, Transfers
<1>5. NewerAreMissed'
  BY <1>1 DEF IInv, NewerAreMissed
<1>6. CountsInSteps'
  BY <1>1 DEF IInv, CountsInSteps
<1>7. MessageIsRecent' /\ LevelIsNear' /\ CommandsAreSound'
  BY <1>1 DEF IInv, MessageIsRecent, LevelIsNear, CommandsAreSound, Within
<1> QED BY <1>3, <1>4, <1>5, <1>6, <1>7 DEF IInv

\* A session begins with nothing missed.
LEMMA SessionKeeps ==
    ASSUME IInv, Session
    PROVE  IInv'
<1> USE MessagesAssumption DEF Session
<1>1. 0 \in Modes /\ Modes \subseteq 0..(Byte - 1)
  BY DEF Modes
<1>2. TypeOK'
  <2>1. status' \in [Features -> {"closed", "searching", "tracking"}]
    BY DEF Features
  <2>2. Range(transfer'["ebike"]) = {} /\ Range(transfer'["garmin"]) \cup Range(heard') = {}
    BY DEF None, Features, Range
  <2>3. missed' \in [Features -> 0..MaxMissed] /\ newer' \in [Features -> 0..MaxMissed]
    BY DEF Zero
  <2>4. travel_mode' \in 0..(Byte - 1) /\ base' \in 0..(Byte - 1) /\ sequence' \in 0..(Wrap - 1)
    BY <1>1
  <2> QED BY <2>1, <2>2, <2>3, <2>4 DEF IInv, TypeOK
<1>3. Transfers'
  BY DEF Transfers, AtMostOne, None, Features
<1>4. NewerAreMissed'
  BY DEF NewerAreMissed, Zero, Features
<1>5. CountsInSteps' /\ MessageIsRecent' /\ LevelIsNear'
  BY <1>1 DEF CountsInSteps, MessageIsRecent, LevelIsNear, Within, Zero, None, Features
<1>6. CommandsAreSound'
  BY DEF CommandsAreSound, Range, None, Features
<1> QED BY <1>2, <1>3, <1>4, <1>5, <1>6 DEF IInv

\* Every step keeps the invariant.
LEMMA NextKeeps == IInv /\ [Next]_vars => IInv'
<1> SUFFICES ASSUME IInv, [Next]_vars PROVE IInv'
  OBVIOUS
<1>1. ASSUME NEW key \in {"PLUS", "MINUS"}, ShortPress(key) PROVE IInv'
  BY <1>1, ShortPressKeeps
<1>2. CASE LongPress
  <2>1. "ebike" \in Features /\ TypeOK /\ Opened("ebike")
    BY <1>2 DEF LongPress, Features, IInv
  <2> QED BY <1>2, <2>1, OpenedType, StatusKeeps DEF LongPress
<1>3. ASSUME NEW command \in {0, 1}, PageKey(command) PROVE IInv'
  BY <1>3, PageKeyKeeps
<1>4. ASSUME NEW f \in Features, TransferEnds(f) PROVE IInv'
  BY <1>4, HeardKeeps, NothingHeardKeeps
<1>5. ASSUME NEW f \in Features, ChannelChanges(f) PROVE IInv'
  <2>1. status' \in [Features -> {"closed", "searching", "tracking"}]
    BY <1>5 DEF ChannelChanges, IInv, TypeOK
  <2> QED BY <1>5, <2>1, StatusKeeps DEF ChannelChanges
<1>6. CASE BikeChanges
  BY <1>6, BikeChangesKeeps
<1>7. CASE Session
  BY <1>7, SessionKeeps
<1>8. CASE UNCHANGED vars
  BY <1>8, StatusKeeps DEF vars, IInv, TypeOK
<1> QED BY <1>1, <1>2, <1>3, <1>4, <1>5, <1>6, <1>7, <1>8 DEF Next

\* What is checked follows.
LEMMA IInvImplies == IInv => MessagesInv
<1> SUFFICES ASSUME IInv PROVE MessagesInv
  OBVIOUS
<1>1. LagIsMissed
  BY DEF IInv, LevelIsNear, Within, LagIsMissed
<1>2. CommandArrives
  BY DEF IInv, CommandsAreSound, Undistorted, CommandArrives
<1> QED BY <1>1, <1>2 DEF IInv, MessagesInv

\* The remote's count and the bike's travel mode never come apart by more than the
\* presses that were lost (buttons_send_page16 of ant_lev.c), and no command of
\* buttons_send_pag73 is distorted: for every range of modes, loss and session.
THEOREM LagStaysSmall == Spec => []MessagesInv
<1>1. IInv /\ [Next]_vars => IInv'
  BY NextKeeps
<1> QED BY <1>1, InitIInv, IInvImplies, PTL DEF Spec

-----------------------------------------------------------------------------
(* Single presses.                                                          *)

\* With no press missed the remote is where it counts from, and with none after the message
\* under way it is where that will take it; a message with no missed press before it is the
\* next mode.
NextIsStep ==
    /\ missed["ebike"] = 0 => travel_mode = base
    /\ transfer["ebike"] # <<>> /\ newer["ebike"] = 0 => travel_mode = transfer["ebike"][1].mode
    /\ transfer["ebike"] # <<>> /\ missed["ebike"] - newer["ebike"] = 1 =>
         transfer["ebike"][1].mode = Stepped(base, transfer["ebike"][1].key)

\* Sequence numbers count the presses since they were given out.
NumbersCount ==
    /\ heard # <<>> => (heard[1].sequence + missed["garmin"]) % Wrap = sequence
    /\ transfer["garmin"] # <<>> => (transfer["garmin"][1].sequence + newer["garmin"]) % Wrap = sequence

\* A press keeps both: a message goes out with no press missed only if the bike is up to date.
LEMMA ShortPressCounts ==
    ASSUME IInv, NextIsStep, NumbersCount, NEW key \in {"PLUS", "MINUS"}, ShortPress(key)
    PROVE  NextIsStep' /\ NumbersCount'
<1> DEFINE page == Page16(key)
<1> "ebike" \in Features /\ "garmin" \in Features /\ "garmin" # "ebike"
  BY DEF Features
<1>1. /\ UNCHANGED <<features, sequence, level, heard, synced, strayed>>
      /\ travel_mode' = Stepped(travel_mode, key) /\ page.mode = travel_mode' /\ page.key = key
      /\ Send("ebike", page)
  BY DEF ShortPress, others, Page16
<1>2. /\ missed'["ebike"] = missed["ebike"] + 1
      /\ transfer'["garmin"] = transfer["garmin"] /\ base' = base
      /\ missed'["garmin"] = missed["garmin"] /\ newer'["garmin"] = newer["garmin"]
      /\ \/ transfer' = transfer /\ newer'["ebike"] = newer["ebike"] + 1
         \/ transfer' = [transfer EXCEPT !["ebike"] = <<page>>] /\ newer'["ebike"] = 0
  BY <1>1, SendCounts
<1>3. NumbersCount'
  BY <1>1, <1>2 DEF NumbersCount
<1>4. missed["ebike"] \in Nat /\ newer["ebike"] \in Nat
  BY MessagesAssumption DEF IInv, TypeOK
<1>5. NextIsStep'
  <2>1. CASE transfer' = transfer /\ newer'["ebike"] = newer["ebike"] + 1
    BY <1>2, <1>4, <2>1 DEF NextIsStep
  <2>2. CASE transfer' = [transfer EXCEPT !["ebike"] = <<page>>] /\ newer'["ebike"] = 0
    <3>1. transfer'["ebike"] = <<page>>
      BY <2>2 DEF IInv, Transfers
    <3>2. transfer'["ebike"][1].mode = Stepped(travel_mode, key) /\ transfer'["ebike"][1].key = key
      BY <1>1, <3>1
    <3>3. missed'["ebike"] - newer'["ebike"] = 1 => travel_mode = base
      BY <1>2, <1>4, <2>2 DEF NextIsStep
    <3> QED BY <1>1, <1>2, <1>4, <3>2, <3>3 DEF NextIsStep
  <2> QED BY <1>2, <2>1, <2>2
<1> QED BY <1>3, <1>5

\* Division with remainder has one result.
LEMMA Remainder ==
    ASSUME NEW w \in Nat \ {0}, NEW q \in Int, NEW r \in 0..(w - 1)
    PROVE  (w * q + r) % w = r
<1> DEFINE a == w * q + r
           p == a \div w
           t == a % w
<1>1. a \in Int
  OBVIOUS
<1>2. a = (w * p) + t /\ p \in Int /\ t \in 0..(w - 1)
  BY <1>1
<1>3. w * (q - p) = t - r /\ q - p \in Int
  BY <1>2
<1>4. ASSUME NEW k \in Int, w * k < w, w * k > -w PROVE w * k = 0
  <2>1. k < 1
    <3>1. SUFFICES ASSUME k >= 1 PROVE FALSE
      OBVIOUS
    <3>2. w * k >= w * 1
      BY <3>1
    <3> QED BY <1>4, <3>2
  <2>2. k > -1
    <3>1. SUFFICES ASSUME k <= -1 PROVE FALSE
      OBVIOUS
    <3>2. w * k <= w * (-1)
      BY <3>1
    <3> QED BY <1>4, <3>2
  <2>3. k = 0
    BY <2>1, <2>2
  <2> QED BY <2>3
<1>5. t - r < w /\ t - r > -w
  BY <1>2
<1>6. w * (q - p) = 0
  BY <1>3, <1>4, <1>5
<1> QED BY <1>2, <1>3, <1>6

\* The successor of a sum, within the wrap.
LEMMA NextNumber ==
    ASSUME NEW a \in Int, NEW w \in Nat \ {0}
    PROVE  (a + 1) % w = ((a % w) + 1) % w
<1> DEFINE q == a \div w
           r == a % w
<1>1. a = (w * q) + r /\ q \in Int /\ r \in 0..(w - 1)
  OBVIOUS
<1>2. CASE r + 1 < w
  <2>1. a + 1 = w * q + (r + 1) /\ r + 1 \in 0..(w - 1)
    BY <1>1, <1>2
  <2>2. (a + 1) % w = r + 1
    BY <1>1, <2>1, Remainder
  <2>3. (r + 1) % w = r + 1
    BY <2>1, Byteful
  <2> QED BY <2>2, <2>3
<1>3. CASE r + 1 = w
  <2>1. a + 1 = w * (q + 1) + 0 /\ q + 1 \in Int /\ 0 \in 0..(w - 1)
    BY <1>1, <1>3
  <2>2. (a + 1) % w = 0
    BY <2>1, Remainder
  <2>3. (r + 1) % w = 0
    BY <1>3
  <2> QED BY <2>2, <2>3
<1> QED BY <1>1, <1>2, <1>3

\* Different numbers of presses, less than a turn apart, give different numbers.
LEMMA LessThanATurn ==
    ASSUME NEW w \in Nat \ {0}, NEW a \in Int, NEW b \in Int, a < b, b - a < w
    PROVE  a % w # b % w
<1> SUFFICES ASSUME a % w = b % w PROVE FALSE
  OBVIOUS
<1> DEFINE p == a \div w
           r == a % w
<1>1. a = (w * p) + r /\ p \in Int /\ r \in 0..(w - 1)
  OBVIOUS
<1>2. b = w * p + (r + (b - a)) /\ b - a \in 1..(w - 1)
  BY <1>1
<1>3. CASE r + (b - a) < w
  <2>1. r + (b - a) \in 0..(w - 1)
    BY <1>1, <1>2, <1>3
  <2>2. b % w = r + (b - a)
    BY <1>1, <1>2, <2>1, Remainder
  <2> QED BY <1>1, <1>2, <2>2
<1>4. CASE r + (b - a) >= w
  <2>1. b = w * (p + 1) + (r + (b - a) - w) /\ p + 1 \in Int /\ r + (b - a) - w \in 0..(w - 1)
    BY <1>1, <1>2, <1>4
  <2>2. b % w = r + (b - a) - w
    BY <2>1, Remainder
  <2> QED BY <1>1, <1>2, <2>2
<1> QED BY <1>1, <1>2, <1>3, <1>4

\* A page command counts once, sent or refused.
LEMMA PageKeyCounts ==
    ASSUME IInv, NextIsStep, NumbersCount, NEW command \in {0, 1}, PageKey(command)
    PROVE  NextIsStep' /\ NumbersCount'
<1> DEFINE page == Page73(command)
<1> "ebike" \in Features /\ "garmin" \in Features /\ "garmin" # "ebike"
  BY DEF Features
<1>1. /\ UNCHANGED <<features, travel_mode, level, heard, synced, strayed>>
      /\ sequence' = Numbered /\ page.sequence = Numbered
      /\ Send("garmin", page)
  BY DEF PageKey, others, Page73
<1>2. /\ missed'["garmin"] = missed["garmin"] + 1
      /\ transfer'["ebike"] = transfer["ebike"] /\ base' = base
      /\ missed'["ebike"] = missed["ebike"] /\ newer'["ebike"] = newer["ebike"]
      /\ \/ transfer' = transfer /\ newer'["garmin"] = newer["garmin"] + 1
         \/ transfer' = [transfer EXCEPT !["garmin"] = <<page>>] /\ newer'["garmin"] = 0
  BY <1>1, SendCounts
<1>3. NextIsStep'
  BY <1>1, <1>2 DEF NextIsStep
<1>4. /\ Wrap \in Nat \ {0} /\ sequence \in Int /\ Numbered = (sequence + 1) % Wrap
      /\ missed["garmin"] \in Int /\ newer["garmin"] \in Int
  BY MessagesAssumption DEF IInv, TypeOK, Numbered
<1>5. ASSUME NEW m \in Page73s, NEW n \in Int, (m.sequence + n) % Wrap = sequence
      PROVE  (m.sequence + (n + 1)) % Wrap = Numbered
  <2>1. m.sequence + n \in Int /\ m.sequence + (n + 1) = (m.sequence + n) + 1
    BY <1>4 DEF Page73s
  <2> QED BY <1>4, <1>5, <2>1, NextNumber
<1>6. ASSUME heard # <<>>
      PROVE  (heard[1].sequence + missed'["garmin"]) % Wrap = Numbered
  <2>1. heard[1] \in Page73s
    BY <1>6, RangeOfOne DEF IInv, Transfers
  <2> QED BY <1>2, <1>4, <1>5, <1>6, <2>1 DEF NumbersCount
<1>7. ASSUME transfer'["garmin"] # <<>>
      PROVE  (transfer'["garmin"][1].sequence + newer'["garmin"]) % Wrap = Numbered
  <2>1. CASE transfer' = transfer /\ newer'["garmin"] = newer["garmin"] + 1
    <3>1. transfer["garmin"][1] \in Page73s
      BY <1>7, <2>1, RangeOfOne DEF IInv, Transfers
    <3> QED BY <1>4, <1>5, <1>7, <2>1, <3>1 DEF NumbersCount
  <2>2. CASE transfer' = [transfer EXCEPT !["garmin"] = <<page>>] /\ newer'["garmin"] = 0
    <3>1. transfer'["garmin"] = <<page>>
      BY <2>2 DEF IInv, Transfers
    <3>2. transfer'["garmin"][1].sequence = Numbered
      BY <1>1, <3>1
    <3>3. Numbered \in 0..(Wrap - 1)
      BY <1>4
    <3> QED BY <1>4, <2>2, <3>2, <3>3, Byteful
  <2> QED BY <1>2, <2>1, <2>2
<1>8. NumbersCount'
  BY <1>1, <1>6, <1>7 DEF NumbersCount
<1> QED BY <1>3, <1>8

\* The number heard last is as old as the presses that remain missed.
LEMMA TransferEndsCounts ==
    ASSUME IInv, NextIsStep, NumbersCount, NEW f \in Features, TransferEnds(f)
    PROVE  NextIsStep' /\ NumbersCount'
<1> "ebike" \in Features /\ "garmin" \in Features /\ "garmin" # "ebike"
  BY DEF Features
<1>1. /\ UNCHANGED sequence /\ transfer[f] # <<>>
      /\ transfer'[f] = <<>> /\ \A g \in Features \ {f} : transfer'[g] = transfer[g]
  BY DEF TransferEnds, IInv, Transfers
<1>2. \/ Heard(f)
      \/ UNCHANGED <<travel_mode, level, heard, base, missed, newer>>
      \/ f = "ebike" /\ Stray
  BY DEF TransferEnds, others, counts
<1>3. missed \in [Features -> 0..MaxMissed] /\ newer \in [Features -> 0..MaxMissed]
  BY DEF IInv, TypeOK
<1>4. CASE UNCHANGED <<travel_mode, level, heard, base, missed, newer>>
  BY <1>1, <1>4 DEF NextIsStep, NumbersCount, Features
<1>5. CASE f = "ebike" /\ Heard(f)
  <2>1. /\ base' = transfer["ebike"][1].mode /\ heard' = heard /\ UNCHANGED <<travel_mode, newer>>
        /\ missed'["garmin"] = missed["garmin"] /\ missed'["ebike"] = newer["ebike"]
    BY <1>3, <1>5 DEF Heard
  <2> QED BY <1>1, <1>5, <2>1 DEF NextIsStep, NumbersCount
<1>6. CASE f = "garmin" /\ Heard(f)
  <2>1. /\ heard' = transfer["garmin"] /\ UNCHANGED <<travel_mode, base, newer>>
        /\ missed'["garmin"] = newer["garmin"] /\ missed'["ebike"] = missed["ebike"]
    BY <1>3, <1>6 DEF Heard
  <2> QED BY <1>1, <1>6, <2>1 DEF NextIsStep, NumbersCount
<1>7. CASE f = "ebike" /\ Stray
  <2>1. /\ base' = travel_mode' /\ heard' = heard
        /\ missed'["garmin"] = missed["garmin"] /\ newer'["garmin"] = newer["garmin"]
    BY <1>3, <1>7 DEF Stray
  <2> QED BY <1>1, <1>7, <2>1 DEF NextIsStep, NumbersCount
<1> QED BY <1>2, <1>4, <1>5, <1>6, <1>7 DEF Features

\* Every step keeps both.
LEMMA NextCounts ==
    ASSUME IInv, NextIsStep, NumbersCount, [Next]_vars
    PROVE  NextIsStep' /\ NumbersCount'
<1>1. ASSUME UNCHANGED <<transfer, travel_mode, sequence, heard, base, missed, newer>>
      PROVE  NextIsStep' /\ NumbersCount'
  BY <1>1 DEF NextIsStep, NumbersCount
<1>2. ASSUME NEW key \in {"PLUS", "MINUS"}, ShortPress(key) PROVE NextIsStep' /\ NumbersCount'
  BY <1>2, ShortPressCounts
<1>3. ASSUME NEW command \in {0, 1}, PageKey(command) PROVE NextIsStep' /\ NumbersCount'
  BY <1>3, PageKeyCounts
<1>4. ASSUME NEW f \in Features, TransferEnds(f) PROVE NextIsStep' /\ NumbersCount'
  BY <1>4, TransferEndsCounts
<1>5. CASE LongPress \/ (\E f \in Features : ChannelChanges(f)) \/ BikeChanges \/ UNCHANGED vars
  BY <1>1, <1>5 DEF LongPress, ChannelChanges, BikeChanges, vars, remote, others, counts
<1>7. CASE Session
  BY <1>7 DEF Session, None, Features, NextIsStep, NumbersCount
<1> QED BY <1>2, <1>3, <1>4, <1>5, <1>7 DEF Next

\* Every session begins with both.
LEMMA InitCounts == Init => NextIsStep /\ NumbersCount
BY DEF Init, None, Features, NextIsStep, NumbersCount

\* A key's steps, with the minus outside of the byte.
LEMMA SteppedIs ==
    ASSUME NEW mode \in 0..(Byte - 1), NEW key \in {"PLUS", "MINUS"}
    PROVE  Stepped(mode, key) =
             CASE key = "PLUS" -> IF mode = Top THEN Top ELSE (mode + Step) % Byte
               [] key = "MINUS" -> IF mode = 0 THEN 0 ELSE (mode - Step) % Byte
<1>1. Byte \in Nat \ {0} /\ mode \in Int /\ Step \in Int
  BY MessagesAssumption
<1>2. (mode + Byte - Step) % Byte = (mode - Step) % Byte
  <2> DEFINE q == (mode - Step) \div Byte
             r == (mode - Step) % Byte
  <2>1. mode - Step = (Byte * q) + r /\ q \in Int /\ r \in 0..(Byte - 1)
    BY <1>1
  <2>2. mode + Byte - Step = Byte * (q + 1) + r /\ q + 1 \in Int
    BY <1>1, <2>1
  <2>3. (Byte * (q + 1) + r) % Byte = r
    BY <1>1, <2>1, <2>2, Remainder
  <2> QED BY <2>2, <2>3
<1> QED BY <1>2 DEF Stepped

\* With no press lost since, a press that changes the bike's mode puts it one step from
\* the mode the remote counts from (buttons_send_page16 of ant_lev.c).
LEMMA LevelChanges ==
    ASSUME IInv, NextIsStep, Next, NEW m \in Range(transfer["ebike"]),
           transfer'["ebike"] = <<>>, level' # level, missed["ebike"] - newer["ebike"] = 1
    PROVE  level' = CASE m.key = "PLUS" -> IF base = Top THEN Top ELSE (base + Step) % Byte
                      [] m.key = "MINUS" -> IF base = 0 THEN 0 ELSE (base - Step) % Byte
<1> "ebike" \in Features /\ "garmin" \in Features /\ "garmin" # "ebike"
  BY DEF Features
<1>1. transfer["ebike"] \in AtMostOne(Page16s) /\ transfer["ebike"] # <<>>
  BY DEF IInv, Transfers, Range
<1>2. m = transfer["ebike"][1] /\ m \in Page16s
  BY <1>1, RangeOfOne
<1>3. ~(\E key \in {"PLUS", "MINUS"} : ShortPress(key)) /\ ~LongPress /\ ~Session
      /\ ~(\E command \in {0, 1} : PageKey(command)) /\ ~(\E f \in Features : ChannelChanges(f))
  BY DEF ShortPress, LongPress, Session, PageKey, ChannelChanges, others
<1>4. ~BikeChanges
  BY <1>1 DEF BikeChanges
<1>5. PICK f \in Features : TransferEnds(f)
  BY <1>3, <1>4 DEF Next
<1>6. level' = m.mode
  BY <1>2, <1>5 DEF TransferEnds, Heard, others
<1>7. m.mode = Stepped(base, m.key) /\ base \in 0..(Byte - 1) /\ m.key \in {"PLUS", "MINUS"}
  BY <1>1, <1>2 DEF NextIsStep, Page16s, IInv, TypeOK
<1> QED BY <1>6, <1>7, SteppedIs

\* The command the bike computer hears differs in its number from the last one it heard
\* (buttons_send_pag73 of antplus_controls.c).
LEMMA NumbersDiffer ==
    ASSUME IInv, NumbersCount, Next, heard # <<>>, heard' # <<>>,
           missed'["garmin"] < missed["garmin"], missed["garmin"] - newer["garmin"] < Wrap
    PROVE  heard'[1].sequence # heard[1].sequence
<1> "ebike" \in Features /\ "garmin" \in Features /\ "garmin" # "ebike"
  BY DEF Features
<1>1. missed["garmin"] \in Int /\ newer["garmin"] \in Int /\ missed \in [Features -> 0..MaxMissed]
  BY MessagesAssumption DEF IInv, TypeOK
<1>2. ~LongPress /\ ~Session /\ ~BikeChanges /\ ~(\E f \in Features : ChannelChanges(f))
  BY <1>1 DEF LongPress, Session, BikeChanges, ChannelChanges, counts
<1>3. ~(\E key \in {"PLUS", "MINUS"} : ShortPress(key))
  BY <1>1 DEF ShortPress, Send
<1>4. ~(\E command \in {0, 1} : PageKey(command))
  BY <1>1 DEF PageKey, Send
<1>5. PICK f \in Features : TransferEnds(f)
  BY <1>2, <1>3, <1>4 DEF Next
<1>6. /\ f = "garmin" /\ transfer["garmin"] # <<>>
      /\ heard' = transfer["garmin"] /\ missed'["garmin"] = newer["garmin"]
  <2>1. ~UNCHANGED missed /\ ~(missed' = [missed EXCEPT !["ebike"] = 0])
        /\ ~(missed' = [missed EXCEPT !["ebike"] = newer["ebike"]])
    BY <1>1
  <2>2. Heard(f) /\ f # "ebike"
    BY <1>5, <2>1 DEF TransferEnds, Stray, counts, Heard
  <2> QED BY <1>1, <1>5, <2>2 DEF TransferEnds, Heard, Features
<1> DEFINE h == heard[1].sequence
           t == transfer["garmin"][1].sequence
<1>7. (h + missed["garmin"]) % Wrap = (t + newer["garmin"]) % Wrap
  BY <1>6 DEF NumbersCount
<1>8. heard[1] \in Page73s
  BY RangeOfOne DEF IInv, Transfers
<1>9. h \in Int
  BY <1>8, MessagesAssumption DEF Page73s
<1>10. SUFFICES ASSUME t = h PROVE FALSE
  BY <1>6
<1>11. /\ h + newer["garmin"] \in Int /\ h + missed["garmin"] \in Int
       /\ h + newer["garmin"] < h + missed["garmin"]
       /\ (h + missed["garmin"]) - (h + newer["garmin"]) < Wrap
  BY <1>1, <1>6, <1>9, MessagesAssumption
<1> QED BY <1>7, <1>10, <1>11, LessThanATurn, MessagesAssumption

\* Single presses: with nothing lost since, a press puts the bike one step from the mode the
\* remote counts from, in the direction of the key, whatever the modes and their step; also
\* the first press of a session, which counts from 0, and those after a stray mode.
THEOREM PressIsOneLevel == Spec => OneLevelPerPress
<1>1. ASSUME IInv, NextIsStep, [Next]_vars
      PROVE  [\A m \in Range(transfer["ebike"]) :
                transfer'["ebike"] = <<>> /\ level' # level /\ missed["ebike"] - newer["ebike"] = 1
                  => level' = CASE m.key = "PLUS" -> IF base = Top THEN Top ELSE (base + Step) % Byte
                                [] m.key = "MINUS" -> IF base = 0 THEN 0 ELSE (base - Step) % Byte]_vars
  BY <1>1, LevelChanges
<1> QED BY <1>1, InitIInv, InitCounts, NextKeeps, NextCounts, PTL DEF Spec, OneLevelPerPress

\* A command is never taken for a repeat of the last one heard, whatever the width of
\* the number, unless a whole turn of it was lost.
THEOREM CommandsAreTold == Spec => NeverTakenForRepeat
<1>1. ASSUME IInv, NumbersCount, [Next]_vars
      PROVE  [heard # <<>> /\ heard' # <<>> /\ missed'["garmin"] < missed["garmin"]
                /\ missed["garmin"] - newer["garmin"] < Wrap
                  => heard'[1].sequence # heard[1].sequence]_vars
  BY <1>1, NumbersDiffer
<1> QED BY <1>1, InitIInv, InitCounts, NextKeeps, NextCounts, PTL DEF Spec, NeverTakenForRepeat

-----------------------------------------------------------------------------
(* The pages, whatever they carry.                                          *)

\* A nibble, and two of them in one byte.
LEMMA Nibbles ==
    ASSUME NEW v \in Nat, NEW unit \in Nat \ {0}
    PROVE  Nibble(v, unit) \in 0..15
<1>1. v \div unit \in Int
  OBVIOUS
<1>2. QED  BY <1>1 DEF Nibble

LEMMA SharedByte ==
    ASSUME NEW m \in 0..15, NEW n \in 0..15
    PROVE  Either(m, n) \in 0..15
BY DEF Either

\* A value of twelve bits in a byte and a nibble.
LEMMA TwelveBits ==
    ASSUME NEW v \in 0..4095
    PROVE  Nibble(v, 256) * 256 + Low(v) = v
<1>1. v \div 256 \in 0..15 /\ v = 256 * (v \div 256) + (v % 256)
  OBVIOUS
<1>2. (v \div 256) % 16 = v \div 256
  BY <1>1
<1>3. QED  BY <1>1, <1>2 DEF Low, Nibble

\* What a mask of the wrong byte leaves.
LEMMA MaskLosesNibble ==
    ASSUME NEW n \in 0..15, NEW lsb \in Nat
    PROVE  Masked(n, lsb) = lsb /\ ((n \div 4096) % 16) * 4096 + lsb = lsb
<1>1. n \div 256 = 0 /\ n \div 4096 = 0
  OBVIOUS
<1>2. QED  BY <1>1 DEF Masked

\* Page 16, which alone the firmware sends: its three values arrive whole, each of twelve or
\* of eight bits; but what is decoded as the lights, the turn signals and the gears are
\* bits of the wheel circumference and of the manufacturer, whatever the sender had set
\* them to (ant_lev_page_16.c:37-43, 45-54).
THEOREM PageSixteenIsUnderstood ==
    ASSUME NEW d, NEW buffer,
           d.wheel_circumference \in 0..4095, d.manufacturer_id \in 0..4095
    PROVE  page_16_decode(page_16_encode(d, buffer)) =
             [wheel_circumference |-> d.wheel_circumference, travel_mode |-> d.travel_mode,
              manufacturer_id |-> d.manufacturer_id,
              turn_signal_right |-> (d.wheel_circumference % 256) % 2,
              turn_signal_left |-> ((d.manufacturer_id % 256) \div 2) % 2,
              light_beam |-> ((d.manufacturer_id % 256) \div 4) % 2,
              light |-> ((d.manufacturer_id % 256) \div 8) % 2,
              current_front_gear |-> ((d.manufacturer_id % 256) \div 16) % 4,
              current_rear_gear |-> ((d.manufacturer_id % 256) \div 64) % 4]
<1> DEFINE page == page_16_encode(d, buffer)
<1>1. /\ page[1] = Low(d.wheel_circumference) /\ page[2] = Nibble(d.wheel_circumference, 256)
      /\ page[3] = d.travel_mode
      /\ page[6] = Low(d.manufacturer_id) /\ page[7] = Nibble(d.manufacturer_id, 256)
  BY DEF page_16_encode
<1>2. /\ (page[2] % 16) * 256 + page[1] = d.wheel_circumference
      /\ (page[7] % 16) * 256 + page[6] = d.manufacturer_id
  <2>1. (page[2] % 16) * 256 + page[1] = d.wheel_circumference
    <3> DEFINE v == d.wheel_circumference
    <3>1. v \in 0..4095 /\ page[1] = v % 256 /\ page[2] = (v \div 256) % 16
      BY <1>1 DEF Low, Nibble
    <3>2. (page[2] % 16) * 256 + page[1] = v
      <4> HIDE DEF page, v
      <4>1. v \div 256 \in 0..15 /\ v = 256 * (v \div 256) + (v % 256)
        BY <3>1
      <4>2. page[2] = v \div 256 /\ page[2] % 16 = page[2]
        BY <3>1, <4>1
      <4>3. QED  BY <3>1, <4>1, <4>2
    <3>3. QED  BY <3>2
  <2>2. (page[7] % 16) * 256 + page[6] = d.manufacturer_id
    <3> DEFINE v == d.manufacturer_id
    <3>1. v \in 0..4095 /\ page[6] = v % 256 /\ page[7] = (v \div 256) % 16
      BY <1>1 DEF Low, Nibble
    <3>2. (page[7] % 16) * 256 + page[6] = v
      <4> HIDE DEF page, v
      <4>1. v \div 256 \in 0..15 /\ v = 256 * (v \div 256) + (v % 256)
        BY <3>1
      <4>2. page[7] = v \div 256 /\ page[7] % 16 = page[7]
        BY <3>1, <4>1
      <4>3. QED  BY <3>1, <4>1, <4>2
    <3>3. QED  BY <3>2
  <2>3. QED  BY <2>1, <2>2
<1>3. page[1] = d.wheel_circumference % 256 /\ page[6] = d.manufacturer_id % 256
  BY <1>1 DEF Low
<1> DEFINE whole ==
      [wheel_circumference |-> d.wheel_circumference, travel_mode |-> d.travel_mode,
       manufacturer_id |-> d.manufacturer_id,
       turn_signal_right |-> (d.wheel_circumference % 256) % 2,
       turn_signal_left |-> ((d.manufacturer_id % 256) \div 2) % 2,
       light_beam |-> ((d.manufacturer_id % 256) \div 4) % 2,
       light |-> ((d.manufacturer_id % 256) \div 8) % 2,
       current_front_gear |-> ((d.manufacturer_id % 256) \div 16) % 4,
       current_rear_gear |-> ((d.manufacturer_id % 256) \div 64) % 4]
<1>4. page_16_decode(page) = whole
  <2> HIDE DEF page
  <2>1. QED  BY <1>1, <1>2, <1>3 DEF page_16_decode
<1>5. QED  BY <1>4

\* Of the other pages a field of two bytes comes out as its low byte alone, but for the range
\* of page 2: "& 0x0f << 8" masks with 0x0f00 (ant_lev_page_1.c:52).  Of the odometer page 2
\* loses the middle byte and puts the top one in its place, page 34 loses both.  Page 3 stores
\* the system state as the travel mode (ant_lev_page_3.c:48) and itself nowhere, and page 4
\* does not store the cycle count.
THEOREM UpperBitsAreLost ==
    ASSUME NEW d, NEW buffer,
           \A f \in {"lev_speed", "odometer", "charging_cycle_count", "fuel_consumption",
                     "distance_on_current_charge", "wheel_circumference"} : d[f] \in Nat,
           d.remaining_range \in 0..4095
    PROVE  /\ page_1_decode(page_1_encode(d, buffer)) =
                [temperature_state |-> d.temperature_state,
                 travel_mode_state |-> d.travel_mode_state, system_state |-> d.system_state,
                 gear_state |-> d.gear_state, error_message |-> d.error_message,
                 lev_speed |-> d.lev_speed % 256]
           /\ page_2_decode(page_2_encode(d, buffer)) =
                [odometer |-> ((d.odometer \div 65536) % 16) * 256 + (d.odometer % 256),
                 remaining_range |-> d.remaining_range, lev_speed |-> d.lev_speed % 256]
           /\ page_3_decode(page_3_encode(d, buffer)) =
                [battery_soc |-> d.battery_soc, travel_mode_state |-> d.system_state,
                 gear_state |-> d.gear_state, assist |-> d.assist,
                 lev_speed |-> d.lev_speed % 256]
           /\ page_4_decode(page_4_encode(d, buffer)) =
                [fuel_consumption |-> d.fuel_consumption % 256,
                 battery_voltage |-> d.battery_voltage,
                 distance_on_current_charge |-> d.distance_on_current_charge % 256]
           /\ page_5_decode(page_5_encode(d, buffer)) =
                [travel_modes_supported |-> d.travel_modes_supported,
                 wheel_circumference |-> d.wheel_circumference % 256]
           /\ page_34_decode(page_34_encode(d, buffer)) =
                [odometer |-> d.odometer % 256, fuel_consumption |-> d.fuel_consumption % 256,
                 lev_speed |-> d.lev_speed % 256]
<1>1. ASSUME NEW v \in Nat, NEW unit \in {256, 4096, 65536}
      PROVE  Masked(Nibble(v, unit), Low(v)) = v % 256
  BY <1>1, Nibbles, MaskLosesNibble DEF Low
<1>2. /\ d.lev_speed \in Nat /\ d.odometer \in Nat /\ d.charging_cycle_count \in Nat
      /\ d.fuel_consumption \in Nat /\ d.distance_on_current_charge \in Nat
      /\ d.wheel_circumference \in Nat
  OBVIOUS
<1>3. Masked(Nibble(d.lev_speed, 256), Low(d.lev_speed)) = d.lev_speed % 256
  BY <1>1, <1>2
<1>4. page_1_decode(page_1_encode(d, buffer)) =
        [temperature_state |-> d.temperature_state,
         travel_mode_state |-> d.travel_mode_state, system_state |-> d.system_state,
         gear_state |-> d.gear_state, error_message |-> d.error_message,
         lev_speed |-> d.lev_speed % 256]
  BY <1>3 DEF page_1_decode, page_1_encode
<1>5. page_2_decode(page_2_encode(d, buffer)) =
        [odometer |-> ((d.odometer \div 65536) % 16) * 256 + (d.odometer % 256),
         remaining_range |-> d.remaining_range, lev_speed |-> d.lev_speed % 256]
  <2>1. Nibble(d.remaining_range, 256) * 256 + Low(d.remaining_range) = d.remaining_range
    <3> DEFINE v == d.remaining_range
    <3>1. v \in 0..4095
      OBVIOUS
    <3>2. Nibble(v, 256) * 256 + Low(v) = v
      <4> HIDE DEF v
      <4>1. QED  BY <3>1, TwelveBits
    <3>3. QED  BY <3>2
  <2>2. Nibble(d.odometer, 65536) * 256 + Low(d.odometer) =
          ((d.odometer \div 65536) % 16) * 256 + (d.odometer % 256)
    BY DEF Nibble, Low
  <2>3. QED  BY <1>3, <2>1, <2>2 DEF page_2_decode, page_2_encode
<1>6. page_3_decode(page_3_encode(d, buffer)) =
        [battery_soc |-> d.battery_soc, travel_mode_state |-> d.system_state,
         gear_state |-> d.gear_state, assist |-> d.assist, lev_speed |-> d.lev_speed % 256]
  BY <1>3 DEF page_3_decode, page_3_encode
<1>7. page_4_decode(page_4_encode(d, buffer)) =
        [fuel_consumption |-> d.fuel_consumption % 256, battery_voltage |-> d.battery_voltage,
         distance_on_current_charge |-> d.distance_on_current_charge % 256]
  <2> DEFINE shared == Either(Nibble(d.charging_cycle_count, 256), Nibble(d.fuel_consumption, 4096))
  <2>1. shared \in 0..15
    BY <1>2, Nibbles, SharedByte
  <2>2. ((shared \div 4096) % 16) * 4096 + Low(d.fuel_consumption) = d.fuel_consumption % 256
    <3>1. Low(d.fuel_consumption) \in Nat /\ Low(d.fuel_consumption) = d.fuel_consumption % 256
      BY <1>2 DEF Low
    <3> HIDE DEF shared
    <3>2. QED  BY <2>1, <3>1, MaskLosesNibble
  <2>3. Masked(Nibble(d.distance_on_current_charge, 256), Low(d.distance_on_current_charge))
          = d.distance_on_current_charge % 256
    BY <1>1, <1>2
  <2>4. QED  BY <2>2, <2>3 DEF page_4_decode, page_4_encode
<1>8. page_5_decode(page_5_encode(d, buffer)) =
        [travel_modes_supported |-> d.travel_modes_supported,
         wheel_circumference |-> d.wheel_circumference % 256]
  <2>1. Masked(Nibble(d.wheel_circumference, 256), Low(d.wheel_circumference))
          = d.wheel_circumference % 256
    BY <1>1, <1>2
  <2>2. QED  BY <2>1 DEF page_5_decode, page_5_encode
<1>9. page_34_decode(page_34_encode(d, buffer)) =
        [odometer |-> d.odometer % 256, fuel_consumption |-> d.fuel_consumption % 256,
         lev_speed |-> d.lev_speed % 256]
  <2>1. Masked(Nibble(d.odometer, 65536), Low(d.odometer)) = d.odometer % 256
    BY <1>1, <1>2
  <2>2. Masked(Nibble(d.fuel_consumption, 256), Low(d.fuel_consumption)) = d.fuel_consumption % 256
    BY <1>1, <1>2
  <2>3. QED  BY <1>3, <2>1, <2>2 DEF page_34_decode, page_34_encode
<1>10. QED  BY <1>4, <1>5, <1>6, <1>7, <1>8, <1>9

===============================================================================
