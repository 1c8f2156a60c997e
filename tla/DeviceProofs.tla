---------------------------- MODULE DeviceProofs ----------------------------
(***************************************************************************)
(* What the devices promise: delay, the ATA driver that waits with it, and *)
(* the real time clock.                                                    *)
(*                                                                         *)
(* delay waits long enough before the counter leaves its low word, for     *)
(* every width of the word.  A counter that is still in its low word is    *)
(* read as a value it has had since the call; once it has left it, enough  *)
(* ticks have come for every delay that had to end before.                 *)
(*                                                                         *)
(* The driver uses the timer as PitDelay allows: its steps are those of a  *)
(* caller of delay.  With it, and for every disk, timeout and device, a    *)
(* call that returns has read or written what it says.                     *)
(*                                                                         *)
(* The clock's part has the calendar in closed form, the loops of          *)
(* timestamp_to_string as its inverse, and the order in which              *)
(* get_unix_timestamp reads the registers as what keeps a carry from       *)
(* taking time away.                                                       *)
(***************************************************************************)
EXTENDS AtaIrq, Rtc, SequenceTheorems, NaturalsInduction, WellFoundedInduction, TLAPS

PitTypeOK == /\ ticks \in Nat /\ at \in {"out", "first", "second"}
             /\ lowFirst \in BOOLEAN
             /\ word \in Nat /\ targetTicks \in Nat /\ ms \in Nat /\ begun \in Nat

\* A delay at work that began in the low word has its whole target, and what
\* it has read of a counter in its low word is not ahead of the counter.
InLowWord ==
  at # "out" =>
    /\ ms > 0
    /\ begun < Word => targetTicks = begun + ms /\ begun <= ticks
    /\ at = "second" /\ ticks < Word => IF lowFirst THEN word <= ticks ELSE word = 0

PitInv == PitTypeOK /\ InLowWord

\* A number below the word is its own low word, and its high word is zero.
LEMMA WordFacts ==
  ASSUME NEW n \in Nat
  PROVE  /\ Low(n) \in Nat /\ High(n) \in Nat
         /\ n < Word => Low(n) = n /\ High(n) = 0
BY PitAssumption DEF Low, High

\* A tick goes up by one, or falls back to the start of the third word.
LEMMA TickFacts ==
  ASSUME NEW n \in Nat
  PROVE  /\ Tick(n) \in Nat
         /\ Tick(n) < Word => Tick(n) = n + 1
         /\ Tick(n) > n \/ Tick(n) = 2 * Word
BY PitAssumption DEF Tick

\* The state of a delay stays sound from step to step (pit.cpp, delay).
LEMMA PitInvIsInductive == PitInv /\ [PitNext]_pit => PitInv'
<1> SUFFICES ASSUME PitInv, [PitNext]_pit PROVE PitInv'
  OBVIOUS
<1> USE PitAssumption DEF PitInv, PitTypeOK, InLowWord
<1>1. CASE onIrq0
  <2>1. /\ ticks' \in Nat /\ (ticks' < Word => ticks' = ticks + 1)
        /\ ticks' > ticks \/ ticks' = 2 * Word
    BY <1>1, TickFacts DEF onIrq0
  <2> QED BY <1>1, <2>1 DEF onIrq0, delaying
<1>2. ASSUME NEW m \in Delays, delay(m) PROVE PitInv'
  <2>1. Low(ticks) \in Nat /\ (ticks < Word => Low(ticks) = ticks) /\ m \in Nat \ {0}
    BY WordFacts
  <2> QED BY <1>2, <2>1 DEF delay, Target
<1>3. CASE ReadFirst
  <2>1. /\ Low(ticks) \in Nat /\ High(ticks) \in Nat
        /\ ticks < Word => Low(ticks) = ticks /\ High(ticks) = 0
    BY WordFacts
  <2> QED BY <1>3, <2>1 DEF ReadFirst
<1>4. CASE ReadSecond
  BY <1>4 DEF ReadSecond
<1>5. CASE UNCHANGED pit
  BY <1>5 DEF pit, delaying
<1> QED BY <1>1, <1>2, <1>3, <1>4, <1>5 DEF PitNext

\* A delay that returns has waited, if it had to end before the counter leaves
\* its low word.
LEMMA ReturnIsLate ==
  ASSUME PitInv, PitNext, Returns, begun + ms <= Word
  PROVE  ticks - begun >= ms
<1>1. ReadSecond
  BY DEF PitNext, Returns, onIrq0, delay, ReadFirst, delaying
<1>2. begun < Word /\ targetTicks = begun + ms /\ targetTicks <= Word
  BY PitAssumption DEF PitInv, PitTypeOK, InLowWord, Returns
<1>3. CASE ticks < Word
  <2>1. Low(ticks) = ticks /\ High(ticks) = 0
    BY <1>3, WordFacts DEF PitInv, PitTypeOK
  <2>2. CASE lowFirst
    <3>1. word >= targetTicks /\ word <= ticks
      BY <1>1, <1>3, <2>1, <2>2, PitAssumption
         DEF ReadSecond, Returns, Reached, PitInv, PitTypeOK, InLowWord
    <3> QED BY <3>1, <1>2 DEF PitInv, PitTypeOK
  <2>3. CASE ~lowFirst
    <3>1. word = 0 /\ Word * word + Low(ticks) >= targetTicks
      BY <1>1, <1>3, <2>3 DEF ReadSecond, Returns, Reached, PitInv, PitTypeOK, InLowWord
    <3>2. Word * 0 = 0
      BY PitAssumption
    <3> QED BY <3>1, <3>2, <2>1, <1>2 DEF PitInv, PitTypeOK
  <2> QED BY <2>2, <2>3
<1>4. CASE ticks >= Word
  BY <1>4, <1>2, PitAssumption DEF PitInv, PitTypeOK
<1> QED BY <1>3, <1>4, PitAssumption DEF PitInv, PitTypeOK

(***************************************************************************)
(* For every width of the machine word and every delay that has to end     *)
(* before the counter leaves it, delay returns only when its milliseconds  *)
(* have passed, in whatever order the halves of the counter are read.      *)
(***************************************************************************)
THEOREM WaitsBeforeWrap == PitSpec => DelayWaitsBeforeWrap
<1>1. PitInit => PitInv
  BY DEF PitInit, PitInv, PitTypeOK, InLowWord
<1>2. PitInv /\ [PitNext]_pit => [Returns /\ begun + ms <= Word => ticks - begun >= ms]_pit
  BY ReturnIsLate DEF pit, delaying, Returns
<1> QED BY <1>1, <1>2, PitInvIsInductive, PTL DEF PitSpec, DelayWaitsBeforeWrap
-----------------------------------------------------------------------------
\* Every step of driver, device and timer is a step of the timer or leaves it.
LEMMA StepsOfTheTimer == [Next]_vars => [PitNext]_pit
<1> SUFFICES ASSUME Next, pit' # pit PROVE PitNext
  BY DEF vars, moving
<1>1. IrqDelay \/ Delaying \/ Ticks
  BY DEF Next
<1>2. CASE IrqDelay
  BY <1>2, AtaAssumption DEF IrqDelay, PitNext
<1>3. CASE Delaying
  BY <1>3 DEF Delaying, PitNext
<1>4. CASE Ticks
  BY <1>4 DEF Ticks, PitNext
<1> QED BY <1>1, <1>2, <1>3, <1>4

(***************************************************************************)
(* In the driver too (ata_irq_wait, ata.cpp) a delay that ends before the  *)
(* counter leaves its low word waits its milliseconds.                     *)
(***************************************************************************)
THEOREM DriverDelaysWait == Spec => DelayWaitsBeforeWrap
<1>1. Spec => PitSpec
  <2>1. Init => PitInit
    BY DEF Init
  <2> QED BY <2>1, StepsOfTheTimer, PTL DEF Spec, PitSpec
<1> QED BY <1>1, WaitsBeforeWrap
-----------------------------------------------------------------------------
(***************************************************************************)
(* The inductive invariant: what the driver is at, the command that the    *)
(* device has got, and for a device in time the ticks that it has left.    *)
(***************************************************************************)
Identify == [kind |-> "identify"]
Read(l) == [kind |-> "read", lba |-> l]
Write(l, d) == [kind |-> "write", lba |-> l, data |-> d]

AllCommands == {NoCommand, Identify} \cup {Read(l) : l \in Lba}
               \cup {Write(l, d) : l \in Lba, d \in Value \cup {None}}

Identifies(d) == [kind |-> "identify", sectors |-> 1, done |-> d]
Transfers == [kind : {"read", "write"}, lba : Lba, sectors : Nat \ {0},
              buffer : Seq(Value), done : Nat]

AtaTypeOK ==
  /\ pc \in {"idle", "sector", "poll", "wait", "data", "gone"}
  /\ call \in {Identifies(0), Identifies(1)} \cup Transfers
  /\ irq_received \in BOOLEAN /\ intrq \in BOOLEAN
  /\ status \in {"ready", "busy", "drq", "err"} /\ command \in AllCommands
  /\ disk \in [Lba -> Value]
  /\ timeout \in 1..Timeout /\ age \in Nat /\ late \in BOOLEAN /\ faulty \in BOOLEAN

Identifying ==
  call.kind = "identify" =>
    /\ pc \in {"idle", "wait", "data", "gone"}
    /\ call.done = 1 => pc = "idle"

Reading ==
  call.kind = "read" => /\ pc \in {"idle", "sector", "wait", "data"}
                        /\ Len(call.buffer) = call.done

Writing ==
  call.kind = "write" => /\ pc \in {"idle", "sector", "poll", "wait"}
                         /\ Len(call.buffer) = call.sectors

InCall ==
  call.kind # "identify" => /\ OnDisk(call) /\ call.done <= call.sectors
                            /\ pc = "idle" <=> call.done = call.sectors

\* A command that waits for the driver is that of the sector the driver is at.
OfThisSector ==
  /\ command = Identify => call.kind = "identify" /\ pc \in {"wait", "data"}
  /\ \A l \in Lba : command = Read(l) =>
       call.kind = "read" /\ pc \in {"wait", "data"} /\ l = call.lba + call.done
  /\ \A l \in Lba : command = Write(l, None) =>
       call.kind = "write" /\ pc = "poll" /\ l = call.lba + call.done
  /\ status = "drq" => command # NoCommand /\ \A l \in Lba, d \in Value : command # Write(l, d)
  /\ status \in {"ready", "err"} => command = NoCommand

\* A read that has got a sector has no write behind it that the device may
\* still have to do.
ReadSoFar ==
  call.kind = "read" =>
    /\ \A i \in 1..call.done : call.buffer[i] = disk[call.lba + i - 1]
    /\ call.done > 0 => command.kind # "write"

\* A wait starts with its whole timeout, and delays are only part of a wait.
Waiting == /\ pc # "wait" => timeout = Timeout
           /\ at # "out" => pc = "wait" /\ ms = 1 /\ timeout < Timeout

DeviceInv == AtaTypeOK /\ PitInv /\ Identifying /\ Reading /\ Writing /\ InCall
             /\ OfThisSector /\ ReadSoFar /\ Waiting

\* For a device in time: every delay of a wait has taken a tick of its work.
InTime ==
  /\ age <= Answer
  /\ ticks < Word /\ pc = "wait" /\ Working =>
       IF at = "out" THEN Timeout - timeout <= age
       ELSE begun <= ticks /\ Timeout - timeout - 1 + (ticks - begun) <= age

\* The device and the flag, wherever the driver is.
Quiet == status = "ready" /\ command = NoCommand /\ ~intrq /\ ~irq_received

AtWork == status = "busy" /\ ~intrq /\ ~irq_received

Answered == intrq # irq_received

ThisSector == call.lba + call.done

InStep ==
  /\ pc \in {"idle", "sector"} => Quiet
  /\ pc = "poll" => /\ command = Write(ThisSector, None) /\ ~intrq /\ ~irq_received
                    /\ status \in {"busy", "drq"}
  /\ pc = "wait" /\ call.kind # "write" =>
       (AtWork /\ command.kind # "write") \/ (status = "drq" /\ Answered)
  /\ pc = "wait" /\ call.kind = "write" =>
       \/ AtWork /\ command = Write(ThisSector, call.buffer[call.done + 1])
       \/ /\ status = "ready" /\ Answered
          /\ disk[ThisSector] = call.buffer[call.done + 1]
  /\ pc = "data" => status = "drq" /\ ~intrq /\ ~irq_received

WrittenSoFar ==
  call.kind = "write" => \A i \in 1..call.done : disk[call.lba + i - 1] = call.buffer[i]

GoodInv == GoodDevice => InTime /\ (ticks < Word => InStep /\ WrittenSoFar)
-----------------------------------------------------------------------------
(***************************************************************************)
(* Commands, calls and the steps of both.                                  *)
(***************************************************************************)
LEMMA CommandFacts ==
  /\ NoCommand \in AllCommands /\ NoCommand.kind = None
  /\ Identify \in AllCommands /\ Identify.kind = "identify"
  /\ \A l \in Lba : Read(l) \in AllCommands /\ Read(l).kind = "read" /\ Read(l).lba = l
  /\ \A l \in Lba, d \in Value \cup {None} :
       /\ Write(l, d) \in AllCommands /\ Write(l, d).kind = "write"
       /\ Write(l, d).lba = l /\ Write(l, d).data = d
       /\ \A e \in Value : [Write(l, d) EXCEPT !.data = e] = Write(l, e)
  /\ \A c \in AllCommands :
       \/ c = NoCommand \/ c = Identify \/ \E l \in Lba : c = Read(l)
       \/ \E l \in Lba, d \in Value \cup {None} : c = Write(l, d)
<1>1. /\ NoCommand \in AllCommands /\ NoCommand.kind = None
      /\ Identify \in AllCommands /\ Identify.kind = "identify"
  BY DEF AllCommands, NoCommand, Identify
<1>2. \A l \in Lba : Read(l) \in AllCommands /\ Read(l).kind = "read" /\ Read(l).lba = l
  BY DEF AllCommands, Read
<1>3. \A l \in Lba, d \in Value \cup {None} :
        /\ Write(l, d) \in AllCommands /\ Write(l, d).kind = "write"
        /\ Write(l, d).lba = l /\ Write(l, d).data = d
  BY DEF AllCommands, Write
<1>4. ASSUME NEW l \in Lba, NEW d \in Value \cup {None}, NEW e \in Value
      PROVE  [Write(l, d) EXCEPT !.data = e] = Write(l, e)
  BY DEF Write
<1> QED BY <1>1, <1>2, <1>3, <1>4 DEF AllCommands

LEMMA CallFacts ==
  /\ \A d \in {0, 1} : /\ Identifies(d).kind = "identify" /\ Identifies(d).done = d
                        /\ Identifies(d).sectors = 1
  /\ Identifies(0) # Identifies(1)
  /\ [Identifies(0) EXCEPT !.done = 1] = Identifies(1)
  /\ \A c \in Transfers :
       /\ c.kind \in {"read", "write"} /\ c.lba \in Lba /\ c.sectors \in Nat \ {0}
       /\ c.buffer \in Seq(Value) /\ c.done \in Nat
BY DEF Identifies, Transfers

\* One sector more is done, with buffer b.
LEMMA DoneFacts ==
  ASSUME NEW c \in Transfers, NEW b \in Seq(Value)
  PROVE  LET e == [c EXCEPT !.buffer = b]
             d == [e EXCEPT !.done = e.done + 1] IN
           /\ d \in Transfers /\ d.kind = c.kind /\ d.lba = c.lba /\ d.sectors = c.sectors
           /\ d.buffer = b /\ d.done = c.done + 1 /\ e.done = c.done /\ e.sectors = c.sectors
<1> DEFINE e == [c EXCEPT !.buffer = b]
           d == [e EXCEPT !.done = e.done + 1]
<1>1. /\ e \in Transfers /\ e.kind = c.kind /\ e.lba = c.lba /\ e.sectors = c.sectors
      /\ e.buffer = b /\ e.done = c.done
  BY DEF Transfers
<1>2. e.done + 1 \in Nat
  BY <1>1 DEF Transfers
<1> HIDE DEF e
<1>3. /\ d \in Transfers /\ d.kind = e.kind /\ d.lba = e.lba /\ d.sectors = e.sectors
      /\ d.buffer = e.buffer /\ d.done = e.done + 1
  BY <1>1, <1>2 DEF Transfers
<1> QED BY <1>1, <1>3 DEF e

\* One sector more is done.
LEMMA SameBufferFacts ==
  ASSUME NEW c \in Transfers
  PROVE  LET d == [c EXCEPT !.done = c.done + 1] IN
           /\ d \in Transfers /\ d.kind = c.kind /\ d.lba = c.lba /\ d.sectors = c.sectors
           /\ d.buffer = c.buffer /\ d.done = c.done + 1
<1>1. c.done + 1 \in Nat
  BY DEF Transfers
<1> QED BY <1>1 DEF Transfers

LEMMA TheCall ==
  ASSUME AtaTypeOK
  PROVE  /\ call.kind = "identify" => call \in {Identifies(0), Identifies(1)}
         /\ call.kind # "identify" => call \in Transfers
         /\ call.kind \in {"identify", "read", "write"}
BY CallFacts DEF AtaTypeOK

\* A sector is still to be done in a call that is not idle.
LEMMA TheSector ==
  ASSUME DeviceInv, call.kind # "identify", pc # "idle"
  PROVE  /\ call \in Transfers /\ call.kind \in {"read", "write"}
         /\ call.done < call.sectors /\ call.done \in Nat /\ call.sectors \in Nat
         /\ ThisSector \in Lba
         /\ call.kind = "write" => call.buffer[call.done + 1] \in Value
<1>1. call \in Transfers
  BY TheCall DEF DeviceInv
<1>2. /\ call.done \in Nat /\ call.sectors \in Nat /\ call.done <= call.sectors
      /\ call.done # call.sectors /\ OnDisk(call) /\ call.buffer \in Seq(Value)
      /\ call.kind \in {"read", "write"}
  BY <1>1, CallFacts DEF DeviceInv, InCall
<1>3. call.done < call.sectors /\ call.done \in 0..(call.sectors - 1)
  BY <1>2
<1>4. ThisSector \in Lba
  BY <1>2, <1>3 DEF OnDisk, ThisSector
<1>5. call.kind = "write" => call.buffer[call.done + 1] \in Value
  <2>1. call.done + 1 \in 1..call.sectors
    BY <1>2, <1>3
  <2>2. call.kind = "write" => Len(call.buffer) = call.sectors
    BY DEF DeviceInv, Writing
  <2> QED BY <1>2, <2>1, <2>2
<1> QED BY <1>1, <1>2, <1>3, <1>4, <1>5
-----------------------------------------------------------------------------
(***************************************************************************)
(* Each step keeps it.                                                     *)
(***************************************************************************)
LEMMA CommandKeeps ==
  ASSUME DeviceInv, PitInv', NEW c, Accept(c), age' = 0,
         UNCHANGED <<call, irq_received, timeout, temper, pit>>,
         \/ c = Identify /\ call.kind = "identify" /\ pc = "idle" /\ call.done # 1 /\ pc' = "wait"
         \/ c = Read(ThisSector) /\ call.kind = "read" /\ pc = "sector" /\ pc' = "wait"
         \/ c = Write(ThisSector, None) /\ call.kind = "write" /\ pc = "sector" /\ pc' = "poll"
  PROVE  DeviceInv'
<1>1. AtaTypeOK /\ Identifying /\ Reading /\ Writing /\ InCall /\ OfThisSector /\ ReadSoFar /\ Waiting
  BY DEF DeviceInv
<1>2. pc = "sector" => ThisSector \in Lba /\ call.done < call.sectors
  BY <1>1, TheSector
<1>3. /\ c \in AllCommands /\ pc \in {"idle", "sector"} /\ pc' \in {"wait", "poll"}
      /\ UNCHANGED <<intrq, disk>> /\ status' = "busy"
      /\ command' = IF status = "busy" THEN command ELSE c
  BY <1>2, CommandFacts DEF Accept
<1> HIDE DEF DeviceInv
<1>4. AtaTypeOK'
  BY <1>1, <1>3 DEF AtaTypeOK, temper
<1>5. Identifying' /\ Reading' /\ Writing'
  BY <1>1, <1>3 DEF Identifying, Reading, Writing
<1>6. InCall'
  <2> SUFFICES ASSUME call.kind # "identify" PROVE OnDisk(call)' /\ call.done < call.sectors
    BY <1>1, <1>2, <1>3, CallFacts, TheCall DEF InCall
  <2> QED BY <1>1, <1>2 DEF InCall, OnDisk
<1>7. OfThisSector'
  <2>1. CASE status = "busy"
    BY <1>1, <1>3, <2>1 DEF OfThisSector
  <2>2. CASE status # "busy"
    BY <1>1, <1>2, <1>3, <2>2, CommandFacts DEF OfThisSector, ThisSector
  <2> QED BY <2>1, <2>2
<1>8. ReadSoFar'
  <2> SUFFICES ASSUME call.kind = "read"
               PROVE  call.done > 0 => command'.kind # "write"
    BY <1>1, <1>3 DEF ReadSoFar
  <2> QED BY <1>1, <1>2, <1>3, CommandFacts DEF ReadSoFar
<1>9. Waiting'
  BY <1>1, <1>3 DEF Waiting, pit, delaying
<1> QED BY <1>4, <1>5, <1>6, <1>7, <1>8, <1>9 DEF DeviceInv

\* A step of the device: it answers the command, ends it, or is handled.
LEMMA DeviceKeeps ==
  ASSUME DeviceInv, PitInv', Device \/ DeviceFails \/ primary_ata_handler,
         UNCHANGED <<timeout, age, temper, pit>>
  PROVE  DeviceInv'
<1>1. AtaTypeOK /\ Identifying /\ Reading /\ Writing /\ InCall /\ OfThisSector /\ ReadSoFar /\ Waiting
  BY DEF DeviceInv
<1>2. /\ UNCHANGED <<pc, call, late, faulty, at, ms>>
  BY DEF Device, DeviceReads, DeviceAsks, DeviceWrites, DeviceFails, primary_ata_handler, driver,
     pit, delaying, temper
<1>3. \/ UNCHANGED <<command, disk>> /\ status' = status
      \/ /\ UNCHANGED <<command, disk>> /\ status = "busy" /\ status' = "drq"
         /\ command = Identify \/ (\E l \in Lba : command = Read(l))
              \/ \E l \in Lba : command = Write(l, None)
      \/ /\ UNCHANGED disk /\ status' = "err" /\ command' = NoCommand
      \/ \E l \in Lba, d \in Value :
           /\ command = Write(l, d) /\ disk' = [disk EXCEPT ![l] = d] /\ status = "busy"
           /\ status' = "ready" /\ command' = NoCommand
  <2>1. CASE DeviceReads
    <3>1. command = Identify \/ \E l \in Lba : command = Read(l)
      BY <1>1, <2>1, CommandFacts DEF DeviceReads, AtaTypeOK, None
    <3> QED BY <2>1, <3>1 DEF DeviceReads, Raise
  <2>2. CASE DeviceAsks
    BY <1>1, <2>2, CommandFacts DEF DeviceAsks, AtaTypeOK, None
  <2>3. CASE DeviceWrites
    <3>1. PICK l \in Lba, d \in Value \cup {None} : command = Write(l, d)
      BY <1>1, <2>3, CommandFacts DEF DeviceWrites, AtaTypeOK, None
    <3>2. command.lba = l /\ command.data = d /\ d \in Value
      BY <2>3, <3>1, CommandFacts DEF DeviceWrites
    <3> QED BY <2>3, <3>1, <3>2 DEF DeviceWrites, Raise
  <2>4. CASE DeviceFails
    BY <2>4 DEF DeviceFails, Raise
  <2>5. CASE primary_ata_handler
    BY <2>5 DEF primary_ata_handler
  <2> QED BY <2>1, <2>2, <2>3, <2>4, <2>5 DEF Device
<1>4. irq_received' \in BOOLEAN /\ intrq' \in BOOLEAN
  BY <1>1 DEF Device, DeviceReads, DeviceAsks, DeviceWrites, DeviceFails, primary_ata_handler, Raise,
     AtaTypeOK
<1> HIDE DEF DeviceInv
<1>5. AtaTypeOK'
  <2>1. disk' \in [Lba -> Value]
    BY <1>1, <1>3 DEF AtaTypeOK
  <2>2. command' \in AllCommands /\ status' \in {"ready", "busy", "drq", "err"}
    BY <1>1, <1>3, CommandFacts DEF AtaTypeOK
  <2> QED BY <1>1, <1>2, <1>4, <2>1, <2>2 DEF AtaTypeOK
<1>6. Identifying' /\ Reading' /\ Writing' /\ InCall' /\ Waiting'
  BY <1>1, <1>2 DEF Identifying, Reading, Writing, InCall, OnDisk, Waiting
<1>7. OfThisSector'
  <2>1. CASE command' = command /\ status' = status
    BY <1>1, <1>2, <2>1 DEF OfThisSector
  <2>2. CASE /\ command' = command /\ status' = "drq"
             /\ command = Identify \/ (\E l \in Lba : command = Read(l))
                  \/ \E l \in Lba : command = Write(l, None)
    <3>1. command # NoCommand /\ \A l \in Lba, d \in Value : command # Write(l, d)
      BY <2>2, CommandFacts, AtaAssumption DEF None
    <3> QED BY <1>1, <1>2, <2>2, <3>1 DEF OfThisSector
  <2>3. CASE command' = NoCommand /\ status' \in {"err", "ready"}
    BY <1>1, <1>2, <2>3, CommandFacts DEF OfThisSector, None
  <2> QED BY <1>3, <2>1, <2>2, <2>3
<1>8. ReadSoFar'
  <2>1. CASE UNCHANGED disk
    BY <1>1, <1>2, <1>3, <2>1, CommandFacts DEF ReadSoFar, None
  <2>2. CASE command.kind = "write" /\ command' = NoCommand
    <3> SUFFICES ASSUME call.kind = "read" PROVE ~(call.done > 0) /\ call.done \in Nat
      BY <1>2 DEF ReadSoFar
    <3> QED BY <1>1, <2>2, TheCall, CallFacts DEF ReadSoFar
  <2> QED BY <1>3, <2>1, <2>2, CommandFacts
<1> QED BY <1>5, <1>6, <1>7, <1>8 DEF DeviceInv

\* A sector of a write is done, in time or not, or has failed.
LEMMA WriteSectorKeeps ==
  ASSUME DeviceInv, PitInv', call.kind = "write", at = "out",
         pc = "wait" \/ (pc = "poll" /\ status = "err"),
         SectorDone(call), timeout' = Timeout, irq_received' \in BOOLEAN,
         UNCHANGED <<device, age, temper, pit>>
  PROVE  DeviceInv'
<1>1. AtaTypeOK /\ Writing /\ OfThisSector /\ ReadSoFar /\ InCall
  BY DEF DeviceInv
<1>2. /\ call \in Transfers /\ call.done < call.sectors /\ call.done \in Nat /\ call.sectors \in Nat
  BY TheSector
<1>3. /\ call' \in Transfers /\ call'.kind = "write" /\ call'.lba = call.lba
      /\ call'.sectors = call.sectors /\ call'.buffer = call.buffer /\ call'.done = call.done + 1
      /\ pc' = IF call.done + 1 < call.sectors THEN "sector" ELSE "idle"
  BY <1>2, SameBufferFacts DEF SectorDone
<1>4. UNCHANGED <<status, command, intrq, disk, age, late, faulty, at>>
  BY DEF device, temper, pit, delaying
<1>5. timeout' \in 1..Timeout
  BY <1>1, AtaAssumption DEF AtaTypeOK
<1> HIDE DEF DeviceInv
<1>6. AtaTypeOK'
  BY <1>1, <1>3, <1>4, <1>5 DEF AtaTypeOK
<1>7. Identifying' /\ Reading' /\ Writing' /\ ReadSoFar'
  BY <1>1, <1>3 DEF Identifying, Reading, Writing, ReadSoFar
<1>8. InCall'
  <2>1. OnDisk(call)'
    BY <1>1, <1>3 DEF InCall, OnDisk
  <2>2. /\ call.done + 1 <= call.sectors
        /\ call.done + 1 < call.sectors \/ call.done + 1 = call.sectors
    BY <1>2
  <2> QED BY <1>2, <1>3, <2>1, <2>2 DEF InCall
<1>9. OfThisSector'
  BY <1>1, <1>3, <1>4, CommandFacts DEF OfThisSector, None
<1>10. Waiting'
  BY <1>4 DEF Waiting
<1> QED BY <1>6, <1>7, <1>8, <1>9, <1>10 DEF DeviceInv

LEMMA WaitsKeep ==
  ASSUME DeviceInv, PitInv', Waits, UNCHANGED <<age, temper, pit>>
  PROVE  DeviceInv'
<1>1. AtaTypeOK /\ Identifying /\ Reading /\ Writing /\ InCall /\ OfThisSector /\ ReadSoFar /\ Waiting
  BY DEF DeviceInv
<1>2. /\ pc = "wait" /\ at = "out" /\ Waited /\ irq_received' \in BOOLEAN /\ UNCHANGED device
  BY <1>1 DEF Waits, IrqSeen, IrqTimeout, AtaTypeOK
<1>3. CASE call.kind = "write"
  BY <1>2, <1>3, WriteSectorKeeps DEF Waited
<1>4. CASE call.kind # "write"
  <2>1. /\ pc' = "data" /\ timeout' = Timeout
        /\ UNCHANGED <<call, status, command, intrq, disk, age, late, faulty, at>>
    BY <1>2, <1>4 DEF Waited, device, temper, pit, delaying
  <2>2. timeout' \in 1..Timeout
    BY <1>1, <2>1, AtaAssumption DEF AtaTypeOK
  <2>3. AtaTypeOK'
    BY <1>1, <1>2, <2>1, <2>2 DEF AtaTypeOK
  <2>4. Identifying' /\ Reading' /\ Writing' /\ InCall' /\ ReadSoFar' /\ Waiting'
    BY <1>1, <1>2, <1>4, <2>1
       DEF Identifying, Reading, Writing, InCall, OnDisk, ReadSoFar, Waiting
  <2>5. OfThisSector'
    BY <1>1, <1>2, <1>4, <2>1 DEF OfThisSector
  <2> QED BY <2>3, <2>4, <2>5 DEF DeviceInv
<1> QED BY <1>3, <1>4

\* A delay of the wait, or a tick.
LEMMA TimeKeeps ==
  ASSUME DeviceInv, PitInv', UNCHANGED temper,
         \/ IrqDelay /\ UNCHANGED age
         \/ Delaying \/ Ticks
  PROVE  DeviceInv'
<1>1. AtaTypeOK /\ Identifying /\ Reading /\ Writing /\ InCall /\ OfThisSector /\ ReadSoFar /\ Waiting
  BY DEF DeviceInv
<1>2. UNCHANGED <<pc, call, irq_received, status, command, intrq, disk, late, faulty>>
  BY DEF IrqDelay, Delaying, Ticks, driver, device, temper
<1>3. AtaTypeOK' /\ Waiting'
  <2>1. CASE IrqDelay /\ UNCHANGED age
    <3>1. timeout' \in 1..Timeout /\ timeout' < Timeout /\ timeout' = timeout - 1
      BY <1>1, <2>1, AtaAssumption DEF IrqDelay, AtaTypeOK
    <3>2. AtaTypeOK'
      BY <1>1, <1>2, <2>1, <3>1 DEF AtaTypeOK
    <3>3. ms' = 1 /\ pc = "wait"
      BY <2>1 DEF IrqDelay, delay
    <3> QED BY <1>2, <3>1, <3>2, <3>3 DEF Waiting
  <2>2. CASE Delaying
    <3>1. UNCHANGED <<timeout, age>> /\ at # "out" /\ (at' # "out" => ms' = ms)
      BY <2>2 DEF Delaying, ReadFirst, ReadSecond
    <3> QED BY <1>1, <1>2, <3>1 DEF AtaTypeOK, Waiting
  <2>3. CASE Ticks
    <3>1. UNCHANGED <<timeout, at, ms>> /\ age' \in Nat
      BY <1>1, <2>3 DEF Ticks, onIrq0, delaying, AtaTypeOK
    <3> QED BY <1>1, <1>2, <3>1 DEF AtaTypeOK, Waiting
  <2> QED BY <2>1, <2>2, <2>3
<1>4. Identifying' /\ Reading' /\ Writing' /\ InCall' /\ ReadSoFar'
  BY <1>1, <1>2 DEF Identifying, Reading, Writing, InCall, OnDisk, ReadSoFar
<1>5. OfThisSector'
  BY <1>1, <1>2 DEF OfThisSector
<1> QED BY <1>3, <1>4, <1>5 DEF DeviceInv

LEMMA StartKeeps ==
  ASSUME DeviceInv, PitInv', Start, UNCHANGED <<timeout, age, temper, pit>>
  PROVE  DeviceInv'
<1>1. AtaTypeOK /\ OfThisSector /\ Waiting
  BY DEF DeviceInv
<1>2. PICK c \in Calls : OnDisk(c) /\ call' = c
  BY DEF Start
<1>3. /\ pc = "idle" /\ pc' = "sector"
      /\ UNCHANGED <<irq_received, status, command, intrq, disk, timeout, age, late, faulty, at, ms>>
  BY DEF Start, Returned, device, temper, pit, delaying
<1>4. /\ c \in Transfers /\ c.done = 0 /\ c.kind \in {"read", "write"}
      /\ c.kind = "read" => Len(c.buffer) = 0
      /\ c.kind = "write" => Len(c.buffer) = c.sectors
  <2>1. ASSUME NEW l \in Lba, NEW n \in 1..MaxSectors,
               c = [kind |-> "read", lba |-> l, sectors |-> n, buffer |-> <<>>, done |-> 0]
        PROVE  /\ c \in Transfers /\ c.done = 0 /\ c.kind = "read" /\ Len(c.buffer) = 0
    <3>1. n \in Nat \ {0} /\ <<>> \in Seq(Value)
      BY AtaAssumption
    <3> QED BY <2>1, <3>1 DEF Transfers
  <2>2. ASSUME NEW l \in Lba, NEW n \in 1..MaxSectors, NEW b \in [1..n -> Value],
               c = [kind |-> "write", lba |-> l, sectors |-> Len(b), buffer |-> b, done |-> 0]
        PROVE  /\ c \in Transfers /\ c.done = 0 /\ c.kind = "write" /\ Len(c.buffer) = c.sectors
    <3>1. n \in Nat \ {0}
      BY AtaAssumption
    <3>2. b \in Seq(Value) /\ Len(b) = n
      BY <3>1
    <3> QED BY <2>2, <3>1, <3>2 DEF Transfers
  <2> QED BY <2>1, <2>2 DEF Calls
<1>5. c.sectors \in Nat \ {0} /\ c.kind # "identify"
  BY <1>4, CallFacts
<1> HIDE DEF DeviceInv
<1>6. AtaTypeOK'
  BY <1>1, <1>2, <1>3, <1>4 DEF AtaTypeOK
<1>7. Identifying' /\ Reading' /\ Writing' /\ InCall'
  BY <1>2, <1>3, <1>4, <1>5 DEF Identifying, Reading, Writing, InCall, OnDisk
<1>8. OfThisSector' /\ ReadSoFar' /\ Waiting'
  BY <1>1, <1>2, <1>3, <1>4 DEF OfThisSector, ReadSoFar, Waiting
<1> QED BY <1>6, <1>7, <1>8 DEF DeviceInv

\* The data of the sector that the driver is at: it was the command of that
\* sector that the device had, or it would not have asked.
LEMMA WriteDataGives ==
  ASSUME DeviceInv, WriteData
  PROVE  /\ call.kind = "write" /\ ThisSector \in Lba /\ call.buffer[call.done + 1] \in Value
         /\ command = Write(ThisSector, None)
         /\ command' = Write(ThisSector, call.buffer[call.done + 1])
<1>1. /\ AtaTypeOK /\ OfThisSector /\ pc = "poll" /\ status = "drq"
      /\ call.kind = "write"
  BY TheCall DEF DeviceInv, WriteData, Identifying, Reading
<1>2. ThisSector \in Lba /\ call.buffer[call.done + 1] \in Value
  BY <1>1, TheSector
<1> HIDE DEF DeviceInv
<1>3. PICK l \in Lba : command = Write(l, None)
  <2>1. /\ command \in AllCommands /\ command # NoCommand /\ command # Identify
        /\ \A l \in Lba : command # Read(l)
        /\ \A l \in Lba, d \in Value : command # Write(l, d)
    BY <1>1 DEF AtaTypeOK, OfThisSector
  <2> QED BY <2>1 DEF AllCommands
<1>4. l = ThisSector
  BY <1>1, <1>3 DEF OfThisSector, ThisSector
<1> DEFINE d == call.buffer[call.done + 1]
<1>5. command' = [command EXCEPT !.data = d]
  BY DEF WriteData
<1> HIDE DEF d
<1>6. command' = Write(ThisSector, d)
  BY <1>2, <1>3, <1>4, <1>5, CommandFacts DEF d
<1> QED BY <1>1, <1>2, <1>3, <1>4, <1>6 DEF d

LEMMA WriteDataKeeps ==
  ASSUME DeviceInv, PitInv', WriteData, age' = 0, UNCHANGED <<timeout, temper, pit>>
  PROVE  DeviceInv'
<1>1. AtaTypeOK /\ Identifying /\ Reading /\ Writing /\ InCall /\ OfThisSector /\ ReadSoFar /\ Waiting
  BY DEF DeviceInv
<1>2. /\ call.kind = "write" /\ ThisSector \in Lba
      /\ command' = Write(ThisSector, call.buffer[call.done + 1])
      /\ call.buffer[call.done + 1] \in Value
  BY WriteDataGives
<1>3. /\ pc = "poll" /\ pc' = "wait" /\ status' = "busy"
      /\ UNCHANGED <<call, irq_received, intrq, disk, timeout, late, faulty, at, ms>>
  BY DEF WriteData, temper, pit, delaying
<1> DEFINE d == call.buffer[call.done + 1]
<1>4. d \in Value /\ d # None /\ command' = Write(ThisSector, d) /\ command' \in AllCommands
  BY <1>2, CommandFacts, AtaAssumption
<1> HIDE DEF DeviceInv, d
<1>5. AtaTypeOK'
  BY <1>1, <1>3, <1>4 DEF AtaTypeOK
<1>6. Identifying' /\ Reading' /\ Writing' /\ InCall' /\ ReadSoFar' /\ Waiting'
  BY <1>1, <1>2, <1>3 DEF Identifying, Reading, Writing, InCall, OnDisk, ReadSoFar, Waiting
<1>7. OfThisSector'
  BY <1>2, <1>3, <1>4, CommandFacts DEF OfThisSector
<1> QED BY <1>5, <1>6, <1>7 DEF DeviceInv

\* A sector of a read is done.
LEMMA ReadDataKeeps ==
  ASSUME DeviceInv, PitInv', ReadData, UNCHANGED <<timeout, age, temper, pit>>
  PROVE  DeviceInv'
<1>1. AtaTypeOK /\ Reading /\ InCall /\ OfThisSector /\ ReadSoFar /\ Waiting
  BY DEF DeviceInv
<1>2. /\ pc = "data" /\ call.kind = "read" /\ status = "drq" /\ status' = "ready"
      /\ command' = NoCommand
      /\ UNCHANGED <<irq_received, intrq, disk, timeout, age, late, faulty, at, ms>>
  BY DEF ReadData, temper, pit, delaying
<1>3. /\ call \in Transfers /\ call.done < call.sectors /\ call.done \in Nat
      /\ call.sectors \in Nat /\ ThisSector \in Lba /\ call.buffer \in Seq(Value)
      /\ Len(call.buffer) = call.done
  BY <1>1, <1>2, TheSector, CallFacts DEF Reading
<1>4. command = Read(ThisSector)
  <2>1. /\ command \in AllCommands /\ command # NoCommand /\ command # Identify
        /\ \A l \in Lba, d \in Value \cup {None} : command # Write(l, d)
    BY <1>1, <1>2 DEF AtaTypeOK, OfThisSector
  <2>2. PICK l \in Lba : command = Read(l)
    BY <2>1 DEF AllCommands
  <2>3. l = ThisSector
    BY <1>1, <2>2 DEF OfThisSector, ThisSector
  <2> QED BY <2>2, <2>3
<1> DEFINE b == Append(call.buffer, disk[command.lba])
           e == [call EXCEPT !.buffer = b]
<1>5. disk[ThisSector] \in Value /\ command.lba = ThisSector
  BY <1>1, <1>3, <1>4, CommandFacts DEF AtaTypeOK
<1>6. /\ b \in Seq(Value) /\ Len(b) = call.done + 1
      /\ \A i \in 1..call.done : b[i] = call.buffer[i]
      /\ b[call.done + 1] = disk[ThisSector]
  <2> DEFINE s == call.buffer
             d == disk[ThisSector]
  <2>1. s \in Seq(Value) /\ d \in Value /\ b = Append(s, d) /\ Len(s) = call.done
    BY <1>3, <1>5
  <2> HIDE DEF s, d, b
  <2>2. /\ b \in Seq(Value) /\ Len(b) = Len(s) + 1
        /\ \A i \in 1..Len(s) : b[i] = s[i]
        /\ b[Len(s) + 1] = d
    BY <2>1, AppendProperties
  <2> QED BY <2>1, <2>2 DEF s, d
<1>7. /\ call' = [e EXCEPT !.done = e.done + 1]
      /\ pc' = IF e.done + 1 < e.sectors THEN "sector" ELSE "idle"
  BY DEF ReadData, SectorDone
<1> HIDE DEF b, DeviceInv
<1>8. /\ call' \in Transfers /\ call'.kind = "read" /\ call'.lba = call.lba
      /\ call'.sectors = call.sectors /\ call'.buffer = b /\ call'.done = call.done + 1
      /\ pc' = IF call.done + 1 < call.sectors THEN "sector" ELSE "idle"
  BY <1>2, <1>3, <1>6, <1>7, DoneFacts
<1> HIDE DEF e
<1>9. AtaTypeOK'
  BY <1>1, <1>2, <1>8, CommandFacts DEF AtaTypeOK
<1>10. Identifying' /\ Reading' /\ Writing' /\ Waiting'
  BY <1>1, <1>2, <1>6, <1>8 DEF Identifying, Reading, Writing, Waiting
<1>11. InCall'
  <2>1. OnDisk(call)'
    BY <1>1, <1>2, <1>8 DEF InCall, OnDisk
  <2>2. /\ call.done + 1 <= call.sectors
        /\ call.done + 1 < call.sectors \/ call.done + 1 = call.sectors
    BY <1>3
  <2> QED BY <1>3, <1>8, <2>1, <2>2 DEF InCall
<1>12. OfThisSector'
  BY <1>2, CommandFacts DEF OfThisSector, None
<1>13. ReadSoFar'
  <2>1. command'.kind # "write"
    BY <1>2, CommandFacts DEF None
  <2>2. ASSUME NEW i \in 1..call.done + 1
        PROVE  b[i] = disk[call.lba + i - 1]
    <3>1. CASE i \in 1..call.done
      BY <1>1, <1>2, <1>6, <3>1 DEF ReadSoFar
    <3>2. CASE i = call.done + 1
      <4>1. call.lba \in Nat
        BY <1>3, CallFacts, AtaAssumption
      <4>2. call.lba + i - 1 = ThisSector
        BY <1>3, <3>2, <4>1 DEF ThisSector
      <4> QED BY <1>6, <3>2, <4>2
    <3> QED BY <1>3, <3>1, <3>2
  <2> QED BY <1>2, <1>8, <2>1, <2>2 DEF ReadSoFar
<1> QED BY <1>9, <1>10, <1>11, <1>12, <1>13 DEF DeviceInv

LEMMA IdentifiedKeeps ==
  ASSUME DeviceInv, PitInv', Identified, UNCHANGED <<timeout, age, temper, pit>>
  PROVE  DeviceInv'
<1>1. AtaTypeOK /\ Identifying /\ Waiting
  BY DEF DeviceInv
<1>2. /\ pc = "data" /\ call.kind = "identify" /\ command' = NoCommand
      /\ UNCHANGED <<irq_received, intrq, disk, timeout, age, late, faulty, at, ms>>
  BY DEF Identified, temper, pit, delaying
<1>3. call = Identifies(0)
  BY <1>1, <1>2, TheCall, CallFacts DEF Identifying
<1>4. \/ status' = "ready" /\ call' = Identifies(1) /\ pc' = "idle"
      \/ status' = "err" /\ call' = call /\ pc' = "gone"
  <2>1. CASE status = "drq" /\ status' = "ready" /\ SectorDone(call)
    BY <1>3, <2>1, CallFacts DEF SectorDone
  <2> QED BY <2>1 DEF Identified
<1>5. call' \in {Identifies(0), Identifies(1)} /\ call'.kind = "identify"
      /\ (call'.done = 1 => pc' = "idle") /\ pc' \in {"idle", "gone"}
  BY <1>3, <1>4, CallFacts
<1> HIDE DEF DeviceInv
<1>6. AtaTypeOK'
  BY <1>1, <1>2, <1>4, <1>5, CommandFacts DEF AtaTypeOK
<1>7. Identifying' /\ Reading' /\ Writing' /\ InCall' /\ ReadSoFar' /\ Waiting'
  BY <1>1, <1>2, <1>5 DEF Identifying, Reading, Writing, InCall, ReadSoFar, Waiting
<1>8. OfThisSector'
  BY <1>2, <1>4, CommandFacts DEF OfThisSector, None
<1> QED BY <1>6, <1>7, <1>8 DEF DeviceInv

LEMMA InitDevice ==
  ASSUME Init PROVE DeviceInv /\ GoodInv
<1>1. /\ pc = "idle" /\ call = Identifies(0) /\ ~irq_received /\ status = "ready"
      /\ command = NoCommand /\ ~intrq /\ disk \in [Lba -> Value] /\ timeout = Timeout
      /\ age = 0 /\ late \in BOOLEAN /\ faulty \in BOOLEAN /\ at = "out"
      /\ irq_received \in BOOLEAN /\ intrq \in BOOLEAN
  BY DEF Init, PitInit, Identifies
<1>2. call.kind = "identify" /\ call.done = 0
  BY <1>1, CallFacts
<1>3. PitInv
  BY DEF Init, PitInit, PitInv, PitTypeOK, InLowWord
<1>4. Answer \in Nat /\ Timeout \in Nat /\ Timeout \in 1..Timeout
  BY AtaAssumption
<1>5. AtaTypeOK
  BY <1>1, <1>4, CommandFacts DEF AtaTypeOK
<1>6. Identifying /\ Reading /\ Writing /\ InCall /\ ReadSoFar /\ Waiting
  BY <1>1, <1>2 DEF Identifying, Reading, Writing, InCall, ReadSoFar, Waiting
<1>7. OfThisSector
  BY <1>1, CommandFacts DEF OfThisSector, None
<1>8. GoodInv
  BY <1>1, <1>2, <1>4 DEF GoodInv, InTime, InStep, Quiet, WrittenSoFar
<1> QED BY <1>3, <1>5, <1>6, <1>7, <1>8 DEF DeviceInv

LEMMA DeviceNext ==
  ASSUME DeviceInv, [Next]_vars PROVE DeviceInv'
<1>1. PitInv'
  BY StepsOfTheTimer, PitInvIsInductive DEF DeviceInv
<1>2. CASE UNCHANGED vars
  <2>1. UNCHANGED <<pc, call, irq_received, status, command, intrq, disk, timeout, age, late, faulty,
                    at, ms>>
    BY <1>2 DEF vars, moving, driver, device, temper, pit, delaying
  <2> QED BY <1>1, <2>1 DEF DeviceInv, AtaTypeOK, Identifying, Reading, Writing, InCall, OnDisk,
             OfThisSector, ReadSoFar, Waiting
<1>3. CASE Next
  <2>1. UNCHANGED temper /\ Identifying
    BY <1>3 DEF Next, DeviceInv
  <2> HIDE DEF DeviceInv
  <2>2. CASE Commands /\ age' = 0 /\ UNCHANGED <<timeout, hasty, pit>>
    <3>1. CASE identify
      <4>1. call.done # 1
        <5>1. call \in {Identifies(0), Identifies(1)}
          BY <3>1, TheCall DEF identify, DeviceInv
        <5> QED BY <3>1, <5>1, CallFacts DEF identify, Returned
      <4>2. Accept(Identify) /\ UNCHANGED <<call, irq_received>>
        BY <3>1 DEF identify, Identify
      <4> QED BY <1>1, <2>1, <2>2, <3>1, <4>1, <4>2, CommandKeeps DEF identify
    <3>2. CASE read_one_sector
      <4>1. Accept(Read(ThisSector)) /\ UNCHANGED <<call, irq_received>>
        BY <3>2 DEF read_one_sector, Read, ThisSector
      <4> QED BY <1>1, <2>1, <2>2, <3>2, <4>1, CommandKeeps DEF read_one_sector
    <3>3. CASE write_one_sector
      <4>1. Accept(Write(ThisSector, None)) /\ UNCHANGED <<call, irq_received>>
        BY <3>3 DEF write_one_sector, Write, ThisSector
      <4> QED BY <1>1, <2>1, <2>2, <3>3, <4>1, CommandKeeps DEF write_one_sector
    <3>4. CASE WriteData
      BY <1>1, <2>1, <2>2, <3>4, WriteDataKeeps
    <3> QED BY <2>2, <3>1, <3>2, <3>3, <3>4 DEF Commands
  <2>3. CASE Waits /\ UNCHANGED <<age, pit>>
    BY <1>1, <2>1, <2>3, WaitsKeep
  <2>4. CASE (IrqDelay /\ UNCHANGED <<hasty, age>>) \/ Delaying \/ Ticks
    BY <1>1, <2>1, <2>4, TimeKeeps
  <2>5. CASE Moves /\ UNCHANGED <<timeout, hasty, age, pit>>
    <3>1. CASE Start
      BY <1>1, <2>1, <2>5, <3>1, StartKeeps
    <3>2. CASE WriteError
      <4>1. /\ pc = "poll" /\ status = "err" /\ SectorDone(call)
            /\ UNCHANGED <<irq_received, device>>
        BY <3>2 DEF WriteError
      <4>2. call.kind = "write" /\ at = "out" /\ timeout = Timeout /\ irq_received \in BOOLEAN
        BY <4>1, TheCall DEF DeviceInv, AtaTypeOK, Identifying, Reading, Waiting
      <4> QED BY <1>1, <2>1, <2>5, <4>1, <4>2, WriteSectorKeeps
    <3>3. CASE ReadData
      BY <1>1, <2>1, <2>5, <3>3, ReadDataKeeps
    <3>4. CASE Identified
      BY <1>1, <2>1, <2>5, <3>4, IdentifiedKeeps
    <3>5. CASE Device \/ DeviceFails \/ primary_ata_handler
      BY <1>1, <2>1, <2>5, <3>5, DeviceKeeps
    <3> QED BY <2>5, <3>1, <3>2, <3>3, <3>4, <3>5 DEF Moves
  <2> QED BY <1>3, <2>2, <2>3, <2>4, <2>5 DEF Next
<1> QED BY <1>2, <1>3
-----------------------------------------------------------------------------
(***************************************************************************)
(* A device in time: the wait outlasts its work, so a command, its answer  *)
(* and its interrupt belong to one sector.                                 *)
(***************************************************************************)
LEMMA InTimeNext ==
  ASSUME DeviceInv, GoodDevice, InTime, Next
  PROVE  InTime'
<1>1. /\ AtaTypeOK /\ PitInv /\ Waiting /\ PitInv'
  <2>1. [PitNext]_pit
    BY StepsOfTheTimer
  <2> QED BY <2>1, PitInvIsInductive DEF DeviceInv
<1>2. /\ ticks \in Nat /\ begun \in Nat /\ age \in Nat /\ timeout \in Nat /\ Timeout \in Nat
      /\ Answer \in Nat
  BY <1>1, AtaAssumption DEF PitInv, PitTypeOK, AtaTypeOK
<1> HIDE DEF DeviceInv
<1>3. CASE Commands /\ age' = 0 /\ UNCHANGED <<timeout, hasty, pit>>
  <2>1. pc # "wait"
    BY <1>3 DEF Commands, identify, read_one_sector, write_one_sector, WriteData
  <2>2. timeout' = Timeout /\ at' = "out" /\ age' = 0
    BY <1>1, <1>3, <2>1 DEF Waiting, pit, delaying
  <2> QED BY <1>2, <2>2 DEF InTime
<1>4. CASE Waits /\ UNCHANGED <<age, pit>>
  <2>1. pc' # "wait"
    BY <1>4 DEF Waits, IrqSeen, IrqTimeout, Waited, SectorDone
  <2> QED BY <1>4, <2>1 DEF InTime
<1>5. CASE IrqDelay /\ UNCHANGED <<hasty, age>>
  <2>1. /\ pc = "wait" /\ at = "out" /\ at' = "first" /\ begun' = ticks /\ timeout' = timeout - 1
        /\ UNCHANGED <<pc, status, intrq, ticks, age>>
    BY <1>5 DEF IrqDelay, delay, driver, device
  <2>2. Working' = Working
    BY <2>1 DEF Working
  <2>3. /\ begun' <= ticks'
        /\ Timeout - timeout' - 1 + (ticks' - begun') = Timeout - timeout
    BY <1>2, <2>1
  <2> QED BY <2>1, <2>2, <2>3 DEF InTime
<1>6. CASE Moves /\ UNCHANGED <<timeout, hasty, age, pit>>
  <2>1. UNCHANGED <<timeout, age, at, ticks, begun>>
    BY <1>6 DEF pit, delaying
  <2>2. CASE Start \/ WriteError \/ ReadData \/ Identified
    <3>1. pc' # "wait"
      BY <2>2 DEF Start, WriteError, ReadData, Identified, SectorDone
    <3> QED BY <2>1, <3>1 DEF InTime
  <2>3. CASE Device \/ DeviceFails \/ primary_ata_handler
    <3>1. pc' = pc /\ (Working' => Working)
      BY <2>3 DEF Device, DeviceReads, DeviceAsks, DeviceWrites, DeviceFails, primary_ata_handler,
         Raise, Working, driver
    <3> QED BY <2>1, <3>1 DEF InTime
  <2> QED BY <1>6, <2>2, <2>3 DEF Moves
<1>7. CASE Delaying /\ UNCHANGED hasty
  <2>1. UNCHANGED <<pc, status, intrq, timeout, age, ticks>>
    BY <1>7 DEF Delaying, driver, device, ReadFirst, ReadSecond
  <2>2. Working' = Working
    BY <2>1 DEF Working
  <2>3. CASE at' # "out"
    <3>1. begun' = begun /\ at # "out"
      BY <1>7, <2>3 DEF Delaying, ReadFirst, ReadSecond
    <3> QED BY <2>1, <2>2, <2>3, <3>1 DEF InTime
  <2>4. CASE at' = "out"
    <3>1. Returns /\ PitNext /\ ms = 1 /\ at # "out"
      BY <1>1, <1>7, <2>4 DEF Delaying, ReadFirst, ReadSecond, Returns, PitNext, Waiting
    <3> SUFFICES ASSUME ticks < Word, pc = "wait", Working
                 PROVE  Timeout - timeout <= age
      BY <2>1, <2>2, <2>4 DEF InTime
    <3>2. begun <= ticks /\ Timeout - timeout - 1 + (ticks - begun) <= age
      BY <3>1 DEF InTime
    <3>3. begun + ms <= Word
      BY <1>2, <3>1, <3>2, PitAssumption
    <3>4. ticks - begun >= 1
      BY <1>1, <3>1, <3>3, ReturnIsLate
    <3> QED BY <1>2, <3>2, <3>4
  <2> QED BY <2>3, <2>4
<1>8. CASE Ticks /\ UNCHANGED hasty
  <2>1. /\ ticks' = Tick(ticks) /\ UNCHANGED <<pc, status, intrq, timeout, at, begun>>
        /\ Working => age < Answer /\ age' = age + 1
        /\ ~Working => age' = 0
    BY <1>8 DEF Ticks, onIrq0, delaying, driver, device, GoodDevice
  <2>2. Working' = Working
    BY <2>1 DEF Working
  <2>3. age' <= Answer
    BY <1>2, <2>1
  <2> SUFFICES ASSUME ticks' < Word, pc = "wait", Working
               PROVE  IF at = "out" THEN Timeout - timeout <= age'
                      ELSE begun <= ticks' /\ Timeout - timeout - 1 + (ticks' - begun) <= age'
    BY <2>1, <2>2, <2>3 DEF InTime
  <2>4. ticks' = ticks + 1 /\ ticks < Word
    BY <1>2, <2>1, TickFacts, PitAssumption
  <2>5. age' = age + 1
    BY <2>1
  <2> QED BY <1>2, <2>4, <2>5 DEF InTime
<1> QED BY <1>3, <1>4, <1>5, <1>6, <1>7, <1>8 DEF Next

\* While the counter is in its low word, it has been there.
LEMMA StillInLowWord ==
  ASSUME DeviceInv, Next, ticks' < Word
  PROVE  ticks < Word
<1>1. ticks \in Nat
  BY DEF DeviceInv, PitInv, PitTypeOK
<1>2. CASE onIrq0
  BY <1>1, <1>2, TickFacts, PitAssumption DEF onIrq0
<1>3. CASE UNCHANGED ticks
  BY <1>3
<1>4. onIrq0 \/ UNCHANGED ticks
  BY DEF Next, IrqDelay, delay, Delaying, ReadFirst, ReadSecond, Ticks, pit
<1> QED BY <1>2, <1>3, <1>4

\* The driver gives the device a command, which is idle or has asked for data.
LEMMA CommandsInStep ==
  ASSUME DeviceInv, InStep, WrittenSoFar, Commands
  PROVE  InStep' /\ WrittenSoFar'
<1>1. UNCHANGED <<call, irq_received, intrq, disk>> /\ status' = "busy"
  <2>1. CASE WriteData
    BY <2>1 DEF WriteData
  <2>2. CASE identify \/ read_one_sector \/ write_one_sector
    BY <2>2 DEF identify, read_one_sector, write_one_sector, InStep, Quiet, Accept
  <2> QED BY <2>1, <2>2 DEF Commands
<1>2. WrittenSoFar' /\ ThisSector' = ThisSector
  BY <1>1 DEF WrittenSoFar, ThisSector
<1>3. CASE identify \/ read_one_sector
  <2>1. /\ pc' = "wait" /\ call.kind # "write" /\ command'.kind # "write" /\ ~intrq /\ ~irq_received
    BY <1>3, CommandFacts DEF identify, read_one_sector, Accept, InStep, Quiet
  <2> QED BY <1>1, <1>2, <2>1 DEF InStep, AtWork
<1>4. CASE write_one_sector
  <2>1. /\ pc' = "poll" /\ command' = Write(ThisSector, None) /\ ~intrq /\ ~irq_received
    BY <1>4 DEF write_one_sector, Accept, InStep, Quiet, Write, ThisSector
  <2> QED BY <1>1, <1>2, <2>1 DEF InStep
<1>5. CASE WriteData
  <2>1. /\ call.kind = "write" /\ pc' = "wait" /\ ~intrq /\ ~irq_received
        /\ command' = Write(ThisSector, call.buffer[call.done + 1])
    BY <1>5, WriteDataGives DEF WriteData, InStep
  <2> QED BY <1>1, <1>2, <2>1 DEF InStep, AtWork
<1> QED BY <1>3, <1>4, <1>5 DEF Commands

\* A wait ends with the answer of its sector, for it outlasts the device.
LEMMA WaitsInStep ==
  ASSUME DeviceInv, InTime, ticks < Word, InStep, WrittenSoFar, Waits
  PROVE  InStep' /\ WrittenSoFar'
<1>1. /\ pc = "wait" /\ at = "out" /\ UNCHANGED device /\ Waited
  BY DEF Waits, IrqSeen, IrqTimeout
<1>2. IrqSeen
  <2> SUFFICES ASSUME IrqTimeout PROVE FALSE
    BY DEF Waits
  <2>1. ~irq_received /\ timeout = 1
    BY DEF IrqTimeout
  <2>2. Working
    <3>1. irq_received \in BOOLEAN /\ intrq \in BOOLEAN
      BY DEF DeviceInv, AtaTypeOK
    <3>2. status = "busy" \/ intrq # irq_received
      BY <1>1 DEF InStep, AtWork, Answered
    <3> QED BY <2>1, <3>1, <3>2 DEF Working
  <2>3. Timeout - 1 <= age /\ age <= Answer
    BY <1>1, <2>1, <2>2 DEF InTime
  <2>4. age \in Nat
    BY DEF DeviceInv, AtaTypeOK
  <2> QED BY <2>3, <2>4, AtaAssumption
<1>3. irq_received /\ irq_received' = FALSE
  BY <1>2 DEF IrqSeen
<1>4. UNCHANGED <<status, command, intrq, disk>>
  BY <1>1 DEF device
<1>5. CASE call.kind # "write"
  <2>1. /\ pc' = "data" /\ call' = call /\ status' = "drq" /\ ~intrq'
    BY <1>1, <1>3, <1>4, <1>5 DEF Waited, InStep, AtWork, Answered
  <2> QED BY <1>3, <1>4, <1>5, <2>1 DEF InStep, WrittenSoFar
<1>6. CASE call.kind = "write"
  <2>1. /\ status = "ready" /\ ~intrq /\ command = NoCommand
        /\ disk[ThisSector] = call.buffer[call.done + 1]
    BY <1>1, <1>3, <1>6 DEF InStep, AtWork, Answered, DeviceInv, OfThisSector
  <2>2. call \in Transfers /\ call.done < call.sectors /\ call.done \in Nat /\ call.lba \in Nat
    BY <1>1, <1>6, TheSector, CallFacts, AtaAssumption
  <2>3. /\ call'.kind = "write" /\ call'.lba = call.lba /\ call'.buffer = call.buffer
        /\ call'.done = call.done + 1 /\ pc' \in {"sector", "idle"}
    BY <1>1, <1>6, <2>2, SameBufferFacts DEF Waited, SectorDone
  <2>4. InStep'
    BY <1>3, <1>4, <2>1, <2>3 DEF InStep, Quiet
  <2>5. WrittenSoFar'
    <3> SUFFICES ASSUME NEW i \in 1..(call.done + 1)
                 PROVE  disk[call.lba + i - 1] = call.buffer[i]
      BY <1>4, <2>3 DEF WrittenSoFar
    <3>1. CASE i \in 1..call.done
      BY <1>6, <3>1 DEF WrittenSoFar
    <3>2. CASE i = call.done + 1
      <4>1. call.lba + i - 1 = ThisSector
        BY <2>2, <3>2 DEF ThisSector
      <4> QED BY <2>1, <3>2, <4>1
    <3> QED BY <2>2, <3>1, <3>2
  <2> QED BY <2>4, <2>5
<1> QED BY <1>5, <1>6

\* The driver begins a call, or takes data that it has been interrupted for.
LEMMA MovesInStep ==
  ASSUME DeviceInv, InStep, WrittenSoFar, Start \/ WriteError \/ ReadData \/ Identified
  PROVE  InStep' /\ WrittenSoFar'
<1>1. CASE Start
  <2>1. /\ UNCHANGED <<irq_received, status, command, intrq>> /\ pc' = "sector" /\ Quiet
    BY <1>1 DEF Start, Returned, device, InStep
  <2>2. call'.done = 0
    <3>1. PICK c \in Calls : call' = c
      BY <1>1 DEF Start
    <3> QED BY <3>1 DEF Calls
  <2> QED BY <2>1, <2>2 DEF InStep, Quiet, WrittenSoFar
<1>2. CASE WriteError
  BY <1>2 DEF WriteError, InStep
<1>3. CASE ReadData
  <2>1. /\ status' = "ready" /\ command' = NoCommand /\ pc' \in {"sector", "idle"}
        /\ ~intrq' /\ ~irq_received'
    BY <1>3 DEF ReadData, SectorDone, InStep
  <2>2. call'.kind # "write"
    <3>1. call \in Transfers /\ call.kind = "read" /\ ThisSector \in Lba
      BY <1>3, TheSector DEF ReadData
    <3>2. call' = [[call EXCEPT !.buffer = Append(@, disk[command.lba])] EXCEPT !.done = @ + 1]
      BY <1>3 DEF ReadData, SectorDone
    <3> QED BY <3>1, <3>2 DEF Transfers
  <2> QED BY <2>1, <2>2 DEF InStep, Quiet, WrittenSoFar
<1>4. CASE Identified
  <2>1. /\ status = "drq" /\ ~intrq /\ ~irq_received
    BY <1>4 DEF Identified, InStep
  <2>2. /\ status' = "ready" /\ command' = NoCommand /\ SectorDone(call)
        /\ ~intrq' /\ ~irq_received'
    BY <1>4, <2>1 DEF Identified
  <2>3. call' = [call EXCEPT !.done = @ + 1] /\ call.kind = "identify"
    BY <1>4, <2>2 DEF Identified, SectorDone
  <2>4. call'.kind # "write"
    <3>1. call \in {Identifies(0), Identifies(1)}
      BY <2>3, TheCall DEF DeviceInv
    <3> QED BY <2>3, <3>1 DEF Identifies
  <2>5. pc' \in {"sector", "idle"}
    BY <2>2 DEF SectorDone
  <2> QED BY <2>2, <2>4, <2>5 DEF InStep, Quiet, WrittenSoFar
<1> QED BY <1>1, <1>2, <1>3, <1>4

\* The device answers, asks or writes for the sector that the driver is at.
LEMMA DeviceInStep ==
  ASSUME DeviceInv, GoodDevice, InStep, WrittenSoFar, Device \/ DeviceFails \/ primary_ata_handler
  PROVE  InStep' /\ WrittenSoFar'
<1>1. UNCHANGED <<pc, call>> /\ ThisSector' = ThisSector
  BY DEF Device, DeviceReads, DeviceAsks, DeviceWrites, DeviceFails, primary_ata_handler, driver,
     ThisSector
<1>2. call.kind = "write" /\ pc \in {"poll", "wait"} =>
        ThisSector \in Lba /\ call.buffer[call.done + 1] \in Value
  BY TheSector
<1>3. pc = "poll" => command.kind = "write" /\ command.data = None
  <2>1. pc = "poll" => call.kind = "write"
    BY TheCall DEF DeviceInv, Identifying, Reading
  <2> QED BY <1>2, <2>1, CommandFacts DEF InStep
<1>4. pc = "wait" /\ call.kind = "write" /\ status = "busy" =>
        /\ AtWork /\ command = Write(ThisSector, call.buffer[call.done + 1])
        /\ command.kind = "write" /\ command.lba = ThisSector
        /\ command.data = call.buffer[call.done + 1] /\ command.data # None
  BY <1>2, CommandFacts, AtaAssumption DEF InStep
<1>5. CASE DeviceReads
  <2>1. /\ status = "busy" /\ command.kind # "write" /\ status' = "drq" /\ intrq'
        /\ UNCHANGED <<irq_received, command, disk>>
    BY <1>5 DEF DeviceReads, Raise
  <2>2. pc \in {"idle", "sector", "poll", "data"} => FALSE
    BY <1>3, <2>1 DEF InStep, Quiet
  <2>3. pc = "wait" => call.kind # "write" /\ ~irq_received
    BY <1>4, <2>1 DEF InStep, AtWork
  <2>4. WrittenSoFar'
    BY <1>1, <2>1 DEF WrittenSoFar
  <2>5. InStep'
    BY <1>1, <2>1, <2>2, <2>3 DEF InStep, Answered
  <2> QED BY <2>4, <2>5
<1>6. CASE DeviceAsks
  <2>1. /\ status = "busy" /\ command.kind = "write" /\ command.data = None /\ status' = "drq"
        /\ UNCHANGED <<irq_received, intrq, command, disk>>
    BY <1>6 DEF DeviceAsks
  <2>2. pc \in {"idle", "sector", "wait", "data"} => FALSE
    BY <1>4, <2>1 DEF InStep, Quiet, AtWork
  <2>3. WrittenSoFar'
    BY <1>1, <2>1 DEF WrittenSoFar
  <2>4. InStep'
    BY <1>1, <2>1, <2>2 DEF InStep
  <2> QED BY <2>3, <2>4
<1>7. CASE DeviceWrites
  <2>1. /\ status = "busy" /\ command.kind = "write" /\ command.data # None
        /\ disk' = [disk EXCEPT ![command.lba] = command.data]
        /\ status' = "ready" /\ intrq' /\ UNCHANGED irq_received
    BY <1>7 DEF DeviceWrites, Raise
  <2>2. pc \in {"idle", "sector", "poll", "data"} => FALSE
    BY <1>3, <2>1 DEF InStep, Quiet
  <2>3. pc = "wait" => call.kind = "write"
    BY <2>1 DEF InStep, AtWork
  <2>4. CASE pc = "wait"
    <3>1. /\ call.kind = "write" /\ command.lba = ThisSector
          /\ command.data = call.buffer[call.done + 1] /\ ~irq_received
      BY <1>4, <2>1, <2>3, <2>4 DEF AtWork
    <3>2. ThisSector \in Lba /\ disk \in [Lba -> Value]
      BY <1>2, <2>4, <3>1 DEF DeviceInv, AtaTypeOK
    <3>3. disk'[ThisSector] = call.buffer[call.done + 1]
      BY <2>1, <3>1, <3>2
    <3>4. InStep'
      BY <1>1, <2>1, <2>4, <3>1, <3>3 DEF InStep, Answered
    <3>5. WrittenSoFar'
      <4>1. call.done \in Nat /\ call.lba \in Nat /\ OnDisk(call) /\ call.done < call.sectors
            /\ call.sectors \in Nat
        BY <2>4, <3>1, TheSector, CallFacts, AtaAssumption DEF DeviceInv, InCall
      <4> SUFFICES ASSUME NEW i \in 1..call.done
                   PROVE  disk'[call.lba + i - 1] = call.buffer[i]
        BY <1>1 DEF WrittenSoFar
      <4>2. call.lba + i - 1 # ThisSector /\ i - 1 \in 0..(call.sectors - 1)
            /\ call.lba + i - 1 = call.lba + (i - 1)
        BY <4>1 DEF ThisSector
      <4>3. call.lba + i - 1 \in Lba
        BY <4>1, <4>2 DEF OnDisk
      <4>4. disk'[call.lba + i - 1] = disk[call.lba + i - 1]
        BY <2>1, <3>1, <3>2, <4>2, <4>3
      <4> QED BY <3>1, <4>4 DEF WrittenSoFar
    <3> QED BY <3>4, <3>5
  <2>5. CASE pc # "wait"
    <3>1. call.kind # "write"
      BY <2>2, <2>5 DEF DeviceInv, Writing
    <3> QED BY <1>1, <2>2, <2>5, <3>1 DEF InStep, WrittenSoFar
  <2> QED BY <2>4, <2>5
<1>8. CASE DeviceFails
  BY <1>8 DEF DeviceFails, GoodDevice
<1>9. CASE primary_ata_handler
  <2>1. /\ intrq /\ intrq' = FALSE /\ irq_received' = TRUE
        /\ UNCHANGED <<status, command, disk>>
    BY <1>9 DEF primary_ata_handler
  <2>2. pc \in {"idle", "sector", "poll", "data"} => FALSE
    BY <2>1 DEF InStep, Quiet
  <2>3. InStep'
    BY <1>1, <2>1, <2>2 DEF InStep, AtWork, Answered
  <2>4. WrittenSoFar'
    BY <1>1, <2>1 DEF WrittenSoFar
  <2> QED BY <2>3, <2>4
<1> QED BY <1>5, <1>6, <1>7, <1>8, <1>9 DEF Device

LEMMA GoodNext ==
  ASSUME DeviceInv, GoodInv, [Next]_vars
  PROVE  GoodInv'
<1>1. CASE UNCHANGED vars
  <2>1. UNCHANGED <<pc, call, irq_received, status, command, intrq, disk, timeout, age, late, faulty,
                    at, ticks, begun>>
    BY <1>1 DEF vars, moving, driver, device, temper, pit, delaying
  <2> QED BY <2>1 DEF GoodInv, GoodDevice, InTime, Working, InStep, Quiet, AtWork, Answered,
             ThisSector, WrittenSoFar
<1>2. CASE Next
  <2>1. UNCHANGED <<late, faulty>>
    BY <1>2 DEF Next, temper
  <2> SUFFICES ASSUME GoodDevice
               PROVE  InTime' /\ (ticks' < Word => InStep' /\ WrittenSoFar')
    BY <2>1 DEF GoodInv, GoodDevice
  <2>2. InTime /\ InTime'
    BY <1>2, InTimeNext DEF GoodInv
  <2> SUFFICES ASSUME ticks' < Word PROVE InStep' /\ WrittenSoFar'
    BY <2>2
  <2>3. ticks < Word
    BY <1>2, StillInLowWord
  <2>4. InStep /\ WrittenSoFar
    BY <2>3 DEF GoodInv
  <2> HIDE DEF DeviceInv, GoodInv
  <2>5. CASE IrqDelay \/ Delaying \/ Ticks
    <3>1. UNCHANGED <<pc, call, irq_received, status, command, intrq, disk>>
      BY <2>5 DEF IrqDelay, Delaying, Ticks, driver, device
    <3> QED BY <2>4, <3>1 DEF InStep, Quiet, AtWork, Answered, ThisSector, WrittenSoFar
  <2>6. Commands \/ Waits \/ IrqDelay \/ Moves \/ Delaying \/ Ticks
    BY <1>2 DEF Next
  <2> QED BY <2>2, <2>3, <2>4, <2>5, <2>6, CommandsInStep, WaitsInStep, MovesInStep, DeviceInStep
          DEF Moves
<1> QED BY <1>1, <1>2

(***************************************************************************)
(* For every disk, every number of sectors, every timeout and every device *)
(* that answers within it: read_sector and write_sector (ata.cpp) return   *)
(* true only when the sectors and the buffer hold the same.  For reads     *)
(* the device may also be late, or end commands with errors, for what a    *)
(* read returns belongs to the command that the device still has.          *)
(***************************************************************************)
THEOREM CallsKeepTheirWord == Spec => []CallsDoWhatTheyReturn
<1>1. DeviceInv /\ GoodInv => CallsDoWhatTheyReturn
  <2> SUFFICES ASSUME DeviceInv, GoodInv PROVE CallsDoWhatTheyReturn
    OBVIOUS
  <2>1. ReadsReturnTheDisk
    <3> SUFFICES ASSUME Returned, call.kind = "read" PROVE Agree(call)
      BY DEF ReadsReturnTheDisk
    <3>1. call.done = call.sectors
      BY DEF Returned
    <3> QED BY <3>1 DEF DeviceInv, ReadSoFar, Agree
  <2>2. WritesAreOnTheDisk
    <3> SUFFICES ASSUME GoodDevice, ticks < Word, Returned, call.kind = "write" PROVE Agree(call)
      BY DEF WritesAreOnTheDisk
    <3>1. call.done = call.sectors
      BY DEF Returned
    <3> QED BY <3>1 DEF GoodInv, WrittenSoFar, Agree
  <2> QED BY <2>1, <2>2 DEF CallsDoWhatTheyReturn
<1>2. Init => DeviceInv /\ GoodInv
  BY InitDevice
<1>3. DeviceInv /\ GoodInv /\ [Next]_vars => DeviceInv' /\ GoodInv'
  BY DeviceNext, GoodNext
<1> QED BY <1>1, <1>2, <1>3, PTL DEF Spec

-----------------------------------------------------------------------------
(***************************************************************************)
(* Functions on numbers that go on alike.                                  *)
(***************************************************************************)
LEMMA LeastNumber ==
  ASSUME NEW S \in SUBSET Nat, S # {}
  PROVE  \E x \in S : \A y \in S : x <= y
<1> DEFINE R == OpToRel(<, Nat)
<1>1. \A x, y \in Nat : x < y => <<x, y>> \in R
  BY DEF OpToRel
<1>2. IsWellFoundedOn(R, Nat)
  BY NatLessThanWellFounded
<1> HIDE DEF R
<1>3. PICK x \in S : \A y \in S : ~ (<<y, x>> \in R)
  BY <1>2, WFMin
<1>4. ASSUME NEW y \in S PROVE x <= y
  <2>1. x \in Nat /\ y \in Nat
    OBVIOUS
  <2>2. ~ (y < x)
    BY <1>1, <1>3, <2>1
  <2> QED BY <2>1, <2>2
<1> QED BY <1>4

\* Two functions on numbers that begin with the same value and go on alike.
OnNumbers(f, from, to) == f = [k \in from..to |-> f[k]]
Alike(f, g, from, to) == /\ f[from] = g[from]
                         /\ \A k \in from..(to - 1) : f[k] = g[k] => f[k + 1] = g[k + 1]

LEMMA SameFunction ==
  ASSUME NEW from \in Nat, NEW to \in Nat, NEW f, NEW g,
         OnNumbers(f, from, to), OnNumbers(g, from, to), Alike(f, g, from, to)
  PROVE  f = g
<1> DEFINE S == {k \in from..to : f[k] # g[k]}
<1>0. \A k \in from..(to - 1) : f[k] = g[k] => f[k + 1] = g[k + 1]
  BY DEF Alike
<1>1. S = {}
  <2> SUFFICES ASSUME S # {} PROVE FALSE
    OBVIOUS
  <2>1. S \in SUBSET Nat
    OBVIOUS
  <2>2. PICK x \in S : \A y \in S : x <= y
    <3> HIDE DEF S
    <3> QED BY <2>1, LeastNumber
  <2>3. x \in from..to /\ f[x] # g[x]
    OBVIOUS
  <2>4. x # from
    BY <2>3 DEF Alike
  <2>5. x - 1 \in from..(to - 1) /\ x - 1 \in from..to /\ (x - 1) + 1 = x /\ ~ (x <= x - 1)
    BY ONLY from \in Nat, to \in Nat, <2>3, <2>4
  <2>6. x - 1 \notin S
    <3> HIDE DEF S
    <3> QED BY ONLY <2>2, <2>5
  <2>7. f[x - 1] = g[x - 1]
    BY <2>5, <2>6
  <2>8. f[x] = g[x]
    BY ONLY <1>0, <2>5, <2>7
  <2> QED BY <2>3, <2>8
<1>2. \A k \in from..to : f[k] = g[k]
  BY <1>1
<1>3. f = [k \in from..to |-> f[k]] /\ g = [k \in from..to |-> g[k]]
  BY DEF OnNumbers
<1> QED BY ONLY <1>2, <1>3

-----------------------------------------------------------------------------
(***************************************************************************)
(* The calendar in closed form.                                            *)
(***************************************************************************)
YearStart(y) ==
  (y - 1970) * 365 + (y - 1969) \div 4 - (y - 1901) \div 100 + (y - 1601) \div 400

LEMMA LeapYears ==
  ASSUME NEW y \in Years
  PROVE  /\ Leap(y) <=> \E n \in 0..25 : y = 1968 + 4 * n
         /\ YearStart(y + 1) = YearStart(y) + IF Leap(y) THEN 366 ELSE 365
<1>1. y \in Int /\ y >= 1970 /\ y <= 2069
  BY DEF Years
<1>2. y % 4 = 0 <=> \E n \in 0..25 : y = 1968 + 4 * n
  <2>1. ASSUME y % 4 = 0 PROVE \E n \in 0..25 : y = 1968 + 4 * n
    <3> DEFINE n == (y - 1968) \div 4
    <3>1. n \in 0..25 /\ y = 1968 + 4 * n
      BY <1>1, <2>1
    <3> QED BY <3>1
  <2>2. ASSUME NEW n \in 0..25, y = 1968 + 4 * n PROVE y % 4 = 0
    BY <2>2
  <2> QED BY <2>1, <2>2
<1>3. y % 100 # 0 \/ y % 400 = 0
  BY <1>1
<1>4. (y - 1968) \div 4 = (y - 1969) \div 4 + IF y % 4 = 0 THEN 1 ELSE 0
  BY <1>1
<1>5. (y - 1900) \div 100 - (y - 1600) \div 400 = (y - 1901) \div 100 - (y - 1601) \div 400
  BY <1>1
<1>6. (y + 1) - 1969 = y - 1968 /\ (y + 1) - 1901 = y - 1900 /\ (y + 1) - 1601 = y - 1600
      /\ ((y + 1) - 1970) * 365 = (y - 1970) * 365 + 365
  BY <1>1
<1>7. Leap(y) <=> y % 4 = 0
  BY <1>3 DEF Leap
<1>8. YearStart(y + 1) = YearStart(y) + IF y % 4 = 0 THEN 366 ELSE 365
  BY <1>1, <1>4, <1>5, <1>6 DEF YearStart
<1> QED BY <1>2, <1>7, <1>8

LEMMA YearStarts ==
  /\ YearStart(1970) = 0
  /\ \A y \in 1970..2070 : YearStart(y) \in Nat
<1>1. YearStart(1970) = 0
  BY DEF YearStart
<1>2. ASSUME NEW y \in 1970..2070 PROVE YearStart(y) \in Nat
  BY DEF YearStart
<1> QED BY <1>1, <1>2

\* DaysBefore with the end of the year.
FirstDay == <<0, 31, 59, 90, 120, 151, 181, 212, 243, 273, 304, 334, 365>>
MonthStart(m, y) == FirstDay[m] + LeapDay(m, y)

LEMMA FirstDays ==
  /\ \A m \in 1..13 : FirstDay[m] \in 0..365
  /\ \A m \in 1..12 : /\ FirstDay[m + 1] = FirstDay[m] + DaysInMonth[m]
                      /\ DaysBefore[m] = FirstDay[m] /\ DaysInMonth[m] \in 28..31
                      /\ FirstDay[m] <= 334
  /\ FirstDay[1] = 0 /\ FirstDay[13] = 365 /\ DaysInMonth[2] = 28
<1>1. ASSUME NEW m \in 1..13 PROVE FirstDay[m] \in 0..365
  <2>1. m = 1 \/ m = 2 \/ m = 3 \/ m = 4 \/ m = 5 \/ m = 6 \/ m = 7 \/ m = 8 \/ m = 9
        \/ m = 10 \/ m = 11 \/ m = 12 \/ m = 13
    OBVIOUS
  <2> QED BY <2>1 DEF FirstDay
<1>2. ASSUME NEW m \in 1..12
      PROVE  /\ FirstDay[m + 1] = FirstDay[m] + DaysInMonth[m]
             /\ DaysBefore[m] = FirstDay[m] /\ DaysInMonth[m] \in 28..31
             /\ FirstDay[m] <= 334
  <2>1. m = 1 \/ m = 2 \/ m = 3 \/ m = 4 \/ m = 5 \/ m = 6 \/ m = 7 \/ m = 8 \/ m = 9
        \/ m = 10 \/ m = 11 \/ m = 12
    OBVIOUS
  <2> QED BY <2>1 DEF FirstDay, DaysInMonth, DaysBefore
<1>3. FirstDay[1] = 0 /\ FirstDay[13] = 365 /\ DaysInMonth[2] = 28
  BY DEF FirstDay, DaysInMonth
<1> QED BY <1>1, <1>2, <1>3

LEMMA Months ==
  ASSUME NEW y \in Years
  PROVE  /\ MonthStart(1, y) = 0
         /\ MonthStart(13, y) = IF Leap(y) THEN 366 ELSE 365
         /\ \A m \in 1..12 :
              /\ LengthOf(m, y) = DaysInMonth[m] + IF Leap(y) /\ m = 2 THEN 1 ELSE 0
              /\ LengthOf(m, y) \in 28..31
              /\ MonthStart(m + 1, y) = MonthStart(m, y) + LengthOf(m, y)
         /\ \A m \in 1..13 : MonthStart(m, y) \in Nat
         /\ \A m \in 1..12 : MonthStart(m, y) <= 335
<1>1. MonthStart(1, y) = 0
  BY FirstDays DEF MonthStart, LeapDay
<1>2. MonthStart(13, y) = IF Leap(y) THEN 366 ELSE 365
  BY FirstDays DEF MonthStart, LeapDay
<1>3. ASSUME NEW m \in 1..12
      PROVE  /\ LengthOf(m, y) = DaysInMonth[m] + IF Leap(y) /\ m = 2 THEN 1 ELSE 0
             /\ LengthOf(m, y) \in 28..31
             /\ MonthStart(m + 1, y) = MonthStart(m, y) + LengthOf(m, y)
  <2>1. FirstDay[m] \in 0..365 /\ DaysInMonth[m] \in 28..31 /\ (m = 2 => DaysInMonth[m] = 28)
        /\ FirstDay[m + 1] = FirstDay[m] + DaysInMonth[m]
    BY FirstDays
  <2>2. LengthOf(m, y) = DaysInMonth[m] + IF Leap(y) /\ m = 2 THEN 1 ELSE 0
    <3>1. LengthOf(m, y) = IF m = 2 /\ Leap(y) THEN 29 ELSE DaysInMonth[m]
      BY LeapYears DEF LengthOf
    <3> QED BY <2>1, <3>1
  <2>3. LeapDay(m + 1, y) = LeapDay(m, y) + IF Leap(y) /\ m = 2 THEN 1 ELSE 0
    BY DEF LeapDay
  <2>4. LeapDay(m, y) \in 0..1
    BY DEF LeapDay
  <2> DEFINE one == IF Leap(y) /\ m = 2 THEN 1 ELSE 0
  <2>5. one \in 0..1 /\ (one = 1 => DaysInMonth[m] = 28)
    BY <2>1
  <2>6. LengthOf(m, y) = DaysInMonth[m] + one /\ LeapDay(m + 1, y) = LeapDay(m, y) + one
    BY <2>2, <2>3
  <2> HIDE DEF one
  <2>7. LengthOf(m, y) \in 28..31
    <3>1. one = 0 \/ one = 1
      BY ONLY <2>5
    <3> QED BY ONLY <2>1, <2>5, <2>6, <3>1
  <2>8. MonthStart(m + 1, y) = MonthStart(m, y) + LengthOf(m, y)
    <3>1. \A a, b \in Int, c, d \in 0..1 : (a + b) + (c + d) = (a + c) + (b + d)
      OBVIOUS
    <3>2. FirstDay[m] \in Int /\ DaysInMonth[m] \in Int
      BY ONLY <2>1
    <3>3. (FirstDay[m] + DaysInMonth[m]) + (LeapDay(m, y) + one)
            = (FirstDay[m] + LeapDay(m, y)) + (DaysInMonth[m] + one)
      BY ONLY <2>4, <2>5, <3>1, <3>2
    <3> QED BY ONLY <2>1, <2>6, <3>3 DEF MonthStart
  <2> QED BY ONLY <2>2, <2>7, <2>8
<1>4. ASSUME NEW m \in 1..13 PROVE MonthStart(m, y) \in Nat
  <2>1. FirstDay[m] \in 0..365
    BY ONLY FirstDays, m \in 1..13
  <2>2. LeapDay(m, y) \in 0..1
    BY DEF LeapDay
  <2> QED BY ONLY <2>1, <2>2 DEF MonthStart
<1>5. ASSUME NEW m \in 1..12 PROVE MonthStart(m, y) <= 335
  <2>1. FirstDay[m] \in 0..365 /\ FirstDay[m] <= 334
    BY FirstDays
  <2> QED BY <2>1 DEF MonthStart, LeapDay
<1> QED BY <1>1, <1>2, <1>3, <1>4, <1>5

-----------------------------------------------------------------------------
(***************************************************************************)
(* What the calendar's and the kernel's counts come to.                    *)
(***************************************************************************)
LEMMA DaysToMonthIs ==
  ASSUME NEW y \in Years, NEW month \in 1..13
  PROVE  DaysToMonth(month, y) = MonthStart(month, y)
<1> DEFINE Is(f) == f = [m \in 1..13 |-> IF m = 1 THEN 0 ELSE f[m - 1] + LengthOf(m - 1, y)]
           g == [m \in 1..13 |-> MonthStart(m, y)]
<1>1. ASSUME NEW m \in 1..13
      PROVE  g[m] = IF m = 1 THEN 0 ELSE g[m - 1] + LengthOf(m - 1, y)
  <2>1. CASE m = 1
    BY <2>1, Months
  <2>2. CASE m # 1
    <3>1. m - 1 \in 1..12 /\ m - 1 \in 1..13 /\ (m - 1) + 1 = m
      BY <2>2
    <3>2. MonthStart((m - 1) + 1, y) = MonthStart(m - 1, y) + LengthOf(m - 1, y)
      BY ONLY y \in Years, <3>1, Months
    <3> QED BY <2>2, <3>1, <3>2
  <2> QED BY <2>1, <2>2
<1>2. Is(g)
  BY <1>1
<1>3. ASSUME NEW f, Is(f) PROVE f = g
  <2>1. f[1] = g[1]
    BY <1>1, <1>3
  <2>2. ASSUME NEW k \in 1..(13 - 1), f[k] = g[k] PROVE f[k + 1] = g[k + 1]
    <3>1. k + 1 \in 1..13 /\ k + 1 # 1 /\ (k + 1) - 1 = k
      OBVIOUS
    <3>2. f[k + 1] = f[k] + LengthOf(k, y)
      BY ONLY <1>3, <3>1
    <3>3. g[k + 1] = g[k] + LengthOf(k, y)
      <4> HIDE DEF g
      <4> QED BY ONLY <1>1, <3>1
    <3> QED BY <2>2, <3>2, <3>3
  <2>3. OnNumbers(f, 1, 13)
    BY <1>3 DEF OnNumbers
  <2>4. OnNumbers(g, 1, 13)
    BY DEF OnNumbers
  <2>5. Alike(f, g, 1, 13)
    BY <2>1, <2>2 DEF Alike
  <2>6. 1 \in Nat /\ 13 \in Nat
    OBVIOUS
  <2> HIDE DEF Is, g
  <2> QED BY ONLY <2>3, <2>4, <2>5, <2>6, SameFunction
<1>4. (CHOOSE f : Is(f)) = g
  <2> HIDE DEF Is, g
  <2> QED BY <1>2, <1>3
<1>5. DaysToMonth(month, y) = (CHOOSE f : Is(f))[month]
  BY DEF DaysToMonth
<1> QED BY <1>4, <1>5

LEMMA MonthTakenIs ==
  ASSUME NEW y \in Years, NEW month \in 1..13
  PROVE  MonthTaken(month, y) = MonthStart(month, y)
<1> DEFINE next(t, m) == t + DaysInMonth[m] + IF Leap(y) /\ m = 2 THEN 1 ELSE 0
           Is(f) == f = [m \in 1..13 |->
                           IF m = 1 THEN 0
                           ELSE f[m - 1] + DaysInMonth[m - 1]
                                + IF Leap(y) /\ m - 1 = 2 THEN 1 ELSE 0]
           g == [m \in 1..13 |-> MonthStart(m, y)]
<1>1. ASSUME NEW m \in 1..13
      PROVE  g[m] = IF m = 1 THEN 0 ELSE next(g[m - 1], m - 1)
  <2>1. CASE m = 1
    BY <2>1, Months
  <2>2. CASE m # 1
    <3>1. m - 1 \in 1..12 /\ m - 1 \in 1..13 /\ (m - 1) + 1 = m
      BY <2>2
    <3>2. /\ MonthStart((m - 1) + 1, y) = MonthStart(m - 1, y) + LengthOf(m - 1, y)
          /\ LengthOf(m - 1, y) = DaysInMonth[m - 1] + IF Leap(y) /\ m - 1 = 2 THEN 1 ELSE 0
          /\ MonthStart(m - 1, y) \in Nat
      BY ONLY y \in Years, <3>1, Months
    <3>3. DaysInMonth[m - 1] \in Nat
      BY <3>1, FirstDays
    <3> QED BY <2>2, <3>1, <3>2, <3>3
  <2> QED BY <2>1, <2>2
<1>2. Is(g)
  <2>1. g = [m \in 1..13 |-> IF m = 1 THEN 0 ELSE next(g[m - 1], m - 1)]
    <3> HIDE DEF next
    <3> QED BY <1>1
  <2> QED BY <2>1
<1>3. ASSUME NEW f, Is(f) PROVE f = g
  <2>0. f = [m \in 1..13 |-> IF m = 1 THEN 0 ELSE next(f[m - 1], m - 1)]
    BY <1>3
  <2> HIDE DEF Is, next
  <2>1. f[1] = g[1]
    BY <1>1, <2>0
  <2>2. ASSUME NEW k \in 1..(13 - 1), f[k] = g[k] PROVE f[k + 1] = g[k + 1]
    <3>1. k + 1 \in 1..13 /\ k + 1 # 1 /\ (k + 1) - 1 = k
      OBVIOUS
    <3>2. f[k + 1] = next(f[k], k)
      BY ONLY <2>0, <3>1
    <3>3. g[k + 1] = next(g[k], k)
      <4> HIDE DEF g
      <4> QED BY ONLY <1>1, <3>1
    <3> QED BY <2>2, <3>2, <3>3
  <2>3. OnNumbers(f, 1, 13)
    BY <2>0 DEF OnNumbers
  <2>4. OnNumbers(g, 1, 13)
    BY DEF OnNumbers
  <2>5. Alike(f, g, 1, 13)
    BY <2>1, <2>2 DEF Alike
  <2>6. 1 \in Nat /\ 13 \in Nat
    OBVIOUS
  <2> HIDE DEF g
  <2> QED BY ONLY <2>3, <2>4, <2>5, <2>6, SameFunction
<1>4. (CHOOSE f : Is(f)) = g
  <2> HIDE DEF Is, g
  <2> QED BY <1>2, <1>3
<1>5. MonthTaken(month, y) = (CHOOSE f : Is(f))[month]
  BY DEF MonthTaken
<1> QED BY <1>4, <1>5

LEMMA DaysToYearIs ==
  ASSUME NEW year \in Years
  PROVE  DaysToYear[year] = YearStart(year)
<1> DEFINE Is(f) == f = [y \in Years |-> IF y = 1970 THEN 0
                                         ELSE f[y - 1] + DaysToMonth(13, y - 1)]
           g == [y \in Years |-> YearStart(y)]
<1>0. Years = 1970..2069
  BY DEF Years
<1>1. ASSUME NEW y \in Years
      PROVE  g[y] = IF y = 1970 THEN 0 ELSE g[y - 1] + DaysToMonth(13, y - 1)
  <2>1. CASE y = 1970
    BY <2>1, YearStarts
  <2>2. CASE y # 1970
    <3>1. y - 1 \in Years /\ (y - 1) + 1 = y
      BY <1>0, <2>2
    <3>2. YearStart((y - 1) + 1) = YearStart(y - 1) + IF Leap(y - 1) THEN 366 ELSE 365
      BY ONLY <3>1, LeapYears
    <3>3. DaysToMonth(13, y - 1) = IF Leap(y - 1) THEN 366 ELSE 365
      <4>1. 13 \in 1..13
        OBVIOUS
      <4>2. DaysToMonth(13, y - 1) = MonthStart(13, y - 1)
        BY ONLY <3>1, <4>1, DaysToMonthIs
      <4> QED BY <3>1, <4>2, Months
    <3> QED BY <2>2, <3>1, <3>2, <3>3
  <2> QED BY <2>1, <2>2
<1>2. Is(g)
  BY <1>1
<1>3. ASSUME NEW f, Is(f) PROVE f = g
  <2>1. f[1970] = g[1970]
    <3>1. 1970 \in Years
      BY <1>0
    <3>2. f[1970] = 0
      BY ONLY <1>3, <3>1
    <3>3. g[1970] = 0
      <4> HIDE DEF g
      <4> QED BY ONLY <1>1, <3>1
    <3> QED BY <3>2, <3>3
  <2>2. ASSUME NEW k \in 1970..(2069 - 1), f[k] = g[k] PROVE f[k + 1] = g[k + 1]
    <3>1. k + 1 \in Years /\ k + 1 # 1970 /\ (k + 1) - 1 = k
      BY <1>0
    <3>2. f[k + 1] = f[k] + DaysToMonth(13, k)
      BY ONLY <1>3, <3>1
    <3>3. g[k + 1] = g[k] + DaysToMonth(13, k)
      <4> HIDE DEF g
      <4> QED BY ONLY <1>1, <3>1
    <3> QED BY <2>2, <3>2, <3>3
  <2>3. OnNumbers(f, 1970, 2069)
    BY <1>0, <1>3 DEF OnNumbers
  <2>4. OnNumbers(g, 1970, 2069)
    BY <1>0 DEF OnNumbers
  <2>5. Alike(f, g, 1970, 2069)
    BY <2>1, <2>2 DEF Alike
  <2>6. 1970 \in Nat /\ 2069 \in Nat
    OBVIOUS
  <2> HIDE DEF Is, g
  <2> QED BY ONLY <2>3, <2>4, <2>5, <2>6, SameFunction
<1>4. (CHOOSE f : Is(f)) = g
  <2> HIDE DEF Is, g
  <2> QED BY <1>2, <1>3
<1>5. DaysToYear = [y \in Years |-> (CHOOSE f : Is(f))[y]]
  BY DEF DaysToYear
<1>6. DaysToYear[year] = g[year]
  <2> DEFINE h == CHOOSE f : Is(f)
  <2> HIDE DEF Is, g
  <2>1. DaysToYear = [y \in Years |-> h[y]]
    BY ONLY <1>5
  <2>2. h = g
    BY ONLY <1>4
  <2> HIDE DEF h
  <2> QED BY <2>1, <2>2
<1> QED BY <1>6

LEMMA YearsTakenIs ==
  ASSUME NEW year \in 1970..2070
  PROVE  YearsTaken[year] = YearStart(year)
<1> DEFINE Is(f) == f = [y \in 1970..2070 |-> IF y = 1970 THEN 0
                                              ELSE f[y - 1] + IF Leap(y - 1) THEN 366 ELSE 365]
           g == [y \in 1970..2070 |-> YearStart(y)]
<1>0. Years = 1970..2069
  BY DEF Years
<1>1. ASSUME NEW y \in 1970..2070
      PROVE  g[y] = IF y = 1970 THEN 0 ELSE g[y - 1] + IF Leap(y - 1) THEN 366 ELSE 365
  <2>1. CASE y = 1970
    BY <2>1, YearStarts
  <2>2. CASE y # 1970
    <3>1. y - 1 \in Years /\ y - 1 \in 1970..2070 /\ (y - 1) + 1 = y
      BY <1>0, <2>2
    <3>2. YearStart((y - 1) + 1) = YearStart(y - 1) + IF Leap(y - 1) THEN 366 ELSE 365
      BY ONLY <3>1, LeapYears
    <3> QED BY <2>2, <3>1, <3>2
  <2> QED BY <2>1, <2>2
<1>2. Is(g)
  BY <1>1
<1>3. ASSUME NEW f, Is(f) PROVE f = g
  <2>1. f[1970] = g[1970]
    <3>1. 1970 \in 1970..2070
      OBVIOUS
    <3> QED BY <1>1, <1>3, <3>1
  <2>2. ASSUME NEW k \in 1970..(2070 - 1), f[k] = g[k] PROVE f[k + 1] = g[k + 1]
    <3>1. k + 1 \in 1970..2070 /\ k + 1 # 1970 /\ (k + 1) - 1 = k
      OBVIOUS
    <3>2. f[k + 1] = f[k] + IF Leap(k) THEN 366 ELSE 365
      BY ONLY <1>3, <3>1
    <3>3. g[k + 1] = g[k] + IF Leap(k) THEN 366 ELSE 365
      <4> HIDE DEF g
      <4> QED BY ONLY <1>1, <3>1
    <3> QED BY <2>2, <3>2, <3>3
  <2>3. OnNumbers(f, 1970, 2070)
    BY <1>3 DEF OnNumbers
  <2>4. OnNumbers(g, 1970, 2070)
    BY DEF OnNumbers
  <2>5. Alike(f, g, 1970, 2070)
    BY <2>1, <2>2 DEF Alike
  <2>6. 1970 \in Nat /\ 2070 \in Nat
    OBVIOUS
  <2> HIDE DEF Is, g
  <2> QED BY ONLY <2>3, <2>4, <2>5, <2>6, SameFunction
<1>4. (CHOOSE f : Is(f)) = g
  <2> HIDE DEF Is, g
  <2> QED BY <1>2, <1>3
<1>5. YearsTaken = [y \in 1970..2070 |-> (CHOOSE f : Is(f))[y]]
  BY DEF YearsTaken
<1>6. YearsTaken[year] = g[year]
  <2> DEFINE h == CHOOSE f : Is(f)
  <2> HIDE DEF Is, g
  <2>1. YearsTaken = [y \in 1970..2070 |-> h[y]]
    BY ONLY <1>5
  <2>2. h = g
    BY ONLY <1>4
  <2> HIDE DEF h
  <2> QED BY <2>1, <2>2
<1> QED BY <1>6

-----------------------------------------------------------------------------
(***************************************************************************)
(* Order in the calendar; a time as the digits of its date.                *)
(***************************************************************************)
LEMMA YearsGoUp ==
  ASSUME NEW y \in 1970..2070, NEW z \in 1970..2070, y <= z
  PROVE  YearStart(y) <= YearStart(z)
<1> DEFINE a(n) == (n - 1969) \div 4
           b(n) == (n - 1901) \div 100
           c(n) == (n - 1601) \div 400
<1>1. a(y) \in Int /\ a(z) \in Int /\ a(y) <= a(z)
  OBVIOUS
<1>2. b(y) \in 0..1 /\ b(z) \in 0..1
  OBVIOUS
<1>3. c(y) \in 0..1 /\ c(z) \in 0..1 /\ c(y) <= c(z)
  OBVIOUS
<1>4. YearStart(y) = (y - 1970) * 365 + a(y) - b(y) + c(y)
      /\ YearStart(z) = (z - 1970) * 365 + a(z) - b(z) + c(z)
  BY DEF YearStart
<1> HIDE DEF a, b, c
<1>5. CASE y = z
  BY <1>5, YearStarts
<1>6. CASE y < z
  BY <1>1, <1>2, <1>3, <1>4, <1>6
<1> QED BY <1>5, <1>6

LEMMA MonthsGoUp ==
  ASSUME NEW y \in Years, NEW m \in 1..13, NEW n \in 1..13, m <= n
  PROVE  MonthStart(m, y) <= MonthStart(n, y)
<1>1. m = 1 \/ m = 2 \/ m = 3 \/ m = 4 \/ m = 5 \/ m = 6 \/ m = 7 \/ m = 8 \/ m = 9
      \/ m = 10 \/ m = 11 \/ m = 12 \/ m = 13
  OBVIOUS
<1>2. n = 1 \/ n = 2 \/ n = 3 \/ n = 4 \/ n = 5 \/ n = 6 \/ n = 7 \/ n = 8 \/ n = 9
      \/ n = 10 \/ n = 11 \/ n = 12 \/ n = 13
  OBVIOUS
<1>3. /\ FirstDay[1] = 0 /\ FirstDay[2] = 31 /\ FirstDay[3] = 59 /\ FirstDay[4] = 90
      /\ FirstDay[5] = 120 /\ FirstDay[6] = 151 /\ FirstDay[7] = 181 /\ FirstDay[8] = 212
      /\ FirstDay[9] = 243 /\ FirstDay[10] = 273 /\ FirstDay[11] = 304 /\ FirstDay[12] = 334
      /\ FirstDay[13] = 365
  BY DEF FirstDay
<1>4. FirstDay[m] <= FirstDay[n]
  BY <1>1, <1>2, <1>3
<1>5. LeapDay(m, y) \in 0..1 /\ LeapDay(n, y) \in 0..1 /\ LeapDay(m, y) <= LeapDay(n, y)
  BY DEF LeapDay
<1>6. FirstDay[m] \in 0..365 /\ FirstDay[n] \in 0..365
  BY ONLY FirstDays, m \in 1..13, n \in 1..13
<1>7. \A i, j \in 0..365, k, l \in 0..1 : i <= j /\ k <= l => i + k <= j + l
  OBVIOUS
<1>8. FirstDay[m] + LeapDay(m, y) <= FirstDay[n] + LeapDay(n, y)
  BY ONLY <1>4, <1>5, <1>6, <1>7
<1> QED BY <1>8 DEF MonthStart

\* Later in the calendar, even of a month that is read before the year is.
LEMMA SameMonthLaterYear ==
  ASSUME NEW y \in Years, y + 1 \in Years, NEW m \in 1..12
  PROVE  YearStart(y) + MonthStart(m, y) <= YearStart(y + 1) + MonthStart(m, y + 1)
<1>1. YearStart(y + 1) = YearStart(y) + IF Leap(y) THEN 366 ELSE 365
  BY LeapYears
<1>2. YearStart(y) \in Nat
  BY YearStarts DEF Years
<1>3. FirstDay[m] \in 0..365
  BY FirstDays
<1>4. LeapDay(m, y) \in 0..1 /\ LeapDay(m, y + 1) \in 0..1
  BY DEF LeapDay
<1>5. YearStart(y + 1) \in Nat /\ YearStart(y + 1) >= YearStart(y) + 365
  BY <1>1, <1>2
<1> QED BY <1>2, <1>3, <1>4, <1>5 DEF MonthStart

-----------------------------------------------------------------------------
(***************************************************************************)
(* Times of a day.                                                         *)
(***************************************************************************)
LEMMA Units ==
  /\ SECONDS \in Nat /\ SECONDS > 0 /\ SECONDS <= 60
  /\ MINUTES \in Nat /\ MINUTES > 0 /\ MINUTES <= 60
  /\ HOURS \in Nat /\ HOURS > 0 /\ HOURS <= 60
BY RtcAssumption

\* A number with one more digit, of u values.
LEMMA Digits ==
  ASSUME NEW u \in Nat, u > 0, NEW a \in Nat, NEW x \in 0..(u - 1)
  PROVE  /\ a * u + x \in Nat
         /\ (a * u + x) \div u = a /\ (a * u + x) % u = x
<1> DEFINE n == a * u + x
           q == n \div u
           m == n % u
<1>1. a * u \in Nat /\ n \in Nat /\ x \in Nat
  OBVIOUS
<1>2. q \in Nat /\ m \in 0..(u - 1) /\ n = q * u + m /\ q * u \in Nat
  <2> HIDE DEF n
  <2>1. q \in Nat /\ m \in 0..(u - 1) /\ n = u * q + m
    BY <1>1
  <2> HIDE DEF q, m
  <2> QED BY <2>1
<1>3. \A i, k \in Nat : i < k => i * u + u <= k * u
  <2>1. ASSUME NEW i \in Nat, NEW k \in Nat, i < k PROVE i * u + u <= k * u
    <3>1. PICK d \in Nat : k = i + 1 + d
      <4>1. k - i - 1 \in Nat /\ k = i + 1 + (k - i - 1)
        BY <2>1
      <4> QED BY <4>1
    <3>2. k * u = i * u + u + d * u /\ d * u \in Nat /\ i * u \in Nat
      BY <3>1
    <3> QED BY <3>2
  <2> QED BY <2>1
<1>4. a * u + x = q * u + m
  BY <1>2
<1> HIDE DEF n, q, m
<1>5. ~ (q < a)
  <2>1. q < a => q * u + u <= a * u
    BY <1>2, <1>3
  <2> QED BY <1>1, <1>2, <1>4, <2>1
<1>6. ~ (a < q)
  <2>1. a < q => a * u + u <= q * u
    BY <1>2, <1>3
  <2> QED BY <1>1, <1>2, <1>4, <2>1
<1>7. q = a
  BY <1>2, <1>5, <1>6
<1>8. m = x
  BY <1>1, <1>2, <1>4, <1>7
<1> QED BY <1>1, <1>7, <1>8 DEF n, q, m

LEMMA Ordered ==
  ASSUME NEW u \in Nat, NEW a \in Int, NEW b \in Int, a <= b
  PROVE  a * u \in Int /\ b * u \in Int /\ a * u <= b * u
<1>1. PICK d \in Nat : b = a + d
  <2>1. b - a \in Nat /\ b = a + (b - a)
    OBVIOUS
  <2> QED BY <2>1
<1>2. b * u = a * u + d * u /\ d * u \in Nat /\ a * u \in Int
  BY <1>1
<1> QED BY <1>2

\* The days, hours, minutes and seconds until the time of a date.
MonthOf(c) == YearStart(c.year) + MonthStart(c.month, c.year)
DaysOf(c) == MonthOf(c) + c.day - 1
HoursOf(c) == DaysOf(c) * HOURS + c.hour
MinutesOf(c) == HoursOf(c) * MINUTES + c.min
SecondsOf(c) == MinutesOf(c) * SECONDS + c.sec

LEMMA DateTypes ==
  ASSUME NEW c \in Dates
  PROVE  /\ c = [sec |-> c.sec, min |-> c.min, hour |-> c.hour,
                 day |-> c.day, month |-> c.month, year |-> c.year]
         /\ c.sec \in 0..(SECONDS - 1) /\ c.min \in 0..(MINUTES - 1) /\ c.hour \in 0..(HOURS - 1)
         /\ c.day \in 1..31 /\ c.month \in 1..12 /\ c.year \in Years
         /\ c.day <= LengthOf(c.month, c.year)
         /\ MonthOf(c) \in Nat /\ DaysOf(c) \in Nat
         /\ HoursOf(c) \in Nat /\ MinutesOf(c) \in Nat /\ SecondsOf(c) \in Nat
<1>1. /\ c = [sec |-> c.sec, min |-> c.min, hour |-> c.hour,
              day |-> c.day, month |-> c.month, year |-> c.year]
      /\ c.sec \in 0..(SECONDS - 1) /\ c.min \in 0..(MINUTES - 1) /\ c.hour \in 0..(HOURS - 1)
      /\ c.day \in 1..31 /\ c.month \in 1..12 /\ c.year \in Years
      /\ c.day <= LengthOf(c.month, c.year)
  BY DEF Dates
<1>2. YearStart(c.year) \in Nat
  <2>1. c.year \in 1970..2070
    BY <1>1 DEF Years
  <2> QED BY <2>1, YearStarts
<1>3. MonthStart(c.month, c.year) \in Nat
  <2>1. c.month \in 1..13
    BY <1>1
  <2> QED BY <1>1, <2>1, Months
<1>4. MonthOf(c) \in Nat
  BY <1>2, <1>3 DEF MonthOf
<1>5. DaysOf(c) \in Nat
  BY <1>1, <1>4 DEF DaysOf
<1>6. HoursOf(c) \in Nat
  BY <1>1, <1>5, Units, Digits DEF HoursOf
<1>7. MinutesOf(c) \in Nat
  BY <1>1, <1>6, Units, Digits DEF MinutesOf
<1>8. SecondsOf(c) \in Nat
  BY <1>1, <1>7, Units, Digits DEF SecondsOf
<1> QED BY <1>1, <1>4, <1>5, <1>6, <1>7, <1>8

LEMMA TimeIs ==
  ASSUME NEW c \in Dates
  PROVE  Time(c) = SecondsOf(c)
<1>1. c.year \in Years /\ c.month \in 1..13 /\ c.day \in 1..31
  <2>1. c.year \in Years /\ c.month \in 1..12 /\ c.day \in 1..31
    BY DateTypes
  <2> QED BY <2>1
<1>2. DaysToYear[c.year] = YearStart(c.year)
      /\ DaysToMonth(c.month, c.year) = MonthStart(c.month, c.year)
  BY <1>1, DaysToYearIs, DaysToMonthIs
<1>3. DaysSince1970(c) = DaysOf(c)
  BY <1>2 DEF DaysSince1970, DaysOf, MonthOf
<1> QED BY <1>3 DEF Time, SecondsOf, MinutesOf, HoursOf

\* A time in seconds has the fields of its date as digits.
LEMMA FieldsOfTime ==
  ASSUME NEW c \in Dates, NEW ts, ts = SecondsOf(c)
  PROVE  /\ ts % SECONDS = c.sec
         /\ (ts \div SECONDS) % MINUTES = c.min
         /\ (ts \div (SECONDS * MINUTES)) % HOURS = c.hour
         /\ ts \div (SECONDS * MINUTES * HOURS) = DaysOf(c)
<1>1. /\ c.sec \in 0..(SECONDS - 1) /\ c.min \in 0..(MINUTES - 1) /\ c.hour \in 0..(HOURS - 1)
      /\ DaysOf(c) \in Nat /\ HoursOf(c) \in Nat /\ MinutesOf(c) \in Nat
  BY DateTypes
<1>2. ts % SECONDS = c.sec /\ ts \div SECONDS = MinutesOf(c)
  <2>1. ts = MinutesOf(c) * SECONDS + c.sec
    BY DEF SecondsOf
  <2> QED BY ONLY <1>1, <2>1, Units, Digits
<1>3. MinutesOf(c) % MINUTES = c.min
  <2>1. MinutesOf(c) = HoursOf(c) * MINUTES + c.min
    BY DEF MinutesOf
  <2>2. (HoursOf(c) * MINUTES + c.min) % MINUTES = c.min
    BY ONLY <1>1, Units, Digits
  <2> QED BY <2>1, <2>2
<1>4. HoursOf(c) % HOURS = c.hour
  <2>1. HoursOf(c) = DaysOf(c) * HOURS + c.hour
    BY DEF HoursOf
  <2>2. (DaysOf(c) * HOURS + c.hour) % HOURS = c.hour
    BY ONLY <1>1, Units, Digits
  <2> QED BY <2>1, <2>2
<1> DEFINE S == SECONDS
           M == MINUTES
           H == HOURS
           h == HoursOf(c)
           d == DaysOf(c)
           x == c.min * S + c.sec
           z == c.hour * (S * M) + x
<1>5. S \in Nat /\ S > 0 /\ M \in Nat /\ M > 0 /\ H \in Nat /\ H > 0 /\ h \in Nat /\ d \in Nat
  BY <1>1, Units
<1>6. ts = (h * M + c.min) * S + c.sec /\ h = d * H + c.hour
  BY DEF SecondsOf, MinutesOf, HoursOf
<1>7. S * M \in Nat /\ S * M > 0 /\ S * M * H \in Nat /\ S * M * H > 0
  <2> HIDE DEF S, M, H, h, d
  <2>1. S * M \in Nat /\ S * M > 0
    BY <1>5
  <2>2. \A n \in Nat : n > 0 => n * H \in Nat /\ n * H > 0
    BY <1>5
  <2> QED BY <2>1, <2>2
<1>8. x \in 0..(S * M - 1)
  <2>1. c.min \in 0..(M - 1) /\ c.sec \in 0..(S - 1)
    BY <1>1
  <2> HIDE DEF S, M, H, h, d
  <2>2. c.min * S \in Int /\ (M - 1) * S \in Int /\ c.min * S <= (M - 1) * S /\ c.min * S >= 0
    BY <1>5, <2>1, Ordered
  <2>3. (M - 1) * S = S * M - S
    BY <1>5
  <2> QED BY <1>5, <1>7, <2>1, <2>2, <2>3
<1>9. ts = h * (S * M) + x
  <2>1. c.min \in Nat /\ c.sec \in Nat
    BY <1>1, Units
  <2> HIDE DEF S, M, H, h, d
  <2>2. (h * M + c.min) * S = h * (S * M) + c.min * S
    BY <1>5, <2>1
  <2> QED BY <1>5, <1>6, <1>7, <2>1, <2>2
<1>10. ts \div (S * M) = h
  <2> HIDE DEF S, M, H, h, d, x
  <2> QED BY ONLY <1>5, <1>7, <1>8, <1>9, Digits
<1>11. z \in 0..(S * M * H - 1)
  <2>1. c.hour \in 0..(H - 1)
    BY <1>1
  <2> DEFINE u == S * M
  <2>0. u \in Nat /\ u > 0 /\ x \in 0..(u - 1) /\ S * M * H = u * H /\ u * H \in Nat
    BY <1>7, <1>8
  <2> HIDE DEF S, M, H, h, d, x, u
  <2>2. c.hour * u \in Int /\ (H - 1) * u \in Int /\ c.hour * u <= (H - 1) * u /\ c.hour * u >= 0
    BY <1>5, <2>0, <2>1, Ordered
  <2>3. (H - 1) * u = u * H - u
    BY <1>5, <2>0
  <2>4. z = c.hour * u + x
    BY DEF u
  <2> HIDE DEF z
  <2> QED BY <1>5, <2>0, <2>1, <2>2, <2>3, <2>4
<1>12. ts = d * (S * M * H) + z
  <2>1. c.hour \in Nat
    BY <1>1, Units
  <2> DEFINE u == S * M
  <2>0. u \in Nat /\ x \in Nat
    BY <1>7, <1>8
  <2>2. ts = (d * H + c.hour) * u + x
    BY <1>6, <1>9
  <2>3. S * M * H = u * H /\ z = c.hour * u + x
    OBVIOUS
  <2> HIDE DEF S, M, H, h, d, x, z, u
  <2>4. (d * H + c.hour) * u = d * (u * H) + c.hour * u
    BY <1>5, <2>0, <2>1
  <2>5. d * (u * H) \in Nat /\ c.hour * u \in Nat
    BY <1>5, <2>0, <2>1
  <2> QED BY <2>0, <2>2, <2>3, <2>4, <2>5
<1>13. ts \div (S * M * H) = d
  <2> HIDE DEF S, M, H, h, d, x, z
  <2> QED BY ONLY <1>5, <1>7, <1>11, <1>12, Digits
<1> QED BY <1>2, <1>3, <1>4, <1>10, <1>13

-----------------------------------------------------------------------------
(***************************************************************************)
(* The date of a time.                                                     *)
(***************************************************************************)
\* The year and the month in which the loops of timestamp_to_string stop.
LEMMA YearIsFound ==
  ASSUME NEW y \in Years, NEW days \in Nat, YearStart(y) <= days, days < YearStart(y + 1)
  PROVE  (CHOOSE z \in Years : YearsTaken[z] <= days /\ days < YearsTaken[z + 1]) = y
<1> DEFINE P(z) == YearsTaken[z] <= days /\ days < YearsTaken[z + 1]
<1>1. \A z \in Years : P(z) <=> YearStart(z) <= days /\ days < YearStart(z + 1)
  <2>1. ASSUME NEW z \in Years
        PROVE  YearsTaken[z] = YearStart(z) /\ YearsTaken[z + 1] = YearStart(z + 1)
    <3>1. z \in 1970..2070 /\ z + 1 \in 1970..2070
      BY DEF Years
    <3> QED BY ONLY <3>1, YearsTakenIs
  <2> QED BY <2>1
<1> HIDE DEF P
<1>2. P(y)
  BY <1>1
<1>3. ASSUME NEW z \in Years, P(z) PROVE z = y
  <2>0. z \in Int /\ y \in Int /\ z \in 1970..2069 /\ y \in 1970..2069
    BY DEF Years
  <2>1. /\ YearStart(z) \in Nat /\ YearStart(z + 1) \in Nat
        /\ YearStart(y) \in Nat /\ YearStart(y + 1) \in Nat
    <3>1. z \in 1970..2070 /\ z + 1 \in 1970..2070 /\ y \in 1970..2070 /\ y + 1 \in 1970..2070
      BY <2>0
    <3> QED BY ONLY <3>1, YearStarts
  <2>2. YearStart(z) <= days /\ days < YearStart(z + 1)
    BY <1>1, <1>3
  <2>3. ~ (z < y)
    <3>1. ASSUME z < y PROVE YearStart(z + 1) <= YearStart(y)
      <4>1. z + 1 \in 1970..2070 /\ y \in 1970..2070 /\ z + 1 <= y
        BY <2>0, <3>1
      <4> QED BY ONLY <4>1, YearsGoUp
    <3> QED BY <2>1, <2>2, <3>1
  <2>4. ~ (y < z)
    <3>1. ASSUME y < z PROVE YearStart(y + 1) <= YearStart(z)
      <4>1. y + 1 \in 1970..2070 /\ z \in 1970..2070 /\ y + 1 <= z
        BY <2>0, <3>1
      <4> QED BY ONLY <4>1, YearsGoUp
    <3> QED BY <2>1, <2>2, <3>1
  <2> QED BY <2>0, <2>3, <2>4
<1>4. (CHOOSE z \in Years : P(z)) = y
  BY <1>2, <1>3
<1> QED BY <1>4 DEF P

LEMMA MonthIsFound ==
  ASSUME NEW y \in Years, NEW m \in 1..12, NEW left \in Nat,
         MonthStart(m, y) <= left, left < MonthStart(m + 1, y)
  PROVE  (CHOOSE n \in 1..12 : MonthTaken(n, y) <= left /\ left < MonthTaken(n + 1, y)) = m
<1> DEFINE P(n) == MonthTaken(n, y) <= left /\ left < MonthTaken(n + 1, y)
<1>1. \A n \in 1..12 : P(n) <=> MonthStart(n, y) <= left /\ left < MonthStart(n + 1, y)
  <2>1. ASSUME NEW n \in 1..12
        PROVE  /\ MonthTaken(n, y) = MonthStart(n, y)
               /\ MonthTaken(n + 1, y) = MonthStart(n + 1, y)
    <3>1. n \in 1..13 /\ n + 1 \in 1..13
      OBVIOUS
    <3> QED BY ONLY y \in Years, <3>1, MonthTakenIs
  <2> QED BY <2>1
<1> HIDE DEF P
<1>2. P(m)
  BY <1>1
<1>3. ASSUME NEW n \in 1..12, P(n) PROVE n = m
  <2>1. /\ MonthStart(n, y) \in Nat /\ MonthStart(n + 1, y) \in Nat
        /\ MonthStart(m, y) \in Nat /\ MonthStart(m + 1, y) \in Nat
    <3>1. n \in 1..13 /\ n + 1 \in 1..13 /\ m \in 1..13 /\ m + 1 \in 1..13
      OBVIOUS
    <3> QED BY ONLY y \in Years, <3>1, Months
  <2>2. MonthStart(n, y) <= left /\ left < MonthStart(n + 1, y)
    BY <1>1, <1>3
  <2>3. ~ (n < m)
    <3>1. ASSUME n < m PROVE MonthStart(n + 1, y) <= MonthStart(m, y)
      <4>1. n + 1 \in 1..13 /\ m \in 1..13 /\ n + 1 <= m
        BY <3>1
      <4> QED BY ONLY y \in Years, <4>1, MonthsGoUp
    <3> QED BY <2>1, <2>2, <3>1
  <2>4. ~ (m < n)
    <3>1. ASSUME m < n PROVE MonthStart(m + 1, y) <= MonthStart(n, y)
      <4>1. m + 1 \in 1..13 /\ n \in 1..13 /\ m + 1 <= n
        BY <3>1
      <4> QED BY ONLY y \in Years, <4>1, MonthsGoUp
    <3> QED BY <2>1, <2>2, <3>1
  <2> QED BY <2>3, <2>4
<1>4. (CHOOSE n \in 1..12 : P(n)) = m
  BY <1>2, <1>3
<1> QED BY <1>4 DEF P

\* What timestamp_to_string makes of the time of a date.
LEMMA DateOfTime ==
  ASSUME NEW c \in Dates
  PROVE  timestamp_to_date(Time(c)) = c
<1> DEFINE ts == Time(c)
           days == ts \div (SECONDS * MINUTES * HOURS)
           year == CHOOSE y \in Years : YearsTaken[y] <= days /\ days < YearsTaken[y + 1]
           left == days - YearsTaken[year]
           month == CHOOSE m \in 1..12 : MonthTaken(m, year) <= left
                                         /\ left < MonthTaken(m + 1, year)
<1>1. ts = SecondsOf(c)
  BY TimeIs
<1>2. /\ c = [sec |-> c.sec, min |-> c.min, hour |-> c.hour,
              day |-> c.day, month |-> c.month, year |-> c.year]
      /\ c.day \in 1..31 /\ c.month \in 1..12 /\ c.year \in Years
      /\ c.day <= LengthOf(c.month, c.year) /\ DaysOf(c) \in Nat
  BY DateTypes
<1>3. /\ ts % SECONDS = c.sec
      /\ (ts \div SECONDS) % MINUTES = c.min
      /\ (ts \div (SECONDS * MINUTES)) % HOURS = c.hour
      /\ days = DaysOf(c)
  <2> HIDE DEF ts
  <2>1. /\ ts % SECONDS = c.sec
        /\ (ts \div SECONDS) % MINUTES = c.min
        /\ (ts \div (SECONDS * MINUTES)) % HOURS = c.hour
        /\ ts \div (SECONDS * MINUTES * HOURS) = DaysOf(c)
    BY ONLY <1>1, c \in Dates, FieldsOfTime
  <2> QED BY <2>1
<1>4. /\ YearStart(c.year) \in Nat /\ YearStart(c.year + 1) \in Nat
      /\ YearsTaken[c.year] = YearStart(c.year)
      /\ YearStart(c.year + 1) = YearStart(c.year) + IF Leap(c.year) THEN 366 ELSE 365
  <2>1. c.year \in 1970..2070 /\ c.year + 1 \in 1970..2070
    BY <1>2 DEF Years
  <2>2. YearStart(c.year) \in Nat /\ YearStart(c.year + 1) \in Nat
    BY ONLY <2>1, YearStarts
  <2>3. YearsTaken[c.year] = YearStart(c.year)
    BY ONLY <2>1, YearsTakenIs
  <2>4. YearStart(c.year + 1) = YearStart(c.year) + IF Leap(c.year) THEN 366 ELSE 365
    BY ONLY <1>2, LeapYears
  <2> QED BY <2>2, <2>3, <2>4
<1> DEFINE start == MonthStart(c.month, c.year)
           next == MonthStart(c.month + 1, c.year)
<1>5. /\ start \in Nat /\ next \in Nat /\ next = start + LengthOf(c.month, c.year)
      /\ LengthOf(c.month, c.year) \in Nat
      /\ next <= MonthStart(13, c.year)
      /\ MonthStart(13, c.year) = IF Leap(c.year) THEN 366 ELSE 365
      /\ MonthTaken(c.month, c.year) = start
  <2>1. c.month \in 1..13 /\ c.month + 1 \in 1..13 /\ 13 \in 1..13 /\ c.month + 1 <= 13
    BY <1>2
  <2>2. start \in Nat /\ next \in Nat
    BY ONLY <1>2, <2>1, Months
  <2>3. next = start + LengthOf(c.month, c.year) /\ LengthOf(c.month, c.year) \in 28..31
    BY ONLY <1>2, Months
  <2>4. next <= MonthStart(13, c.year)
    BY ONLY <1>2, <2>1, MonthsGoUp
  <2>5. MonthStart(13, c.year) = IF Leap(c.year) THEN 366 ELSE 365
    BY ONLY <1>2, Months
  <2>6. MonthTaken(c.month, c.year) = start
    BY ONLY <1>2, <2>1, MonthTakenIs
  <2> QED BY <2>2, <2>3, <2>4, <2>5, <2>6
<1>6. days = YearStart(c.year) + start + c.day - 1 /\ days \in Nat
  BY <1>2, <1>3 DEF DaysOf, MonthOf
<1> HIDE DEF ts, days, start, next
<1>7. YearStart(c.year) <= days /\ days < YearStart(c.year + 1)
  <2>1. days < YearStart(c.year) + next
    BY <1>2, <1>4, <1>5, <1>6
  <2>2. next <= IF Leap(c.year) THEN 366 ELSE 365
    BY <1>5
  <2>3. YearStart(c.year) <= days
    BY <1>2, <1>4, <1>5, <1>6
  <2> QED BY <1>4, <1>5, <1>6, <2>1, <2>2, <2>3
<1>8. year = c.year
  BY ONLY <1>2, <1>6, <1>7, YearIsFound
<1> HIDE DEF year
<1>9. left = start + c.day - 1 /\ left \in Nat /\ start <= left /\ left < next
  BY <1>2, <1>4, <1>5, <1>6, <1>8
<1> HIDE DEF left
<1>10. month = c.month
  <2>1. (CHOOSE m \in 1..12 : MonthTaken(m, c.year) <= left
                              /\ left < MonthTaken(m + 1, c.year)) = c.month
    BY ONLY <1>2, <1>9, MonthIsFound DEF start, next
  <2> QED BY <1>8, <2>1
<1> HIDE DEF month
<1>11. left - MonthTaken(month, year) + 1 = c.day
  BY <1>2, <1>5, <1>8, <1>9, <1>10
<1>12. timestamp_to_date(ts) =
         [sec |-> ts % SECONDS, min |-> (ts \div SECONDS) % MINUTES,
          hour |-> (ts \div (SECONDS * MINUTES)) % HOURS,
          day |-> left - MonthTaken(month, year) + 1, month |-> month, year |-> year]
  BY DEF timestamp_to_date, days, year, left, month
<1>13. timestamp_to_date(ts) = c
  BY ONLY <1>2, <1>3, <1>8, <1>10, <1>11, <1>12
<1> QED BY <1>13 DEF ts

-----------------------------------------------------------------------------
(***************************************************************************)
(* The clock goes on.                                                      *)
(***************************************************************************)
\* What the clock has counted of months, days, hours and minutes.
NotBefore(c, d) ==
  /\ \A m \in 1..12 : YearStart(c.year) + MonthStart(m, c.year)
                        <= YearStart(d.year) + MonthStart(m, d.year)
  /\ MonthOf(c) <= MonthOf(d) /\ DaysOf(c) <= DaysOf(d)
  /\ HoursOf(c) <= HoursOf(d) /\ MinutesOf(c) <= MinutesOf(d)

SameDay(c, d) == d.day = c.day /\ d.month = c.month /\ d.year = c.year

LEMMA StartTypes ==
  ASSUME NEW y \in Years, NEW m \in 1..13
  PROVE  YearStart(y) \in Nat /\ MonthStart(m, y) \in Nat
<1>1. y \in 1970..2070
  BY DEF Years
<1>2. YearStart(y) \in Nat
  BY <1>1, YearStarts
<1> QED BY <1>2, Months

LEMMA NextDayGoesOn ==
  ASSUME NEW c \in Dates, NEW d, d = NextDay([c EXCEPT !.sec = 0, !.min = 0, !.hour = 0]),
         d.year \in Years
  PROVE  /\ d \in Dates /\ d.sec = 0 /\ d.min = 0 /\ d.hour = 0
         /\ DaysOf(d) = DaysOf(c) + 1 /\ MonthOf(c) <= MonthOf(d)
         /\ \A m \in 1..12 : YearStart(c.year) + MonthStart(m, c.year)
                               <= YearStart(d.year) + MonthStart(m, d.year)
         /\ ~ SameDay(c, d)
<1> DEFINE of(day, month, year) ==
             [sec |-> 0, min |-> 0, hour |-> 0, day |-> day, month |-> month, year |-> year]
<1>1. /\ c = [sec |-> c.sec, min |-> c.min, hour |-> c.hour,
              day |-> c.day, month |-> c.month, year |-> c.year]
      /\ c.day \in 1..31 /\ c.month \in 1..12 /\ c.year \in Years
      /\ c.day <= LengthOf(c.month, c.year)
  BY DateTypes
<1>2. [c EXCEPT !.sec = 0, !.min = 0, !.hour = 0] = of(c.day, c.month, c.year)
  <2> DEFINE All == [sec : 0..(SECONDS - 1), min : 0..(MINUTES - 1), hour : 0..(HOURS - 1),
                     day : 1..31, month : 1..12, year : Years]
             e == [c EXCEPT !.sec = 0, !.min = 0, !.hour = 0]
  <2>1. c \in All
    BY DEF Dates
  <2>2. e \in All
    <3>1. 0 \in 0..(SECONDS - 1) /\ 0 \in 0..(MINUTES - 1) /\ 0 \in 0..(HOURS - 1)
      BY Units
    <3> QED BY ONLY <2>1, <3>1
  <2>3. /\ e.sec = 0 /\ e.min = 0 /\ e.hour = 0
        /\ e.day = c.day /\ e.month = c.month /\ e.year = c.year
    BY ONLY <2>1
  <2> HIDE DEF e
  <2>4. e = of(c.day, c.month, c.year)
    BY ONLY <2>2, <2>3
  <2> QED BY <2>4 DEF e
<1>3. d = IF c.day < LengthOf(c.month, c.year) THEN of(c.day + 1, c.month, c.year)
          ELSE IF c.month < 12 THEN of(1, c.month + 1, c.year)
          ELSE of(1, 1, c.year + 1)
  <2>1. d = NextDay(of(c.day, c.month, c.year))
    BY <1>2
  <2> QED BY <2>1 DEF NextDay
<1>4. \A day \in 1..31, month \in 1..12, year \in Years :
        day <= LengthOf(month, year) => of(day, month, year) \in Dates
  BY Units DEF Dates
<1>5. \A m \in 1..12, y \in Years : LengthOf(m, y) \in 28..31
  BY Months
<1> DEFINE y == c.year
           m == c.month
<1>6. /\ YearStart(y) \in Nat /\ MonthStart(m, y) \in Nat
      /\ MonthOf(c) = YearStart(y) + MonthStart(m, y) /\ DaysOf(c) = MonthOf(c) + c.day - 1
  <2>1. m \in 1..13
    BY <1>1
  <2> QED BY <1>1, <2>1, StartTypes DEF MonthOf, DaysOf
<1>7. MonthOf(d) = YearStart(d.year) + MonthStart(d.month, d.year)
      /\ DaysOf(d) = MonthOf(d) + d.day - 1
  BY DEF MonthOf, DaysOf
<1>8. CASE c.day < LengthOf(c.month, c.year)
  <2>1. d = of(c.day + 1, m, y)
    BY <1>3, <1>8
  <2>2. c.day + 1 \in 1..31 /\ c.day + 1 <= LengthOf(m, y)
    BY <1>1, <1>5, <1>8
  <2>3. d \in Dates
    BY <1>1, <1>4, <2>1, <2>2
  <2>4. d.day = c.day + 1 /\ d.month = m /\ d.year = y /\ d.sec = 0 /\ d.min = 0 /\ d.hour = 0
    BY <2>1
  <2>5. MonthOf(d) = MonthOf(c)
    BY <1>6, <1>7, <2>4
  <2>6. \A k \in 1..12 : YearStart(y) + MonthStart(k, y) <= YearStart(d.year) + MonthStart(k, d.year)
    <3>1. ASSUME NEW k \in 1..12
          PROVE  YearStart(y) + MonthStart(k, y) <= YearStart(d.year) + MonthStart(k, d.year)
      <4>1. k \in 1..13
        OBVIOUS
      <4>2. MonthStart(k, y) \in Nat
        BY ONLY <1>1, <4>1, StartTypes
      <4> QED BY <1>6, <2>4, <4>2
    <3> QED BY <3>1
  <2> QED BY <1>1, <1>6, <1>7, <2>3, <2>4, <2>5, <2>6 DEF SameDay
<1>9. CASE ~ (c.day < LengthOf(c.month, c.year)) /\ c.month < 12
  <2>1. d = of(1, m + 1, y)
    BY <1>3, <1>9
  <2>2. m + 1 \in 1..12 /\ 1 \in 1..31
    BY <1>1, <1>9
  <2>3. 1 <= LengthOf(m + 1, y)
    BY <1>1, <1>5, <2>2
  <2>4. d \in Dates
    BY <1>1, <1>4, <2>1, <2>2, <2>3
  <2>5. d.day = 1 /\ d.month = m + 1 /\ d.year = y /\ d.sec = 0 /\ d.min = 0 /\ d.hour = 0
    BY <2>1
  <2>6. MonthStart(m + 1, y) = MonthStart(m, y) + LengthOf(m, y) /\ LengthOf(m, y) \in 28..31
    BY <1>1, Months
  <2>7. c.day = LengthOf(m, y)
    BY <1>1, <1>9, <2>6
  <2>8. MonthOf(d) = MonthOf(c) + c.day /\ DaysOf(d) = DaysOf(c) + 1
    BY <1>1, <1>6, <1>7, <2>5, <2>6, <2>7
  <2>9. \A k \in 1..12 : YearStart(y) + MonthStart(k, y) <= YearStart(d.year) + MonthStart(k, d.year)
    <3>1. ASSUME NEW k \in 1..12
          PROVE  YearStart(y) + MonthStart(k, y) <= YearStart(d.year) + MonthStart(k, d.year)
      <4>1. k \in 1..13
        OBVIOUS
      <4>2. MonthStart(k, y) \in Nat
        BY ONLY <1>1, <4>1, StartTypes
      <4> QED BY <1>6, <2>5, <4>2
    <3> QED BY <3>1
  <2> QED BY <1>1, <1>6, <2>4, <2>5, <2>8, <2>9 DEF SameDay
<1>10. CASE ~ (c.day < LengthOf(c.month, c.year)) /\ ~ (c.month < 12)
  <2>1. d = of(1, 1, y + 1)
    BY <1>3, <1>10
  <2>2. d.day = 1 /\ d.month = 1 /\ d.year = y + 1 /\ d.sec = 0 /\ d.min = 0 /\ d.hour = 0
    BY <2>1
  <2>3. y + 1 \in Years /\ m = 12
    BY <1>1, <1>10, <2>2
  <2>4. d \in Dates
    <3>1. 1 \in 1..31 /\ 1 \in 1..12
      OBVIOUS
    <3>2. 1 <= LengthOf(1, y + 1)
      BY <1>5, <2>3, <3>1
    <3> QED BY <1>4, <2>1, <2>3, <3>1, <3>2
  <2>5. MonthStart(m + 1, y) = MonthStart(m, y) + LengthOf(m, y) /\ LengthOf(m, y) \in 28..31
    BY <1>1, Months
  <2>6. c.day = LengthOf(m, y)
    BY <1>1, <1>10, <2>5
  <2>7. /\ YearStart(y + 1) = YearStart(y) + MonthStart(13, y)
        /\ MonthStart(1, y + 1) = 0
    <3>1. YearStart(y + 1) = YearStart(y) + IF Leap(y) THEN 366 ELSE 365
      BY ONLY <1>1, LeapYears
    <3>2. MonthStart(13, y) = IF Leap(y) THEN 366 ELSE 365
      BY ONLY <1>1, Months
    <3>3. MonthStart(1, y + 1) = 0
      BY ONLY <2>3, Months
    <3> QED BY <3>1, <3>2, <3>3
  <2>8. MonthStart(13, y) = MonthStart(m, y) + c.day
    BY <2>3, <2>5, <2>6
  <2>9. MonthOf(d) = MonthOf(c) + c.day /\ DaysOf(d) = DaysOf(c) + 1
    BY <1>1, <1>6, <1>7, <2>2, <2>7, <2>8
  <2>10. \A k \in 1..12 : YearStart(y) + MonthStart(k, y) <= YearStart(d.year) + MonthStart(k, d.year)
    <3>1. ASSUME NEW k \in 1..12
          PROVE  YearStart(y) + MonthStart(k, y) <= YearStart(d.year) + MonthStart(k, d.year)
      BY <1>1, <2>2, <2>3, SameMonthLaterYear
    <3> QED BY <3>1
  <2>11. y \in Int /\ y + 1 # y
    BY <1>1 DEF Years
  <2> QED BY <1>1, <1>6, <2>2, <2>4, <2>9, <2>10, <2>11 DEF SameDay
<1> QED BY <1>8, <1>9, <1>10

LEMMA DigitsOrdered ==
  ASSUME NEW u \in Nat, u > 0, NEW a \in Int, NEW b \in Int, NEW x \in 0..(u - 1), NEW z \in Nat,
         a < b \/ (a = b /\ x <= z)
  PROVE  a * u + x <= b * u + z
<1>1. CASE a = b /\ x <= z
  <2>1. a * u \in Int
    OBVIOUS
  <2> QED BY <1>1, <2>1
<1>2. CASE a < b
  <2>1. a + 1 \in Int /\ a + 1 <= b
    BY <1>2
  <2>2. (a + 1) * u \in Int /\ b * u \in Int /\ (a + 1) * u <= b * u
    BY <2>1, Ordered
  <2>3. (a + 1) * u = a * u + u /\ a * u \in Int
    OBVIOUS
  <2> QED BY <2>2, <2>3
<1> QED BY <1>1, <1>2

\* The clock goes on.
LEMMA NextSecondGoesOn ==
  ASSUME NEW c \in Dates, NEW d, d = NextSecond(c), d.year \in Years
  PROVE  /\ d \in Dates /\ NotBefore(c, d)
         /\ \/ /\ d.min = c.min /\ d.hour = c.hour /\ SameDay(c, d)
               /\ d.sec = c.sec + 1
            \/ [d EXCEPT !.sec = c.sec] # c
<1>1. /\ c = [sec |-> c.sec, min |-> c.min, hour |-> c.hour,
              day |-> c.day, month |-> c.month, year |-> c.year]
      /\ c.sec \in 0..(SECONDS - 1) /\ c.min \in 0..(MINUTES - 1) /\ c.hour \in 0..(HOURS - 1)
      /\ c.day \in 1..31 /\ c.month \in 1..12 /\ c.year \in Years
      /\ c.day <= LengthOf(c.month, c.year)
      /\ MonthOf(c) \in Nat /\ DaysOf(c) \in Nat
      /\ HoursOf(c) \in Nat /\ MinutesOf(c) \in Nat /\ SecondsOf(c) \in Nat
  BY DateTypes
<1>2. HoursOf(c) = DaysOf(c) * HOURS + c.hour /\ MinutesOf(c) = HoursOf(c) * MINUTES + c.min
      /\ HoursOf(d) = DaysOf(d) * HOURS + d.hour /\ MinutesOf(d) = HoursOf(d) * MINUTES + d.min
  BY DEF HoursOf, MinutesOf
<1>3. ASSUME SameDay(c, d)
      PROVE  /\ MonthOf(d) = MonthOf(c) /\ DaysOf(d) = DaysOf(c)
             /\ \A m \in 1..12 : YearStart(c.year) + MonthStart(m, c.year)
                                   <= YearStart(d.year) + MonthStart(m, d.year)
  <2>1. MonthOf(d) = MonthOf(c) /\ DaysOf(d) = DaysOf(c)
    BY <1>3 DEF SameDay, MonthOf, DaysOf
  <2>2. ASSUME NEW m \in 1..12
        PROVE  YearStart(c.year) + MonthStart(m, c.year)
                 <= YearStart(d.year) + MonthStart(m, d.year)
    <3>1. m \in 1..13
      OBVIOUS
    <3>2. YearStart(c.year) \in Nat /\ MonthStart(m, c.year) \in Nat
      BY ONLY <1>1, <3>1, StartTypes
    <3> QED BY <1>3, <3>2 DEF SameDay
  <2> QED BY <2>1, <2>2
<1>4. CASE c.sec + 1 < SECONDS
  <2>1. d = [sec |-> c.sec + 1, min |-> c.min, hour |-> c.hour,
             day |-> c.day, month |-> c.month, year |-> c.year]
    <3>1. d = [c EXCEPT !.sec = @ + 1]
      BY <1>4 DEF NextSecond
    <3> QED BY <1>1, <3>1
  <2>2. SameDay(c, d) /\ d.hour = c.hour /\ d.min = c.min /\ d.sec = c.sec + 1
    BY <2>1 DEF SameDay
  <2>3. d \in Dates
    <3>1. c.sec + 1 \in 0..(SECONDS - 1)
      BY <1>1, <1>4, Units
    <3> QED BY <1>1, <2>1, <3>1 DEF Dates
  <2>4. DaysOf(d) = DaysOf(c) /\ HoursOf(d) = HoursOf(c) /\ MinutesOf(d) = MinutesOf(c)
    BY <1>2, <1>3, <2>2
  <2>5. NotBefore(c, d)
    BY <1>1, <1>3, <2>2, <2>4 DEF NotBefore
  <2> QED BY <2>2, <2>3, <2>5
<1>5. CASE ~ (c.sec + 1 < SECONDS) /\ c.min + 1 < MINUTES
  <2>1. d = [sec |-> 0, min |-> c.min + 1, hour |-> c.hour,
             day |-> c.day, month |-> c.month, year |-> c.year]
    <3>1. d = [c EXCEPT !.sec = 0, !.min = @ + 1]
      BY <1>5 DEF NextSecond
    <3> QED BY <1>1, <3>1
  <2>2. SameDay(c, d) /\ d.hour = c.hour /\ d.min = c.min + 1 /\ d.min # c.min
    BY <1>1, <2>1, Units DEF SameDay
  <2>3. d \in Dates
    <3>1. c.min + 1 \in 0..(MINUTES - 1) /\ 0 \in 0..(SECONDS - 1)
      BY <1>1, <1>5, Units
    <3> QED BY <1>1, <2>1, <3>1 DEF Dates
  <2>4. DaysOf(d) = DaysOf(c) /\ HoursOf(d) = HoursOf(c)
    BY <1>2, <1>3, <2>2
  <2>5. MinutesOf(c) <= MinutesOf(d)
    <3>1. d.min \in Nat /\ c.min <= d.min
      BY <1>1, <2>2, Units
    <3>2. HoursOf(c) * MINUTES + c.min <= HoursOf(c) * MINUTES + d.min
      BY ONLY <1>1, <3>1, Units, DigitsOrdered
    <3> QED BY <1>2, <2>4, <3>2
  <2>6. NotBefore(c, d)
    BY <1>1, <1>3, <2>2, <2>4, <2>5 DEF NotBefore
  <2>7. [d EXCEPT !.sec = c.sec] # c
    BY <1>1, <2>1, <2>2
  <2> QED BY <2>3, <2>6, <2>7
<1>6. CASE ~ (c.sec + 1 < SECONDS) /\ ~ (c.min + 1 < MINUTES) /\ c.hour + 1 < HOURS
  <2>1. d = [sec |-> 0, min |-> 0, hour |-> c.hour + 1,
             day |-> c.day, month |-> c.month, year |-> c.year]
    <3>1. d = [c EXCEPT !.sec = 0, !.min = 0, !.hour = @ + 1]
      BY <1>6 DEF NextSecond
    <3> QED BY <1>1, <3>1
  <2>2. SameDay(c, d) /\ d.hour = c.hour + 1 /\ d.min = 0 /\ d.hour # c.hour
    BY <1>1, <2>1, Units DEF SameDay
  <2>3. d \in Dates
    <3>1. c.hour + 1 \in 0..(HOURS - 1) /\ 0 \in 0..(SECONDS - 1) /\ 0 \in 0..(MINUTES - 1)
      BY <1>1, <1>6, Units
    <3> QED BY <1>1, <2>1, <3>1 DEF Dates
  <2>4. DaysOf(d) = DaysOf(c)
    BY <1>3, <2>2
  <2>5. HoursOf(c) \in Int /\ HoursOf(d) = HoursOf(c) + 1
    <3>1. DaysOf(c) * HOURS \in Int
      BY <1>1, Units
    <3> QED BY <1>1, <1>2, <2>2, <2>4, <3>1, Units
  <2>6. MinutesOf(c) <= MinutesOf(d)
    <3>1. HoursOf(d) \in Int /\ HoursOf(c) < HoursOf(d) /\ 0 \in Nat
      BY <2>5
    <3>2. HoursOf(c) * MINUTES + c.min <= HoursOf(d) * MINUTES + 0
      BY ONLY <1>1, <2>5, <3>1, Units, DigitsOrdered
    <3> QED BY <1>2, <2>2, <3>2
  <2>7. NotBefore(c, d)
    BY <1>1, <1>3, <2>2, <2>4, <2>5, <2>6 DEF NotBefore
  <2>8. [d EXCEPT !.sec = c.sec] # c
    BY <1>1, <2>1, <2>2
  <2> QED BY <2>3, <2>7, <2>8
<1>7. CASE ~ (c.sec + 1 < SECONDS) /\ ~ (c.min + 1 < MINUTES) /\ ~ (c.hour + 1 < HOURS)
  <2>1. d = NextDay([c EXCEPT !.sec = 0, !.min = 0, !.hour = 0])
    BY <1>7 DEF NextSecond
  <2>2. /\ d \in Dates /\ d.sec = 0 /\ d.min = 0 /\ d.hour = 0
        /\ DaysOf(d) = DaysOf(c) + 1 /\ MonthOf(c) <= MonthOf(d)
        /\ \A m \in 1..12 : YearStart(c.year) + MonthStart(m, c.year)
                              <= YearStart(d.year) + MonthStart(m, d.year)
        /\ ~ SameDay(c, d)
    BY ONLY c \in Dates, d.year \in Years, <2>1, NextDayGoesOn
  <2>3. DaysOf(c) \in Int /\ DaysOf(d) \in Int /\ DaysOf(c) < DaysOf(d) /\ 0 \in Nat
    BY <1>1, <2>2
  <2>4. c.hour + 1 = HOURS /\ c.min + 1 = MINUTES
    BY <1>1, <1>7, Units
  <2>5. HoursOf(d) = HoursOf(c) + 1 /\ HoursOf(d) \in Int
    <3>1. (DaysOf(c) + 1) * HOURS = DaysOf(c) * HOURS + HOURS /\ DaysOf(c) * HOURS \in Int
      BY <1>1, Units
    <3> QED BY <1>1, <1>2, <2>2, <2>4, <3>1, Units
  <2>6. MinutesOf(c) <= MinutesOf(d)
    <3>1. HoursOf(c) < HoursOf(d) /\ HoursOf(c) \in Int
      BY <1>1, <2>5
    <3>2. HoursOf(c) * MINUTES + c.min <= HoursOf(d) * MINUTES + 0
      BY ONLY <1>1, <2>3, <2>5, <3>1, Units, DigitsOrdered
    <3> QED BY <1>2, <2>2, <3>2
  <2>7. NotBefore(c, d)
    BY <1>1, <2>2, <2>3, <2>5, <2>6 DEF NotBefore
  <2>8. [d EXCEPT !.sec = c.sec] # c
    BY <2>2 DEF SameDay, Dates
  <2> QED BY <2>2, <2>7, <2>8
<1> QED BY <1>4, <1>5, <1>6, <1>7

-----------------------------------------------------------------------------
(***************************************************************************)
(* Reading the registers.                                                  *)
(***************************************************************************)
LEMMA BcdIsRead ==
  ASSUME NEW n \in 0..99
  PROVE  bcd_to_bin(Bcd(n)) = n
<1> DEFINE a == n \div 10
           b == n % 10
<1>1. a \in 0..9 /\ b \in 0..9 /\ n = 10 * a + b
  OBVIOUS
<1>2. Bcd(n) = 16 * a + b
  BY DEF Bcd
<1> HIDE DEF a, b
<1>3. Bcd(n) \div 16 = a /\ Bcd(n) % 16 = b
  BY <1>1, <1>2
<1> QED BY <1>1, <1>3 DEF bcd_to_bin

LEMMA OrderIs == \A i \in 1..6 : Order[i] = i
<1>1. ASSUME NEW i \in 1..6 PROVE Order[i] = i
  <2>1. i = 1 \/ i = 2 \/ i = 3 \/ i = 4 \/ i = 5 \/ i = 6
    OBVIOUS
  <2> QED BY <2>1 DEF Order
<1> QED BY <1>1

LEMMA RegisterIsRead ==
  ASSUME NEW c \in Dates, NEW i \in 1..6
  PROVE  bcd_to_bin(Bcd(Registers(c)[Order[i]])) =
           CASE i = 1 -> c.sec [] i = 2 -> c.min [] i = 3 -> c.hour
             [] i = 4 -> c.day [] i = 5 -> c.month [] OTHER -> c.year % 100
<1> DEFINE v == CASE i = 1 -> c.sec [] i = 2 -> c.min [] i = 3 -> c.hour
                  [] i = 4 -> c.day [] i = 5 -> c.month [] OTHER -> c.year % 100
<1>1. Registers(c)[Order[i]] = v
  <2>1. i = 1 \/ i = 2 \/ i = 3 \/ i = 4 \/ i = 5 \/ i = 6
    OBVIOUS
  <2>2. Order[i] = i
    BY OrderIs
  <2> QED BY <2>1, <2>2 DEF Registers
<1>2. v \in 0..99
  <2>1. /\ c.sec \in 0..99 /\ c.min \in 0..99 /\ c.hour \in 0..99
        /\ c.day \in 0..99 /\ c.month \in 0..99 /\ c.year % 100 \in 0..99
    <3>1. /\ c.sec \in 0..(SECONDS - 1) /\ c.min \in 0..(MINUTES - 1) /\ c.hour \in 0..(HOURS - 1)
          /\ c.day \in 1..31 /\ c.month \in 1..12 /\ c.year \in Years
      BY DateTypes
    <3>2. c.year \in Nat
      BY <3>1 DEF Years
    <3> QED BY <3>1, <3>2, Units
  <2> QED BY <2>1
<1> HIDE DEF v
<1>3. bcd_to_bin(Bcd(v)) = v
  BY <1>2, BcdIsRead
<1> QED BY <1>1, <1>3 DEF v

\* The date with the first n fields as they were read, and the rest from the clock.
MixedOf(n, r, c) ==
  [sec |-> IF n >= 1 THEN r[1] ELSE c.sec, min |-> IF n >= 2 THEN r[2] ELSE c.min,
   hour |-> IF n >= 3 THEN r[3] ELSE c.hour, day |-> IF n >= 4 THEN r[4] ELSE c.day,
   month |-> IF n >= 5 THEN r[5] ELSE c.month, year |-> c.year]

Dated(n, r) ==
  /\ n >= 1 => r[1] \in 0..(SECONDS - 1)
  /\ n >= 2 => r[2] \in 0..(MINUTES - 1)
  /\ n >= 3 => r[3] \in 0..(HOURS - 1)
  /\ n >= 4 => r[4] \in 1..31
  /\ n >= 5 => r[5] \in 1..12

\* What was read is still so, but for the seconds.
StillSo(n, r, c) ==
  /\ n >= 1 => r[1] <= c.sec
  /\ n >= 2 => r[2] = c.min
  /\ n >= 3 => r[3] = c.hour
  /\ n >= 4 => r[4] = c.day
  /\ n >= 5 => r[5] = c.month

LEMMA SecondStep ==
  ASSUME NEW p, NEW q, MinutesOf(p) \in Int, MinutesOf(q) \in Int, MinutesOf(p) <= MinutesOf(q),
         p.sec \in Int, q.sec \in Int, p.sec <= q.sec
  PROVE  SecondsOf(p) \in Int /\ SecondsOf(q) \in Int /\ SecondsOf(p) <= SecondsOf(q)
<1> DEFINE a == MinutesOf(p)
           b == MinutesOf(q)
<1>1. a * SECONDS \in Int /\ b * SECONDS \in Int /\ a * SECONDS <= b * SECONDS
  BY Units, Ordered
<1>2. SecondsOf(p) = a * SECONDS + p.sec /\ SecondsOf(q) = b * SECONDS + q.sec
  BY DEF SecondsOf
<1> HIDE DEF a, b
<1> QED BY <1>1, <1>2

LEMMA MinuteStep ==
  ASSUME NEW p, NEW q, HoursOf(p) \in Int, HoursOf(q) \in Int, HoursOf(p) <= HoursOf(q),
         p.min \in Int, q.min = p.min
  PROVE  MinutesOf(p) \in Int /\ MinutesOf(q) \in Int /\ MinutesOf(p) <= MinutesOf(q)
<1> DEFINE a == HoursOf(p)
           b == HoursOf(q)
<1>1. a * MINUTES \in Int /\ b * MINUTES \in Int /\ a * MINUTES <= b * MINUTES
  BY Units, Ordered
<1>2. MinutesOf(p) = a * MINUTES + p.min /\ MinutesOf(q) = b * MINUTES + q.min
  BY DEF MinutesOf
<1> HIDE DEF a, b
<1> QED BY <1>1, <1>2

LEMMA HourStep ==
  ASSUME NEW p, NEW q, DaysOf(p) \in Int, DaysOf(q) \in Int, DaysOf(p) <= DaysOf(q),
         p.hour \in Int, q.hour = p.hour
  PROVE  HoursOf(p) \in Int /\ HoursOf(q) \in Int /\ HoursOf(p) <= HoursOf(q)
<1> DEFINE a == DaysOf(p)
           b == DaysOf(q)
<1>1. a * HOURS \in Int /\ b * HOURS \in Int /\ a * HOURS <= b * HOURS
  BY Units, Ordered
<1>2. HoursOf(p) = a * HOURS + p.hour /\ HoursOf(q) = b * HOURS + q.hour
  BY DEF HoursOf
<1> HIDE DEF a, b
<1> QED BY <1>1, <1>2

\* What is not yet read goes on with the clock, so the whole goes on.
LEMMA MixedGoesOn ==
  ASSUME NEW c \in Dates, NEW d \in Dates, NotBefore(c, d), NEW n \in 1..5, NEW r, Dated(n, r)
  PROVE  /\ SecondsOf(MixedOf(n, r, c)) \in Int
         /\ SecondsOf(MixedOf(n, r, c)) <= SecondsOf(MixedOf(n, r, d))
<1> DEFINE p == MixedOf(n, r, c)
           q == MixedOf(n, r, d)
<1>1. /\ c.day \in 1..31 /\ c.month \in 1..12 /\ c.year \in Years
      /\ c.hour \in 0..(HOURS - 1) /\ c.min \in 0..(MINUTES - 1)
      /\ MonthOf(c) \in Int /\ DaysOf(c) \in Int /\ HoursOf(c) \in Int /\ MinutesOf(c) \in Int
      /\ d.day \in 1..31 /\ d.month \in 1..12 /\ d.year \in Years
      /\ d.hour \in 0..(HOURS - 1) /\ d.min \in 0..(MINUTES - 1)
      /\ MonthOf(d) \in Int /\ DaysOf(d) \in Int /\ HoursOf(d) \in Int /\ MinutesOf(d) \in Int
  BY DateTypes
<1>2. /\ p.sec = r[1] /\ q.sec = r[1]
      /\ p.min = (IF n >= 2 THEN r[2] ELSE c.min) /\ q.min = (IF n >= 2 THEN r[2] ELSE d.min)
      /\ p.hour = (IF n >= 3 THEN r[3] ELSE c.hour) /\ q.hour = (IF n >= 3 THEN r[3] ELSE d.hour)
      /\ p.day = (IF n >= 4 THEN r[4] ELSE c.day) /\ q.day = (IF n >= 4 THEN r[4] ELSE d.day)
      /\ p.month = (IF n >= 5 THEN r[5] ELSE c.month) /\ q.month = (IF n >= 5 THEN r[5] ELSE d.month)
      /\ p.year = c.year /\ q.year = d.year
  BY DEF MixedOf
<1>3. /\ \A m \in 1..12 : YearStart(c.year) + MonthStart(m, c.year)
                            <= YearStart(d.year) + MonthStart(m, d.year)
      /\ MonthOf(c) <= MonthOf(d) /\ DaysOf(c) <= DaysOf(d)
      /\ HoursOf(c) <= HoursOf(d) /\ MinutesOf(c) <= MinutesOf(d)
  BY DEF NotBefore
<1>4. r[1] \in Int
  BY Units DEF Dated
<1> HIDE DEF p, q
<1>5. n < 5 => /\ MonthOf(p) \in Int /\ MonthOf(q) \in Int /\ MonthOf(p) <= MonthOf(q)
               /\ MonthOf(p) = MonthOf(c) /\ MonthOf(q) = MonthOf(d)
  BY <1>1, <1>2, <1>3 DEF MonthOf
<1>6. n < 4 => DaysOf(p) = DaysOf(c) /\ DaysOf(q) = DaysOf(d)
  BY <1>2, <1>5 DEF DaysOf
<1>7. n < 3 => HoursOf(p) = HoursOf(c) /\ HoursOf(q) = HoursOf(d)
  BY <1>2, <1>6 DEF HoursOf
<1>8. n < 2 => MinutesOf(p) = MinutesOf(c) /\ MinutesOf(q) = MinutesOf(d)
  BY <1>2, <1>7 DEF MinutesOf
<1>9. n = 5 => MonthOf(p) \in Int /\ MonthOf(q) \in Int /\ MonthOf(p) <= MonthOf(q)
  <2> SUFFICES ASSUME n = 5
               PROVE  MonthOf(p) \in Int /\ MonthOf(q) \in Int /\ MonthOf(p) <= MonthOf(q)
    OBVIOUS
  <2>1. r[5] \in 1..12 /\ p.month = r[5] /\ q.month = r[5]
    BY <1>2 DEF Dated
  <2>2. /\ YearStart(c.year) \in Nat /\ MonthStart(r[5], c.year) \in Nat
        /\ YearStart(d.year) \in Nat /\ MonthStart(r[5], d.year) \in Nat
    <3>1. r[5] \in 1..13
      BY <2>1
    <3> QED BY ONLY <1>1, <3>1, StartTypes
  <2> QED BY <1>2, <1>3, <2>1, <2>2 DEF MonthOf
<1>10. n >= 4 => DaysOf(p) \in Int /\ DaysOf(q) \in Int /\ DaysOf(p) <= DaysOf(q)
  <2> SUFFICES ASSUME n >= 4
               PROVE  DaysOf(p) \in Int /\ DaysOf(q) \in Int /\ DaysOf(p) <= DaysOf(q)
    OBVIOUS
  <2>1. r[4] \in 1..31 /\ p.day = r[4] /\ q.day = r[4]
    BY <1>2 DEF Dated
  <2>2. MonthOf(p) \in Int /\ MonthOf(q) \in Int /\ MonthOf(p) <= MonthOf(q)
    BY <1>5, <1>9
  <2> QED BY <2>1, <2>2 DEF DaysOf
<1>11. n >= 3 => HoursOf(p) \in Int /\ HoursOf(q) \in Int /\ HoursOf(p) <= HoursOf(q)
  <2> SUFFICES ASSUME n >= 3
               PROVE  HoursOf(p) \in Int /\ HoursOf(q) \in Int /\ HoursOf(p) <= HoursOf(q)
    OBVIOUS
  <2>1. p.hour \in Int /\ q.hour = p.hour
    BY <1>2, Units DEF Dated
  <2>2. DaysOf(p) \in Int /\ DaysOf(q) \in Int /\ DaysOf(p) <= DaysOf(q)
    BY <1>1, <1>3, <1>6, <1>10
  <2> QED BY ONLY <2>1, <2>2, HourStep
<1>12. n >= 2 => MinutesOf(p) \in Int /\ MinutesOf(q) \in Int /\ MinutesOf(p) <= MinutesOf(q)
  <2> SUFFICES ASSUME n >= 2
               PROVE  MinutesOf(p) \in Int /\ MinutesOf(q) \in Int /\ MinutesOf(p) <= MinutesOf(q)
    OBVIOUS
  <2>1. p.min \in Int /\ q.min = p.min
    BY <1>2, Units DEF Dated
  <2>2. HoursOf(p) \in Int /\ HoursOf(q) \in Int /\ HoursOf(p) <= HoursOf(q)
    BY <1>1, <1>3, <1>7, <1>11
  <2> QED BY ONLY <2>1, <2>2, MinuteStep
<1>13. MinutesOf(p) \in Int /\ MinutesOf(q) \in Int /\ MinutesOf(p) <= MinutesOf(q)
  BY <1>1, <1>3, <1>8, <1>12
<1>14. p.sec \in Int /\ q.sec \in Int /\ p.sec <= q.sec
  BY <1>2, <1>4
<1>15. SecondsOf(p) \in Int /\ SecondsOf(p) <= SecondsOf(q)
  BY ONLY <1>13, <1>14, SecondStep
<1> QED BY <1>15 DEF p, q

\* The arithmetic of get_unix_timestamp on what it has read.
LEMMA FullYearIs ==
  ASSUME NEW y \in Years
  PROVE  FullYear(y % 100) = y
<1>1. y \in 1970..2069
  BY DEF Years
<1>2. CASE y < 2000
  <2>1. y % 100 = y - 1900
    BY <1>1, <1>2
  <2> QED BY <1>1, <1>2, <2>1 DEF FullYear
<1>3. CASE y >= 2000
  <2>1. y % 100 = y - 2000
    BY <1>1, <1>3
  <2> QED BY <1>1, <1>3, <2>1 DEF FullYear
<1> QED BY <1>1, <1>2, <1>3

LEMMA FieldsAre ==
  ASSUME NEW s, NEW k \in 1..6
  PROVE  Fields(s)[k] = s[k]
<1>1. (CHOOSE i \in 1..6 : Order[i] = k) = k
  <2>1. \A i \in 1..6 : Order[i] = k <=> i = k
    BY OrderIs
  <2> QED BY <2>1
<1>2. Fields(s)[k] = s[CHOOSE i \in 1..6 : Order[i] = k]
  BY DEF Fields
<1> QED BY <1>1, <1>2

LEMMA Appended ==
  ASSUME NEW r \in Seq(Int), NEW n \in Int, NEW k \in 1..Len(r)
  PROVE  Append(r, n)[k] = r[k]
OBVIOUS

LEMMA AllFields ==
  ASSUME NEW r \in Seq(Int), NEW n \in Int, Len(r) = 5
  PROVE  LET f == Fields(Append(r, n))
         IN /\ f[1] = r[1] /\ f[2] = r[2] /\ f[3] = r[3] /\ f[4] = r[4] /\ f[5] = r[5]
            /\ f[6] = n
<1> DEFINE s == Append(r, n)
<1>1. \A k \in 1..5 : s[k] = r[k]
  <2>1. \A k \in 1..Len(r) : s[k] = r[k]
    BY Appended
  <2> QED BY <2>1
<1>2. s[6] = n
  <2>1. s[Len(r) + 1] = n
    BY AppendProperties
  <2>2. Len(r) + 1 = 6
    OBVIOUS
  <2> HIDE DEF s
  <2> QED BY <2>1, <2>2
<1> HIDE DEF s
<1>3. \A k \in 1..6 : Fields(s)[k] = s[k]
  BY FieldsAre
<1>4. 1 \in 1..5 /\ 2 \in 1..5 /\ 3 \in 1..5 /\ 4 \in 1..5 /\ 5 \in 1..5
      /\ 1 \in 1..6 /\ 2 \in 1..6 /\ 3 \in 1..6 /\ 4 \in 1..6 /\ 5 \in 1..6 /\ 6 \in 1..6
  OBVIOUS
<1>5. /\ Fields(s)[1] = r[1] /\ Fields(s)[2] = r[2] /\ Fields(s)[3] = r[3]
      /\ Fields(s)[4] = r[4] /\ Fields(s)[5] = r[5] /\ Fields(s)[6] = n
  BY ONLY <1>1, <1>2, <1>3, <1>4
<1> QED BY <1>5 DEF s

LEMMA DatedFive ==
  ASSUME NEW r, Dated(5, r)
  PROVE  /\ r[1] \in 0..(SECONDS - 1) /\ r[2] \in 0..(MINUTES - 1) /\ r[3] \in 0..(HOURS - 1)
         /\ r[4] \in 1..31 /\ r[5] \in 1..12
<1>1. 5 >= 1 /\ 5 >= 2 /\ 5 >= 3 /\ 5 >= 4 /\ 5 >= 5
  OBVIOUS
<1> QED BY <1>1 DEF Dated

LEMMA MixedFive ==
  ASSUME NEW r, NEW c
  PROVE  MixedOf(5, r, c) = [sec |-> r[1], min |-> r[2], hour |-> r[3], day |-> r[4],
                             month |-> r[5], year |-> c.year]
<1>1. 5 >= 1 /\ 5 >= 2 /\ 5 >= 3 /\ 5 >= 4 /\ 5 >= 5
  OBVIOUS
<1> QED BY <1>1 DEF MixedOf

\* The days that get_unix_timestamp counts.
DayCount(y, m, d) ==
  (y - 1970) * 365 + (y - 1969) \div 4 - (y - 1901) \div 100
    + (y - 1601) \div 400 + DaysBefore[m] + LeapDay(m, y) + d - 1

LEMMA DaysAre ==
  ASSUME NEW y \in Years, NEW m \in 1..12, NEW d \in 1..31
  PROVE  DayCount(y, m, d) = YearStart(y) + MonthStart(m, y) + d - 1
<1>1. /\ YearStart(y) = (y - 1970) * 365 + (y - 1969) \div 4 - (y - 1901) \div 100
                          + (y - 1601) \div 400
      /\ YearStart(y) \in Nat
  <2>1. y \in 1970..2070
    BY DEF Years
  <2>2. YearStart(y) \in Nat
    BY <2>1, YearStarts
  <2> QED BY <2>2 DEF YearStart
<1>2. DaysBefore[m] = FirstDay[m] /\ FirstDay[m] \in Nat /\ LeapDay(m, y) \in 0..1
  <2>1. m \in 1..13
    OBVIOUS
  <2>2. FirstDay[m] \in 0..365
    BY ONLY <2>1, FirstDays
  <2>3. DaysBefore[m] = FirstDay[m]
    BY ONLY m \in 1..12, FirstDays
  <2>4. LeapDay(m, y) \in 0..1
    BY DEF LeapDay
  <2> QED BY ONLY <2>2, <2>3, <2>4
<1>3. MonthStart(m, y) = FirstDay[m] + LeapDay(m, y)
  BY DEF MonthStart
<1> DEFINE a == (y - 1970) * 365 + (y - 1969) \div 4 - (y - 1901) \div 100
                + (y - 1601) \div 400
<1>4. a = YearStart(y)
  BY <1>1
<1> HIDE DEF a
<1>5. a + DaysBefore[m] + LeapDay(m, y) + d - 1 = YearStart(y) + MonthStart(m, y) + d - 1
  BY <1>1, <1>2, <1>3, <1>4
<1> QED BY <1>5 DEF a, DayCount

LEMMA TimestampIs ==
  ASSUME NEW c \in Dates, NEW r \in Seq(Int), Len(r) = 5, Dated(5, r)
  PROVE  unix_timestamp(Fields(Append(r, c.year % 100))) = SecondsOf(MixedOf(5, r, c))
<1> DEFINE f == Fields(Append(r, c.year % 100))
           p == MixedOf(5, r, c)
<1>1. c.year \in Years /\ c.year % 100 \in Int
  <2>1. c.year \in Years
    BY DateTypes
  <2>2. \A y \in Years : y % 100 \in Int
    BY DEF Years
  <2> QED BY <2>1, <2>2
<1>2. /\ f[1] = r[1] /\ f[2] = r[2] /\ f[3] = r[3] /\ f[4] = r[4] /\ f[5] = r[5]
      /\ f[6] = c.year % 100
  BY <1>1, AllFields
<1>3. FullYear(f[6]) = c.year
  BY <1>1, <1>2, FullYearIs
<1>4. /\ p.sec = r[1] /\ p.min = r[2] /\ p.hour = r[3] /\ p.day = r[4] /\ p.month = r[5]
      /\ p.year = c.year
  BY MixedFive
<1> HIDE DEF f, p
<1> DEFINE days == DayCount(c.year, r[5], r[4])
<1>5. unix_timestamp(f) = ((days * HOURS + r[3]) * MINUTES + r[2]) * SECONDS + r[1]
  BY <1>2, <1>3 DEF unix_timestamp, DayCount
<1>6. days = YearStart(c.year) + MonthStart(r[5], c.year) + r[4] - 1
  <2>1. r[5] \in 1..12 /\ r[4] \in 1..31
    BY DatedFive
  <2> QED BY ONLY <1>1, <2>1, DaysAre
<1> HIDE DEF days
<1>7. days = DaysOf(p)
  BY <1>4, <1>6 DEF DaysOf, MonthOf
<1>8. unix_timestamp(f) = SecondsOf(p)
  BY <1>4, <1>5, <1>7 DEF SecondsOf, MinutesOf, HoursOf
<1> QED BY <1>8 DEF f, p

\* The first n fields of a date and one more.
Longer(n, r, s) ==
  /\ n >= 1 => s[1] = r[1]
  /\ n >= 2 => s[2] = r[2]
  /\ n >= 3 => s[3] = r[3]
  /\ n >= 4 => s[4] = r[4]

WithField(n, s, c) ==
  /\ n = 0 => s[1] = c.sec
  /\ n = 1 => s[2] = c.min
  /\ n = 2 => s[3] = c.hour
  /\ n = 3 => s[4] = c.day
  /\ n = 4 => s[5] = c.month

LEMMA FieldTypes ==
  ASSUME NEW c \in Dates
  PROVE  c.sec \in Int /\ c.min \in Int /\ c.hour \in Int /\ c.day \in Int /\ c.month \in Int
<1>1. /\ c.sec \in 0..(SECONDS - 1) /\ c.min \in 0..(MINUTES - 1) /\ c.hour \in 0..(HOURS - 1)
      /\ c.day \in 1..31 /\ c.month \in 1..12
  BY DateTypes
<1> QED BY <1>1

LEMMA DatedOneMore ==
  ASSUME NEW c \in Dates, NEW r, NEW s, NEW n \in 0..4, Dated(n, r), Longer(n, r, s),
         WithField(n, s, c)
  PROVE  Dated(n + 1, s)
<1>1. /\ c.sec \in 0..(SECONDS - 1) /\ c.min \in 0..(MINUTES - 1) /\ c.hour \in 0..(HOURS - 1)
      /\ c.day \in 1..31 /\ c.month \in 1..12
  BY DateTypes
<1> QED BY <1>1 DEF Dated, Longer, WithField

LEMMA MixedOneMore ==
  ASSUME NEW c, NEW r, NEW s, NEW n \in 0..4, Longer(n, r, s), WithField(n, s, c)
  PROVE  MixedOf(n + 1, s, c) = MixedOf(n, r, c)
<1>1. n = 0 \/ n = 1 \/ n = 2 \/ n = 3 \/ n = 4
  OBVIOUS
<1>2. (IF n + 1 >= 1 THEN s[1] ELSE c.sec) = (IF n >= 1 THEN r[1] ELSE c.sec)
  BY <1>1 DEF Longer, WithField
<1>3. (IF n + 1 >= 2 THEN s[2] ELSE c.min) = (IF n >= 2 THEN r[2] ELSE c.min)
  BY <1>1 DEF Longer, WithField
<1>4. (IF n + 1 >= 3 THEN s[3] ELSE c.hour) = (IF n >= 3 THEN r[3] ELSE c.hour)
  BY <1>1 DEF Longer, WithField
<1>5. (IF n + 1 >= 4 THEN s[4] ELSE c.day) = (IF n >= 4 THEN r[4] ELSE c.day)
  BY <1>1 DEF Longer, WithField
<1>6. (IF n + 1 >= 5 THEN s[5] ELSE c.month) = (IF n >= 5 THEN r[5] ELSE c.month)
  BY <1>1 DEF Longer, WithField
<1> QED BY ONLY <1>2, <1>3, <1>4, <1>5, <1>6 DEF MixedOf

LEMMA StillOneMore ==
  ASSUME NEW c, NEW r, NEW s, NEW n \in 0..4, Longer(n, r, s), WithField(n, s, c),
         c.sec \in Int, StillSo(n, r, c)
  PROVE  StillSo(n + 1, s, c)
BY DEF StillSo, Longer, WithField

\* What one more register adds to what was read.
LEMMA OneMore ==
  ASSUME NEW c \in Dates, NEW r \in Seq(Int), NEW n \in 0..4, Len(r) = n, Dated(n, r),
         NEW s, s = Append(r, bcd_to_bin(Bcd(Registers(c)[Order[n + 1]])))
  PROVE  /\ s \in Seq(Int) /\ Len(s) = n + 1 /\ Dated(n + 1, s)
         /\ SecondsOf(MixedOf(n + 1, s, c)) = SecondsOf(MixedOf(n, r, c))
         /\ StillSo(n, r, c) => StillSo(n + 1, s, c)
<1> DEFINE v == bcd_to_bin(Bcd(Registers(c)[Order[n + 1]]))
<1>1. /\ n = 0 => v = c.sec
      /\ n = 1 => v = c.min
      /\ n = 2 => v = c.hour
      /\ n = 3 => v = c.day
      /\ n = 4 => v = c.month
  <2>1. n + 1 \in 1..6
    OBVIOUS
  <2> QED BY ONLY <2>1, n \in 0..4, c \in Dates, RegisterIsRead
<1>2. s = Append(r, v)
  OBVIOUS
<1> HIDE DEF v
<1>3. n = 0 \/ n = 1 \/ n = 2 \/ n = 3 \/ n = 4
  OBVIOUS
<1>4. v \in Int /\ c.sec \in Int
  BY ONLY <1>1, <1>3, c \in Dates, FieldTypes
<1>5. s \in Seq(Int) /\ Len(s) = n + 1 /\ s[n + 1] = v
  BY ONLY <1>2, <1>4, r \in Seq(Int), n \in 0..4, Len(r) = n
<1>6. Longer(n, r, s)
  <2>1. \A k \in 1..Len(r) : s[k] = r[k]
    BY <1>2, <1>4, Appended
  <2>2. Len(r) = n /\ n \in 0..4
    OBVIOUS
  <2> QED BY ONLY <2>1, <2>2 DEF Longer
<1>7. WithField(n, s, c)
  BY ONLY <1>1, <1>3, <1>5 DEF WithField
<1>8. Dated(n + 1, s)
  BY <1>6, <1>7, DatedOneMore
<1>9. SecondsOf(MixedOf(n + 1, s, c)) = SecondsOf(MixedOf(n, r, c))
  <2>1. MixedOf(n + 1, s, c) = MixedOf(n, r, c)
    BY <1>6, <1>7, MixedOneMore
  <2> QED BY ONLY <2>1
<1>10. StillSo(n, r, c) => StillSo(n + 1, s, c)
  BY <1>4, <1>6, <1>7, StillOneMore
<1> QED BY ONLY <1>5, <1>8, <1>9, <1>10

LEMMA ItselfNotBefore ==
  ASSUME NEW c \in Dates
  PROVE  NotBefore(c, c)
<1>1. /\ MonthOf(c) \in Nat /\ DaysOf(c) \in Nat /\ HoursOf(c) \in Nat /\ MinutesOf(c) \in Nat
      /\ c.year \in Years
  BY DateTypes
<1>2. ASSUME NEW m \in 1..12
      PROVE  YearStart(c.year) + MonthStart(m, c.year) <= YearStart(c.year) + MonthStart(m, c.year)
  <2>1. m \in 1..13
    OBVIOUS
  <2>2. YearStart(c.year) \in Nat /\ MonthStart(m, c.year) \in Nat
    BY ONLY <1>1, <2>1, StartTypes
  <2> QED BY ONLY <2>2
<1> QED BY <1>1, <1>2 DEF NotBefore

LEMMA MixedTypes ==
  ASSUME NEW c \in Dates, NEW n \in 1..5, NEW r, Dated(n, r)
  PROVE  SecondsOf(MixedOf(n, r, c)) \in Int
BY ItselfNotBefore, MixedGoesOn

LEMMA TimeTypes ==
  ASSUME NEW c \in Dates
  PROVE  Time(c) \in Int
<1>1. Time(c) = SecondsOf(c) /\ SecondsOf(c) \in Nat
  BY TimeIs, DateTypes
<1> QED BY <1>1

-----------------------------------------------------------------------------
(***************************************************************************)
(* What was read so far, with the rest from the clock, is not before the   *)
(* call began; as long as only the seconds change, it is not ahead of the  *)
(* clock either.                                                           *)
(***************************************************************************)
ReadInv == /\ clock \in Dates /\ carry \in BOOLEAN /\ since \in Int
           /\ read \in Seq(Int) /\ Len(read) <= 5
           /\ Dated(Len(read), read)
           /\ Len(read) >= 1 => since <= SecondsOf(MixedOf(Len(read), read, clock))
           /\ Len(read) >= 1 /\ ~carry => StillSo(Len(read), read, clock)

LEMMA ReadInvAtFirst == RtcInit => ReadInv
<1> SUFFICES ASSUME RtcInit PROVE ReadInv
  OBVIOUS
<1>1. clock \in Dates /\ carry \in BOOLEAN /\ since \in Int
  <2>1. clock \in Dates /\ since \in Int
    BY RtcAssumption DEF RtcInit
  <2>2. carry \in BOOLEAN
    BY DEF RtcInit
  <2> QED BY <2>1, <2>2
<1>2. read \in Seq(Int) /\ Len(read) = 0
  BY DEF RtcInit
<1>3. Dated(0, read)
  BY DEF Dated
<1> QED BY <1>1, <1>2, <1>3 DEF ReadInv

\* The registers that are not yet read go on with the clock.
LEMMA ReadInvInSecond == ReadInv /\ Second => ReadInv'
<1> SUFFICES ASSUME ReadInv, Second PROVE ReadInv'
  OBVIOUS
<1> DEFINE n == Len(read)
<1>1. /\ clock \in Dates /\ carry \in BOOLEAN /\ since \in Int
      /\ read \in Seq(Int) /\ n <= 5 /\ Dated(n, read)
      /\ n >= 1 => since <= SecondsOf(MixedOf(n, read, clock))
      /\ n >= 1 /\ ~carry => StillSo(n, read, clock)
      /\ n \in 0..5
  <2>1. read \in Seq(Int) /\ n <= 5
    BY DEF ReadInv
  <2>2. n \in 0..5
    <3>1. n \in Nat
      BY <2>1
    <3> HIDE DEF n
    <3> QED BY ONLY <2>1, <3>1
  <2> QED BY <2>2 DEF ReadInv
<1>2. /\ clock' = NextSecond(clock) /\ clock'.year \in Years
      /\ carry' = (carry \/ [clock' EXCEPT !.sec = clock.sec] # clock)
      /\ read' = read /\ since' = since
  BY DEF Second
<1> HIDE DEF n
<1>3. /\ clock' \in Dates /\ NotBefore(clock, clock')
      /\ \/ /\ clock'.min = clock.min /\ clock'.hour = clock.hour /\ SameDay(clock, clock')
            /\ clock'.sec = clock.sec + 1
         \/ [clock' EXCEPT !.sec = clock.sec] # clock
  BY ONLY <1>1, <1>2, NextSecondGoesOn
<1>4. n >= 1 => since <= SecondsOf(MixedOf(n, read, clock'))
  <2> SUFFICES ASSUME n >= 1 PROVE since <= SecondsOf(MixedOf(n, read, clock'))
    OBVIOUS
  <2>1. n \in 1..5
    BY <1>1
  <2> DEFINE a == SecondsOf(MixedOf(n, read, clock))
             b == SecondsOf(MixedOf(n, read, clock'))
  <2>2. a \in Int /\ a <= b
    BY ONLY <1>1, <1>3, <2>1, MixedGoesOn
  <2>3. b \in Int
    BY ONLY <1>1, <1>3, <2>1, MixedTypes
  <2>4. since <= a
    BY <1>1
  <2> HIDE DEF a, b
  <2>5. since <= b
    BY <1>1, <2>2, <2>3, <2>4
  <2> QED BY <2>5 DEF b
<1>5. n >= 1 /\ ~carry' => StillSo(n, read, clock')
  <2> SUFFICES ASSUME n >= 1, ~carry' PROVE StillSo(n, read, clock')
    OBVIOUS
  <2>1. ~carry /\ [clock' EXCEPT !.sec = clock.sec] = clock
    BY <1>2
  <2>2. /\ clock'.min = clock.min /\ clock'.hour = clock.hour /\ clock'.day = clock.day
        /\ clock'.month = clock.month /\ clock'.sec = clock.sec + 1
    BY <1>3, <2>1 DEF SameDay
  <2>3. StillSo(n, read, clock)
    BY <1>1, <2>1
  <2>4. read[1] \in Int /\ clock.sec \in Int
    <3>1. clock.sec \in Int
      BY <1>1, DateTypes, Units
    <3>2. read[1] \in Int
      BY <1>1, Units DEF Dated
    <3> QED BY <3>1, <3>2
  <2> QED BY ONLY <1>1, <2>2, <2>3, <2>4 DEF StillSo
<1>6. carry' \in BOOLEAN
  BY <1>1, <1>2
<1>7. Len(read') = n
  BY <1>2 DEF n
<1> QED BY ONLY <1>1, <1>2, <1>3, <1>4, <1>5, <1>6, <1>7 DEF ReadInv

LEMMA ReadInvInCall == ReadInv /\ get_unix_timestamp => ReadInv'
<1> SUFFICES ASSUME ReadInv, get_unix_timestamp PROVE ReadInv'
  OBVIOUS
<1> DEFINE n == Len(read)
           r == Append(read, bcd_to_bin(Bcd(Registers(clock)[Order[n + 1]])))
<1>1. /\ clock \in Dates /\ carry \in BOOLEAN /\ since \in Int
      /\ read \in Seq(Int) /\ n <= 5 /\ Dated(n, read)
      /\ n >= 1 => since <= SecondsOf(MixedOf(n, read, clock))
      /\ n >= 1 /\ ~carry => StillSo(n, read, clock)
      /\ n \in 0..5
  <2>1. read \in Seq(Int) /\ n <= 5
    BY DEF ReadInv
  <2>2. n \in 0..5
    <3>1. n \in Nat
      BY <2>1
    <3> HIDE DEF n
    <3> QED BY ONLY <2>1, <3>1
  <2> QED BY <2>2 DEF ReadInv
<1>2. /\ n = 0 => since' = Time(clock) /\ carry' = FALSE
      /\ n > 0 => since' = since /\ carry' = carry
      /\ n < 5 => read' = r
      /\ n = 5 => read' = <<>>
      /\ clock' = clock
  BY <1>1 DEF get_unix_timestamp
<1> HIDE DEF n
<1>3. CASE n = 5
  <2>1. read' \in Seq(Int) /\ Len(read') = 0
    BY <1>2, <1>3
  <2>2. Dated(0, read')
    BY DEF Dated
  <2> QED BY ONLY <1>1, <1>2, <1>3, <2>1, <2>2 DEF ReadInv
<1>4. CASE n < 5
  <2>1. n \in 0..4 /\ Len(read) = n
    <3>1. n \in 0..4
      BY <1>1, <1>4
    <3> QED BY <3>1 DEF n
  <2>2. read' = r
    BY <1>2, <1>4
  <2>3. /\ read' \in Seq(Int) /\ Len(read') = n + 1 /\ Dated(n + 1, read')
        /\ SecondsOf(MixedOf(n + 1, read', clock)) = SecondsOf(MixedOf(n, read, clock))
        /\ StillSo(n, read, clock) => StillSo(n + 1, read', clock)
    <3>1. clock \in Dates /\ read \in Seq(Int) /\ Dated(n, read)
      BY <1>1
    <3> QED BY ONLY <2>1, <2>2, <3>1, OneMore
  <2> HIDE DEF r
  <2>4. n = 0 => /\ SecondsOf(MixedOf(n, read, clock)) = since'
                 /\ since' \in Int /\ since' <= SecondsOf(MixedOf(n, read, clock))
                 /\ StillSo(n, read, clock)
    <3> SUFFICES ASSUME n = 0
                 PROVE  /\ SecondsOf(MixedOf(n, read, clock)) = since'
                        /\ since' \in Int /\ since' <= SecondsOf(MixedOf(n, read, clock))
                        /\ StillSo(n, read, clock)
      OBVIOUS
    <3>1. SecondsOf(MixedOf(n, read, clock)) = SecondsOf(clock)
      <4> DEFINE p == MixedOf(n, read, clock)
      <4>1. /\ p.sec = clock.sec /\ p.min = clock.min /\ p.hour = clock.hour
            /\ p.day = clock.day /\ p.month = clock.month /\ p.year = clock.year
        BY DEF MixedOf
      <4> HIDE DEF p
      <4>2. SecondsOf(p) = SecondsOf(clock)
        BY ONLY <4>1 DEF SecondsOf, MinutesOf, HoursOf, DaysOf, MonthOf
      <4> QED BY <4>2 DEF p
    <3>2. SecondsOf(clock) = Time(clock) /\ Time(clock) \in Int
      BY <1>1, TimeIs, TimeTypes
    <3>3. StillSo(n, read, clock)
      BY DEF StillSo
    <3> QED BY <1>2, <3>1, <3>2, <3>3
  <2>5. carry' \in BOOLEAN /\ since' \in Int
    <3>1. n = 0 \/ n > 0
      BY <2>1
    <3>2. CASE n = 0
      BY <1>2, <2>4, <3>2
    <3>3. CASE n > 0
      BY <1>1, <1>2, <3>3
    <3> QED BY ONLY <3>1, <3>2, <3>3
  <2>6. since' <= SecondsOf(MixedOf(n + 1, read', clock))
    BY <1>1, <1>2, <2>1, <2>3, <2>4
  <2>7. ~carry' => StillSo(n + 1, read', clock)
    BY <1>1, <1>2, <2>1, <2>3, <2>4
  <2> QED BY ONLY <1>1, <1>2, <2>1, <2>3, <2>5, <2>6, <2>7 DEF ReadInv
<1> QED BY <1>1, <1>3, <1>4

LEMMA ReadInvAlways == RtcSpec => []ReadInv
<1>1. ReadInv /\ UNCHANGED rtcVars => ReadInv'
  BY DEF ReadInv, rtcVars
<1>2. ReadInv /\ [RtcNext]_rtcVars => ReadInv'
  BY <1>1, ReadInvInSecond, ReadInvInCall DEF RtcNext
<1> QED BY <1>2, ReadInvAtFirst, PTL DEF RtcSpec

(***************************************************************************)
(* DateIsTheClocks for every length of a minute, an hour and a day, every  *)
(* start and every second of the hundred years: the loops of               *)
(* timestamp_to_string take the date of a time apart as the calendar puts  *)
(* it together.                                                            *)
(***************************************************************************)
THEOREM DateIsTheClocksAlways == RtcSpec => []DateIsTheClocks
<1>1. ReadInv => DateIsTheClocks
  BY DateOfTime DEF ReadInv, DateIsTheClocks
<1> QED BY <1>1, ReadInvAlways, PTL

\* The last register makes the timestamp.
LEMMA LastRegister ==
  ASSUME ReadInv, get_unix_timestamp, Len(read) = 5
  PROVE  /\ timestamp' = SecondsOf(MixedOf(5, read, clock))
         /\ timestamp' \in Int /\ since <= timestamp'
         /\ ~carry => timestamp' <= Time(clock)
<1> DEFINE p == MixedOf(5, read, clock)
<1>1. /\ clock \in Dates /\ since \in Int /\ read \in Seq(Int) /\ Dated(5, read)
      /\ since <= SecondsOf(p) /\ (~carry => StillSo(5, read, clock))
  BY DEF ReadInv
<1>2. bcd_to_bin(Bcd(Registers(clock)[Order[6]])) = clock.year % 100
  BY ONLY <1>1, 6 \in 1..6, RegisterIsRead
<1>3. timestamp' = unix_timestamp(Fields(Append(read, bcd_to_bin(Bcd(Registers(clock)[Order[6]])))))
  BY DEF get_unix_timestamp
<1>4. timestamp' = SecondsOf(p)
  BY ONLY <1>1, <1>2, <1>3, Len(read) = 5, TimestampIs
<1>5. ~carry => SecondsOf(p) <= Time(clock)
  <2> SUFFICES ASSUME ~carry PROVE SecondsOf(p) <= Time(clock)
    OBVIOUS
  <2>1. StillSo(5, read, clock)
    BY <1>1
  <2>2. /\ read[1] <= clock.sec /\ read[2] = clock.min /\ read[3] = clock.hour
        /\ read[4] = clock.day /\ read[5] = clock.month
    <3>1. 5 >= 1 /\ 5 >= 2 /\ 5 >= 3 /\ 5 >= 4 /\ 5 >= 5
      OBVIOUS
    <3> QED BY ONLY <2>1, <3>1 DEF StillSo
  <2>3. /\ p.sec = read[1] /\ p.min = clock.min /\ p.hour = clock.hour
        /\ p.day = clock.day /\ p.month = clock.month /\ p.year = clock.year
    BY ONLY <2>2, MixedFive
  <2>4. MinutesOf(clock) \in Int /\ clock.sec \in Int
    BY <1>1, DateTypes, Units
  <2>5. read[1] \in Int
    BY <1>1, DatedFive, Units
  <2> HIDE DEF p
  <2>6. MinutesOf(p) = MinutesOf(clock)
    BY ONLY <2>3 DEF MinutesOf, HoursOf, DaysOf, MonthOf
  <2>7. MinutesOf(p) \in Int /\ MinutesOf(p) <= MinutesOf(clock)
    BY ONLY <2>4, <2>6
  <2>8. SecondsOf(p) <= SecondsOf(clock)
    <3>1. p.sec \in Int /\ p.sec <= clock.sec
      BY ONLY <2>2, <2>3, <2>5
    <3> QED BY ONLY <2>4, <2>7, <3>1, SecondStep
  <2>9. SecondsOf(clock) = Time(clock)
    BY <1>1, TimeIs
  <2> QED BY <2>8, <2>9
<1>6. SecondsOf(p) \in Int
  BY ONLY <1>1, 5 \in 1..5, MixedTypes
<1> QED BY ONLY <1>1, <1>4, <1>5, <1>6

(***************************************************************************)
(* ReadingIsExactOrAhead likewise: wherever the seconds fall between the   *)
(* reads of the registers, a timestamp is not before its call began, and   *)
(* not ahead of the clock unless more than the seconds changed.            *)
(***************************************************************************)
THEOREM ReadingIsExactOrAheadAlways == RtcSpec => ReadingIsExactOrAhead
<1> DEFINE Right == CallReturns => /\ timestamp' >= since
                                   /\ ~carry => timestamp' <= Time(clock)
<1>1. ReadInv /\ [RtcNext]_rtcVars => [Right]_rtcVars
  <2> SUFFICES ASSUME ReadInv, RtcNext, CallReturns
               PROVE  /\ timestamp' >= since
                      /\ ~carry => timestamp' <= Time(clock)
    OBVIOUS
  <2>1. Len(read) = 5 /\ read' = <<>>
    BY DEF CallReturns
  <2>2. ~ Second
    BY <2>1 DEF Second
  <2>3. get_unix_timestamp
    BY <2>2 DEF RtcNext
  <2>4. /\ timestamp' \in Int /\ since <= timestamp'
        /\ ~carry => timestamp' <= Time(clock)
    BY <2>1, <2>3, LastRegister
  <2>5. since \in Int
    BY DEF ReadInv
  <2> QED BY <2>4, <2>5
<1> QED BY <1>1, ReadInvAlways, PTL DEF RtcSpec, ReadingIsExactOrAhead
=============================================================================
