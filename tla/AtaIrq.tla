------------------------------- MODULE AtaIrq -------------------------------
(***************************************************************************)
(* The ATA driver in IRQ mode, drivers/ata.cpp: one channel with one       *)
(* device.  A caller reads or writes a few sectors; each sector is a       *)
(* command to the device, a wait for its interrupt or its status, and a    *)
(* transfer of data.  The interrupt only sets a flag; the wait for it is a *)
(* number of delays of PitDelay.                                           *)
(***************************************************************************)
EXTENDS PitDelay, Sequences

CONSTANTS Lba, Value,    \* sectors and what they hold
          MaxSectors,    \* bound: the sectors of one call
          Timeout,       \* 2000 in the code
          Answer         \* the ticks within which a device in time interrupts

None == "none"

ASSUME AtaAssumption ==
  /\ Lba \subseteq Nat /\ None \notin Value
  /\ MaxSectors \in Nat \ {0}
  /\ {Timeout, Answer} \subseteq Nat /\ Answer + 1 < Timeout /\ 1 \in Delays

VARIABLES
  pc,          \* where the driver is
  call,        \* the caller's request: kind, lba, sectors, buffer; count of sectors done
  irq_received,
  status,      \* the device's status register
  command,     \* the command the device works on
  intrq,       \* its interrupt is not handled yet
  disk,
  timeout,     \* the local variable of ata_irq_wait
  age,         \* the ticks that a device in time has been at work
  hasty,       \* history: a wait has ended without the flag
  late,        \* the device takes longer than the timeout, now and then
  faulty       \* the device ends a command with an error, now and then

driver == <<pc, call>>
device == <<status, command, intrq, disk>>
temper == <<late, faulty>>
moving == <<driver, irq_received, device, timeout, hasty, age, pit>>
vars == <<moving, temper>>

NoCommand == [kind |-> None]

Calls == {[kind |-> "read", lba |-> l, sectors |-> n, buffer |-> <<>>, done |-> 0] :
             l \in Lba, n \in 1..MaxSectors}
         \cup {[kind |-> "write", lba |-> l, sectors |-> Len(b), buffer |-> b, done |-> 0] :
             l \in Lba, b \in UNION {[1..n -> Value] : n \in 1..MaxSectors}}

OnDisk(c) == \A i \in 0..(c.sectors - 1) : c.lba + i \in Lba

\* init probes the channel: IDENTIFY comes before every other command.
Init == /\ pc = "idle" /\ call = [kind |-> "identify", sectors |-> 1, done |-> 0]
        /\ irq_received = FALSE
        /\ status = "ready" /\ command = NoCommand /\ intrq = FALSE
        /\ disk \in [Lba -> Value]
        /\ late \in BOOLEAN /\ faulty \in BOOLEAN
        /\ timeout = Timeout /\ age = 0 /\ hasty = FALSE
        /\ PitInit
-----------------------------------------------------------------------------
\* The device.  A command that comes while it is busy is ignored.
Accept(c) == /\ IF status = "busy" THEN UNCHANGED <<status, command>>
                                   ELSE status' = "busy" /\ command' = c
             /\ UNCHANGED <<intrq, disk>>

Raise(s) == status' = s /\ intrq' = TRUE

DeviceReads == /\ status = "busy" /\ command.kind \in {"read", "identify"}
               /\ Raise("drq")
               /\ UNCHANGED <<driver, irq_received, command, disk>>

\* A write asks for its data without an interrupt.
DeviceAsks == /\ status = "busy" /\ command.kind = "write" /\ command.data = None
              /\ status' = "drq"
              /\ UNCHANGED <<driver, irq_received, command, intrq, disk>>

DeviceWrites == /\ status = "busy" /\ command.kind = "write" /\ command.data # None
                /\ disk' = [disk EXCEPT ![command.lba] = command.data]
                /\ Raise("ready") /\ command' = NoCommand
                /\ UNCHANGED <<driver, irq_received>>

DeviceFails == /\ faulty /\ status = "busy"
               /\ Raise("err") /\ command' = NoCommand
               /\ UNCHANGED <<driver, irq_received, disk>>

primary_ata_handler == /\ intrq /\ intrq' = FALSE
                       /\ irq_received' = TRUE
                       /\ UNCHANGED <<driver, status, command, disk>>
-----------------------------------------------------------------------------
Returned == pc = "idle" /\ call.done = call.sectors

identify == /\ pc = "idle" /\ call.kind = "identify" /\ ~Returned
            /\ Accept([kind |-> "identify"])
            /\ pc' = "wait"
            /\ UNCHANGED <<call, irq_received>>

Start == /\ Returned
         /\ \E c \in Calls : OnDisk(c) /\ call' = c
         /\ pc' = "sector"
         /\ UNCHANGED <<irq_received, device>>

\* Mutant: every sector of a call is that of its first.
read_one_sector_same ==
  /\ pc = "sector" /\ call.kind = "read"
  /\ Accept([kind |-> "read", lba |-> call.lba])
  /\ pc' = "wait"
  /\ UNCHANGED <<call, irq_received>>

read_one_sector == /\ pc = "sector" /\ call.kind = "read"
                   /\ Accept([kind |-> "read", lba |-> call.lba + call.done])
                   /\ pc' = "wait"
                   /\ UNCHANGED <<call, irq_received>>

write_one_sector == /\ pc = "sector" /\ call.kind = "write"
                    /\ Accept([kind |-> "write", lba |-> call.lba + call.done, data |-> None])
                    /\ pc' = "poll"
                    /\ UNCHANGED <<call, irq_received>>

\* The loop of read_sector and write_sector, which return true at its end.
SectorDone(c) == /\ call' = [c EXCEPT !.done = c.done + 1]
                 /\ pc' = IF c.done + 1 < c.sectors THEN "sector" ELSE "idle"

WriteError == /\ pc = "poll" /\ status = "err"
              /\ SectorDone(call)
              /\ UNCHANGED <<irq_received, device>>

WriteData == /\ pc = "poll" /\ status = "drq"
             /\ status' = "busy"
             /\ command' = [command EXCEPT !.data = call.buffer[call.done + 1]]
             /\ pc' = "wait"
             /\ UNCHANGED <<call, irq_received, intrq, disk>>

Waited == /\ timeout' = Timeout
          /\ IF call.kind = "write" THEN SectorDone(call)
                                    ELSE pc' = "data" /\ UNCHANGED call

IrqSeen == /\ pc = "wait" /\ at = "out" /\ irq_received
           /\ Waited
           /\ irq_received' = FALSE
           /\ UNCHANGED <<device, hasty>>

IrqDelay == /\ pc = "wait" /\ ~irq_received /\ timeout > 1
            /\ delay(1)
            /\ timeout' = timeout - 1
            /\ UNCHANGED <<driver, irq_received, device>>

\* Mutant: a write does not wait.
IrqTimeoutAlways == /\ pc = "wait" /\ at = "out" /\ ~irq_received
                    /\ Waited
                    /\ hasty' = TRUE
                    /\ UNCHANGED <<irq_received, device>>

\* The wait ends without the flag and leaves it to come.
IrqTimeout == /\ pc = "wait" /\ at = "out" /\ ~irq_received /\ timeout = 1
              /\ Waited
              /\ hasty' = TRUE
              /\ UNCHANGED <<irq_received, device>>

\* Both loops on the status: not busy, then data requested.
ReadData == /\ pc = "data" /\ call.kind = "read" /\ status = "drq"
            /\ status' = "ready" /\ command' = NoCommand
            /\ SectorDone([call EXCEPT !.buffer = Append(@, disk[command.lba])])
            /\ UNCHANGED <<irq_received, intrq, disk>>

\* An error ends identify, and the device is not registered: no call follows.
Identified == /\ pc = "data" /\ call.kind = "identify"
              /\ \/ status = "drq" /\ status' = "ready" /\ SectorDone(call)
                 \/ status = "err" /\ pc' = "gone" /\ UNCHANGED <<status, call>>
              /\ command' = NoCommand
              /\ UNCHANGED <<irq_received, intrq, disk>>

\* A device in time interrupts, and the interrupt is taken, within Answer ticks.
Working == status = "busy" \/ intrq

Ticks == /\ late \/ ~Working \/ age < Answer
         /\ onIrq0
         /\ age' = IF late \/ ~Working THEN 0 ELSE age + 1
         /\ UNCHANGED <<driver, irq_received, device, timeout>>

Delaying == /\ ReadFirst \/ ReadSecond
            /\ UNCHANGED <<driver, irq_received, device, timeout, age>>

Device == DeviceReads \/ DeviceAsks \/ DeviceWrites
Commands == identify \/ read_one_sector \/ write_one_sector \/ WriteData
Waits == IrqSeen \/ IrqTimeout
Moves == Start \/ WriteError \/ ReadData \/ Identified \/ Device \/ DeviceFails
         \/ primary_ata_handler

Next == /\ \/ Commands /\ age' = 0 /\ UNCHANGED <<timeout, hasty, pit>>
           \/ Waits /\ UNCHANGED <<age, pit>>
           \/ IrqDelay /\ UNCHANGED <<hasty, age>>
           \/ Moves /\ UNCHANGED <<timeout, hasty, age, pit>>
           \/ (Delaying \/ Ticks) /\ UNCHANGED hasty
        /\ UNCHANGED temper

Spec == Init /\ [][Next]_vars

\* The processor runs the driver and takes interrupts; a device answers.
Driver == Commands \/ Waits \/ IrqDelay \/ WriteError \/ ReadData \/ Identified
FairSpec == /\ Spec
            /\ WF_moving(Next /\ (Driver \/ Delaying)) /\ WF_moving(Next /\ Device)
            /\ WF_moving(Next /\ primary_ata_handler) /\ WF_moving(Next /\ Ticks)
-----------------------------------------------------------------------------
\* The buffer of a call and the sectors of the disk hold the same.
Agree(c) == \A i \in 1..c.sectors : c.buffer[i] = disk[c.lba + i - 1]

(***************************************************************************)
(* When read_sector returns true the buffer has what the disk holds, even  *)
(* of a device that was late or failed in a call before.                   *)
(***************************************************************************)
ReadsReturnTheDisk == Returned /\ call.kind = "read" => Agree(call)

GoodDevice == ~late /\ ~faulty

(***************************************************************************)
(* When write_sector returns true the disk has what the buffer holds, for  *)
(* a device that answers in time and without errors: the wait after the    *)
(* last sector's data is for that sector's interrupt.  (This ends with the *)
(* low word of ticks, behind which a delay returns at once and the wait    *)
(* with it.)                                                               *)
(***************************************************************************)
WritesAreOnTheDisk ==
  GoodDevice /\ ticks < Word /\ Returned /\ call.kind = "write" => Agree(call)

(***************************************************************************)
(* A call that returns true has done what it says, for reads of any device *)
(* and for writes of one that is in time (read_sector, write_sector).      *)
(***************************************************************************)
CallsDoWhatTheyReturn == ReadsReturnTheDisk /\ WritesAreOnTheDisk

(***************************************************************************)
(* With such a device each call returns, however long the system has run:  *)
(* no wait for the flag, for a status or for a tick is for ever.  Only a   *)
(* wait that was cut short can leave a busy device, which ignores the      *)
(* command that somebody then polls for.                                   *)
(***************************************************************************)
EveryCallReturns == GoodDevice /\ pc # "idle" ~> pc = "idle" \/ hasty
=============================================================================
