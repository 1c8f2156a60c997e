------------------------------ MODULE AhciPort ------------------------------
(***************************************************************************)
(* The AHCI driver, drivers/ahci.cpp: one port with one disk, from the     *)
(* initialization of the controller (HBA) to reads and writes.  A call     *)
(* fills the table of a free command slot, sets the slot's bit in ci and   *)
(* polls until the HBA has cleared the bit or reports an error.            *)
(***************************************************************************)
EXTENDS Integers, Sequences, FiniteSetsExt

CONSTANTS Slots,        \* the number of command slots, 32 in the code
          Lba, Value,   \* sectors and what they hold
          MaxSectors    \* bound: the sectors of one call

None == "none"

ASSUME AhciAssumption ==
  /\ {Slots, MaxSectors} \subseteq Nat \ {0}
  /\ Lba \subseteq Nat /\ None \notin Value

VARIABLES
  pc,          \* where the driver is
  call, slot,  \* the request it works on, and its slot
  result,      \* what the last call returned
  retries, pi, \* init_dev's counter, and its copy of "the port is implemented"
  st, fre,     \* the driver's bits of PxCMD: start, receive
  cr, fr,      \* the HBA's bits of PxCMD: running, receiving
  clb,         \* the driver has given the port its command list
  ci, tfes,    \* the slots issued; the error bit of PxIS
  table,       \* the command of each slot, in memory
  work,        \* the slot that the HBA executes, or NoSlot
  failed,      \* the slots whose commands failed
  disk,
  faulty,      \* a command ends with an error, now and then
  halts,       \* after an error the HBA executes nothing until ST is cleared,
               \* as its specification has it; others go on
  stuck        \* the bit of cr and fr that does not clear, and whether a
               \* COMRESET clears it

driver == <<pc, call, slot, result, retries, pi>>
software == <<driver, st, fre, clb, table>>
hba == <<cr, fr, work, failed, disk>>
temper == <<faulty, halts, stuck>>
vars == <<software, hba, ci, tfes, temper>>

Slot == 0..(Slots - 1)
NoSlot == Slots
NoCommand == [kind |-> None]

Calls == {[kind |-> "read", lba |-> l, sectors |-> n, buffer |-> <<>>] :
             l \in Lba, n \in 1..MaxSectors}
         \cup {[kind |-> "write", lba |-> l, sectors |-> Len(b), buffer |-> b] :
             l \in Lba, b \in UNION {[1..n -> Value] : n \in 1..MaxSectors}}

OnDisk(c) == \A i \in 0..(c.sectors - 1) : c.lba + i \in Lba

\* The reset of the HBA is over.  Firmware may have used the port, and what the
\* reset leaves running is what the driver then looks for.
Init == /\ pc = "check" /\ call = NoCommand /\ slot = 0 /\ result = FALSE
        /\ retries = 0 /\ pi = TRUE
        /\ \E running \in BOOLEAN : /\ st = running /\ fre = running
                                    /\ cr = running /\ fr = running
        /\ clb = FALSE /\ ci = {} /\ tfes = FALSE
        /\ table = [s \in Slot |-> NoCommand]
        /\ work = NoSlot /\ failed = {}
        /\ disk \in [Lba -> Value]
        /\ faulty \in BOOLEAN /\ halts \in BOOLEAN
        /\ stuck \in [bit : {None, "CR", "FR"}, heals : BOOLEAN]
-----------------------------------------------------------------------------
(***************************************************************************)
(* The HBA.                                                                *)
(***************************************************************************)
EngineStarts == /\ \/ st /\ ~cr /\ cr' = TRUE /\ UNCHANGED fr
                   \/ fre /\ ~fr /\ fr' = TRUE /\ UNCHANGED cr
                /\ UNCHANGED <<software, ci, tfes, work, failed, disk>>

EngineStops == /\ \/ ~st /\ cr /\ stuck.bit # "CR" /\ cr' = FALSE /\ UNCHANGED fr
                  \/ ~fre /\ fr /\ stuck.bit # "FR" /\ fr' = FALSE /\ UNCHANGED cr
               /\ UNCHANGED <<software, ci, tfes, work, failed, disk>>

Fetch == /\ cr /\ fr /\ work = NoSlot
         /\ halts => failed = {}
         /\ work' \in ci \ failed
         /\ UNCHANGED <<software, ci, tfes, cr, fr, failed, disk>>

\* The transfer between the disk and the buffer that the table names.
Transfer == LET c == table[work] IN
  CASE c.kind = "read" ->
         /\ call' = [call EXCEPT !.buffer = [i \in 1..c.sectors |-> disk[c.lba + i - 1]]]
         /\ UNCHANGED disk
    [] c.kind = "write" ->
         /\ disk' = [l \in Lba |-> IF l \in c.lba..(c.lba + c.sectors - 1)
                                   THEN c.buffer[l - c.lba + 1] ELSE disk[l]]
         /\ UNCHANGED call
    [] OTHER -> UNCHANGED <<call, disk>>

Complete == /\ work # NoSlot
            /\ Transfer
            /\ ci' = ci \ {work} /\ work' = NoSlot
            /\ UNCHANGED <<pc, slot, result, retries, pi, st, fre, clb, table,
                           tfes, cr, fr, failed>>

\* The slot of a command that failed stays in ci.
Fail == /\ work # NoSlot /\ faulty
        /\ tfes' = TRUE /\ work' = NoSlot /\ failed' = failed \cup {work}
        /\ UNCHANGED <<software, ci, cr, fr, disk>>

Busy == work # NoSlot
-----------------------------------------------------------------------------
(***************************************************************************)
(* init_dev, from its third step on.  wait_bit_clear gets the value of the *)
(* register and polls that: it waits its 500 ms, in which an engine that   *)
(* is not stuck stops, and its result is not used.                         *)
(***************************************************************************)
Check ==
  /\ pc = "check"
  /\ \/ /\ retries > 1
        /\ pi' = FALSE /\ pc' = "prepare"
        /\ UNCHANGED st
     \/ /\ retries <= 1 /\ (st \/ cr \/ fre \/ fr)
        /\ st' = FALSE /\ pc' = "stopped"
        /\ UNCHANGED pi
     \/ /\ retries <= 1 /\ ~(st \/ cr \/ fre \/ fr)
        /\ pc' = "prepare"
        /\ UNCHANGED <<pi, st>>
  /\ UNCHANGED <<call, slot, result, retries, fre, clb, table, hba, ci, tfes>>

\* port_reset, and the next look at the port.
ResetPort == /\ st' = FALSE
             /\ cr' = (cr /\ ~stuck.heals) /\ fr' = (fr /\ ~stuck.heals)
             /\ retries' = retries + 1 /\ pc' = "check"
             /\ UNCHANGED fre

Stopped == /\ pc = "stopped" /\ (cr => stuck.bit = "CR")
           /\ \/ cr /\ ResetPort
              \/ /\ ~cr
                 /\ IF fre THEN fre' = FALSE /\ pc' = "deaf"
                           ELSE pc' = "prepare" /\ UNCHANGED fre
                 /\ UNCHANGED <<st, cr, fr, retries>>
           /\ UNCHANGED <<call, slot, result, pi, clb, table, work, failed, disk, ci, tfes>>

Deaf == /\ pc = "deaf" /\ (fr => stuck.bit = "FR")
        /\ \/ fr /\ ResetPort
           \/ ~fr /\ pc' = "prepare" /\ UNCHANGED <<st, fre, cr, fr, retries>>
        /\ UNCHANGED <<call, slot, result, pi, clb, table, work, failed, disk, ci, tfes>>

\* Steps 5 to 7, for the ports of pi.
Prepare == /\ pc = "prepare"
           /\ clb' = pi /\ fre' = (fre \/ pi)
           /\ tfes' = (tfes /\ ~pi)
           /\ pc' = "probe"
           /\ UNCHANGED <<call, slot, result, retries, pi, st, table, hba, ci>>
-----------------------------------------------------------------------------
\* Mutant: slots that are issued are taken for free ones.
FreeSlotsAll == Slot

\* find_cmdslot: no command is queued, so SACT is zero.
FreeSlots == Slot \ ci

\* The common beginning of identify, read and write: clear PxIS, find a slot,
\* fill its header and its table.
Setup(c) ==
  /\ call' = c
  /\ tfes' = FALSE
  /\ IF FreeSlots = {}
     THEN /\ result' = FALSE
          /\ pc' = IF c.kind = "identify" THEN "gone" ELSE "idle"
          /\ UNCHANGED <<slot, table>>
     ELSE /\ slot' = Min(FreeSlots)
          /\ table' = [table EXCEPT ![Min(FreeSlots)] = c]
          /\ pc' = "issue"
          /\ UNCHANGED result
  /\ UNCHANGED <<retries, pi, st, fre, clb, hba, ci>>

\* probe_ports goes by the register PI, not by init_dev's copy of it.
probe_ports == pc = "probe" /\ Setup([kind |-> "identify"])

Start == pc = "idle" /\ \E c \in Calls : OnDisk(c) /\ Setup(c)

\* Mutant: start_cmd waits for the engine before it starts it.
start_cmd_late == /\ pc = "issue" /\ call.kind = "identify" /\ ~Busy /\ ~st /\ cr
                  /\ fre' = TRUE /\ st' = TRUE
                  /\ UNCHANGED <<driver, clb, table, hba, ci, tfes>>

\* start_cmd, called by identify.
start_cmd == /\ pc = "issue" /\ call.kind = "identify" /\ ~Busy /\ ~st /\ ~cr
             /\ fre' = TRUE /\ st' = TRUE
             /\ UNCHANGED <<driver, clb, table, hba, ci, tfes>>

Issue == /\ pc = "issue" /\ ~Busy /\ (call.kind = "identify" => st)
         /\ ci' = ci \cup {slot}
         /\ pc' = "wait"
         /\ UNCHANGED <<call, slot, result, retries, pi, st, fre, clb, table, hba, tfes>>

\* Mutant: the error bit is not looked at.
ErrorUnseen == /\ pc = "wait" /\ tfes
               /\ result' = TRUE /\ pc' = "idle"
               /\ UNCHANGED <<call, slot, retries, pi, st, fre, clb, table, hba, ci, tfes>>

\* A disk whose identification fails is not registered: no call follows.
Error == /\ pc = "wait" /\ tfes
         /\ result' = FALSE
         /\ pc' = IF call.kind = "identify" THEN "gone" ELSE "idle"
         /\ UNCHANGED <<call, slot, retries, pi, st, fre, clb, table, hba, ci, tfes>>

Done == /\ pc = "wait" /\ ~tfes /\ slot \notin ci
        /\ result' = TRUE /\ pc' = "idle"
        /\ UNCHANGED <<call, slot, retries, pi, st, fre, clb, table, hba, ci, tfes>>

HBA == EngineStarts \/ EngineStops \/ Fetch \/ Complete
Driver == \/ Check \/ Stopped \/ Deaf \/ Prepare \/ probe_ports
          \/ start_cmd \/ Issue \/ Error \/ Done

Next == /\ HBA \/ Fail \/ Driver \/ Start
        /\ UNCHANGED temper

Spec == Init /\ [][Next]_vars

\* The processor runs the driver; an HBA that is not stuck works.
FairSpec == Spec /\ WF_vars(Driver /\ UNCHANGED temper) /\ WF_vars(HBA /\ UNCHANGED temper)
-----------------------------------------------------------------------------
\* The buffer of a call and the sectors of the disk hold the same.
Agree(c) == c.buffer = [i \in 1..c.sectors |-> disk[c.lba + i - 1]]

(***************************************************************************)
(* A read or write that returns true did what it says, also after calls    *)
(* that failed: the driver does not take the end of one command, or the    *)
(* error bit of an earlier one, for the end of another (read, write).      *)
(***************************************************************************)
TrueMeansDone ==
  pc = "idle" /\ result /\ call.kind \in {"read", "write"} => Agree(call)

(***************************************************************************)
(* The table of a slot that the HBA still has is not rewritten, whatever   *)
(* failed before (find_cmdslot against the memset of read and write).      *)
(***************************************************************************)
IssuedTablesRest == [][\A s \in ci : table'[s] = table[s]]_vars

(***************************************************************************)
(* With a port that stops when it is told to and a disk without errors     *)
(* each call returns, the identification at boot included.                 *)
(***************************************************************************)
EveryCallReturns ==
  ~faulty /\ stuck.bit = None /\ pc # "idle" ~> pc = "idle"
=============================================================================
