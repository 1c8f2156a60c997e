--------------------------- MODULE TransferProofs ---------------------------
(***************************************************************************)
(* What a transfer to the disk and one to a file promise.  The AHCI driver *)
(* of its command slots, for every number of slots, every disk and every   *)
(* order in which driver and HBA work: the end of a command and its error  *)
(* bit belong to the slot that is waited for.  The ext2 file system of the *)
(* contents of a file, for every size of block, every number of blocks and *)
(* every input: what is written is there, and what cat prints is it.       *)
(***************************************************************************)
EXTENDS AhciPort, Ext2File, SequenceTheorems, NaturalsInduction, WellFoundedInduction, TLAPS

(***************************************************************************)
(* AhciPort.                                                               *)
(***************************************************************************)
Identify == [kind |-> "identify"]

\* Requests as they are made, and as they come back.
Requests == [kind : {"read", "write"}, lba : Lba, sectors : Nat \ {0}, buffer : Seq(Value)]

Fits(c) == c \in Requests => /\ OnDisk(c)
                             /\ c.kind = "write" => c.buffer \in [1..c.sectors -> Value]

AhciTypeOK ==
  /\ pc \in {"check", "stopped", "deaf", "prepare", "probe", "issue", "wait", "idle", "gone"}
  /\ call \in {NoCommand, Identify} \cup Requests /\ Fits(call)
  /\ slot \in Slot /\ result \in BOOLEAN
  /\ ci \subseteq Slot /\ tfes \in BOOLEAN
  /\ DOMAIN table = Slot
  /\ work \in Slot \cup {NoSlot}
  /\ disk \in [Lba -> Value]

\* A slot that failed stays issued: it is never free again, and never fetched.
FailedStayIssued == failed \subseteq ci

\* Only a driver that waits has a command under way, and that is in its slot.
UnderWay == /\ pc # "wait" => ci \subseteq failed /\ work = NoSlot
            /\ pc = "wait" => ci \ failed \subseteq {slot}
            /\ work # NoSlot => pc = "wait" /\ work = slot /\ slot \in ci \ failed

\* What a driver that waits can see: its slot issued and no error, its slot
\* free and the request done, or the error of its own slot.
SlotTells ==
  /\ pc = "issue" => slot \notin ci /\ table[slot] = call /\ ~tfes
  /\ pc = "wait" =>
       \/ slot \in ci \ failed /\ table[slot] = call /\ ~tfes
       \/ slot \notin ci /\ ~tfes /\ (call \in Requests => Agree(call))
       \/ slot \in failed /\ tfes

ResultTells == pc = "idle" /\ result /\ call \in Requests => Agree(call)

SlotInv == AhciTypeOK /\ FailedStayIssued /\ UnderWay /\ SlotTells /\ ResultTells
-----------------------------------------------------------------------------
(***************************************************************************)
(* A set of numbers has a least one; the free slots have one.              *)
(***************************************************************************)
LEMMA MinIsLeast ==
  ASSUME NEW S \in SUBSET Nat, S # {}
  PROVE  Min(S) \in S /\ \A x \in S : Min(S) <= x
<1> DEFINE R == OpToRel(<, Nat)
<1>1. \A x, y \in Nat : x < y => <<x, y>> \in R
  BY DEF OpToRel
<1>2. IsWellFoundedOn(R, Nat)
  BY NatLessThanWellFounded
<1> HIDE DEF R
<1>3. PICK x \in S : \A y \in S : ~ (<<y, x>> \in R)
  BY <1>2, WFMin
<1>4. ASSUME NEW y \in S PROVE x <= y
  <2>1. x \in Nat /\ y \in Nat
    OBVIOUS
  <2>2. ~ (y < x)
    BY <1>1, <1>3, <2>1
  <2> QED BY <2>1, <2>2
<1> QED BY <1>4 DEF Min

LEMMA FirstFreeSlot ==
  ASSUME AhciTypeOK, FreeSlots # {}
  PROVE  Min(FreeSlots) \in Slot /\ Min(FreeSlots) \notin ci
<1>1. FreeSlots \in SUBSET Nat
  BY AhciAssumption DEF FreeSlots, Slot
<1>2. Min(FreeSlots) \in FreeSlots
  BY <1>1, MinIsLeast
<1> QED BY <1>2 DEF FreeSlots

LEMMA NoSlotIsNone == NoSlot \notin Slot
BY AhciAssumption DEF NoSlot, Slot

LEMMA RequestFacts ==
  /\ Identify.kind = "identify" /\ NoCommand.kind = None
  /\ Identify \notin Requests /\ NoCommand \notin Requests
  /\ \A c \in Requests :
       /\ c.kind \in {"read", "write"} /\ c.lba \in Lba /\ c.sectors \in Nat \ {0}
       /\ c.buffer \in Seq(Value)
       /\ \A b \in Seq(Value) :
            /\ [c EXCEPT !.buffer = b] \in Requests
            /\ [c EXCEPT !.buffer = b].kind = c.kind /\ [c EXCEPT !.buffer = b].lba = c.lba
            /\ [c EXCEPT !.buffer = b].sectors = c.sectors
            /\ [c EXCEPT !.buffer = b].buffer = b
<1>1. Identify.kind = "identify" /\ NoCommand.kind = None /\ None = "none"
  BY DEF Identify, NoCommand, None
<1>2. \A c \in Requests : /\ c.kind \in {"read", "write"} /\ c.lba \in Lba
                          /\ c.sectors \in Nat \ {0} /\ c.buffer \in Seq(Value)
  BY DEF Requests
<1>3. Identify \notin Requests /\ NoCommand \notin Requests
  BY <1>1, <1>2
<1>4. ASSUME NEW c \in Requests, NEW b \in Seq(Value)
      PROVE  /\ [c EXCEPT !.buffer = b] \in Requests
             /\ [c EXCEPT !.buffer = b].kind = c.kind /\ [c EXCEPT !.buffer = b].lba = c.lba
             /\ [c EXCEPT !.buffer = b].sectors = c.sectors
             /\ [c EXCEPT !.buffer = b].buffer = b
  BY DEF Requests
<1> QED BY <1>1, <1>2, <1>3, <1>4

\* A request that is made can be carried out.
LEMMA CallsFit ==
  ASSUME NEW c \in Calls, OnDisk(c)
  PROVE  c \in Requests /\ Fits(c)
<1>1. ASSUME NEW l \in Lba, NEW n \in 1..MaxSectors,
             c = [kind |-> "read", lba |-> l, sectors |-> n, buffer |-> <<>>]
      PROVE  c \in Requests /\ c.kind = "read"
  <2>1. n \in Nat \ {0} /\ <<>> \in Seq(Value)
    BY AhciAssumption
  <2> QED BY <1>1, <2>1 DEF Requests
<1>2. ASSUME NEW l \in Lba, NEW n \in 1..MaxSectors, NEW b \in [1..n -> Value],
             c = [kind |-> "write", lba |-> l, sectors |-> Len(b), buffer |-> b]
      PROVE  c \in Requests /\ c.buffer \in [1..c.sectors -> Value]
  <2>1. n \in Nat \ {0}
    BY AhciAssumption
  <2>2. b \in Seq(Value) /\ Len(b) = n
    BY <2>1
  <2> QED BY <1>2, <2>1, <2>2 DEF Requests
<1> QED BY <1>1, <1>2 DEF Calls, Fits
-----------------------------------------------------------------------------
(***************************************************************************)
(* Each step keeps it.                                                     *)
(***************************************************************************)
LEMMA InitSlots == Init => SlotInv
<1> SUFFICES ASSUME Init PROVE SlotInv
  OBVIOUS
<1>1. /\ pc = "check" /\ call = NoCommand /\ slot = 0 /\ result = FALSE /\ ci = {} /\ tfes = FALSE
      /\ DOMAIN table = Slot /\ work = NoSlot /\ failed = {} /\ disk \in [Lba -> Value]
  BY DEF Init
<1>2. 0 \in Slot
  BY AhciAssumption DEF Slot
<1>3. AhciTypeOK
  BY <1>1, <1>2, RequestFacts DEF AhciTypeOK, Fits
<1> QED BY <1>1, <1>3 DEF SlotInv, FailedStayIssued, UnderWay, SlotTells, ResultTells

\* The HBA carries out the command of the slot that the driver waits for.
LEMMA CompleteKeeps ==
  ASSUME SlotInv, Complete
  PROVE  SlotInv'
<1>1. AhciTypeOK /\ FailedStayIssued /\ UnderWay /\ SlotTells
  BY DEF SlotInv
<1>2. /\ UNCHANGED <<pc, slot, result, table, tfes, failed>>
      /\ ci' = ci \ {slot} /\ work' = NoSlot
      /\ pc = "wait" /\ work = slot /\ slot \in ci \ failed
  BY <1>1 DEF Complete, UnderWay
<1>3. table[slot] = call /\ ~tfes
  BY <1>1, <1>2 DEF SlotTells, FailedStayIssued
<1>4. Transfer /\ table[work] = call
  BY <1>2, <1>3 DEF Complete
<1>5. CASE call \notin Requests
  <2>1. call.kind \in {"none", "identify"}
    BY <1>1, <1>5, RequestFacts DEF AhciTypeOK, None
  <2>2. UNCHANGED <<call, disk>>
    BY <1>4, <2>1 DEF Transfer
  <2> QED BY <1>1, <1>2, <1>3, <1>5, <2>2
          DEF SlotInv, AhciTypeOK, Fits, FailedStayIssued, UnderWay, SlotTells, ResultTells
<1>6. CASE call \in Requests /\ call.kind = "read"
  <2> DEFINE b == [i \in 1..call.sectors |-> disk[call.lba + i - 1]]
  <2>1. call' = [call EXCEPT !.buffer = b] /\ disk' = disk
    BY <1>4, <1>6 DEF Transfer
  <2>2. /\ call.sectors \in Nat /\ call.lba \in Nat /\ OnDisk(call) /\ disk \in [Lba -> Value]
    BY <1>1, <1>6, RequestFacts, AhciAssumption DEF AhciTypeOK, Fits
  <2>3. b \in Seq(Value)
    <3>1. ASSUME NEW i \in 1..call.sectors PROVE disk[call.lba + i - 1] \in Value
      <4>1. i - 1 \in 0..(call.sectors - 1) /\ call.lba + i - 1 = call.lba + (i - 1)
        BY <2>2
      <4>2. call.lba + i - 1 \in Lba
        BY <2>2, <4>1 DEF OnDisk
      <4> QED BY <2>2, <4>2
    <3> QED BY <2>2, <3>1
  <2> HIDE DEF b
  <2>4. /\ call' \in Requests /\ call'.kind = "read" /\ call'.lba = call.lba
        /\ call'.sectors = call.sectors /\ call'.buffer = b
    BY <1>6, <2>1, <2>3, RequestFacts
  <2>5. Agree(call)'
    BY <2>1, <2>4 DEF Agree, b
  <2>6. Fits(call)'
    BY <2>2, <2>4 DEF Fits, OnDisk
  <2>7. AhciTypeOK'
    BY <1>1, <1>2, <2>1, <2>4, <2>6 DEF AhciTypeOK
  <2> QED BY <1>1, <1>2, <1>3, <2>5, <2>7
          DEF SlotInv, FailedStayIssued, UnderWay, SlotTells, ResultTells
<1>7. CASE call \in Requests /\ call.kind = "write"
  <2>1. /\ call' = call
        /\ disk' = [l \in Lba |-> IF l \in call.lba..(call.lba + call.sectors - 1)
                                  THEN call.buffer[l - call.lba + 1] ELSE disk[l]]
    BY <1>4, <1>7 DEF Transfer
  <2>2. /\ call.sectors \in Nat /\ call.lba \in Nat /\ OnDisk(call) /\ disk \in [Lba -> Value]
        /\ call.buffer \in [1..call.sectors -> Value] /\ Lba \subseteq Nat
    BY <1>1, <1>7, RequestFacts, AhciAssumption DEF AhciTypeOK, Fits
  <2>3. disk' \in [Lba -> Value]
    <3> SUFFICES ASSUME NEW l \in Lba, l \in call.lba..(call.lba + call.sectors - 1)
                 PROVE  call.buffer[l - call.lba + 1] \in Value
      BY <2>1, <2>2
    <3>1. l - call.lba + 1 \in 1..call.sectors
      BY <2>2
    <3> QED BY <2>2, <3>1
  <2>4. Agree(call)'
    <3> SUFFICES ASSUME NEW i \in 1..call.sectors
                 PROVE  call.buffer[i] = disk'[call.lba + i - 1]
      BY <2>1, <2>2 DEF Agree
    <3>1. i - 1 \in 0..(call.sectors - 1) /\ call.lba + i - 1 = call.lba + (i - 1)
      BY <2>2
    <3>2. call.lba + i - 1 \in Lba
      BY <2>2, <3>1 DEF OnDisk
    <3>3. /\ call.lba + i - 1 \in call.lba..(call.lba + call.sectors - 1)
          /\ (call.lba + i - 1) - call.lba + 1 = i
      BY <2>2
    <3> QED BY <2>1, <3>2, <3>3
  <2>5. AhciTypeOK'
    BY <1>1, <1>2, <2>1, <2>3 DEF AhciTypeOK, Fits, OnDisk
  <2> QED BY <1>1, <1>2, <1>3, <2>1, <2>4, <2>5
          DEF SlotInv, FailedStayIssued, UnderWay, SlotTells, ResultTells
<1> QED BY <1>5, <1>6, <1>7, RequestFacts

\* The HBA starts and stops, takes the one command that is under way, or
\* fails it.
LEMMA HbaKeeps ==
  ASSUME SlotInv, EngineStarts \/ EngineStops \/ Fetch \/ Fail
  PROVE  SlotInv'
<1>1. AhciTypeOK /\ FailedStayIssued /\ UnderWay /\ SlotTells /\ ResultTells
  BY DEF SlotInv
<1>2. UNCHANGED <<pc, call, slot, result, table, ci, disk>>
  BY DEF EngineStarts, EngineStops, Fetch, Fail, software, driver
<1>3. CASE EngineStarts \/ EngineStops
  <2>1. UNCHANGED <<tfes, work, failed>>
    BY <1>3 DEF EngineStarts, EngineStops
  <2> QED BY <1>1, <1>2, <2>1 DEF SlotInv, AhciTypeOK, Fits, OnDisk, FailedStayIssued, UnderWay,
             SlotTells, ResultTells, Agree
<1>4. CASE Fetch
  <2>1. work' \in ci \ failed /\ UNCHANGED <<tfes, failed>>
    BY <1>4 DEF Fetch
  <2>2. pc = "wait" /\ work' = slot
    BY <1>1, <2>1 DEF UnderWay
  <2>3. work' \in Slot
    BY <1>1, <2>2 DEF AhciTypeOK
  <2> QED BY <1>1, <1>2, <2>1, <2>2, <2>3 DEF SlotInv, AhciTypeOK, Fits, OnDisk, FailedStayIssued,
             UnderWay, SlotTells, ResultTells, Agree
<1>5. CASE Fail
  <2>1. work # NoSlot /\ tfes' = TRUE /\ work' = NoSlot /\ failed' = failed \cup {work}
    BY <1>5 DEF Fail
  <2>2. pc = "wait" /\ work = slot /\ slot \in ci \ failed
    BY <1>1, <2>1 DEF UnderWay
  <2> QED BY <1>1, <1>2, <2>1, <2>2 DEF SlotInv, AhciTypeOK, Fits, OnDisk, FailedStayIssued,
             UnderWay, SlotTells, ResultTells, Agree
<1> QED BY <1>3, <1>4, <1>5

\* What a request does before it is issued.
LEMMA SetupKeeps ==
  ASSUME SlotInv, NEW c, Setup(c), pc \in {"probe", "idle"},
         c = Identify \/ (c \in Calls /\ OnDisk(c))
  PROVE  SlotInv' /\ \A s \in ci : table'[s] = table[s]
<1>1. AhciTypeOK /\ FailedStayIssued /\ UnderWay
  BY DEF SlotInv
<1>2. /\ call' = c /\ tfes' = FALSE
      /\ UNCHANGED <<ci, work, failed, disk>>
  BY DEF Setup, hba
<1>3. c \in {NoCommand, Identify} \cup Requests /\ Fits(c)
  BY CallsFit, RequestFacts DEF Fits
<1>4. Fits(call)'
  BY <1>2, <1>3 DEF Fits, OnDisk
<1>5. CASE FreeSlots = {}
  <2>1. /\ result' = FALSE /\ pc' \in {"gone", "idle"} /\ UNCHANGED <<slot, table>>
    BY <1>5 DEF Setup
  <2>2. AhciTypeOK'
    BY <1>1, <1>2, <1>3, <1>4, <2>1 DEF AhciTypeOK
  <2> QED BY <1>1, <1>2, <2>1, <2>2
          DEF SlotInv, FailedStayIssued, UnderWay, SlotTells, ResultTells
<1>6. CASE FreeSlots # {}
  <2> DEFINE s == Min(FreeSlots)
  <2>1. s \in Slot /\ s \notin ci
    BY <1>1, <1>6, FirstFreeSlot
  <2>2. slot' = s /\ table' = [table EXCEPT ![s] = c] /\ pc' = "issue" /\ result' = result
    BY <1>6 DEF Setup
  <2> HIDE DEF s
  <2>3. table'[s] = c /\ DOMAIN table' = Slot /\ \A t \in ci : table'[t] = table[t]
    BY <1>1, <2>1, <2>2 DEF AhciTypeOK
  <2>4. AhciTypeOK'
    BY <1>1, <1>2, <1>3, <1>4, <2>1, <2>2, <2>3 DEF AhciTypeOK
  <2> QED BY <1>1, <1>2, <2>1, <2>2, <2>3, <2>4
          DEF SlotInv, FailedStayIssued, UnderWay, SlotTells, ResultTells
<1> QED BY <1>5, <1>6

\* The steps of init_dev, which issue nothing.
LEMMA InitDevKeeps ==
  ASSUME SlotInv, Check \/ Stopped \/ Deaf \/ Prepare
  PROVE  SlotInv'
<1>1. AhciTypeOK /\ FailedStayIssued /\ UnderWay /\ SlotTells /\ ResultTells
  BY DEF SlotInv
<1>2. /\ pc \in {"check", "stopped", "deaf", "prepare"}
      /\ pc' \in {"check", "stopped", "deaf", "prepare", "probe"}
      /\ UNCHANGED <<call, slot, result, table, work, failed, disk, ci>> /\ tfes' \in BOOLEAN
  BY <1>1 DEF Check, Stopped, Deaf, Prepare, ResetPort, hba, AhciTypeOK
<1> QED BY <1>1, <1>2 DEF SlotInv, AhciTypeOK, Fits, OnDisk, FailedStayIssued, UnderWay,
           SlotTells, ResultTells, Agree

\* A request is issued, and its end is seen.
LEMMA IssueKeeps ==
  ASSUME SlotInv, start_cmd \/ Issue \/ Error \/ Done
  PROVE  SlotInv'
<1>1. AhciTypeOK /\ FailedStayIssued /\ UnderWay /\ SlotTells /\ ResultTells
  BY DEF SlotInv
<1>2. UNCHANGED <<call, slot, table, work, failed, disk, tfes>>
  BY DEF start_cmd, Issue, Error, Done, driver, hba
<1>3. CASE start_cmd
  <2>1. UNCHANGED <<pc, result, ci>>
    BY <1>3 DEF start_cmd, driver
  <2> QED BY <1>1, <1>2, <2>1 DEF SlotInv, AhciTypeOK, Fits, OnDisk, FailedStayIssued, UnderWay,
             SlotTells, ResultTells, Agree
<1>4. CASE Issue
  <2>1. pc = "issue" /\ ci' = ci \cup {slot} /\ pc' = "wait" /\ result' = result
    BY <1>4 DEF Issue
  <2>2. slot \notin failed /\ slot \in Slot
    BY <1>1, <2>1 DEF SlotTells, FailedStayIssued, AhciTypeOK
  <2> QED BY <1>1, <1>2, <2>1, <2>2 DEF SlotInv, AhciTypeOK, Fits, OnDisk, FailedStayIssued,
             UnderWay, SlotTells, ResultTells, Agree
<1>5. CASE Error
  <2>1. pc = "wait" /\ tfes /\ result' = FALSE /\ pc' \in {"gone", "idle"} /\ ci' = ci
    BY <1>5 DEF Error
  <2>2. slot \in failed /\ work = NoSlot
    BY <1>1, <2>1 DEF SlotTells, UnderWay
  <2> QED BY <1>1, <1>2, <2>1, <2>2 DEF SlotInv, AhciTypeOK, Fits, OnDisk, FailedStayIssued,
             UnderWay, SlotTells, ResultTells, Agree
<1>6. CASE Done
  <2>1. pc = "wait" /\ ~tfes /\ slot \notin ci /\ result' = TRUE /\ pc' = "idle" /\ ci' = ci
    BY <1>6 DEF Done
  <2>2. work = NoSlot /\ (call \in Requests => Agree(call))
    BY <1>1, <2>1 DEF SlotTells, UnderWay
  <2> QED BY <1>1, <1>2, <2>1, <2>2 DEF SlotInv, AhciTypeOK, Fits, OnDisk, FailedStayIssued,
             UnderWay, SlotTells, ResultTells, Agree
<1> QED BY <1>3, <1>4, <1>5, <1>6

\* One step of all, and what it does to the tables that are issued.
LEMMA SlotsNext ==
  ASSUME SlotInv, [Next]_vars
  PROVE  SlotInv' /\ \A s \in ci : table'[s] = table[s]
<1>1. CASE UNCHANGED vars
  <2>1. UNCHANGED <<pc, call, slot, result, table, ci, tfes, work, failed, disk>>
    BY <1>1 DEF vars, software, hba, driver
  <2> QED BY <2>1 DEF SlotInv, AhciTypeOK, Fits, OnDisk, FailedStayIssued, UnderWay, SlotTells,
             ResultTells, Agree
<1>2. CASE EngineStarts \/ EngineStops \/ Fetch \/ Fail
  BY <1>2, HbaKeeps DEF EngineStarts, EngineStops, Fetch, Fail, software
<1>3. CASE Complete
  BY <1>3, CompleteKeeps DEF Complete
<1>4. CASE Check \/ Stopped \/ Deaf \/ Prepare
  BY <1>4, InitDevKeeps DEF Check, Stopped, Deaf, Prepare
<1>5. CASE start_cmd \/ Issue \/ Error \/ Done
  BY <1>5, IssueKeeps DEF start_cmd, Issue, Error, Done
<1>6. CASE probe_ports
  BY <1>6, SetupKeeps DEF probe_ports, Identify
<1>7. CASE Start
  <2>1. PICK c \in Calls : OnDisk(c) /\ Setup(c)
    BY <1>7 DEF Start
  <2> QED BY <1>7, <2>1, SetupKeeps DEF Start
<1> QED BY <1>1, <1>2, <1>3, <1>4, <1>5, <1>6, <1>7 DEF Next, HBA, Driver
-----------------------------------------------------------------------------
(***************************************************************************)
(* For every number of slots and every disk, with errors or without: when  *)
(* read or write (ahci.cpp) returns true, the buffer and the sectors hold  *)
(* the same.                                                               *)
(***************************************************************************)
THEOREM TrueMeansDoneAlways == Spec => []TrueMeansDone
<1>1. SlotInv => TrueMeansDone
  <2> SUFFICES ASSUME SlotInv, pc = "idle", result, call.kind \in {"read", "write"}
               PROVE  Agree(call)
    BY DEF TrueMeansDone
  <2>1. call \in Requests
    BY RequestFacts DEF SlotInv, AhciTypeOK, None
  <2> QED BY <2>1 DEF SlotInv, ResultTells
<1> QED BY <1>1, InitSlots, SlotsNext, PTL DEF Spec

(***************************************************************************)
(* find_cmdslot never gives out a slot that is still issued, so nobody     *)
(* rewrites the table of a command that the HBA has, or has failed.        *)
(***************************************************************************)
THEOREM IssuedTablesAlwaysRest == Spec => IssuedTablesRest
<1>1. SlotInv /\ [Next]_vars => [\A s \in ci : table'[s] = table[s]]_vars
  BY SlotsNext
<1> QED BY <1>1, InitSlots, SlotsNext, PTL DEF Spec, IssuedTablesRest

-----------------------------------------------------------------------------
(***************************************************************************)
(* Ext2File.                                                               *)
(***************************************************************************)
LEMMA LeastOf ==
  ASSUME NEW S \in SUBSET Nat, S # {}
  PROVE  \E x \in S : \A y \in S : x <= y
<1> DEFINE R == OpToRel(<, Nat)
<1>1. \A x, y \in Nat : x < y => <<x, y>> \in R
  BY DEF OpToRel
<1>2. IsWellFoundedOn(R, Nat)
  BY NatLessThanWellFounded
<1> HIDE DEF R
<1>3. PICK x \in S : \A y \in S : ~ (<<y, x>> \in R)
  BY <1>2, WFMin
<1>4. ASSUME NEW y \in S PROVE x <= y
  <2>1. x \in Nat /\ y \in Nat
    OBVIOUS
  <2>2. ~ (y < x)
    BY <1>1, <1>3, <2>1
  <2> QED BY <2>1, <2>2
<1> QED BY <1>4

LEMMA Induction ==
  ASSUME NEW T \in SUBSET Nat, 0 \in T, \A n \in T : n + 1 \in T
  PROVE  T = Nat
<1> DEFINE S == Nat \ T
<1> SUFFICES ASSUME S # {} PROVE FALSE
  OBVIOUS
<1>1. S \in SUBSET Nat
  OBVIOUS
<1>2. PICK x \in S : \A y \in S : x <= y
  <2> HIDE DEF S
  <2> QED BY <1>1, LeastOf
<1>3. x \in Nat /\ x # 0
  OBVIOUS
<1>4. x - 1 \in Nat /\ ~ (x <= x - 1) /\ (x - 1) + 1 = x
  BY <1>3
<1>5. x - 1 \notin S
  BY <1>2, <1>4
<1>6. x - 1 \in T
  BY <1>4, <1>5
<1>7. x \in T
  BY <1>4, <1>6
<1> QED BY <1>7

\* What a function that is defined by recursion makes of its first value: step
\* takes the number of the value and the one before.
StaysIn(step, S) == \A k \in Nat, v \in S : step[<<k, v>>] \in S
Iterated(g, x, step, n) == g[0] = x /\ \A k \in 1..n : g[k] = step[<<k, g[k - 1]>>]

LEMMA Iterates ==
  ASSUME NEW S, NEW x \in S, NEW step, StaysIn(step, S), NEW n \in Nat
  PROVE  \E g \in [0..n -> S] : Iterated(g, x, step, n)
<1> DEFINE Is(g, k) == /\ g \in [0..k -> S] /\ g[0] = x
                       /\ \A j \in 1..k : g[j] = step[<<j, g[j - 1]>>]
           T == {k \in Nat : \E g : Is(g, k)}
<1>0. \A k \in Nat, v \in S : step[<<k, v>>] \in S
  BY DEF StaysIn
<1>1. 0 \in T
  <2> DEFINE g == [k \in 0..0 |-> x]
  <2>1. Is(g, 0)
    OBVIOUS
  <2> QED BY <2>1
<1>2. ASSUME NEW k \in T PROVE k + 1 \in T
  <2>0. k \in Nat /\ k + 1 \in Nat
    OBVIOUS
  <2>1. PICK g : Is(g, k)
    OBVIOUS
  <2> DEFINE next == step[<<k + 1, g[k]>>]
             f == [j \in 0..(k + 1) |-> IF j = k + 1 THEN next ELSE g[j]]
  <2>2. next \in S
    <3>1. g[k] \in S
      BY <2>0, <2>1
    <3> QED BY <1>0, <2>0, <3>1
  <2>3. f \in [0..(k + 1) -> S]
    <3>1. \A j \in 0..(k + 1) : j # k + 1 => j \in 0..k
      BY <2>0
    <3> HIDE DEF next
    <3> QED BY <2>1, <2>2, <3>1
  <2>4. f[0] = x
    BY <2>0, <2>1
  <2>5. ASSUME NEW j \in 1..(k + 1) PROVE f[j] = step[<<j, f[j - 1]>>]
    <3>1. f[j - 1] = g[j - 1]
      BY <2>0
    <3>2. CASE j = k + 1
      <4>1. f[j] = next /\ j - 1 = k
        BY <2>0, <3>2
      <4> QED BY <3>1, <3>2, <4>1
    <3>3. CASE j \in 1..k
      <4>1. f[j] = g[j]
        BY <2>0, <3>3
      <4>2. g[j] = step[<<j, g[j - 1]>>]
        <5> HIDE DEF f
        <5> QED BY <2>1, <3>3
      <4> QED BY <3>1, <4>1, <4>2
    <3> QED BY <2>0, <3>2, <3>3
  <2> HIDE DEF f
  <2>6. Is(f, k + 1)
    BY <2>3, <2>4, <2>5
  <2> HIDE DEF Is
  <2> QED BY <2>0, <2>6
<1>3. T \in SUBSET Nat
  OBVIOUS
<1>4. n \in T
  <2> HIDE DEF T
  <2> QED BY <1>1, <1>2, <1>3, Induction
<1> QED BY <1>4 DEF Iterated

LEMMA UpTo ==
  ASSUME NEW n \in Nat, NEW T, 0 \in T, \A k \in 0..(n - 1) : k \in T => k + 1 \in T
  PROVE  \A k \in 0..n : k \in T
<1> DEFINE S == {k \in Nat : k <= n => k \in T}
<1>1. 0 \in S
  OBVIOUS
<1>2. ASSUME NEW k \in S PROVE k + 1 \in S
  <2>1. CASE k + 1 <= n
    <3>1. k \in 0..(n - 1) /\ k <= n /\ k + 1 \in Nat
      BY <2>1
    <3>2. k + 1 \in T
      BY <1>2, <3>1
    <3> QED BY <3>1, <3>2
  <2>2. CASE ~ (k + 1 <= n)
    BY <2>2
  <2> QED BY <2>1, <2>2
<1>3. S \in SUBSET Nat
  OBVIOUS
<1>4. S = Nat
  <2> HIDE DEF S
  <2> QED BY <1>1, <1>2, <1>3, Induction
<1>5. ASSUME NEW k \in 0..n PROVE k \in T
  <2>1. k \in S /\ k <= n
    BY <1>4
  <2> QED BY <2>1
<1> QED BY <1>5

\* Two functions on 0..n that begin with the same value and go on alike.
Function(f, n) == f = [k \in 0..n |-> f[k]]
GoAlike(f, g, n) == f[0] = g[0] /\ \A k \in 0..(n - 1) : f[k] = g[k] => f[k + 1] = g[k + 1]

LEMMA SameUpTo ==
  ASSUME NEW n \in Nat, NEW f, NEW g, Function(f, n), Function(g, n), GoAlike(f, g, n)
  PROVE  f = g
<1> DEFINE T == {k \in 0..n : f[k] = g[k]}
<1>0. \A k \in 0..(n - 1) : f[k] = g[k] => f[k + 1] = g[k + 1]
  BY DEF GoAlike
<1>1. 0 \in T
  BY DEF GoAlike
<1>2. \A k \in 0..(n - 1) : k \in T => k + 1 \in T
  <2>1. ASSUME NEW k \in 0..(n - 1), f[k] = g[k] PROVE k + 1 \in 0..n /\ f[k + 1] = g[k + 1]
    <3>1. k + 1 \in 0..n
      BY ONLY n \in Nat, k \in 0..(n - 1)
    <3> QED BY ONLY <1>0, <2>1, <3>1, k \in 0..(n - 1)
  <2> QED BY <2>1
<1>3. \A k \in 0..n : k \in T
  <2> HIDE DEF T
  <2> QED BY <1>1, <1>2, UpTo
<1>4. \A k \in 0..n : f[k] = g[k]
  BY <1>3
<1>5. f = [k \in 0..n |-> f[k]] /\ g = [k \in 0..n |-> g[k]]
  BY DEF Function
<1> QED BY ONLY <1>4, <1>5
-----------------------------------------------------------------------------
(***************************************************************************)
(* Blocks and bytes.                                                       *)
(***************************************************************************)
\* The first byte of block k.
B(k) == k * BlockSize

LEMMA Sizes ==
  /\ BlockSize \in Nat /\ BlockSize > 0 /\ Direct \in Nat /\ Direct > 0
  /\ PerBlock \in Nat /\ PerBlock > 0 /\ Index = 0..(Direct + PerBlock - 1)
  /\ Inputs \subseteq Seq(Byte) /\ Imported \subseteq Seq(Byte) /\ Zero \in Byte /\ Junk \in Byte
BY Ext2FileAssumption DEF Index

LEMMA Products ==
  /\ B(0) = 0
  /\ \A k \in Nat : B(k) \in Nat /\ B(k + 1) = B(k) + BlockSize
  /\ \A i, k \in Nat : i < k => B(i) + BlockSize <= B(k)
  /\ \A i, k \in Nat : i <= k => B(i) <= B(k)
<1> DEFINE b == BlockSize
<1>0. b \in Nat /\ b > 0
  BY Sizes
<1> HIDE DEF b
<1>1. 0 * b = 0 /\ \A k \in Nat : k * b \in Nat /\ (k + 1) * b = k * b + b
  BY <1>0
<1>2. \A i, k \in Nat : i < k => i * b + b <= k * b
  <2>1. ASSUME NEW i \in Nat, NEW k \in Nat, i < k PROVE i * b + b <= k * b
    <3>1. PICK d \in Nat : k = i + 1 + d
      <4>1. k - i - 1 \in Nat /\ k = i + 1 + (k - i - 1)
        BY <2>1
      <4> QED BY <4>1
    <3>2. k * b = i * b + b + d * b /\ d * b \in Nat /\ i * b \in Nat
      BY <1>0, <3>1
    <3> QED BY <1>0, <3>2
  <2> QED BY <2>1
<1>3. \A i, k \in Nat : i <= k => i * b <= k * b
  <2>1. ASSUME NEW i \in Nat, NEW k \in Nat, i <= k PROVE i * b <= k * b
    <3>1. i * b \in Nat /\ k * b \in Nat /\ (i = k \/ i < k)
      BY <1>1, <2>1
    <3>2. i < k => i * b + b <= k * b
      BY <1>2
    <3> QED BY <1>0, <3>1, <3>2
  <2> QED BY <2>1
<1> QED BY <1>1, <1>2, <1>3 DEF B, b

LEMMA DivMod ==
  ASSUME NEW n \in Nat
  PROVE  /\ n \div BlockSize \in Nat /\ n % BlockSize \in 0..(BlockSize - 1)
         /\ n = B(n \div BlockSize) + (n % BlockSize)
BY Sizes DEF B

LEMMA InBlock ==
  ASSUME NEW k \in Nat, NEW r \in 0..(BlockSize - 1)
  PROVE  (B(k) + r) \div BlockSize = k /\ (B(k) + r) % BlockSize = r
<1> DEFINE n == B(k) + r
           q == n \div BlockSize
           m == n % BlockSize
<1>1. B(k) \in Nat /\ n \in Nat /\ BlockSize \in Nat
  <2>1. B(k) \in Nat /\ BlockSize \in Nat
    BY Products, Sizes
  <2> QED BY <2>1
<1>2. q \in Nat /\ m \in 0..(BlockSize - 1) /\ n = B(q) + m /\ B(q) \in Nat
  BY <1>1, DivMod, Products
<1> HIDE DEF q, m
<1>3. ~ (q < k)
  <2>1. q < k => B(q) + BlockSize <= B(k)
    BY <1>2, Products
  <2> QED BY <1>1, <1>2, <2>1
<1>4. ~ (k < q)
  <2>1. k < q => B(k) + BlockSize <= B(q)
    BY <1>2, Products
  <2> QED BY <1>1, <1>2, <2>1
<1>5. q = k
  BY <1>2, <1>3, <1>4
<1>6. m = r
  BY <1>1, <1>2, <1>5
<1> QED BY <1>5, <1>6 DEF q, m

Block == [1..BlockSize -> Byte]
Blocks == [Index -> {NoBlock} \cup Block]

LEMMA BlockFacts ==
  /\ \A b \in Block : b # NoBlock
  /\ Zeros \in Block
  /\ \A b \in {NoBlock} \cup Block : Loaded(b) \in Block
  /\ \A b \in Block : Loaded(b) = b
<1>1. \A b \in Block : b # NoBlock
  <2>1. ASSUME NEW b \in Block PROVE b # <<>>
    <3>1. DOMAIN b = 1..BlockSize /\ 1 \in 1..BlockSize
      BY Sizes DEF Block
    <3>2. DOMAIN <<>> = {}
      OBVIOUS
    <3> QED BY <3>1, <3>2
  <2> QED BY <2>1 DEF NoBlock
<1>2. Zeros \in Block
  BY Sizes DEF Zeros, Block
<1> QED BY <1>1, <1>2 DEF Loaded

LEMMA SequenceOf ==
  ASSUME NEW S, NEW l
  PROVE  l \in Seq(S) <=> \E n \in Nat : l \in [1..n -> S]
OBVIOUS

\* The block of a byte of the file.
LEMMA IndexOf ==
  ASSUME NEW n \in Nat, n < Capacity
  PROVE  n \div BlockSize \in Index
<1> DEFINE q == n \div BlockSize
           m == n % BlockSize
           all == Direct + PerBlock
<1>1. q \in Nat /\ m \in 0..(BlockSize - 1) /\ n = B(q) + m
  BY DivMod
<1>2. all \in Nat /\ Index = 0..(all - 1) /\ Capacity = B(all)
  BY Sizes DEF Capacity, B
<1> HIDE DEF q, m, all
<1>3. ~ (all <= q)
  <2>1. all <= q => B(all) <= B(q)
    BY <1>1, <1>2, Products
  <2>2. B(all) \in Nat /\ B(q) \in Nat /\ m \in Nat
    BY <1>1, <1>2, Products, Sizes
  <2> QED BY <1>1, <1>2, <2>1, <2>2
<1> QED BY <1>1, <1>2, <1>3 DEF q

ContentsOf(length, held) ==
  [n \in 1..length |->
     LET b == held[(n - 1) \div BlockSize] IN
       IF b = NoBlock THEN Zero ELSE b[((n - 1) % BlockSize) + 1]]

\* A byte of the contents is one of its block; a block that is missing is zeros.
LEMMA ContentsAre ==
  ASSUME NEW length \in Nat, length <= Capacity, NEW held \in Blocks
  PROVE  /\ ContentsOf(length, held) \in Seq(Byte) /\ Len(ContentsOf(length, held)) = length
         /\ \A i \in Index, r \in 0..(BlockSize - 1) : B(i) + r < length =>
              ContentsOf(length, held)[B(i) + r + 1] = Loaded(held[i])[r + 1]
<1> DEFINE c == ContentsOf(length, held)
           at(n) == LET b == held[(n - 1) \div BlockSize] IN
                    IF b = NoBlock THEN Zero ELSE b[((n - 1) % BlockSize) + 1]
<1>1. ASSUME NEW n \in 1..length
      PROVE  /\ (n - 1) \div BlockSize \in Index
             /\ at(n) = Loaded(held[(n - 1) \div BlockSize])[((n - 1) % BlockSize) + 1]
             /\ at(n) \in Byte
  <2> DEFINE q == (n - 1) \div BlockSize
             m == (n - 1) % BlockSize
  <2>1. n - 1 \in Nat
    OBVIOUS
  <2>2. q \in Nat /\ m \in 0..(BlockSize - 1) /\ n - 1 = B(q) + m
    BY <2>1, DivMod
  <2>3. q \in Index
    <3>1. length <= Capacity => n - 1 < Capacity
      <4> HIDE DEF q, m
      <4>1. Capacity \in Nat
        BY Sizes DEF Capacity
      <4> QED BY <2>1, <4>1
    <3> QED BY <2>1, <3>1, IndexOf
  <2>4. held[q] \in {NoBlock} \cup Block /\ m + 1 \in 1..BlockSize
    <3> HIDE DEF q, m
    <3> QED BY <2>2, <2>3, Sizes DEF Blocks
  <2> HIDE DEF q, m
  <2>5. Loaded(held[q]) \in Block
    BY <2>4, BlockFacts
  <2>6. Loaded(held[q])[m + 1] = IF held[q] = NoBlock THEN Zero ELSE held[q][m + 1]
    BY <2>4 DEF Loaded, Zeros
  <2>7. Loaded(held[q])[m + 1] \in Byte
    BY <2>4, <2>5 DEF Block
  <2> QED BY <2>3, <2>6, <2>7 DEF q, m
<1>2. c = [n \in 1..length |-> at(n)]
  BY DEF ContentsOf
<1> HIDE DEF c
<1>3. c \in [1..length -> Byte]
  <2> HIDE DEF at
  <2> QED BY <1>1, <1>2
<1>4. c \in Seq(Byte) /\ Len(c) = length
  <2> HIDE DEF at
  <2>1. c \in Seq(Byte)
    BY <1>3, SequenceOf
  <2> QED BY <1>3, <2>1
<1>5. ASSUME NEW i \in Index, NEW r \in 0..(BlockSize - 1), B(i) + r < length
      PROVE  c[B(i) + r + 1] = Loaded(held[i])[r + 1]
  <2> DEFINE n == B(i) + r + 1
  <2>0. i \in Nat /\ r \in Nat
    BY Sizes
  <2>1. i \in Nat /\ B(i) \in Nat /\ r \in Nat
    BY ONLY <2>0, Products
  <2>2. n \in 1..length /\ n - 1 = B(i) + r
    BY <1>5, <2>1
  <2>3. (n - 1) \div BlockSize = i /\ (n - 1) % BlockSize = r
    BY <2>1, <2>2, InBlock
  <2>4. c[n] = at(n)
    <3> HIDE DEF n, at
    <3> QED BY <1>2, <2>2
  <2>5. at(n) = Loaded(held[(n - 1) \div BlockSize])[((n - 1) % BlockSize) + 1]
    <3> HIDE DEF n, at
    <3> QED BY <1>1, <2>2
  <2> HIDE DEF n, at
  <2>6. c[n] = Loaded(held[i])[r + 1]
    BY <2>3, <2>4, <2>5
  <2> QED BY <2>6 DEF n
<1> QED BY <1>3, <1>4, <1>5 DEF c

LEMMA ContentsNowAndThen ==
  Contents = ContentsOf(size, blocks) /\ Contents' = ContentsOf(size', blocks')
BY DEF Contents, ContentsOf

-----------------------------------------------------------------------------
(***************************************************************************)
(* Writing.                                                                *)
(***************************************************************************)
WriteState == [blocks : Blocks, written : Nat]

\* What one call of write_file_block makes of w.
IsWritten(t, w, i, input, total) ==
  /\ t \in WriteState
  /\ w.written >= total => t = w
  /\ w.written < total =>
       LET offset == w.written % BlockSize
           n == Least(total - w.written, BlockSize - offset)
       IN /\ t.written = w.written + n
          /\ \A j \in Index : j # i => t.blocks[j] = w.blocks[j]
          /\ \A k \in 1..BlockSize :
               Loaded(t.blocks[i])[k] = IF k \in (offset + 1)..(offset + n)
                                        THEN At(input, w.written + k - 1 - offset)
                                        ELSE Loaded(w.blocks[i])[k]

LEMMA BlockIsWritten ==
  ASSUME NEW w \in WriteState, NEW i \in Index, NEW input \in Seq(Byte), NEW total \in Nat
  PROVE  IsWritten(write_file_block(w, i, input, total), w, i, input, total)
<1> DEFINE t == write_file_block(w, i, input, total)
           offset == w.written % BlockSize
           n == Least(total - w.written, BlockSize - offset)
           old == Loaded(w.blocks[i])
           new == [k \in 1..BlockSize |->
                     IF k \in (offset + 1)..(offset + n)
                     THEN At(input, w.written + k - 1 - offset) ELSE old[k]]
<1>1. w.blocks \in Blocks /\ w.written \in Nat /\ w = [blocks |-> w.blocks, written |-> w.written]
  BY DEF WriteState
<1>2. offset \in 0..(BlockSize - 1)
  BY <1>1, DivMod
<1>3. old \in Block
  BY <1>1, BlockFacts DEF Blocks
<1>4. t = IF w.written >= total THEN w
          ELSE [blocks |-> [w.blocks EXCEPT ![i] = new], written |-> w.written + n]
  BY DEF write_file_block
<1>5. CASE w.written >= total
  <2>1. t = w /\ ~ (w.written < total)
    <3> HIDE DEF t, new, n, offset
    <3> QED BY <1>1, <1>4, <1>5
  <2> QED BY <2>1 DEF IsWritten
<1>6. CASE w.written < total
  <2>1. n \in Nat
    <3> HIDE DEF offset
    <3> QED BY <1>1, <1>2, <1>6, Sizes DEF Least
  <2>2. ASSUME NEW k \in 1..BlockSize PROVE new[k] \in Byte
    <3>1. CASE k \in (offset + 1)..(offset + n)
      <4> HIDE DEF n, offset, old
      <4>1. w.written + k - 1 - offset \in Nat
        <5>1. w.written \in Nat /\ offset \in Nat /\ n \in Nat
          BY <1>1, <1>2, <2>1, Sizes
        <5>2. k \in Int /\ k >= offset + 1
          BY <3>1, <5>1
        <5> QED BY ONLY <5>1, <5>2
      <4>2. \A m \in Nat : At(input, m) \in Byte
        BY Sizes DEF At
      <4>3. new[k] = At(input, w.written + k - 1 - offset)
        BY <3>1
      <4> QED BY <4>1, <4>2, <4>3
    <3>2. CASE k \notin (offset + 1)..(offset + n)
      <4> HIDE DEF n, offset, old
      <4>1. new[k] = old[k]
        BY <3>2
      <4> QED BY <1>3, <4>1 DEF Block
    <3> QED BY <3>1, <3>2
  <2>3. new \in Block
    <3>1. new = [k \in 1..BlockSize |-> new[k]]
      OBVIOUS
    <3> HIDE DEF new
    <3> QED BY <2>2, <3>1 DEF Block
  <2>4. \A k \in 1..BlockSize : new[k] = IF k \in (offset + 1)..(offset + n)
                                         THEN At(input, w.written + k - 1 - offset) ELSE old[k]
    <3> HIDE DEF n, offset, old
    <3> QED OBVIOUS
  <2> HIDE DEF new, old, n, offset
  <2>5. t.blocks = [w.blocks EXCEPT ![i] = new] /\ t.written = w.written + n
    BY <1>1, <1>4, <1>6
  <2>6. t = [blocks |-> t.blocks, written |-> t.written]
    BY <1>1, <1>4, <1>6
  <2> HIDE DEF t
  <2>7. /\ t.blocks \in Blocks /\ t.blocks[i] = new
        /\ \A j \in Index : j # i => t.blocks[j] = w.blocks[j]
    BY <1>1, <2>3, <2>5 DEF Blocks
  <2>8. t \in WriteState
    BY <1>1, <2>1, <2>5, <2>6, <2>7 DEF WriteState
  <2>9. Loaded(t.blocks[i]) = new
    BY <2>3, <2>7, BlockFacts
  <2>10. ~ (w.written >= total)
    BY <1>1, <1>6
  <2>11. \A k \in 1..BlockSize :
           Loaded(t.blocks[i])[k] = IF k \in (offset + 1)..(offset + n)
                                    THEN At(input, w.written + k - 1 - offset)
                                    ELSE Loaded(w.blocks[i])[k]
    BY <2>4, <2>9 DEF old
  <2> QED BY <2>5, <2>7, <2>8, <2>10, <2>11 DEF IsWritten, t, n, offset
<1> QED BY <1>1, <1>5, <1>6

\* The states of a call of write_file_content, block after block.
AllBlocks == Direct + PerBlock

WrittenUpTo(g, first, input, total) ==
  /\ g \in [0..AllBlocks -> WriteState]
  /\ g[0] = [blocks |-> blocks, written |-> first]
  /\ \A k \in 1..AllBlocks : g[k] = write_file_block(g[k - 1], k - 1, input, total)

LEMMA WriteSteps ==
  ASSUME blocks \in Blocks, size \in Nat, NEW input \in Seq(Byte), NEW overwrite \in BOOLEAN,
         write_file_content(input, overwrite)
  PROVE  \E g : /\ WrittenUpTo(g, FirstByte(overwrite), input, FirstByte(overwrite) + Len(input))
                /\ blocks' = g[AllBlocks].blocks
<1> DEFINE first == FirstByte(overwrite)
           total == FirstByte(overwrite) + Len(input)
           x == [blocks |-> blocks, written |-> first]
           put(v, k) == IF k \in 1..AllBlocks THEN write_file_block(v, k - 1, input, total) ELSE v
           step == [p \in Nat \X WriteState |-> put(p[2], p[1])]
           Is(f) == f = [k \in 0..AllBlocks |->
                           IF k = 0 THEN x ELSE write_file_block(f[k - 1], k - 1, input, total)]
<1>0. first \in Nat /\ total \in Nat /\ AllBlocks \in Nat /\ Index = 0..(AllBlocks - 1)
  BY Sizes DEF FirstByte, AllBlocks
<1>1. x \in WriteState
  BY <1>0 DEF WriteState
<1>2. \A k \in Nat, v \in WriteState : step[<<k, v>>] = put(v, k)
  OBVIOUS
<1> HIDE DEF first, total
<1>3. \A k \in Nat, v \in WriteState : put(v, k) \in WriteState
  <2>1. ASSUME NEW k \in Nat, NEW v \in WriteState PROVE put(v, k) \in WriteState
    <3>1. CASE k \in 1..AllBlocks
      <4>1. k - 1 \in Index
        BY <1>0, <3>1
      <4>2. IsWritten(write_file_block(v, k - 1, input, total), v, k - 1, input, total)
        BY <1>0, <4>1, BlockIsWritten
      <4>3. write_file_block(v, k - 1, input, total) \in WriteState
        BY <4>2 DEF IsWritten
      <4> QED BY <3>1, <4>3
    <3>2. CASE k \notin 1..AllBlocks
      BY <3>2
    <3> QED BY <3>1, <3>2
  <2> QED BY <2>1
<1>4. StaysIn(step, WriteState)
  <2> HIDE DEF step, put
  <2> QED BY <1>2, <1>3 DEF StaysIn
<1> HIDE DEF step
<1>5. \E g \in [0..AllBlocks -> WriteState] : Iterated(g, x, step, AllBlocks)
  <2> HIDE DEF x, put
  <2> QED BY ONLY <1>0, <1>1, <1>4, Iterates
<1> HIDE DEF x
<1>6. PICK g \in [0..AllBlocks -> WriteState] :
        g[0] = x /\ \A k \in 1..AllBlocks : g[k] = step[<<k, g[k - 1]>>]
  BY <1>5 DEF Iterated
<1>7. \A k \in 1..AllBlocks : g[k] = write_file_block(g[k - 1], k - 1, input, total)
  <2>1. ASSUME NEW k \in 1..AllBlocks
        PROVE  g[k] = write_file_block(g[k - 1], k - 1, input, total)
    <3>1. k - 1 \in 0..AllBlocks /\ k \in Nat
      BY <1>0
    <3>2. step[<<k, g[k - 1]>>] = put(g[k - 1], k)
      BY <1>2, <3>1
    <3> QED BY <1>6, <3>2
  <2> QED BY <2>1
<1>8. Is(g)
  <2>1. ASSUME NEW k \in 0..AllBlocks
        PROVE  g[k] = IF k = 0 THEN x ELSE write_file_block(g[k - 1], k - 1, input, total)
    <3>1. CASE k = 0
      BY <1>6, <3>1
    <3>2. CASE k # 0
      <4>1. k \in 1..AllBlocks
        BY <1>0, <3>2
      <4> QED BY <1>7, <3>2, <4>1
    <3> QED BY <3>1, <3>2
  <2> QED BY <2>1
<1>9. ASSUME NEW f, Is(f) PROVE f = g
  <2>1. f[0] = g[0]
    BY <1>0, <1>6, <1>9
  <2>2. ASSUME NEW k \in 0..(AllBlocks - 1), f[k] = g[k] PROVE f[k + 1] = g[k + 1]
    <3>1. k + 1 \in 1..AllBlocks /\ k + 1 \in 0..AllBlocks /\ k + 1 # 0 /\ (k + 1) - 1 = k
      BY <1>0
    <3>2. f[k + 1] = write_file_block(f[k], k, input, total)
      BY <1>9, <3>1
    <3>3. g[k + 1] = write_file_block(g[k], k, input, total)
      BY <1>7, <3>1
    <3> QED BY <2>2, <3>2, <3>3
  <2>3. Function(f, AllBlocks) /\ Function(g, AllBlocks)
    BY <1>9 DEF Function
  <2>4. GoAlike(f, g, AllBlocks)
    BY <2>1, <2>2 DEF GoAlike
  <2> HIDE DEF Is
  <2> QED BY ONLY <1>0, <2>3, <2>4, SameUpTo
<1>10. (CHOOSE f : Is(f)) = g
  <2> HIDE DEF Is
  <2> QED BY <1>8, <1>9
<1>11. blocks' = (CHOOSE f : Is(f))[AllBlocks].blocks
  BY DEF write_file_content, x, first, total, AllBlocks
<1>12. WrittenUpTo(g, first, input, total)
  BY <1>6, <1>7 DEF WrittenUpTo, x
<1> QED BY <1>10, <1>11, <1>12 DEF first, total

LEMMA SizeFacts ==
  /\ AllBlocks \in Nat /\ AllBlocks > 0 /\ Index = 0..(AllBlocks - 1)
  /\ Capacity = B(AllBlocks) /\ Capacity \in Nat
<1>1. AllBlocks \in Nat /\ AllBlocks > 0 /\ Index = 0..(AllBlocks - 1)
  BY Sizes DEF AllBlocks
<1>2. Capacity = B(AllBlocks)
  BY DEF Capacity, B, AllBlocks
<1> QED BY <1>1, <1>2, Products

\* From the first byte on the blocks get the input, one whole block after the other.
HasInput(w, k, input) ==
  /\ w.written = Least(Len(input), B(k))
  /\ \A i \in Index, r \in 0..(BlockSize - 1) :
       i < k /\ B(i) + r < Len(input) => Loaded(w.blocks[i])[r + 1] = input[B(i) + r + 1]

LEMMA NextBlockHasInput ==
  ASSUME NEW w \in WriteState, NEW k \in Index, NEW input \in Seq(Byte), HasInput(w, k, input)
  PROVE  HasInput(write_file_block(w, k, input, Len(input)), k + 1, input)
<1> DEFINE t == write_file_block(w, k, input, Len(input))
           total == Len(input)
<1>1. total \in Nat /\ k \in Nat /\ w.written \in Nat /\ BlockSize \in Nat /\ BlockSize > 0
  BY Sizes DEF WriteState
<1>2. B(k) \in Nat /\ B(k + 1) = B(k) + BlockSize
  BY <1>1, Products
<1>3. IsWritten(t, w, k, input, total)
  BY <1>1, BlockIsWritten
<1>4. /\ w.written = Least(total, B(k))
      /\ \A i \in Index, r \in 0..(BlockSize - 1) :
           i < k /\ B(i) + r < total => Loaded(w.blocks[i])[r + 1] = input[B(i) + r + 1]
  BY DEF HasInput
<1> HIDE DEF t, total
<1>5. CASE total <= B(k)
  <2>1. w.written = total
    BY <1>1, <1>2, <1>4, <1>5 DEF Least
  <2>2. t = w
    BY <1>1, <1>3, <2>1 DEF IsWritten
  <2>3. w.written = Least(total, B(k + 1))
    BY <1>1, <1>2, <1>5, <2>1 DEF Least
  <2>4. ASSUME NEW i \in Index, NEW r \in 0..(BlockSize - 1), i < k + 1, B(i) + r < total
        PROVE  i < k
    <3>1. i \in Nat /\ (i = k \/ i < k)
      BY <1>1, <2>4, SizeFacts
    <3>2. i # k
      BY <1>1, <1>2, <1>5, <2>4
    <3> QED BY <3>1, <3>2
  <2> QED BY <1>4, <2>2, <2>3, <2>4 DEF HasInput, t, total
<1>6. CASE B(k) < total
  <2>1. w.written = B(k) /\ w.written < total
    BY <1>1, <1>2, <1>4, <1>6 DEF Least
  <2>2. w.written % BlockSize = 0
    <3>1. (B(k) + 0) % BlockSize = 0
      BY <1>1, InBlock
    <3> QED BY <1>2, <2>1, <3>1
  <2> DEFINE n == Least(total - B(k), BlockSize)
  <2>3. /\ t.written = w.written + Least(total - w.written, BlockSize - 0)
        /\ \A j \in Index : j # k => t.blocks[j] = w.blocks[j]
        /\ \A q \in 1..BlockSize :
             Loaded(t.blocks[k])[q] = IF q \in (0 + 1)..(0 + Least(total - w.written, BlockSize - 0))
                                      THEN At(input, w.written + q - 1 - 0)
                                      ELSE Loaded(w.blocks[k])[q]
    BY <1>3, <2>1, <2>2 DEF IsWritten
  <2>4. n \in Nat /\ n = Least(total - w.written, BlockSize - 0) /\ 0 + n = n
    BY <1>1, <1>2, <1>6, <2>1 DEF Least
  <2>5. t.written = Least(total, B(k + 1))
    <3> HIDE DEF n
    <3>1. t.written = B(k) + n
      BY <2>1, <2>3, <2>4
    <3>2. B(k) + n = Least(total, B(k + 1))
      BY <1>1, <1>2, <1>6 DEF Least, n
    <3> QED BY <3>1, <3>2
  <2>6. ASSUME NEW r \in 0..(BlockSize - 1), B(k) + r < total
        PROVE  Loaded(t.blocks[k])[r + 1] = input[B(k) + r + 1]
    <3>1. r + 1 \in 1..BlockSize /\ r + 1 <= n
      BY <1>1, <1>2, <1>6, <2>6 DEF Least
    <3>2. r + 1 \in (0 + 1)..(0 + n) /\ B(k) + (r + 1) - 1 - 0 = B(k) + r
      <4> HIDE DEF n
      <4> QED BY <1>1, <1>2, <2>4, <3>1
    <3>3. Loaded(t.blocks[k])[r + 1] = At(input, B(k) + (r + 1) - 1 - 0)
      <4> HIDE DEF n
      <4> QED BY <2>1, <2>3, <2>4, <3>1, <3>2
    <3>4. At(input, B(k) + r) = input[B(k) + r + 1]
      BY <2>6 DEF At, total
    <3> QED BY <3>2, <3>3, <3>4
  <2>7. ASSUME NEW i \in Index, NEW r \in 0..(BlockSize - 1), i < k + 1, B(i) + r < total
        PROVE  Loaded(t.blocks[i])[r + 1] = input[B(i) + r + 1]
    <3>1. i \in Nat /\ (i = k \/ (i < k /\ i # k))
      BY <1>1, <2>7, SizeFacts
    <3>2. CASE i = k
      BY <2>6, <2>7, <3>2
    <3>3. CASE i < k /\ i # k
      <4>1. t.blocks[i] = w.blocks[i]
        BY <2>3, <3>3
      <4> QED BY <1>4, <2>7, <3>3, <4>1
    <3> QED BY <3>1, <3>2, <3>3
  <2> QED BY <2>5, <2>7 DEF HasInput, t, total
<1>7. total <= B(k) \/ B(k) < total
  BY <1>1, <1>2
<1> QED BY <1>5, <1>6, <1>7

\* Writing from the first byte on leaves the input as the contents.
LEMMA AllIsWritten ==
  ASSUME blocks \in Blocks, NEW input \in Seq(Byte), Len(input) <= Capacity,
         NEW g, WrittenUpTo(g, 0, input, Len(input)),
         blocks' = g[AllBlocks].blocks, size' = Len(input)
  PROVE  blocks' \in Blocks /\ Contents' = input
<1>1. /\ g \in [0..AllBlocks -> WriteState]
      /\ g[0] = [blocks |-> blocks, written |-> 0]
      /\ \A k \in 1..AllBlocks : g[k] = write_file_block(g[k - 1], k - 1, input, Len(input))
  BY DEF WrittenUpTo
<1>2. Len(input) \in Nat
  OBVIOUS
<1> DEFINE T == {k \in 0..AllBlocks : HasInput(g[k], k, input)}
<1>3. 0 \in T
  <2>1. Least(Len(input), B(0)) = 0
    BY <1>2, Products DEF Least
  <2>2. \A i \in Index : ~ (i < 0)
    BY SizeFacts
  <2>3. g[0].written = 0 /\ 0 \in 0..AllBlocks
    BY <1>1, SizeFacts
  <2>4. HasInput(g[0], 0, input)
    BY <2>1, <2>2, <2>3 DEF HasInput
  <2> QED BY <2>3, <2>4
<1>4. ASSUME NEW k \in 0..(AllBlocks - 1), k \in T PROVE k + 1 \in T
  <2>1. k \in Index /\ k + 1 \in 1..AllBlocks /\ k + 1 \in 0..AllBlocks /\ (k + 1) - 1 = k
        /\ k \in 0..AllBlocks
    BY SizeFacts
  <2>2. g[k + 1] = write_file_block(g[k], k, input, Len(input)) /\ g[k] \in WriteState
    BY <1>1, <2>1
  <2>3. HasInput(g[k + 1], k + 1, input)
    BY <1>4, <2>1, <2>2, NextBlockHasInput
  <2> QED BY <2>1, <2>3
<1>5. \A k \in 0..AllBlocks : k \in T
  <2> HIDE DEF T
  <2> QED BY <1>3, <1>4, UpTo, SizeFacts
<1> DEFINE w == g[AllBlocks]
<1>6. AllBlocks \in 0..AllBlocks
  BY SizeFacts
<1>7. w \in WriteState /\ HasInput(w, AllBlocks, input)
  BY <1>1, <1>5, <1>6
<1> HIDE DEF w
<1>8. blocks' = w.blocks /\ blocks' \in Blocks
  BY <1>7 DEF w, WriteState
<1>9. /\ Contents' \in Seq(Byte) /\ Len(Contents') = size'
      /\ \A i \in Index, r \in 0..(BlockSize - 1) : B(i) + r < size' =>
           Contents'[B(i) + r + 1] = Loaded(blocks'[i])[r + 1]
  <2>1. size' \in Nat /\ size' <= Capacity
    BY <1>2
  <2> QED BY <1>8, <2>1, ContentsAre, ContentsNowAndThen
<1>10. ASSUME NEW n \in 1..Len(input) PROVE Contents'[n] = input[n]
  <2> DEFINE i == (n - 1) \div BlockSize
             r == (n - 1) % BlockSize
  <2>1. n - 1 \in Nat /\ n - 1 < Capacity
    BY <1>2, SizeFacts
  <2>2. i \in Index /\ r \in 0..(BlockSize - 1) /\ n - 1 = B(i) + r
    BY <2>1, DivMod, IndexOf
  <2> HIDE DEF i, r
  <2>3. i \in Nat /\ i < AllBlocks /\ B(i) \in Nat
    BY <2>2, SizeFacts, Products
  <2>4. n = B(i) + r + 1 /\ B(i) + r < Len(input)
    BY <1>2, <2>2, <2>3, Sizes
  <2>5. Contents'[B(i) + r + 1] = Loaded(blocks'[i])[r + 1]
    BY <1>9, <2>2, <2>4
  <2>6. Loaded(w.blocks[i])[r + 1] = input[B(i) + r + 1]
    BY <1>7, <2>2, <2>3, <2>4 DEF HasInput
  <2> QED BY <1>8, <2>4, <2>5, <2>6
<1> QED BY <1>8, <1>9, <1>10, SeqEqual

LEMMA PrefixOf ==
  ASSUME NEW S, NEW s \in Seq(S), NEW t \in Seq(S), Len(s) <= Len(t),
         \A n \in 1..Len(s) : t[n] = s[n]
  PROVE  IsPrefix(s, t)
<1>1. Len(s) \in Nat /\ Len(t) \in Nat
  OBVIOUS
<1>2. SubSeq(t, 1, Len(s)) = [n \in 1..Len(s) |-> t[n]]
  BY <1>1
<1>3. SubSeq(s, 1, Len(s)) = [n \in 1..Len(s) |-> s[n]]
  BY <1>1
<1> QED BY <1>1, <1>2, <1>3 DEF IsPrefix

\* The bytes that a file has in its first block.
Kept(w) == \A r \in 0..(size - 1) : Loaded(w.blocks[0])[r + 1] = Loaded(blocks[0])[r + 1]

\* An append to a file that ends in its first block puts the input behind it.
LEMMA BeginningIsKept ==
  ASSUME blocks \in Blocks, size \in Nat, size < BlockSize, NEW input \in Seq(Byte),
         size + Len(input) <= Capacity, NEW g, WrittenUpTo(g, size, input, size + Len(input)),
         blocks' = g[AllBlocks].blocks, size' = size + Len(input)
  PROVE  blocks' \in Blocks /\ IsPrefix(Contents, Contents')
<1> DEFINE total == size + Len(input)
<1>0. Len(input) \in Nat /\ total \in Nat /\ size <= total /\ BlockSize \in Nat
  BY Sizes
<1>1. /\ g \in [0..AllBlocks -> WriteState]
      /\ g[0] = [blocks |-> blocks, written |-> size]
      /\ \A k \in 1..AllBlocks : g[k] = write_file_block(g[k - 1], k - 1, input, total)
  BY DEF WrittenUpTo
<1>2. total <= Capacity /\ size' = total
  OBVIOUS
<1> HIDE DEF total
<1> DEFINE T == {k \in 0..AllBlocks : Kept(g[k])}
<1>3. 0 \in T
  BY <1>1, SizeFacts DEF Kept
<1>4. ASSUME NEW k \in 0..(AllBlocks - 1), k \in T PROVE k + 1 \in T
  <2> DEFINE w == g[k]
             t == g[k + 1]
  <2>1. k \in Index /\ k + 1 \in 1..AllBlocks /\ k + 1 \in 0..AllBlocks /\ (k + 1) - 1 = k
        /\ k \in 0..AllBlocks /\ k \in Nat /\ 0 \in Index
    BY SizeFacts
  <2>2. t = write_file_block(w, k, input, total) /\ w \in WriteState
    BY <1>1, <2>1
  <2>3. IsWritten(t, w, k, input, total)
    BY <1>0, <2>1, <2>2, BlockIsWritten
  <2>4. Kept(w) /\ (k = 0 => w.written = size) /\ w.written \in Nat
    BY <1>1, <1>4, <2>2 DEF WriteState
  <2> HIDE DEF w, t
  <2>5. ASSUME NEW r \in 0..(size - 1)
        PROVE  Loaded(t.blocks[0])[r + 1] = Loaded(blocks[0])[r + 1]
    <3>1. CASE w.written >= total
      <4>1. t = w
        BY <2>3, <3>1 DEF IsWritten
      <4> QED BY <2>4, <4>1 DEF Kept
    <3>2. CASE w.written < total /\ k # 0
      <4>1. t.blocks[0] = w.blocks[0]
        BY <2>1, <2>3, <3>2 DEF IsWritten
      <4> QED BY <2>4, <4>1 DEF Kept
    <3>3. CASE w.written < total /\ k = 0
      <4>1. w.written % BlockSize = size
        <5>1. size \in 0..(BlockSize - 1)
          BY <1>0
        <5>2. (B(0) + size) % BlockSize = size
          BY <5>1, InBlock
        <5>3. B(0) + size = size
          BY Products
        <5> QED BY <2>4, <3>3, <5>2, <5>3
      <4>2. r + 1 \in 1..BlockSize
        BY <1>0
      <4> DEFINE n == Least(total - w.written, BlockSize - size)
      <4>3. \A q \in 1..BlockSize :
              Loaded(t.blocks[0])[q] = IF q \in (size + 1)..(size + n)
                                       THEN At(input, w.written + q - 1 - size)
                                       ELSE Loaded(w.blocks[0])[q]
        BY <2>3, <3>3, <4>1 DEF IsWritten
      <4> HIDE DEF n
      <4>4. r + 1 \notin (size + 1)..(size + n)
        OBVIOUS
      <4>5. Loaded(t.blocks[0])[r + 1] = Loaded(w.blocks[0])[r + 1]
        BY <4>2, <4>3, <4>4
      <4> QED BY <2>4, <4>5 DEF Kept
    <3> QED BY <1>0, <2>4, <3>1, <3>2, <3>3
  <2>6. Kept(t)
    BY <2>5 DEF Kept
  <2> QED BY <2>1, <2>6 DEF t
<1>5. \A k \in 0..AllBlocks : k \in T
  <2> HIDE DEF T
  <2> QED BY <1>3, <1>4, UpTo, SizeFacts
<1> DEFINE w == g[AllBlocks]
<1>6. AllBlocks \in 0..AllBlocks
  BY SizeFacts
<1>7. w \in WriteState /\ Kept(w)
  BY <1>1, <1>5, <1>6
<1> HIDE DEF w
<1>8. blocks' = w.blocks /\ blocks' \in Blocks
  BY <1>7 DEF w, WriteState
<1>9. size <= Capacity
  BY <1>0, <1>2, SizeFacts
<1>10. /\ Contents' \in Seq(Byte) /\ Len(Contents') = total
       /\ \A i \in Index, r \in 0..(BlockSize - 1) : B(i) + r < total =>
            Contents'[B(i) + r + 1] = Loaded(blocks'[i])[r + 1]
  <2>1. total \in Nat /\ total <= Capacity /\ blocks' \in Blocks
    BY <1>0, <1>2, <1>8
  <2>2. Contents' = ContentsOf(total, blocks')
    BY <1>2, ContentsNowAndThen
  <2> QED BY ONLY <2>1, <2>2, ContentsAre
<1>11. /\ Contents \in Seq(Byte) /\ Len(Contents) = size
       /\ \A i \in Index, r \in 0..(BlockSize - 1) : B(i) + r < size =>
            Contents[B(i) + r + 1] = Loaded(blocks[i])[r + 1]
  BY <1>9, ContentsAre, ContentsNowAndThen
<1>12. ASSUME NEW n \in 1..Len(Contents) PROVE Contents'[n] = Contents[n]
  <2> DEFINE r == n - 1
  <2>1. /\ r \in 0..(size - 1) /\ r \in 0..(BlockSize - 1) /\ 0 \in Index
        /\ B(0) + r < size /\ B(0) + r < total /\ B(0) + r + 1 = n /\ r + 1 = n
    <3>1. 0 \in Index /\ B(0) = 0
      BY Products, SizeFacts
    <3>2. n \in 1..size
      BY <1>11
    <3> QED BY <1>0, <3>1, <3>2
  <2> HIDE DEF r
  <2>2. Contents'[B(0) + r + 1] = Loaded(blocks'[0])[r + 1]
    BY <1>10, <2>1
  <2>3. Contents[B(0) + r + 1] = Loaded(blocks[0])[r + 1]
    BY <1>11, <2>1
  <2>4. Loaded(w.blocks[0])[r + 1] = Loaded(blocks[0])[r + 1]
    BY <1>7, <2>1 DEF Kept
  <2> QED BY <1>8, <2>1, <2>2, <2>3, <2>4
<1>13. Len(Contents) <= Len(Contents')
  BY <1>0, <1>10, <1>11
<1>14. IsPrefix(Contents, Contents')
  BY <1>10, <1>11, <1>12, <1>13, PrefixOf
<1> QED BY <1>8, <1>14

-----------------------------------------------------------------------------
(***************************************************************************)
(* Reading.                                                                *)
(***************************************************************************)
With(out, byte) == IF byte = Zero THEN out ELSE Append(out, byte)

AppendedUpTo(g, out, b, n) ==
  /\ g \in [0..n -> Seq(Byte)]
  /\ g[0] = out
  /\ \A k \in 1..n : g[k] = With(g[k - 1], b[k])

\* Byte after byte.
LEMMA AppendedSteps ==
  ASSUME NEW out \in Seq(Byte), NEW n \in Nat, NEW b, \A k \in 1..n : b[k] \in Byte
  PROVE  \E g : AppendedUpTo(g, out, b, n) /\ Appended(out, b, n) = g[n]
<1> DEFINE put(v, k) == IF k \in 1..n THEN With(v, b[k]) ELSE v
           step == [p \in Nat \X Seq(Byte) |-> put(p[2], p[1])]
           Is(f) == f = [k \in 0..n |-> IF k = 0 THEN out
                                        ELSE IF b[k] = Zero THEN f[k - 1]
                                        ELSE Append(f[k - 1], b[k])]
<1>2. \A k \in Nat, v \in Seq(Byte) : step[<<k, v>>] = put(v, k)
  OBVIOUS
<1>3. \A k \in Nat, v \in Seq(Byte) : put(v, k) \in Seq(Byte)
  BY DEF With
<1>4. StaysIn(step, Seq(Byte))
  <2> HIDE DEF step, put
  <2> QED BY <1>2, <1>3 DEF StaysIn
<1> HIDE DEF step
<1>5. \E g \in [0..n -> Seq(Byte)] : Iterated(g, out, step, n)
  <2> HIDE DEF put
  <2> QED BY ONLY <1>4, out \in Seq(Byte), n \in Nat, Iterates
<1>6. PICK g \in [0..n -> Seq(Byte)] :
        g[0] = out /\ \A k \in 1..n : g[k] = step[<<k, g[k - 1]>>]
  BY <1>5 DEF Iterated
<1>7. ASSUME NEW k \in 1..n PROVE g[k] = With(g[k - 1], b[k])
  <2>1. k - 1 \in 0..n /\ k \in Nat
    OBVIOUS
  <2>2. step[<<k, g[k - 1]>>] = put(g[k - 1], k)
    BY <1>2, <2>1
  <2> QED BY <1>6, <2>2
<1>8. Is(g)
  <2>1. ASSUME NEW k \in 0..n
        PROVE  g[k] = IF k = 0 THEN out ELSE With(g[k - 1], b[k])
    <3>1. k = 0 \/ (k # 0 /\ k \in 1..n)
      OBVIOUS
    <3> QED BY <1>6, <1>7, <3>1
  <2>2. g = [k \in 0..n |-> IF k = 0 THEN out ELSE With(g[k - 1], b[k])]
    BY <2>1
  <2> QED BY ONLY <2>2 DEF With
<1>9. ASSUME NEW f, Is(f) PROVE f = g
  <2>1. f[0] = g[0]
    BY <1>6, <1>9
  <2>2. ASSUME NEW k \in 0..(n - 1), f[k] = g[k] PROVE f[k + 1] = g[k + 1]
    <3>1. k + 1 \in 1..n /\ k + 1 \in 0..n /\ k + 1 # 0 /\ (k + 1) - 1 = k
      OBVIOUS
    <3>2. f[k + 1] = With(f[k], b[k + 1])
      BY ONLY <1>9, <3>1 DEF With
    <3>3. g[k + 1] = With(g[k], b[k + 1])
      BY <1>7, <3>1
    <3> QED BY <2>2, <3>2, <3>3
  <2>3. Function(f, n)
    BY <1>9 DEF Function
  <2>4. Function(g, n)
    BY <1>6 DEF Function
  <2>5. GoAlike(f, g, n)
    BY <2>1, <2>2 DEF GoAlike
  <2> HIDE DEF Is
  <2> QED BY ONLY n \in Nat, <2>3, <2>4, <2>5, SameUpTo
<1>10. (CHOOSE f : Is(f)) = g
  <2> HIDE DEF Is
  <2> QED BY <1>8, <1>9
<1>11. Appended(out, b, n) = (CHOOSE f : Is(f))[n]
  BY DEF Appended
<1>12. AppendedUpTo(g, out, b, n)
  BY <1>6, <1>7 DEF AppendedUpTo
<1> QED BY <1>10, <1>11, <1>12

\* First the bytes of b and then those of d is all bytes of c, if they follow in it.
LEMMA AppendedJoin ==
  ASSUME NEW out \in Seq(Byte), NEW n \in Nat, NEW m \in Nat, NEW b, NEW c, NEW d,
         \A k \in 1..(n + m) : c[k] \in Byte,
         \A k \in 1..n : c[k] = b[k],
         \A k \in 1..m : c[n + k] = d[k]
  PROVE  Appended(Appended(out, b, n), d, m) = Appended(out, c, n + m)
<1>1. PICK h : AppendedUpTo(h, out, c, n + m) /\ Appended(out, c, n + m) = h[n + m]
  <2>1. n + m \in Nat
    OBVIOUS
  <2>2. \A k \in 1..(n + m) : c[k] \in Byte
    OBVIOUS
  <2> QED BY ONLY out \in Seq(Byte), <2>1, <2>2, AppendedSteps
<1>2. PICK g : AppendedUpTo(g, out, b, n) /\ Appended(out, b, n) = g[n]
  <2>1. \A k \in 1..n : b[k] \in Byte
    <3>1. ASSUME NEW k \in 1..n PROVE b[k] \in Byte
      <4>1. k \in 1..(n + m)
        OBVIOUS
      <4> QED BY <4>1
    <3> QED BY <3>1
  <2> QED BY <2>1, AppendedSteps
<1>3. g[n] \in Seq(Byte)
  BY <1>2 DEF AppendedUpTo
<1>4. PICK f : AppendedUpTo(f, g[n], d, m) /\ Appended(g[n], d, m) = f[m]
  <2>1. \A k \in 1..m : d[k] \in Byte
    <3>1. ASSUME NEW k \in 1..m PROVE d[k] \in Byte
      <4>1. n + k \in 1..(n + m)
        OBVIOUS
      <4> QED BY <4>1
    <3> QED BY <3>1
  <2> QED BY ONLY <1>3, <2>1, m \in Nat, AppendedSteps
<1>5. g[n] = h[n]
  <2> DEFINE T == {k \in 0..n : g[k] = h[k]}
  <2>1. 0 \in T
    BY <1>1, <1>2 DEF AppendedUpTo
  <2>2. ASSUME NEW k \in 0..(n - 1), k \in T PROVE k + 1 \in T
    <3>1. /\ k + 1 \in 1..n /\ k + 1 \in 0..n /\ (k + 1) - 1 = k /\ k + 1 \in 1..(n + m)
          /\ c[k + 1] = b[k + 1]
      OBVIOUS
    <3>2. g[k + 1] = With(g[k], b[k + 1])
      BY <1>2, <3>1 DEF AppendedUpTo
    <3>3. h[k + 1] = With(h[k], c[k + 1])
      BY <1>1, <3>1 DEF AppendedUpTo
    <3> QED BY <2>2, <3>1, <3>2, <3>3
  <2>3. \A k \in 0..n : k \in T
    <3> HIDE DEF T
    <3> QED BY <2>1, <2>2, UpTo
  <2>4. n \in 0..n
    OBVIOUS
  <2> QED BY <2>3, <2>4
<1>6. f[m] = h[n + m]
  <2> DEFINE T == {k \in 0..m : f[k] = h[n + k]}
  <2>1. 0 \in T
    BY <1>4, <1>5 DEF AppendedUpTo
  <2>2. ASSUME NEW k \in 0..(m - 1), k \in T PROVE k + 1 \in T
    <3>1. /\ k + 1 \in 1..m /\ k + 1 \in 0..m /\ (k + 1) - 1 = k /\ n + (k + 1) \in 1..(n + m)
          /\ (n + (k + 1)) - 1 = n + k /\ c[n + (k + 1)] = d[k + 1]
      OBVIOUS
    <3>2. f[k + 1] = With(f[k], d[k + 1])
      BY <1>4, <3>1 DEF AppendedUpTo
    <3>3. h[n + (k + 1)] = With(h[n + k], c[n + (k + 1)])
      BY <1>1, <3>1 DEF AppendedUpTo
    <3> QED BY <2>2, <3>1, <3>2, <3>3
  <2>3. \A k \in 0..m : k \in T
    <3> HIDE DEF T
    <3> QED BY <2>1, <2>2, UpTo
  <2>4. m \in 0..m
    OBVIOUS
  <2> QED BY <2>3, <2>4
<1> QED BY <1>1, <1>2, <1>4, <1>6

ReadState == [out : Seq(Byte), read : Nat]

LEMMA CopiedIsReadState ==
  ASSUME size \in Nat, blocks \in Blocks, NEW r \in ReadState, NEW i \in Index
  PROVE  Copied(r, i) \in ReadState
<1>1. r.out \in Seq(Byte) /\ r.read \in Nat
  BY DEF ReadState
<1>2. CASE blocks[i] = NoBlock \/ r.read >= size
  BY <1>2 DEF Copied
<1>3. CASE blocks[i] # NoBlock /\ ~ (r.read >= size)
  <2> DEFINE n == ToCopy(r.read)
  <2>1. n \in Nat /\ n <= BlockSize /\ r.read + n \in Nat
    BY <1>1, <1>3, Sizes DEF ToCopy, Least
  <2>2. blocks[i] \in Block
    BY <1>3 DEF Blocks
  <2> HIDE DEF n
  <2>3. \A k \in 1..n : blocks[i][k] \in Byte
    <3>1. ASSUME NEW k \in 1..n PROVE blocks[i][k] \in Byte
      <4>1. k \in 1..BlockSize
        BY <2>1, Sizes
      <4> QED BY <2>2, <4>1 DEF Block
    <3> QED BY <3>1
  <2>4. PICK g : AppendedUpTo(g, r.out, blocks[i], n) /\ Appended(r.out, blocks[i], n) = g[n]
    BY <1>1, <2>1, <2>3, AppendedSteps
  <2>5. g[n] \in Seq(Byte)
    BY <2>1, <2>4 DEF AppendedUpTo
  <2>6. Copied(r, i) = [out |-> Appended(r.out, blocks[i], n), read |-> r.read + n]
    BY <1>3 DEF Copied, n
  <2> QED BY <2>1, <2>4, <2>5, <2>6 DEF ReadState
<1> QED BY <1>2, <1>3

\* The first k blocks of the file are read.
HasRead(r, k) == /\ r.read = Least(size, B(k))
                 /\ r.out = Appended(<<>>, Contents, r.read)

LEMMA NextBlockIsRead ==
  ASSUME size \in Nat, size <= Capacity, blocks \in Blocks, NEW r \in ReadState,
         NEW k \in Index, HasRead(r, k), blocks[k] # NoBlock \/ size <= B(k)
  PROVE  HasRead(Copied(r, k), k + 1)
<1>1. k \in Nat /\ BlockSize \in Nat /\ BlockSize > 0 /\ r.read \in Nat
  BY Sizes DEF ReadState
<1>2. B(k) \in Nat /\ B(k + 1) = B(k) + BlockSize
  BY <1>1, Products
<1>3. CASE size <= B(k)
  <2>1. r.read = size /\ r.read >= size /\ Least(size, B(k + 1)) = size
    BY <1>1, <1>2, <1>3 DEF HasRead, Least
  <2>2. Copied(r, k) = r
    BY <2>1 DEF Copied
  <2> QED BY <2>1, <2>2 DEF HasRead
<1>4. CASE B(k) < size
  <2> DEFINE n == ToCopy(r.read)
  <2>1. r.read = B(k) /\ ~ (r.read >= size)
    BY <1>1, <1>2, <1>4 DEF HasRead, Least
  <2>2. n \in Nat /\ n <= BlockSize /\ B(k) + n <= size /\ B(k) + n = Least(size, B(k + 1))
    BY <1>1, <1>2, <1>4, <2>1 DEF ToCopy, Least
  <2>3. blocks[k] \in Block /\ blocks[k] # NoBlock
    <3>1. ~ (size <= B(k))
      BY <1>2, <1>4
    <3> QED BY <3>1 DEF Blocks
  <2>4. Copied(r, k) = [out |-> Appended(r.out, blocks[k], n), read |-> r.read + n]
    BY <2>1, <2>3 DEF Copied
  <2> HIDE DEF n
  <2>5. /\ Contents \in Seq(Byte) /\ Len(Contents) = size
        /\ \A i \in Index, j \in 0..(BlockSize - 1) : B(i) + j < size =>
             Contents[B(i) + j + 1] = Loaded(blocks[i])[j + 1]
    BY ContentsAre, ContentsNowAndThen
  <2>6. \A j \in 1..(B(k) + n) : Contents[j] \in Byte
    <3>1. ASSUME NEW j \in 1..(B(k) + n) PROVE Contents[j] \in Byte
      <4>1. j \in 1..Len(Contents)
        BY <1>2, <2>2, <2>5
      <4> QED BY <2>5, <4>1
    <3> QED BY <3>1
  <2>7. ASSUME NEW j \in 1..n PROVE Contents[B(k) + j] = blocks[k][j]
    <3>1. /\ j - 1 \in 0..(BlockSize - 1) /\ B(k) + (j - 1) < size
          /\ B(k) + (j - 1) + 1 = B(k) + j /\ (j - 1) + 1 = j
      BY <1>1, <1>2, <2>2
    <3>2. Contents[B(k) + (j - 1) + 1] = Loaded(blocks[k])[(j - 1) + 1]
      BY <2>5, <3>1
    <3>3. Loaded(blocks[k]) = blocks[k]
      BY <2>3, BlockFacts
    <3> QED BY <3>1, <3>2, <3>3
  <2>8. r.out = Appended(<<>>, Contents, B(k))
    BY <2>1 DEF HasRead
  <2>9. <<>> \in Seq(Byte)
    OBVIOUS
  <2>10. Appended(Appended(<<>>, Contents, B(k)), blocks[k], n)
           = Appended(<<>>, Contents, B(k) + n)
    <3> DEFINE c == Contents
               d == blocks[k]
               l == B(k)
               e == <<>>
    <3>1. l \in Nat /\ n \in Nat
      BY <1>2, <2>2
    <3>2. \A j \in 1..(l + n) : c[j] \in Byte
      BY <2>6
    <3>3. \A j \in 1..n : c[l + j] = d[j]
      BY <2>7
    <3>0. e \in Seq(Byte)
      BY <2>9
    <3> HIDE DEF c, d, l, e
    <3>4. \A j \in 1..l : c[j] = c[j]
      OBVIOUS
    <3>5. Appended(Appended(e, c, l), d, n) = Appended(e, c, l + n)
      BY ONLY <3>0, <3>1, <3>2, <3>3, <3>4, AppendedJoin
    <3> QED BY <3>5 DEF c, d, l, e
  <2>11. Copied(r, k).read = B(k) + n /\ Copied(r, k).out = Appended(<<>>, Contents, B(k) + n)
    BY <2>1, <2>4, <2>8, <2>10
  <2> QED BY <2>2, <2>11 DEF HasRead
<1> QED BY <1>2, <1>3, <1>4

LEMMA NamedDirectFacts ==
  /\ NamedDirect \in 0..Direct
  /\ \A i \in 0..(NamedDirect - 1) : blocks[i] # NoBlock
  /\ NamedDirect = Direct \/ blocks[NamedDirect] = NoBlock
<1> DEFINE Q(n) == /\ \A i \in 0..(n - 1) : blocks[i] # NoBlock
                   /\ n = Direct \/ blocks[n] = NoBlock
           S == {n \in 0..Direct : n = Direct \/ blocks[n] = NoBlock}
<1>1. Direct \in S /\ S \in SUBSET Nat
  BY Sizes
<1>2. PICK n \in S : \A j \in S : n <= j
  <2> HIDE DEF S
  <2> QED BY <1>1, LeastOf
<1>3. ASSUME NEW i \in 0..(n - 1) PROVE blocks[i] # NoBlock
  <2>1. i \in 0..Direct /\ ~ (n <= i)
    BY <1>1, <1>2, Sizes
  <2> QED BY <1>2, <2>1
<1>4. n \in 0..Direct /\ Q(n)
  BY <1>2, <1>3
<1>5. NamedDirect = CHOOSE m \in 0..Direct : Q(m)
  BY DEF NamedDirect
<1> HIDE DEF Q
<1>6. NamedDirect \in 0..Direct /\ Q(NamedDirect)
  BY <1>4, <1>5
<1> QED BY <1>6 DEF Q

\* The direct blocks are read one after the other.
LEMMA DirectSteps ==
  ASSUME size \in Nat, blocks \in Blocks
  PROVE  \E g \in [0..NamedDirect -> ReadState] :
           /\ g[0] = [out |-> <<>>, read |-> 0]
           /\ \A k \in 1..NamedDirect : g[k] = Copied(g[k - 1], k - 1)
           /\ DirectRead = g[NamedDirect]
<1> DEFINE n == NamedDirect
           x == [out |-> <<>>, read |-> 0]
           put(v, k) == IF k \in 1..n THEN Copied(v, k - 1) ELSE v
           step == [p \in Nat \X ReadState |-> put(p[2], p[1])]
           Is(f) == f = [k \in 0..n |-> IF k = 0 THEN x ELSE Copied(f[k - 1], k - 1)]
<1>0. n \in Nat /\ \A k \in 1..n : k - 1 \in Index
  BY NamedDirectFacts, Sizes
<1>1. x \in ReadState
  BY DEF ReadState
<1>2. \A k \in Nat, v \in ReadState : step[<<k, v>>] = put(v, k)
  OBVIOUS
<1> HIDE DEF n
<1>3. \A k \in Nat, v \in ReadState : put(v, k) \in ReadState
  BY <1>0, CopiedIsReadState
<1>4. StaysIn(step, ReadState)
  <2> HIDE DEF step, put
  <2> QED BY <1>2, <1>3 DEF StaysIn
<1> HIDE DEF step
<1>5. \E g \in [0..n -> ReadState] : Iterated(g, x, step, n)
  <2> HIDE DEF put, x
  <2> QED BY ONLY <1>0, <1>1, <1>4, Iterates
<1> HIDE DEF x
<1>6. PICK g \in [0..n -> ReadState] :
        g[0] = x /\ \A k \in 1..n : g[k] = step[<<k, g[k - 1]>>]
  BY <1>5 DEF Iterated
<1>7. ASSUME NEW k \in 1..n PROVE g[k] = Copied(g[k - 1], k - 1)
  <2>1. k - 1 \in 0..n /\ k \in Nat
    BY <1>0
  <2>2. step[<<k, g[k - 1]>>] = put(g[k - 1], k)
    BY <1>2, <2>1
  <2> QED BY <1>6, <2>2
<1>8. Is(g)
  <2>1. ASSUME NEW k \in 0..n
        PROVE  g[k] = IF k = 0 THEN x ELSE Copied(g[k - 1], k - 1)
    <3>1. k = 0 \/ (k # 0 /\ k \in 1..n)
      BY <1>0
    <3> QED BY <1>6, <1>7, <3>1
  <2> QED BY <2>1
<1>9. ASSUME NEW f, Is(f) PROVE f = g
  <2>1. f[0] = g[0]
    BY <1>0, <1>6, <1>9
  <2>2. ASSUME NEW k \in 0..(n - 1), f[k] = g[k] PROVE f[k + 1] = g[k + 1]
    <3>1. k + 1 \in 1..n /\ k + 1 \in 0..n /\ k + 1 # 0 /\ (k + 1) - 1 = k
      BY <1>0
    <3>2. f[k + 1] = Copied(f[k], k)
      BY ONLY <1>9, <3>1
    <3>3. g[k + 1] = Copied(g[k], k)
      BY <1>7, <3>1
    <3> QED BY <2>2, <3>2, <3>3
  <2>3. Function(f, n)
    BY <1>9 DEF Function
  <2>4. Function(g, n)
    BY <1>6 DEF Function
  <2>5. GoAlike(f, g, n)
    BY <2>1, <2>2 DEF GoAlike
  <2> HIDE DEF Is
  <2> QED BY ONLY <1>0, <2>3, <2>4, <2>5, SameUpTo
<1>10. (CHOOSE f : Is(f)) = g
  <2> HIDE DEF Is
  <2> QED BY <1>8, <1>9
<1>11. DirectRead = (CHOOSE f : Is(f))[n]
  BY DEF DirectRead, x, n
<1> QED BY <1>6, <1>7, <1>10, <1>11 DEF x, n

\* What cat prints of a file that is whole and not longer than the first block
\* behind the indirect block.
LEMMA CatIsRight ==
  ASSUME size \in Nat, size <= Capacity, blocks \in Blocks, get_file_contents,
         Whole, size <= (Direct + 1) * BlockSize
  PROVE  printed' = [known |-> NonZero(Contents), more |-> FALSE]
<1> DEFINE d == DirectRead
           named == {i \in Index : i >= Direct /\ blocks[i] # NoBlock}
           first == CHOOSE i \in named : \A j \in named : i <= j
           r == IF d.read < size /\ named # {} THEN Copied(d, first) ELSE d
           n == NamedDirect
<1>1. printed' = [known |-> r.out,
                  more |-> named # {} /\ d.read < size /\ r.read < size /\ first + 1 \in Index]
  BY DEF get_file_contents
<1>2. /\ n \in Nat /\ n <= Direct /\ n \in Index /\ Direct \in Nat /\ Direct \in Index
      /\ \A i \in 0..(n - 1) : i \in Index /\ blocks[i] # NoBlock
      /\ n = Direct \/ blocks[n] = NoBlock
  BY NamedDirectFacts, Sizes
<1>3. size <= B(Direct + 1)
  BY DEF B
<1>4. \A i \in Index : B(i) < size => blocks[i] # NoBlock
  BY DEF Whole, B
<1>5. NonZero(Contents) = Appended(<<>>, Contents, size)
  BY ContentsAre, ContentsNowAndThen DEF NonZero
<1>6. d \in ReadState /\ HasRead(d, n)
  <2>1. PICK g \in [0..n -> ReadState] :
          /\ g[0] = [out |-> <<>>, read |-> 0]
          /\ \A k \in 1..n : g[k] = Copied(g[k - 1], k - 1)
          /\ d = g[n]
    BY DirectSteps
  <2> HIDE DEF d, n
  <2> DEFINE T == {k \in 0..n : HasRead(g[k], k)}
  <2>2. 0 \in T
    <3>1. Appended(<<>>, Contents, 0) = <<>>
      <4>1. <<>> \in Seq(Byte) /\ \A k \in 1..0 : Contents[k] \in Byte
        OBVIOUS
      <4>2. PICK h : AppendedUpTo(h, <<>>, Contents, 0) /\ Appended(<<>>, Contents, 0) = h[0]
        <5> DEFINE e == <<>>
        <5>1. e \in Seq(Byte)
          BY <4>1
        <5> HIDE DEF e
        <5>2. \E h : AppendedUpTo(h, e, Contents, 0) /\ Appended(e, Contents, 0) = h[0]
          BY ONLY <4>1, <5>1, AppendedSteps
        <5> QED BY <5>2 DEF e
      <4> QED BY <4>2 DEF AppendedUpTo
    <3>2. Least(size, B(0)) = 0
      BY Products DEF Least
    <3>3. HasRead(g[0], 0)
      BY <2>1, <3>1, <3>2 DEF HasRead
    <3> QED BY <1>2, <3>3
  <2>3. ASSUME NEW k \in 0..(n - 1), k \in T PROVE k + 1 \in T
    <3>1. k + 1 \in 1..n /\ k + 1 \in 0..n /\ k \in 0..n /\ (k + 1) - 1 = k
      BY <1>2
    <3>2. k \in Index /\ blocks[k] # NoBlock
      BY <1>2
    <3>3. g[k + 1] = Copied(g[k], k) /\ g[k] \in ReadState /\ HasRead(g[k], k)
      BY <2>1, <2>3, <3>1
    <3>4. HasRead(g[k + 1], k + 1)
      BY <3>2, <3>3, NextBlockIsRead
    <3> QED BY <3>1, <3>4
  <2>4. \A k \in 0..n : k \in T
    <3> HIDE DEF T
    <3> QED BY <1>2, <2>2, <2>3, UpTo
  <2>5. n \in 0..n
    BY <1>2
  <2> QED BY <2>1, <2>4, <2>5
<1>7. d.read = Least(size, B(n)) /\ d.out = Appended(<<>>, Contents, d.read) /\ B(n) \in Nat
  BY <1>2, <1>6, Products DEF HasRead
<1>8. CASE size <= B(n)
  <2> HIDE DEF d, n, named, first
  <2>1. d.read = size /\ ~ (d.read < size)
    BY <1>7, <1>8 DEF Least
  <2>2. r = d
    BY <2>1
  <2> HIDE DEF r
  <2> QED BY <1>1, <1>5, <1>7, <2>1, <2>2
<1>9. CASE B(n) < size
  <2>1. n = Direct
    <3>1. blocks[n] # NoBlock
      BY <1>2, <1>4, <1>9
    <3> QED BY <1>2, <3>1
  <2>2. Direct \in named
    <3>1. blocks[Direct] # NoBlock
      BY <1>2, <1>4, <1>9, <2>1
    <3> QED BY <1>2, <3>1
  <2>3. \A j \in named : j \in Nat /\ Direct <= j
    BY <1>2, Sizes
  <2>4. first = Direct
    <3>1. \E i \in named : \A j \in named : i <= j
      BY <2>2, <2>3
    <3> HIDE DEF named
    <3>2. first \in named /\ \A j \in named : first <= j
      BY <3>1
    <3>3. first \in Nat /\ first <= Direct /\ Direct <= first
      BY <2>2, <2>3, <3>2
    <3> HIDE DEF first
    <3> QED BY <1>2, <3>3
  <2>5. d.read < size
    BY <1>7, <1>9 DEF Least
  <2>6. r = Copied(d, Direct)
    BY <2>2, <2>4, <2>5
  <2> HIDE DEF r, d, first, named
  <2>7. HasRead(r, Direct + 1)
    <3>1. blocks[Direct] # NoBlock
      BY <1>2, <1>4, <1>9, <2>1
    <3>2. HasRead(d, Direct)
      BY <1>6, <2>1
    <3> HIDE DEF n
    <3> QED BY <1>2, <1>6, <2>6, <3>1, <3>2, NextBlockIsRead
  <2>8. r.read = size /\ r.out = Appended(<<>>, Contents, size)
    <3>1. Least(size, B(Direct + 1)) = size
      <4>1. B(Direct + 1) \in Nat
        BY <1>2, Products
      <4> QED BY <1>3, <4>1 DEF Least
    <3> QED BY <2>7, <3>1 DEF HasRead
  <2>9. ~ (r.read < size)
    BY <2>8
  <2> QED BY <1>1, <1>5, <2>8, <2>9
<1> QED BY <1>7, <1>8, <1>9
-----------------------------------------------------------------------------
FileInv ==
  /\ size \in Nat /\ size <= Capacity /\ blocks \in Blocks
  /\ WritesKeepOrReplace
  /\ CatPrintsUpToIndirect

LEMMA ImportedBlocks ==
  ASSUME NEW s \in Seq(Byte), NEW i \in Index
  PROVE  Padded(Slice(s, i)) \in Block
<1> DEFINE from == i * BlockSize + 1
           to == Least(Len(s), (i + 1) * BlockSize)
<1>1. Len(s) \in Nat /\ from \in Nat /\ from > 0 /\ to \in Nat /\ to <= Len(s)
  <2>1. i \in Nat
    BY SizeFacts
  <2>2. B(i) \in Nat /\ B(i + 1) \in Nat
    BY <2>1, Products
  <2> QED BY <2>2 DEF B, Least
<1> HIDE DEF from, to
<1>2. \A k \in from..to : s[k] \in Byte
  BY <1>1
<1>3. SubSeq(s, from, to) \in Seq(Byte)
  BY <1>1, <1>2, SubSeqProperties
<1>4. Slice(s, i) \in Seq(Byte)
  BY <1>3 DEF Slice, from, to
<1>5. \A k \in DOMAIN Slice(s, i) : Slice(s, i)[k] \in Byte
  BY <1>4
<1> QED BY <1>5, Sizes DEF Padded, Block

LEMMA FileBegins == FileInit => FileInv
<1> SUFFICES ASSUME FileInit PROVE FileInv
  OBVIOUS
<1>1. PICK s \in Imported :
        /\ size = Len(s)
        /\ blocks \in [Index -> {NoBlock} \cup {Padded(Slice(s, i)) : i \in Index}]
  BY DEF FileInit
<1>2. s \in Seq(Byte) /\ Len(s) <= Capacity
  BY Ext2FileAssumption
<1>3. blocks \in Blocks
  BY <1>1, <1>2, ImportedBlocks DEF Blocks
<1>4. last.call = "none"
  BY DEF FileInit
<1> QED BY <1>1, <1>2, <1>3, <1>4 DEF FileInv, WritesKeepOrReplace, CatPrintsUpToIndirect

LEMMA FileIsWritten ==
  ASSUME FileInv, NEW input \in Inputs, NEW overwrite \in BOOLEAN,
         write_file_content(input, overwrite)
  PROVE  FileInv'
<1> DEFINE first == FirstByte(overwrite)
           total == FirstByte(overwrite) + Len(input)
<1>1. size \in Nat /\ size <= Capacity /\ blocks \in Blocks
  BY DEF FileInv
<1>2. input \in Seq(Byte) /\ Len(input) \in Nat
  BY Sizes
<1>3. /\ total <= Capacity /\ size' = total
      /\ last' = [call |-> IF overwrite THEN "write" ELSE "append",
                  input |-> input, before |-> Contents]
  BY DEF write_file_content
<1>4. PICK g : WrittenUpTo(g, first, input, total) /\ blocks' = g[AllBlocks].blocks
  BY <1>1, <1>2, WriteSteps
<1>5. Contents \in Seq(Byte) /\ Len(Contents) = size
  BY <1>1, ContentsAre, ContentsNowAndThen
<1>6. CatPrintsUpToIndirect'
  BY <1>3 DEF CatPrintsUpToIndirect
<1>7. size' \in Nat /\ size' <= Capacity
  BY <1>1, <1>2, <1>3 DEF FirstByte
<1>8. CASE overwrite \/ size = 0
  <2>1. first = 0
    BY <1>8 DEF FirstByte
  <2>2. total = Len(input)
    BY <1>2, <2>1
  <2>3. WrittenUpTo(g, 0, input, Len(input)) /\ size' = Len(input) /\ Len(input) <= Capacity
    BY <1>3, <1>4, <2>1, <2>2
  <2>4. blocks' \in Blocks /\ Contents' = input
    BY ONLY <1>1, <1>2, <1>4, <2>3, AllIsWritten
  <2>5. last'.input = input /\ last'.before = Contents
    BY <1>3
  <2>6. Len(last'.before) < BlockSize /\ last'.call = "append" => IsPrefix(last'.before, Contents')
    <3>1. ASSUME last'.call = "append" PROVE IsPrefix(last'.before, Contents')
      <4>1. ~ overwrite
        BY <1>3, <3>1
      <4>2. Len(Contents) = 0 /\ Len(Contents) <= Len(input)
        BY <1>2, <1>5, <1>8, <4>1
      <4>3. \A n \in 1..Len(Contents) : input[n] = Contents[n]
        BY <4>2
      <4>4. IsPrefix(Contents, input)
        BY <1>2, <1>5, <4>2, <4>3, PrefixOf
      <4> QED BY <2>4, <2>5, <4>4
    <3> QED BY <3>1
  <2>7. WritesKeepOrReplace'
    BY <2>4, <2>5, <2>6 DEF WritesKeepOrReplace
  <2> QED BY <1>6, <1>7, <2>4, <2>7 DEF FileInv
<1>9. CASE ~ overwrite /\ size # 0
  <2>1. first = size
    BY <1>9 DEF FirstByte
  <2>2. WrittenUpTo(g, size, input, size + Len(input)) /\ size' = size + Len(input)
        /\ size + Len(input) <= Capacity
    BY <1>3, <1>4, <2>1
  <2>3. last'.call = "append" /\ last'.before = Contents
    BY <1>3, <1>9
  <2>4. Contents # <<>>
    BY <1>5, <1>9
  <2>5. size < BlockSize => IsPrefix(Contents, Contents')
    BY ONLY <1>1, <1>2, <1>4, <2>2, BeginningIsKept
  <2>6. blocks' \in Blocks
    <3>1. g[AllBlocks] \in WriteState
      BY <2>2, SizeFacts DEF WrittenUpTo
    <3> QED BY <1>4, <3>1 DEF WriteState
  <2>7. WritesKeepOrReplace'
    BY <1>5, <2>3, <2>4, <2>5 DEF WritesKeepOrReplace
  <2> QED BY <1>6, <1>7, <2>6, <2>7 DEF FileInv
<1> QED BY <1>8, <1>9

LEMMA FileIsPrinted ==
  ASSUME FileInv, get_file_contents
  PROVE  FileInv'
<1>1. size \in Nat /\ size <= Capacity /\ blocks \in Blocks
  BY DEF FileInv
<1>2. size' = size /\ blocks' = blocks /\ last'.call = "cat"
  BY DEF get_file_contents
<1>3. Contents' = Contents /\ (Whole' <=> Whole)
  BY <1>2, ContentsNowAndThen DEF Whole
<1>4. NonZero(Contents)' = NonZero(Contents)
  BY <1>3 DEF NonZero
<1>5. Whole /\ size <= (Direct + 1) * BlockSize =>
        printed' = [known |-> NonZero(Contents), more |-> FALSE]
  BY <1>1, CatIsRight
<1>6. CatPrintsUpToIndirect'
  BY <1>2, <1>3, <1>4, <1>5 DEF CatPrintsUpToIndirect
<1>7. WritesKeepOrReplace'
  BY <1>2 DEF WritesKeepOrReplace
<1> QED BY <1>1, <1>2, <1>6, <1>7 DEF FileInv

LEMMA FileStutters == FileInv /\ UNCHANGED fileVars => FileInv'
<1> SUFFICES ASSUME FileInv, UNCHANGED fileVars PROVE FileInv'
  OBVIOUS
<1>1. size' = size /\ blocks' = blocks /\ printed' = printed /\ last' = last
  BY DEF fileVars
<1>2. Contents' = Contents /\ (Whole' <=> Whole)
  BY <1>1, ContentsNowAndThen DEF Whole
<1>3. NonZero(Contents)' = NonZero(Contents)
  BY <1>2 DEF NonZero
<1>4. WritesKeepOrReplace' <=> WritesKeepOrReplace
  BY <1>1, <1>2 DEF WritesKeepOrReplace
<1>5. CatPrintsUpToIndirect' <=> CatPrintsUpToIndirect
  BY <1>1, <1>2, <1>3 DEF CatPrintsUpToIndirect
<1> QED BY <1>1, <1>4, <1>5 DEF FileInv

THEOREM FileInvariant == FileSpec => []FileInv
<1>1. FileInv /\ [FileNext]_fileVars => FileInv'
  BY FileIsWritten, FileIsPrinted, FileStutters DEF FileNext
<1> QED BY <1>1, FileBegins, PTL DEF FileSpec

(***************************************************************************)
(* Whatever a file holds and whatever is written and appended to it, an    *)
(* overwrite, or an append to an empty file, leaves its input as the       *)
(* contents, and an append to a file that ends in its first block keeps    *)
(* what was there (write_file_content).                                    *)
(***************************************************************************)
THEOREM WritesKeepOrReplaceAlways == FileSpec => []WritesKeepOrReplace
<1>1. FileInv => WritesKeepOrReplace
  BY DEF FileInv
<1> QED BY <1>1, FileInvariant, PTL

(***************************************************************************)
(* cat prints a whole file that ends with the first block behind the       *)
(* indirect block as it is, but for its zero bytes (get_file_contents).    *)
(***************************************************************************)
THEOREM CatPrintsUpToIndirectAlways == FileSpec => []CatPrintsUpToIndirect
<1>1. FileInv => CatPrintsUpToIndirect
  BY DEF FileInv
<1> QED BY <1>1, FileInvariant, PTL
=============================================================================
