------------------------------- MODULE Paging -------------------------------
(***************************************************************************)
(* The virtual memory manager, mm/vmm.cpp: a page directory, its tables    *)
(* and the TLB, with the frame allocator that it calls and is called by.   *)
(* alloc_frame maps the frames that it hands out, and alloc_page takes the *)
(* frame of a missing table from alloc_frame: `todo' is the stack of these *)
(* calls.  Addresses are counted in pages.                                 *)
(***************************************************************************)
EXTENDS Integers, Sequences, SequencesExt

CONSTANTS PT_ENTRIES, PD_ENTRIES,
          METADATA_ADDR, LOW_DATA_START_ADDR,
          Limit,            \* the end of the memory
          framebuffer,      \* its first page
          FbSizes,          \* its sizes
          Device,           \* the first page of the registers of an AHCI HBA
          Low,              \* pages below the kernel, which free_frame unmaps
          Blocks,           \* the sizes that callers ask for
          Depth             \* bound: the calls that fit on the kernel's stack

Page == 0..(PD_ENTRIES * PT_ENTRIES - 1)
Region == 0..(PD_ENTRIES - 1)     \* what one table maps
Entry == 0..(PT_ENTRIES - 1)
Frame == LOW_DATA_START_ADDR..(Limit - 1)
nullptr == 0
None == -1

ASSUME PagingAssumption ==
  /\ {PT_ENTRIES, PD_ENTRIES, Depth, Low} \subseteq Nat \ {0} /\ Depth >= 4
  /\ Low <= METADATA_ADDR /\ METADATA_ADDR < LOW_DATA_START_ADDR
  /\ LOW_DATA_START_ADDR + 1 < Limit
  /\ {METADATA_ADDR, LOW_DATA_START_ADDR, LOW_DATA_START_ADDR + 5, Limit} \subseteq Page
  /\ {framebuffer, Device, Device + 2} \subseteq Page
  /\ \A n \in FbSizes : n \in Nat /\ framebuffer + n \in Page
  /\ Blocks \subseteq Nat \ {0}

VARIABLES
  enabled_paging,
  fb_size,          \* the pages of the framebuffer
  page_tables,      \* the frame of the table of each region; the directory's
                    \* entries, written with them, are the same
  mem,              \* the contents of a frame, read as a table
  tlb,              \* the translations that the TLB may hold
  held, own,        \* blocks of callers; frames of the directory and tables
  todo,             \* the calls of identity_map_region and alloc_page
  status            \* "ok", or how the kernel ends

tables == <<page_tables, mem, tlb>>
vars == <<enabled_paging, fb_size, tables, held, own, todo, status>>

PD_INDEX(v) == v \div PT_ENTRIES
PT_INDEX(v) == v % PT_ENTRIES

\* Pages from at to last are to be mapped, the first one to phys; then frame,
\* if it is not null, is zeroed and returned by alloc_frame.
Call(at, last, phys, frame) == [at |-> at, last |-> last, phys |-> phys, frame |-> frame]
Identity(start, end) == Call(start, end, start, nullptr)

\* vmm::init, in the order of its calls from the last to the first.
\* Mutant: two pages fewer for the paging structures.
BootCallsShort(pages) ==
  << Identity(LOW_DATA_START_ADDR, LOW_DATA_START_ADDR + 3),
     Identity(framebuffer, framebuffer + pages - 1),
     Identity(METADATA_ADDR, METADATA_ADDR), Identity(0, METADATA_ADDR + 1) >>

BootCalls(pages) ==
  << Identity(LOW_DATA_START_ADDR, LOW_DATA_START_ADDR + 5),
     Identity(framebuffer, framebuffer + pages - 1),
     Identity(METADATA_ADDR, METADATA_ADDR), Identity(0, METADATA_ADDR + 1) >>

Zeroed == [i \in Entry |-> None]
Data == [i \in Entry |-> 0]     \* what a caller writes, read as a table

Init == /\ enabled_paging = FALSE
        /\ fb_size \in FbSizes
        /\ page_tables = [r \in Region |-> nullptr]
        /\ mem = [f \in Frame |-> Zeroed]
        /\ tlb = {}
        /\ held = {} /\ own = {LOW_DATA_START_ADDR, LOW_DATA_START_ADDR + 1}
        /\ todo = BootCalls(fb_size)
        /\ status = "ok"
-----------------------------------------------------------------------------
\* virtual_to_physical, which is also what the processor does.
Walk(pt, m, v) ==
  LET t == pt[PD_INDEX(v)] IN IF t = nullptr THEN None ELSE m[t][PT_INDEX(v)]

virtual_to_physical(v) == Walk(page_tables, mem, v)
is_mapped(v) == virtual_to_physical(v) # None

\* The kernel reads or writes frame f under its own address.
Accessible(f) == enabled_paging => virtual_to_physical(f) = f

\* The TLB after invlpg of the pages in flushed.
Tlb(flushed) ==
  {e \in tlb : e[1] \notin flushed} \cup
  {<<v, Walk(page_tables', mem', v)>> : v \in {w \in Page : Walk(page_tables', mem', w) # None}}

FramesOf(b) == b.addr..(b.addr + b.size - 1)

Taken == own \cup UNION {FramesOf(b) : b \in held}

\* Where alloc_frame finds room for n frames.
Fits(n) == IF enabled_paging /\ ~is_mapped(METADATA_ADDR) THEN {}
           ELSE {f \in Frame : f..(f + n - 1) \subseteq Frame \ Taken}

Lowest(frames) == {f \in frames : \A g \in frames : f <= g}

\* Mutant: holes are not looked for while there is room behind the last block.
NextFit(n) == LET behind == {f \in Fits(n) : \A g \in Taken : g < f}
              IN Lowest(IF behind = {} THEN Fits(n) ELSE behind)

\* The frame that alloc_frame takes, if there is one.
FirstFit(n) == Lowest(Fits(n))

Top == Last(todo)

\* Mutant: the new table keeps what was in its frame.
set_page_unzeroed(t, calls) ==
  LET c == Last(calls) IN
  /\ page_tables' = [page_tables EXCEPT ![PD_INDEX(c.at)] = t]
  /\ mem' = [mem EXCEPT ![t][PT_INDEX(c.at)] = c.phys]
  /\ tlb' = IF enabled_paging THEN Tlb({c.at}) ELSE {}
  /\ todo' = [calls EXCEPT ![Len(calls)].at = @ + 1, ![Len(calls)].phys = @ + 1]

\* The end of alloc_page, for the innermost of calls: its region has table t,
\* and the page is set in it.
set_page(t, calls) ==
  LET c == Last(calls)
      old == IF page_tables[PD_INDEX(c.at)] = t THEN mem[t] ELSE Zeroed
  IN
  /\ page_tables' = [page_tables EXCEPT ![PD_INDEX(c.at)] = t]
  /\ mem' = [mem EXCEPT ![t] = [old EXCEPT ![PT_INDEX(c.at)] = c.phys]]
  /\ tlb' = IF enabled_paging THEN Tlb({c.at}) ELSE {}
  /\ todo' = [calls EXCEPT ![Len(calls)].at = @ + 1, ![Len(calls)].phys = @ + 1]

Ends(how) == status' = how /\ UNCHANGED <<enabled_paging, tables, held, own, todo>>

\* A page whose region has a table.
MapPage == LET t == page_tables[PD_INDEX(Top.at)] IN
  /\ Top.at <= Top.last /\ t # nullptr
  /\ \/ ~Accessible(t) /\ Ends("fault")
     \/ /\ Accessible(t) /\ set_page(t, todo)
        /\ UNCHANGED <<enabled_paging, held, own, status>>

\* A page whose region has none: alloc_frame is called, which before paging is
\* on maps nothing.
MapTable ==
  /\ Top.at <= Top.last /\ page_tables[PD_INDEX(Top.at)] = nullptr
  /\ \/ Fits(1) = {} /\ Ends("wild")       \* the table is at address 0
     \/ enabled_paging /\ Fits(1) # {} /\ Len(todo) = Depth /\ Ends("overflow")
     \/ /\ enabled_paging /\ Len(todo) < Depth
        /\ \E f \in FirstFit(1) :
             own' = own \cup {f} /\ todo' = Append(todo, Call(f, f + 1, f, f))
        /\ UNCHANGED <<enabled_paging, tables, held, status>>
     \/ /\ ~enabled_paging
        /\ \E f \in FirstFit(1) : own' = own \cup {f} /\ set_page(f, todo)
        /\ UNCHANGED <<enabled_paging, held, status>>

\* Mutant: free_page without invlpg.
FlushedNever(pages) == {}

Flushed(pages) == pages

\* alloc_frame zeroes its frame and returns, to alloc_page or to the caller;
\* the last call of vmm::init turns paging on.
Return ==
  /\ Top.at > Top.last
  /\ \/ Top.frame # nullptr /\ ~Accessible(Top.frame) /\ Ends("fault")
     \/ /\ Top.frame # nullptr /\ Accessible(Top.frame)
        /\ IF Len(todo) > 1
           THEN set_page(Top.frame, Front(todo))
           ELSE /\ mem' = [mem EXCEPT ![Top.frame] = Data]
                /\ todo' = <<>> /\ UNCHANGED <<page_tables, tlb>>
        /\ UNCHANGED <<enabled_paging, held, own, status>>
     \/ /\ Top.frame = nullptr
        /\ todo' = Front(todo)
        /\ enabled_paging' = (enabled_paging \/ Len(todo) = 1)
        /\ UNCHANGED <<page_tables, mem, held, own, status>>
        /\ tlb' = IF enabled_paging' THEN Tlb({}) ELSE {}
-----------------------------------------------------------------------------
(***************************************************************************)
(* The calls of the kernel, one at a time.                                 *)
(***************************************************************************)
Idle == todo = <<>> /\ enabled_paging

\* Mutant: of a block, one page is mapped.
BlockCallOne(f, n) == Call(f, f, f, f)

\* identity_map_region maps the page at its end, too.
BlockCall(f, n) == Call(f, f + n, f, f)

alloc_frame(n) ==
  /\ Idle
  /\ \E f \in FirstFit(n) :
       /\ held' = held \cup {[addr |-> f, size |-> n]}
       /\ todo' = << BlockCall(f, n) >>
  /\ UNCHANGED <<enabled_paging, tables, own, status>>

\* free_page of each page.
free_pages(pages) ==
  /\ mem' = [f \in Frame |->
       [i \in Entry |->
          IF \E v \in pages : page_tables[PD_INDEX(v)] = f /\ PT_INDEX(v) = i
          THEN None ELSE mem[f][i]]]
  /\ UNCHANGED page_tables
  /\ tlb' = Tlb(Flushed(pages))

\* The pages that are unmapped are not those of the block but the first ones,
\* as many as there are metadata nodes from the block's on.
free_frame(b) ==
  /\ Idle
  /\ held' = held \ {b}
  /\ \E n \in 1..Low : free_pages(0..(n - 1))
  /\ UNCHANGED <<enabled_paging, own, todo, status>>

\* AhciDriver::init_dev.
map_device == /\ Idle /\ todo' = << Identity(Device, Device + 2) >>
              /\ UNCHANGED <<enabled_paging, tables, held, own, status>>

\* A page that is not mapped to itself (test_vmm).
alloc_page(v, p) == /\ Idle /\ todo' = << Call(v, v, p, nullptr) >>
                    /\ UNCHANGED <<enabled_paging, tables, held, own, status>>

Next == /\ status = "ok"
        /\ \/ todo # <<>> /\ (MapPage \/ MapTable \/ Return)
           \/ \E n \in Blocks : alloc_frame(n)
           \/ \E b \in held : free_frame(b) \/ \E v \in 0..(Low - 1) : alloc_page(v, b.addr)
           \/ map_device
        /\ UNCHANGED fb_size

Spec == Init /\ [][Next]_vars
-----------------------------------------------------------------------------
(***************************************************************************)
(* A region's table is a frame that the allocator does not give away       *)
(* (alloc_page), and blocks that are held have no frame in common.         *)
(***************************************************************************)
TypeOK ==
  /\ enabled_paging \in BOOLEAN /\ fb_size \in FbSizes
  /\ page_tables \in [Region -> own \cup {nullptr}]
  /\ mem \in [Frame -> [Entry -> Page \cup {None}]]
  /\ \A b \in held : FramesOf(b) \subseteq Frame \ own
  /\ \A b, c \in held : b # c => FramesOf(b) \cap FramesOf(c) = {}
  /\ own \subseteq Frame /\ Len(todo) <= Depth
  /\ status \in {"ok", "fault", "overflow", "wild"}

\* The pages that a call in progress has still to map.
Pending == UNION {todo[i].at..todo[i].last : i \in 1..Len(todo)}

(***************************************************************************)
(* Each frame that a caller holds can be used under its own address,       *)
(* whatever tables were created or replaced in between (alloc_frame,       *)
(* alloc_page).                                                            *)
(***************************************************************************)
HeldAreMapped ==
  TypeOK /\ \A b \in held : \A f \in FramesOf(b) \ Pending : virtual_to_physical(f) = f

\* The framebuffer and the device lie in regions behind those of the frames.
\* In a region that they share with frames, alloc_frame can end a recursion that
\* has already given the region a table, and alloc_page replaces that table.
Separate == PD_INDEX(Limit - 1) < PD_INDEX(framebuffer) /\ PD_INDEX(Limit - 1) < PD_INDEX(Device)

(***************************************************************************)
(* The TLB never holds a translation other than that of the tables: every  *)
(* change of a page is followed by invlpg (alloc_page, free_page).         *)
(***************************************************************************)
TlbIsFresh == Separate => \A e \in tlb : virtual_to_physical(e[1]) = e[2]

(***************************************************************************)
(* A page changes when it is asked for and to what was asked; a new table, *)
(* whatever its frame held, changes no other page (alloc_page).            *)
(***************************************************************************)
OnlyRequestedPagesChange ==
  [][\A v \in Page : Separate /\ virtual_to_physical(v)' # virtual_to_physical(v) =>
       \/ \E i \in 1..Len(todo) : /\ todo[i].at = v
                                  /\ virtual_to_physical(v)' = todo[i].phys
       \/ todo = <<>> /\ v < Low /\ ~is_mapped(v)']_vars

\* The regions that vmm::init maps pages of.
BootRegions == {PD_INDEX(v) : v \in UNION {c.at..c.last : c \in Range(BootCalls(fb_size))}}

(***************************************************************************)
(* With tables for at most four regions at boot, which is what a           *)
(* framebuffer in one region asks for at the addresses of the code, the    *)
(* tables of vmm::init lie in the pages that it maps, and the kernel never *)
(* meets a table or a frame that is not mapped.                            *)
(***************************************************************************)
NoPageFault == Cardinality(BootRegions) <= 4 => status # "fault"

(***************************************************************************)
(* alloc_frame and alloc_page call each other without end only when every  *)
(* frame that is left lies in a region without a table: the first frame of *)
(* such a region asks for a table, whose frame is the next one of it.      *)
(***************************************************************************)
EndlessOnlyWithoutTables ==
  status = "overflow" =>
    \A f \in Frame \ Taken : page_tables[PD_INDEX(f)] = nullptr

(***************************************************************************)
(* The kernel stops in a fault or in endless recursion for no reason but   *)
(* these: a framebuffer of two regions, free frames that all lie in        *)
(* regions without a table, and frames in the region of the framebuffer or *)
(* the device (vmm::init, alloc_page, alloc_frame).                        *)
(***************************************************************************)
StopsForAReason == Separate => NoPageFault /\ EndlessOnlyWithoutTables
=============================================================================
