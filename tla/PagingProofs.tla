---------------------------- MODULE PagingProofs ----------------------------
(***************************************************************************)
(* Proofs for the virtual memory manager: for every size of the tables,    *)
(* every placing of kernel, frames, framebuffer and device, and however    *)
(* alloc_frame and alloc_page call each other, the frames that callers     *)
(* hold are mapped to themselves.                                          *)
(***************************************************************************)
EXTENDS Paging, SequenceTheorems, FiniteSetTheorems, TLAPS

(***************************************************************************)
(* The inductive invariant.                                                *)
(***************************************************************************)
Asking == [at : Nat, last : Int, phys : Nat, frame : Nat]
Span(c) == c.at..c.last
HeldFrames == UNION {FramesOf(b) : b \in held}

Typed == /\ TypeOK
         /\ held \subseteq [addr : Frame, size : Nat \ {0}]
         /\ todo \in Seq(Asking)

\* Pages are mapped to themselves, but for one below Low.
Identical(c) ==
  /\ c.last < PD_ENTRIES * PT_ENTRIES
  /\ c.at <= c.last => c.phys \in Page
  /\ c.phys = c.at \/ (c.last < Low /\ c.last <= c.at)

AllIdentical == \A i \in 1..Len(todo) : Identical(todo[i])

\* Before paging is on nothing is held and no call is nested; the first call
\* may be that of a block.
BootHoldsNothing ==
  ~enabled_paging => held = {} /\ \A i \in 1..Len(todo) : todo[i].frame = nullptr

FirstIsCallers == todo # <<>> => todo[1].frame \in HeldFrames \cup {nullptr}

\* A nested call has a frame of its own, which will be the table of the page
\* that the call around it maps.
Nested ==
  enabled_paging => \A i \in 2..Len(todo) :
    /\ todo[i - 1].at <= todo[i - 1].last
    /\ todo[i].frame \in own
    /\ \A r \in Region : page_tables[r] # todo[i].frame
    /\ \A j \in 2..Len(todo) : todo[i].frame = todo[j].frame => i = j

OneTablePerRegion ==
  \A r, s \in Region : page_tables[r] = page_tables[s] /\ page_tables[r] # nullptr => r = s

\* When the nested call ends its region's table is replaced, whatever it maps
\* by then: the held frames of the region are still to be mapped.
Covered ==
  \A i \in 2..Len(todo) : \A f \in HeldFrames :
    PD_INDEX(f) = PD_INDEX(todo[i - 1].at) => \E j \in 1..i - 1 : f \in Span(todo[j])

KeptMapped ==
  \A f \in HeldFrames :
    (\A i \in 1..Len(todo) : f \notin Span(todo[i])) => virtual_to_physical(f) = f

PagingInv ==
  /\ Typed /\ AllIdentical /\ BootHoldsNothing /\ FirstIsCallers /\ Nested
  /\ OneTablePerRegion /\ Covered /\ KeptMapped
-----------------------------------------------------------------------------
(***************************************************************************)
(* Pages and their indices.                                                *)
(***************************************************************************)
LEMMA Division ==
  ASSUME NEW p \in Nat \ {0}, NEW v \in Nat
  PROVE  /\ v \div p \in Nat /\ v % p \in 0..(p - 1)
         /\ v = p * (v \div p) + (v % p)
OBVIOUS

LEMMA PageIndices ==
  ASSUME NEW v \in Page
  PROVE  PD_INDEX(v) \in Region /\ PT_INDEX(v) \in Entry
<1> DEFINE q == v \div PT_ENTRIES
           r == v % PT_ENTRIES
<1>1. /\ v \in Nat /\ v < PD_ENTRIES * PT_ENTRIES
      /\ PT_ENTRIES \in Nat \ {0} /\ PD_ENTRIES \in Nat \ {0}
  BY PagingAssumption DEF Page
<1>2. q \in Nat /\ r \in 0..(PT_ENTRIES - 1) /\ v = PT_ENTRIES * q + r
  BY <1>1, Division
<1> HIDE DEF q, r
<1>3. q < PD_ENTRIES
  <2> SUFFICES ASSUME q >= PD_ENTRIES PROVE FALSE
    BY <1>1, <1>2
  <2>1. PT_ENTRIES * q >= PT_ENTRIES * PD_ENTRIES
    BY <1>1, <1>2
  <2>2. PT_ENTRIES * PD_ENTRIES = PD_ENTRIES * PT_ENTRIES
    BY <1>1
  <2> QED BY <1>1, <1>2, <2>1, <2>2
<1> QED BY <1>1, <1>2, <1>3 DEF PD_INDEX, PT_INDEX, Region, Entry, q, r

LEMMA IndicesTellPages ==
  ASSUME NEW u \in Page, NEW v \in Page, PD_INDEX(u) = PD_INDEX(v), PT_INDEX(u) = PT_INDEX(v)
  PROVE  u = v
<1>1. PT_ENTRIES \in Nat \ {0} /\ u \in Nat /\ v \in Nat
  BY PagingAssumption DEF Page
<1>2. /\ u = PT_ENTRIES * (u \div PT_ENTRIES) + (u % PT_ENTRIES)
      /\ v = PT_ENTRIES * (v \div PT_ENTRIES) + (v % PT_ENTRIES)
  BY <1>1, Division
<1> QED BY <1>2 DEF PD_INDEX, PT_INDEX

LEMMA FramesArePages ==
  /\ Frame \subseteq Page /\ Frame \subseteq Nat /\ Page \subseteq Nat /\ nullptr \notin Frame
  /\ \A f \in Frame : f >= Low /\ f + 1 \in Page
  /\ None \notin Page
<1> DEFINE pages == PD_ENTRIES * PT_ENTRIES
<1>1. /\ pages \in Nat /\ Page = 0..(pages - 1)
      /\ Low \in Nat \ {0} /\ METADATA_ADDR \in Page /\ Limit \in Page
      /\ LOW_DATA_START_ADDR + 5 \in Page
      /\ Low <= METADATA_ADDR /\ METADATA_ADDR < LOW_DATA_START_ADDR
  BY PagingAssumption DEF Page
<1> HIDE DEF pages
<1>2. LOW_DATA_START_ADDR \in Nat /\ LOW_DATA_START_ADDR >= Low
  BY <1>1, PagingAssumption
<1> QED BY <1>1, <1>2 DEF Frame, nullptr, None

(***************************************************************************)
(* The writes of set_page: page v, mapped to p in table t.                 *)
(***************************************************************************)
Sets(v, p, t) ==
  LET old == IF page_tables[PD_INDEX(v)] = t THEN mem[t] ELSE Zeroed IN
    /\ page_tables' = [page_tables EXCEPT ![PD_INDEX(v)] = t]
    /\ mem' = [mem EXCEPT ![t] = [old EXCEPT ![PT_INDEX(v)] = p]]

LEMMA WhatSetsDoes ==
  ASSUME TypeOK, OneTablePerRegion, NEW v \in Page, NEW p \in Page,
         NEW t \in Frame, Sets(v, p, t),
         page_tables[PD_INDEX(v)] = t \/ \A r \in Region : page_tables[r] # t
  PROVE  /\ page_tables' \in [Region -> own \cup {t, nullptr}]
         /\ mem' \in [Frame -> [Entry -> Page \cup {None}]]
         /\ OneTablePerRegion'
         /\ Walk(page_tables', mem', v) = p
         /\ \A u \in Page : PD_INDEX(u) # PD_INDEX(v)
              => virtual_to_physical(u)' = virtual_to_physical(u)
         /\ page_tables[PD_INDEX(v)] \in {t, nullptr}
              => \A u \in Page : u # v => virtual_to_physical(u)' = virtual_to_physical(u)
         /\ \A r \in Region : page_tables'[r] = IF r = PD_INDEX(v) THEN t ELSE page_tables[r]
<1> DEFINE R == PD_INDEX(v)
           old == IF page_tables[R] = t THEN mem[t] ELSE Zeroed
<1>1. /\ page_tables \in [Region -> own \cup {nullptr}]
      /\ mem \in [Frame -> [Entry -> Page \cup {None}]] /\ own \subseteq Frame
  BY DEF TypeOK
<1>2. R \in Region /\ PT_INDEX(v) \in Entry /\ t # nullptr
  BY PageIndices, FramesArePages
<1>3. old \in [Entry -> Page \cup {None}]
  BY <1>1 DEF Zeroed
<1>4. /\ page_tables' = [page_tables EXCEPT ![R] = t]
      /\ mem' = [mem EXCEPT ![t] = [old EXCEPT ![PT_INDEX(v)] = p]]
  BY DEF Sets
<1> HIDE DEF R, old, Sets
<1>5. page_tables' \in [Region -> own \cup {t, nullptr}]
  BY <1>1, <1>2, <1>4
<1>6. mem' \in [Frame -> [Entry -> Page \cup {None}]]
  BY <1>1, <1>2, <1>3, <1>4
<1>7. /\ page_tables'[R] = t /\ \A r \in Region \ {R} : page_tables'[r] = page_tables[r]
      /\ mem'[t] = [old EXCEPT ![PT_INDEX(v)] = p]
      /\ \A f \in Frame \ {t} : mem'[f] = mem[f]
  BY <1>1, <1>2, <1>4
<1>8. \A r \in Region \ {R} : page_tables[r] # t
  BY <1>2 DEF OneTablePerRegion, R
<1>9. OneTablePerRegion'
  BY <1>2, <1>7, <1>8 DEF OneTablePerRegion
<1>10. Walk(page_tables', mem', v) = p
  <2>1. mem'[t][PT_INDEX(v)] = p
    BY <1>2, <1>3, <1>7
  <2> QED BY <1>2, <1>7, <2>1 DEF Walk, R
<1>11. ASSUME NEW u \in Page, PD_INDEX(u) # R
       PROVE  virtual_to_physical(u)' = virtual_to_physical(u)
  <2>1. PD_INDEX(u) \in Region /\ page_tables'[PD_INDEX(u)] = page_tables[PD_INDEX(u)]
    BY <1>7, <1>11, PageIndices
  <2>2. page_tables[PD_INDEX(u)] = nullptr
          \/ mem'[page_tables[PD_INDEX(u)]] = mem[page_tables[PD_INDEX(u)]]
    BY <1>1, <1>7, <1>8, <1>11, <2>1
  <2> QED BY <2>1, <2>2 DEF virtual_to_physical, Walk
<1>12. ASSUME page_tables[R] \in {t, nullptr}, NEW u \in Page, u # v
       PROVE  virtual_to_physical(u)' = virtual_to_physical(u)
  <2>1. CASE PD_INDEX(u) # R
    BY <1>11, <2>1
  <2>2. CASE PD_INDEX(u) = R
    <3>1. PT_INDEX(u) # PT_INDEX(v) /\ PT_INDEX(u) \in Entry
      BY <1>12, <2>2, IndicesTellPages, PageIndices DEF R
    <3>2. CASE page_tables[R] = t
      <4>1. mem'[t][PT_INDEX(u)] = mem[t][PT_INDEX(u)]
        BY <1>2, <1>3, <1>7, <3>1, <3>2 DEF old
      <4> QED BY <1>2, <1>7, <2>2, <3>2, <4>1 DEF virtual_to_physical, Walk
    <3>3. CASE page_tables[R] = nullptr
      <4>1. mem'[t][PT_INDEX(u)] = None
        BY <1>2, <1>3, <1>7, <3>1, <3>3 DEF old, Zeroed
      <4> QED BY <1>2, <1>7, <2>2, <3>3, <4>1 DEF virtual_to_physical, Walk
    <3> QED BY <1>12, <3>2, <3>3
  <2> QED BY <2>1, <2>2
<1>13. \A r \in Region : page_tables'[r] = IF r = R THEN t ELSE page_tables[r]
  BY <1>7
<1> QED BY <1>5, <1>6, <1>9, <1>10, <1>11, <1>12, <1>13 DEF R
-----------------------------------------------------------------------------
(***************************************************************************)
(* set_page, and the innermost call, which goes on to its next page.       *)
(***************************************************************************)
LEMMA WhatSetPageDoes ==
  ASSUME NEW calls \in Seq(Asking), calls # <<>>, NEW t, set_page(t, calls)
  PROVE  /\ Sets(calls[Len(calls)].at, calls[Len(calls)].phys, t)
         /\ todo' \in Seq(Asking) /\ Len(todo') = Len(calls)
         /\ \A i \in 1..Len(calls) - 1 : todo'[i] = calls[i]
         /\ todo'[Len(calls)] = [calls[Len(calls)] EXCEPT !.at = @ + 1, !.phys = @ + 1]
<1> DEFINE n == Len(calls)
           c == calls[n]
           d == [c EXCEPT !.at = @ + 1, !.phys = @ + 1]
<1>1. n \in 1..Len(calls) /\ c \in Asking
  OBVIOUS
<1>2. d \in Asking
  <2>1. c.at + 1 \in Nat /\ c.phys + 1 \in Nat
    BY <1>1 DEF Asking
  <2> HIDE DEF c
  <2> QED BY <1>1, <2>1 DEF Asking
<1>3. Sets(c.at, c.phys, t)
  BY DEF set_page, Sets, Last
<1>4. todo' = [calls EXCEPT ![n] = d]
  <2>1. todo' = [calls EXCEPT ![n].at = @ + 1, ![n].phys = @ + 1]
    BY DEF set_page
  <2> QED BY <1>1, <2>1 DEF Asking
<1> HIDE DEF d
<1>5. /\ todo' \in Seq(Asking) /\ Len(todo') = Len(calls)
      /\ \A j \in 1..Len(calls) : todo'[j] = IF j = n THEN d ELSE calls[j]
  BY <1>1, <1>2, <1>4, ExceptSeq
<1> QED BY <1>1, <1>3, <1>5 DEF d

LEMMA NextPage ==
  ASSUME NEW c \in Asking, Identical(c), c.at <= c.last
  PROVE  /\ c.at \in Page /\ c.phys \in Page
         /\ c.at \in Frame => c.phys = c.at
         /\ LET d == [c EXCEPT !.at = @ + 1, !.phys = @ + 1] IN
              /\ Identical(d) /\ Span(d) = Span(c) \ {c.at}
              /\ d.frame = c.frame /\ d.at >= c.at /\ d.last = c.last
<1> DEFINE pages == PD_ENTRIES * PT_ENTRIES
           d == [c EXCEPT !.at = @ + 1, !.phys = @ + 1]
<1>1. /\ c.at \in Nat /\ c.last \in Int /\ c.phys \in Nat
      /\ d.at = c.at + 1 /\ d.phys = c.phys + 1 /\ d.last = c.last /\ d.frame = c.frame
  BY DEF Asking
<1>2. /\ c.last < pages /\ c.phys \in Page
      /\ c.phys = c.at \/ (c.last < Low /\ c.last <= c.at)
  BY DEF Identical
<1>3. pages \in Nat /\ Page = 0..(pages - 1) /\ Low \in Nat
  BY PagingAssumption DEF Page
<1>4. \A f \in Frame : f >= Low
  BY FramesArePages
<1> HIDE DEF d, pages
<1>5. c.at \in Page /\ (c.at \in Frame => c.phys = c.at)
  BY <1>1, <1>2, <1>3, <1>4
<1>6. Identical(d)
  BY <1>1, <1>2, <1>3 DEF Identical, pages
<1>7. Span(d) = Span(c) \ {c.at}
  BY <1>1 DEF Span
<1> QED BY <1>1, <1>2, <1>5, <1>6, <1>7 DEF d

(***************************************************************************)
(* The page of the innermost of the first m calls is set in table t: that  *)
(* of its region, or a new one.                                            *)
(***************************************************************************)
LEMMA SetPageEffect ==
  ASSUME PagingInv, NEW m \in 1..Len(todo), NEW calls \in Seq(Asking), Len(calls) = m,
         \A i \in 1..m : calls[i] = todo[i],
         NEW t \in Frame, set_page(t, calls), todo[m].at <= todo[m].last,
         page_tables[PD_INDEX(todo[m].at)] = t \/ \A r \in Region : page_tables[r] # t
  PROVE  /\ todo[m].at \in Page /\ todo[m].phys \in Page
         /\ todo[m].at \in Frame => todo[m].phys = todo[m].at
         /\ page_tables' \in [Region -> own \cup {t, nullptr}]
         /\ mem' \in [Frame -> [Entry -> Page \cup {None}]]
         /\ OneTablePerRegion'
         /\ Walk(page_tables', mem', todo[m].at) = todo[m].phys
         /\ \A u \in Page : PD_INDEX(u) # PD_INDEX(todo[m].at)
              => virtual_to_physical(u)' = virtual_to_physical(u)
         /\ page_tables[PD_INDEX(todo[m].at)] \in {t, nullptr}
              => \A u \in Page : u # todo[m].at
                   => virtual_to_physical(u)' = virtual_to_physical(u)
         /\ \A r \in Region :
              page_tables'[r] = IF r = PD_INDEX(todo[m].at) THEN t ELSE page_tables[r]
         /\ todo' \in Seq(Asking) /\ Len(todo') = m
         /\ \A i \in 1..m - 1 : todo'[i] = todo[i]
         /\ todo'[m].at = todo[m].at + 1 /\ todo'[m].last = todo[m].last
         /\ todo'[m].phys = todo[m].phys + 1 /\ todo'[m].frame = todo[m].frame
         /\ Identical(todo'[m]) /\ Span(todo'[m]) = Span(todo[m]) \ {todo[m].at}
         /\ tlb' = IF enabled_paging THEN Tlb({todo[m].at}) ELSE {}
<1> DEFINE c == todo[m]
           d == [c EXCEPT !.at = @ + 1, !.phys = @ + 1]
<1>1. TypeOK /\ Typed /\ AllIdentical /\ OneTablePerRegion
  BY DEF PagingInv, Typed
<1>2. /\ todo \in Seq(Asking) /\ c \in Asking /\ calls # <<>> /\ calls[Len(calls)] = c
  BY <1>1 DEF Typed
<1>3. Identical(c)
  BY <1>1, <1>2 DEF AllIdentical
<1>4. /\ c.at \in Page /\ c.phys \in Page /\ (c.at \in Frame => c.phys = c.at)
      /\ Identical(d) /\ Span(d) = Span(c) \ {c.at} /\ d.frame = c.frame
      /\ d.at >= c.at /\ d.last = c.last
  BY <1>2, <1>3, NextPage
<1>5. /\ Sets(c.at, c.phys, t) /\ todo' \in Seq(Asking) /\ Len(todo') = m
      /\ \A i \in 1..m - 1 : todo'[i] = todo[i]
      /\ todo'[m] = d
  <2> HIDE DEF d, c
  <2>1. /\ Sets(calls[Len(calls)].at, calls[Len(calls)].phys, t)
        /\ todo' \in Seq(Asking) /\ Len(todo') = Len(calls)
        /\ \A i \in 1..Len(calls) - 1 : todo'[i] = calls[i]
        /\ todo'[Len(calls)] = [calls[Len(calls)] EXCEPT !.at = @ + 1, !.phys = @ + 1]
    BY <1>2, WhatSetPageDoes
  <2> QED BY <1>2, <2>1 DEF d
<1>6. d.at = c.at + 1 /\ d.phys = c.phys + 1
  BY <1>2 DEF Asking
<1>7. tlb' = IF enabled_paging THEN Tlb({c.at}) ELSE {}
  BY <1>2 DEF set_page, Last
<1>8. /\ page_tables' \in [Region -> own \cup {t, nullptr}]
      /\ mem' \in [Frame -> [Entry -> Page \cup {None}]]
      /\ OneTablePerRegion'
      /\ Walk(page_tables', mem', c.at) = c.phys
      /\ \A u \in Page : PD_INDEX(u) # PD_INDEX(c.at)
           => virtual_to_physical(u)' = virtual_to_physical(u)
      /\ page_tables[PD_INDEX(c.at)] \in {t, nullptr}
           => \A u \in Page : u # c.at => virtual_to_physical(u)' = virtual_to_physical(u)
      /\ \A r \in Region : page_tables'[r] = IF r = PD_INDEX(c.at) THEN t ELSE page_tables[r]
  <2> DEFINE v == c.at
             p == c.phys
  <2>1. v \in Page /\ p \in Page /\ Sets(v, p, t)
    BY <1>4, <1>5
  <2>2. page_tables[PD_INDEX(v)] = t \/ \A r \in Region : page_tables[r] # t
    OBVIOUS
  <2> HIDE DEF v, p
  <2>3. /\ page_tables' \in [Region -> own \cup {t, nullptr}]
        /\ mem' \in [Frame -> [Entry -> Page \cup {None}]]
        /\ OneTablePerRegion'
        /\ Walk(page_tables', mem', v) = p
        /\ \A u \in Page : PD_INDEX(u) # PD_INDEX(v)
             => virtual_to_physical(u)' = virtual_to_physical(u)
        /\ page_tables[PD_INDEX(v)] \in {t, nullptr}
             => \A u \in Page : u # v => virtual_to_physical(u)' = virtual_to_physical(u)
        /\ \A r \in Region : page_tables'[r] = IF r = PD_INDEX(v) THEN t ELSE page_tables[r]
    BY <1>1, <2>1, <2>2, WhatSetsDoes
  <2> QED BY <2>3 DEF v, p
<1> HIDE DEF c, d, PagingInv
<1> QED BY <1>4, <1>5, <1>6, <1>7, <1>8 DEF c

\* The invariant is kept by it, also when the call nested in m has ended and has
\* left its frame as a table.
LEMMA SetPageKeeps ==
  ASSUME PagingInv, NEW m \in 1..Len(todo), NEW calls \in Seq(Asking), Len(calls) = m,
         \A i \in 1..m : calls[i] = todo[i],
         NEW t \in own, set_page(t, calls), todo[m].at <= todo[m].last,
         \/ m = Len(todo) /\ page_tables[PD_INDEX(todo[m].at)] = t
         \/ /\ m + 1 = Len(todo) /\ enabled_paging
            /\ t = todo[m + 1].frame /\ Span(todo[m + 1]) = {},
         UNCHANGED <<enabled_paging, fb_size, held, own>>,
         status' \in {"ok", "fault", "overflow", "wild"}
  PROVE  PagingInv'
<1> DEFINE n == Len(todo)
           c == todo[m]
           d == todo'[m]
<1>1. /\ TypeOK /\ Typed /\ AllIdentical /\ BootHoldsNothing /\ FirstIsCallers /\ Nested
      /\ OneTablePerRegion /\ Covered /\ KeptMapped
  BY DEF PagingInv, Typed
<1>2. /\ n \in Nat /\ m \in 1..n /\ n <= Depth /\ Depth \in Nat
      /\ own \subseteq Frame /\ t \in Frame
  BY <1>1, PagingAssumption DEF Typed, TypeOK
<1>3. page_tables[PD_INDEX(c.at)] = t \/ \A r \in Region : page_tables[r] # t
  <2>1. CASE page_tables[PD_INDEX(todo[m].at)] = t
    BY <2>1
  <2>2. CASE m + 1 = Len(todo) /\ enabled_paging /\ t = todo[m + 1].frame
    <3>1. m + 1 \in 2..Len(todo)
      BY <2>2
    <3>2. \A r \in Region : page_tables[r] # todo[m + 1].frame
      BY <1>1, <2>2, <3>1 DEF Nested
    <3> QED BY <2>2, <3>2
  <2> QED BY <2>1, <2>2
<1>4. /\ c.at \in Page /\ c.phys \in Page /\ (c.at \in Frame => c.phys = c.at)
      /\ Identical(d) /\ Span(d) = Span(c) \ {c.at} /\ d.frame = c.frame /\ d.last = c.last
      /\ todo' \in Seq(Asking) /\ Len(todo') = m
      /\ \A i \in 1..m - 1 : todo'[i] = todo[i]
  BY <1>2, <1>3, SetPageEffect
<1>5. /\ page_tables' \in [Region -> own \cup {t, nullptr}]
      /\ mem' \in [Frame -> [Entry -> Page \cup {None}]]
      /\ OneTablePerRegion'
      /\ Walk(page_tables', mem', c.at) = c.phys
      /\ \A u \in Page : PD_INDEX(u) # PD_INDEX(c.at)
           => virtual_to_physical(u)' = virtual_to_physical(u)
      /\ page_tables[PD_INDEX(c.at)] = t
           => \A u \in Page : u # c.at => virtual_to_physical(u)' = virtual_to_physical(u)
      /\ \A r \in Region : page_tables'[r] \in {page_tables[r], t}
  BY <1>2, <1>3, SetPageEffect
<1> HIDE DEF n, c, PagingInv
<1>6. Typed'
  <2>1. own \cup {t, nullptr} = own \cup {nullptr} /\ Len(todo') <= Depth
    BY <1>2, <1>4
  <2> QED BY <1>1, <1>4, <1>5, <2>1 DEF Typed, TypeOK, FramesOf
<1>7. AllIdentical'
  BY <1>1, <1>2, <1>4 DEF AllIdentical, Identical, n
<1>8. HeldFrames' = HeldFrames
  BY DEF HeldFrames, FramesOf
<1>9. /\ m >= 1 /\ m <= n
       /\ \A i \in 1..m : todo'[i].frame = todo[i].frame
  BY <1>2, <1>4 DEF c
<1>10. BootHoldsNothing'
  BY <1>1, <1>2, <1>4, <1>9 DEF BootHoldsNothing, n
<1>11. FirstIsCallers'
  <2>1. todo # <<>> /\ todo'[1].frame = todo[1].frame
    BY <1>2, <1>9 DEF n
  <2> QED BY <1>1, <1>8, <2>1 DEF FirstIsCallers
<1>12. Nested'
  <2> SUFFICES ASSUME enabled_paging, NEW i \in 2..m
               PROVE  /\ todo'[i - 1].at <= todo'[i - 1].last
                      /\ todo'[i].frame \in own
                      /\ \A r \in Region : page_tables'[r] # todo'[i].frame
                      /\ \A j \in 2..m : todo'[i].frame = todo'[j].frame => i = j
    BY <1>4 DEF Nested
  <2>1. /\ i \in 2..n /\ i \in 1..m /\ i - 1 \in 1..m - 1
        /\ todo'[i - 1] = todo[i - 1] /\ todo'[i].frame = todo[i].frame
    BY <1>2, <1>4, <1>9
  <2>2. /\ todo[i - 1].at <= todo[i - 1].last /\ todo[i].frame \in own
        /\ \A r \in Region : page_tables[r] # todo[i].frame
        /\ \A j \in 2..n : todo[i].frame = todo[j].frame => i = j
    BY <1>1, <2>1 DEF Nested, n
  <2>3. \A j \in 2..m : j \in 2..n /\ todo'[j].frame = todo[j].frame
    BY <1>2, <1>9
  <2>4. t # todo[i].frame
    <3>1. CASE m = n /\ page_tables[PD_INDEX(c.at)] = t
      BY <1>4, <2>2, <3>1, PageIndices
    <3>2. CASE m + 1 = n /\ t = todo[m + 1].frame
      <4>1. m + 1 \in 2..n /\ m + 1 # i
        <5>1. m \in Nat /\ n \in Nat /\ i \in 2..m
          BY <1>2
        <5>2. m + 1 = n
          BY <3>2
        <5> QED BY <5>1, <5>2
      <4> QED BY <2>2, <3>2, <4>1
    <3> QED BY <3>1, <3>2 DEF n, c
  <2>5. \A r \in Region : page_tables'[r] \in {page_tables[r], t}
    BY <1>5
  <2> QED BY <2>1, <2>2, <2>3, <2>4, <2>5
<1>13. Covered'
  <2> SUFFICES ASSUME NEW i \in 2..m, NEW f \in HeldFrames,
                      PD_INDEX(f) = PD_INDEX(todo'[i - 1].at)
               PROVE  \E j \in 1..i - 1 : f \in Span(todo'[j])
    BY <1>4, <1>8 DEF Covered
  <2>1. i \in 2..n /\ i - 1 \in 1..m - 1 /\ \A j \in 1..i - 1 : todo'[j] = todo[j]
    BY <1>2, <1>4
  <2>2. PD_INDEX(f) = PD_INDEX(todo[i - 1].at)
    BY <2>1
  <2>3. \E j \in 1..i - 1 : f \in Span(todo[j])
    BY <1>1, <2>1, <2>2 DEF Covered, n
  <2> QED BY <2>1, <2>3
<1>14. KeptMapped'
  <2> SUFFICES ASSUME NEW f \in HeldFrames, \A i \in 1..m : f \notin Span(todo'[i])
               PROVE  virtual_to_physical(f)' = f
    BY <1>4, <1>8 DEF KeptMapped
  <2>1. f \in Frame /\ f \in Page
    BY <1>1, FramesArePages DEF HeldFrames, TypeOK
  <2>2. CASE f = c.at
    BY <1>4, <1>5, <2>1, <2>2 DEF virtual_to_physical
  <2>3. CASE f # c.at
    <3>1. \A i \in 1..m : f \notin Span(todo[i])
      <4> SUFFICES ASSUME NEW i \in 1..m PROVE f \notin Span(todo[i])
        OBVIOUS
      <4>1. CASE i = m
        BY <1>2, <1>4, <2>3, <4>1 DEF c
      <4>2. CASE i # m
        <5>1. i \in 1..m - 1
          BY <1>2, <4>2
        <5> QED BY <1>4, <5>1
      <4> QED BY <4>1, <4>2
    <3>2. \A i \in 1..n : f \notin Span(todo[i])
      <4>1. CASE m = n
        BY <3>1, <4>1
      <4>2. CASE m + 1 = n /\ Span(todo[m + 1]) = {}
        <5>1. \A i \in 1..n : i \in 1..m \/ i = m + 1
          BY <1>2, <4>2
        <5> QED BY <3>1, <4>2, <5>1
      <4> QED BY <4>1, <4>2 DEF n
    <3>3. virtual_to_physical(f) = f
      BY <1>1, <3>2 DEF KeptMapped, n
    <3>4. CASE PD_INDEX(f) # PD_INDEX(c.at)
      BY <1>5, <2>1, <3>3, <3>4
    <3>5. CASE page_tables[PD_INDEX(c.at)] = t
      BY <1>5, <2>1, <2>3, <3>3, <3>5
    <3>6. CASE m + 1 = n /\ PD_INDEX(f) = PD_INDEX(c.at)
      <4>1. m + 1 \in 2..n /\ (m + 1) - 1 = m
        BY <1>2, <3>6
      <4>2. \E j \in 1..m : f \in Span(todo[j])
        BY <1>1, <3>6, <4>1 DEF Covered, n, c
      <4> QED BY <3>1, <4>2
    <3> QED BY <3>4, <3>5, <3>6 DEF n, c
  <2> QED BY <2>2, <2>3
<1> QED BY <1>5, <1>6, <1>7, <1>10, <1>11, <1>12, <1>13, <1>14 DEF PagingInv
-----------------------------------------------------------------------------
(***************************************************************************)
(* The steps of the calls in progress.                                     *)
(***************************************************************************)
LEMMA Innermost ==
  ASSUME PagingInv, todo # <<>>
  PROVE  /\ todo \in Seq(Asking) /\ Len(todo) \in 1..Len(todo)
         /\ Top = todo[Len(todo)] /\ Top \in Asking /\ own \subseteq Frame
         /\ Top.at <= Top.last =>
              /\ Top.at \in Page /\ PD_INDEX(Top.at) \in Region
              /\ page_tables[PD_INDEX(Top.at)] \in own \cup {nullptr}
<1>1. /\ todo \in Seq(Asking) /\ own \subseteq Frame
      /\ page_tables \in [Region -> own \cup {nullptr}] /\ AllIdentical
  BY DEF PagingInv, Typed, TypeOK
<1>2. Len(todo) \in 1..Len(todo)
  BY <1>1
<1>3. Top = todo[Len(todo)] /\ Top \in Asking
  BY <1>1, <1>2 DEF Top, Last
<1> HIDE DEF PagingInv
<1>4. Top.at <= Top.last => Top.at \in Page
  <2>1. Identical(Top)
    BY <1>1, <1>2, <1>3 DEF AllIdentical
  <2> HIDE DEF Top
  <2> QED BY <1>3, <2>1, NextPage
<1>5. Top.at \in Page => PD_INDEX(Top.at) \in Region
  <2> DEFINE v == Top.at
  <2> HIDE DEF v
  <2>1. v \in Page => PD_INDEX(v) \in Region
    BY PageIndices
  <2> QED BY <2>1 DEF v
<1> QED BY <1>1, <1>2, <1>3, <1>4, <1>5

LEMMA EndsKeeps ==
  ASSUME PagingInv, NEW how \in {"ok", "fault", "overflow", "wild"}, Ends(how),
         UNCHANGED fb_size
  PROVE  PagingInv'
BY DEF PagingInv, Ends, tables, Typed, TypeOK, FramesOf, AllIdentical, Identical, Span,
   BootHoldsNothing, FirstIsCallers, Nested, OneTablePerRegion, Covered, KeptMapped,
   HeldFrames, virtual_to_physical, Walk

LEMMA MapPageKeeps ==
  ASSUME PagingInv, status = "ok", todo # <<>>, MapPage, UNCHANGED fb_size
  PROVE  PagingInv'
<1> DEFINE n == Len(todo)
           t == page_tables[PD_INDEX(Top.at)]
<1>1. CASE Ends("fault")
  BY <1>1, EndsKeeps
<1>2. CASE ~Ends("fault")
  <2>1. /\ todo \in Seq(Asking) /\ n \in 1..Len(todo) /\ todo[n] \in Asking
        /\ Top = todo[n] /\ status \in {"ok", "fault", "overflow", "wild"}
        /\ page_tables \in [Region -> own \cup {nullptr}]
    BY DEF PagingInv, Typed, TypeOK, Top, Last
  <2>2. /\ t # nullptr /\ set_page(t, todo) /\ todo[n].at <= todo[n].last
        /\ UNCHANGED <<enabled_paging, held, own, status>>
    BY <1>2, <2>1 DEF MapPage
  <2>3. todo[n].at \in Page
    BY <2>1, <2>2, NextPage DEF PagingInv, AllIdentical
  <2>4. t \in own /\ page_tables[PD_INDEX(todo[n].at)] = t
    BY <2>1, <2>2, <2>3, PageIndices
  <2> HIDE DEF n, t
  <2>5. n = Len(todo) /\ \A i \in 1..n : todo[i] = todo[i]
    BY DEF n
  <2> QED BY <2>1, <2>2, <2>4, <2>5, SetPageKeeps
<1> QED BY <1>1, <1>2

LEMMA WhatFitIs ==
  ASSUME NEW k \in Nat \ {0}, NEW f \in FirstFit(k)
  PROVE  f \in Frame /\ f..(f + k - 1) \subseteq Frame \ Taken
<1>1. f \in Fits(k)
  BY DEF FirstFit, Lowest
<1> QED BY <1>1 DEF Fits

LEMMA WhatTakenIs ==
  ASSUME Typed, NEW f \in Frame, f \notin Taken
  PROVE  /\ f \notin own /\ f \notin HeldFrames
         /\ \A r \in Region : page_tables[r] # f
BY FramesArePages DEF Taken, HeldFrames, Typed, TypeOK

LEMMA FitsOne ==
  ASSUME NEW f \in FirstFit(1)
  PROVE  f \in Frame /\ f \notin Taken
<1>1. 1 \in Nat \ {0}
  OBVIOUS
<1>2. f \in Frame /\ f..(f + 1 - 1) \subseteq Frame \ Taken
  BY <1>1, WhatFitIs
<1>3. f \in f..(f + 1 - 1)
  BY <1>2, FramesArePages
<1> QED BY <1>2, <1>3

LEMMA NestedCallKeeps ==
  ASSUME PagingInv, todo # <<>>, Top.at <= Top.last, page_tables[PD_INDEX(Top.at)] = nullptr,
         enabled_paging, Len(todo) < Depth, NEW f \in FirstFit(1),
         own' = own \cup {f}, todo' = Append(todo, Call(f, f + 1, f, f)),
         UNCHANGED <<enabled_paging, fb_size, tables, held, status>>
  PROVE  PagingInv'
<1> DEFINE n == Len(todo)
           c == Call(f, f + 1, f, f)
<1>1. /\ TypeOK /\ Typed /\ AllIdentical /\ BootHoldsNothing /\ FirstIsCallers /\ Nested
      /\ OneTablePerRegion /\ Covered /\ KeptMapped
  BY DEF PagingInv, Typed
<1>2. /\ todo \in Seq(Asking) /\ n \in 1..Len(todo) /\ n \in Nat /\ todo[n] \in Asking
      /\ Top = todo[n] /\ own \subseteq Frame
      /\ page_tables \in [Region -> own \cup {nullptr}]
  BY <1>1 DEF Typed, TypeOK, Top, Last
<1>3. f \in Frame /\ f \notin Taken
  BY FitsOne
<1>4. /\ f \in Nat /\ f \in Page /\ f + 1 \in Page /\ f # nullptr
  BY <1>3, FramesArePages
<1>5. c \in Asking /\ c.at = f /\ c.last = f + 1 /\ c.phys = f /\ c.frame = f
  BY <1>4 DEF Asking, Call
<1> HIDE DEF c
<1>6. /\ todo' \in Seq(Asking) /\ Len(todo') = n + 1
      /\ \A i \in 1..n : todo'[i] = todo[i]
      /\ todo'[n + 1] = c
  BY <1>2, <1>5, AppendProperties DEF c
<1>7. /\ f \notin own /\ f \notin HeldFrames /\ \A r \in Region : page_tables[r] # f
  BY <1>1, <1>3, WhatTakenIs
<1>8. HeldFrames' = HeldFrames /\ UNCHANGED <<page_tables, mem, tlb>>
  BY DEF HeldFrames, FramesOf, tables
<1>9. \A u \in Page : virtual_to_physical(u)' = virtual_to_physical(u)
  BY <1>8 DEF virtual_to_physical, Walk
<1>10. \A i \in 1..n + 1 : i \in 1..n \/ i = n + 1
  BY <1>2
<1> HIDE DEF n, PagingInv
<1>11. Typed'
  <2>1. \A b \in held : f \notin FramesOf(b)
    BY <1>7 DEF HeldFrames
  <2>2. Len(todo') <= Depth
    BY <1>2, <1>6, PagingAssumption DEF n
  <2>3. page_tables' \in [Region -> own' \cup {nullptr}]
    BY <1>2, <1>8
  <2> QED BY <1>1, <1>3, <1>6, <1>8, <2>1, <2>2, <2>3 DEF Typed, TypeOK, FramesOf
<1>12. AllIdentical'
  <2>1. Identical(c)
    <3> DEFINE pages == PD_ENTRIES * PT_ENTRIES
    <3>1. pages \in Nat /\ Page = 0..(pages - 1)
      <4>1. PD_ENTRIES \in Nat /\ PT_ENTRIES \in Nat
        BY PagingAssumption
      <4>2. pages \in Nat
        BY <4>1
      <4> QED BY <4>2 DEF Page
    <3> HIDE DEF pages
    <3>2. c.last < pages
      BY <1>4, <1>5, <3>1
    <3> QED BY <1>4, <1>5, <3>2 DEF Identical, pages
  <2> QED BY <1>1, <1>6, <1>10, <2>1 DEF AllIdentical, Identical, n
<1>13. BootHoldsNothing' /\ FirstIsCallers' /\ OneTablePerRegion'
  BY <1>1, <1>2, <1>6, <1>8 DEF BootHoldsNothing, FirstIsCallers, OneTablePerRegion, n
<1>14. Nested'
  <2> SUFFICES ASSUME NEW i \in 2..n + 1
               PROVE  /\ todo'[i - 1].at <= todo'[i - 1].last
                      /\ todo'[i].frame \in own'
                      /\ \A r \in Region : page_tables'[r] # todo'[i].frame
                      /\ \A j \in 2..n + 1 : todo'[i].frame = todo'[j].frame => i = j
    BY <1>6 DEF Nested
  <2>1. /\ \A j \in 2..n : /\ j \in 1..n /\ j - 1 \in 1..n
                          /\ todo[j - 1].at <= todo[j - 1].last /\ todo[j].frame \in own
                          /\ \A r \in Region : page_tables[r] # todo[j].frame
                          /\ todo[j].frame # f
    BY <1>1, <1>2, <1>7 DEF Nested, n
  <2>2. \A j \in 2..n, k \in 2..n : todo[j].frame = todo[k].frame => j = k
    BY <1>1 DEF Nested, n
  <2>3. \A j \in 2..n : todo'[j].frame # f /\ todo'[j].frame = todo[j].frame
    <3> SUFFICES ASSUME NEW j \in 2..n
                 PROVE  todo'[j].frame # f /\ todo'[j].frame = todo[j].frame
      OBVIOUS
    <3>1. j \in 1..n
      BY <1>2
    <3>2. todo[j].frame # f
      BY <1>1, <1>7 DEF Nested, n
    <3>3. todo'[j] = todo[j]
      BY <1>6, <3>1
    <3> QED BY <3>2, <3>3
  <2>4. todo'[n + 1].frame = f
    BY <1>5, <1>6
  <2>5. CASE i \in 2..n
    <3>1. ASSUME NEW j \in 2..n + 1, todo'[i].frame = todo'[j].frame PROVE i = j
      <4>1. j \in 2..n \/ j = n + 1
        BY <1>2
      <4>2. CASE j \in 2..n
        BY <2>2, <2>5, <2>3, <3>1, <4>2
      <4>3. CASE j = n + 1
        BY <2>5, <2>3, <2>4, <3>1, <4>3
      <4> QED BY <4>1, <4>2, <4>3
    <3> QED BY <1>6, <1>8, <2>1, <2>5, <3>1
  <2>6. CASE i = n + 1
    <3>1. i - 1 = n /\ n \in 1..n
      BY <1>2, <2>6 DEF n
    <3>2. ASSUME NEW j \in 2..n + 1, todo'[i].frame = todo'[j].frame PROVE i = j
      <4>1. j \in 2..n \/ j = n + 1
        BY <1>2
      <4>2. CASE j \in 2..n
        BY <2>6, <2>3, <2>4, <3>2, <4>2
      <4> QED BY <2>6, <4>1, <4>2
    <3> QED BY <1>2, <1>5, <1>6, <1>7, <1>8, <2>6, <3>1, <3>2
  <2>7. i \in 2..n \/ i = n + 1
    BY <1>2
  <2> QED BY <2>5, <2>6, <2>7
<1>15. Covered'
  <2> SUFFICES ASSUME NEW i \in 2..n + 1, NEW g \in HeldFrames,
                      PD_INDEX(g) = PD_INDEX(todo'[i - 1].at)
               PROVE  \E j \in 1..i - 1 : g \in Span(todo'[j])
    BY <1>6, <1>8 DEF Covered
  <2>1. /\ i - 1 \in 1..n /\ todo'[i - 1] = todo[i - 1]
        /\ \A j \in 1..i - 1 : todo'[j] = todo[j]
    BY <1>2, <1>6
  <2>2. PD_INDEX(g) = PD_INDEX(todo[i - 1].at)
    BY <2>1
  <2>3. CASE i \in 2..n
    <3>1. \E j \in 1..i - 1 : g \in Span(todo[j])
      BY <1>1, <2>2, <2>3 DEF Covered, n
    <3> QED BY <2>1, <3>1
  <2>4. CASE i = n + 1
    <3>1. g \in Frame
      BY <1>1 DEF HeldFrames, Typed, TypeOK
    <3>2. i - 1 = n
      BY <1>2, <2>4
    <3>3. virtual_to_physical(g) = None
      BY <1>2, <2>2, <3>2 DEF virtual_to_physical, Walk
    <3>4. virtual_to_physical(g) # g
      BY <3>1, <3>3, FramesArePages
    <3>5. \E j \in 1..n : g \in Span(todo[j])
      BY <1>1, <3>4 DEF KeptMapped, n
    <3> QED BY <2>1, <3>2, <3>5
  <2>5. i \in 2..n \/ i = n + 1
    BY <1>2
  <2> QED BY <2>3, <2>4, <2>5
<1>16. KeptMapped'
  <2> SUFFICES ASSUME NEW g \in HeldFrames, \A i \in 1..n + 1 : g \notin Span(todo'[i])
               PROVE  virtual_to_physical(g)' = g
    BY <1>6, <1>8 DEF KeptMapped
  <2>1. \A i \in 1..n : g \notin Span(todo[i])
    BY <1>2, <1>6
  <2>2. g \in Page
    <3>1. g \in Frame
      BY <1>1 DEF HeldFrames, Typed, TypeOK
    <3> QED BY <3>1, FramesArePages
  <2> QED BY <1>1, <1>9, <2>1, <2>2 DEF KeptMapped, n
<1> QED BY <1>11, <1>12, <1>13, <1>14, <1>15, <1>16 DEF PagingInv

LEMMA BootTableKeeps ==
  ASSUME PagingInv, todo # <<>>, Top.at <= Top.last, ~enabled_paging, NEW f \in FirstFit(1),
         own' = own \cup {f}, set_page(f, todo),
         UNCHANGED <<enabled_paging, fb_size, held, status>>
  PROVE  PagingInv'
<1> DEFINE n == Len(todo)
           c == todo[n]
<1>1. /\ TypeOK /\ Typed /\ AllIdentical /\ BootHoldsNothing /\ FirstIsCallers
      /\ OneTablePerRegion
  BY DEF PagingInv, Typed
<1>2. /\ todo \in Seq(Asking) /\ n \in 1..Len(todo) /\ Len(todo) = n /\ Top = c
      /\ own \subseteq Frame /\ n <= Depth /\ held = {} /\ HeldFrames = {}
  BY <1>1 DEF Typed, TypeOK, Top, Last, BootHoldsNothing, HeldFrames
<1>3. f \in Frame /\ f \notin own /\ \A r \in Region : page_tables[r] # f
  BY <1>1, FitsOne, WhatTakenIs
<1>4. c.at <= c.last /\ \A i \in 1..n : todo[i] = todo[i]
  BY <1>2
<1> HIDE DEF PagingInv
<1>5. /\ Identical(todo'[n]) /\ todo'[n].frame = c.frame
      /\ todo' \in Seq(Asking) /\ Len(todo') = n
      /\ \A i \in 1..n - 1 : todo'[i] = todo[i]
      /\ page_tables' \in [Region -> own \cup {f, nullptr}]
      /\ mem' \in [Frame -> [Entry -> Page \cup {None}]]
      /\ OneTablePerRegion'
  <2> HIDE DEF n
  <2> QED BY <1>2, <1>3, <1>4, SetPageEffect
<1> HIDE DEF n, c
<1>6. Typed'
  <2>1. page_tables' \in [Region -> own' \cup {nullptr}]
    <3>1. own \cup {f, nullptr} = own' \cup {nullptr}
      OBVIOUS
    <3> QED BY <1>5, <3>1
  <2> QED BY <1>1, <1>2, <1>3, <1>5, <2>1 DEF Typed, TypeOK, FramesOf
<1>7. AllIdentical'
  BY <1>1, <1>2, <1>5 DEF AllIdentical, Identical, n
<1>8. \A i \in 1..n : todo'[i].frame = todo[i].frame
  <2> SUFFICES ASSUME NEW i \in 1..n PROVE todo'[i].frame = todo[i].frame
    OBVIOUS
  <2>1. i \in 1..n - 1 \/ i = n
    BY <1>2
  <2> QED BY <1>5, <2>1 DEF c
<1>9. BootHoldsNothing'
  BY <1>1, <1>5, <1>8 DEF BootHoldsNothing, n
<1>10. HeldFrames' = {}
  BY <1>2 DEF HeldFrames
<1>11. FirstIsCallers'
  <2>1. todo'[1].frame = todo[1].frame
    BY <1>2, <1>8
  <2> QED BY <1>1, <1>2, <2>1, <1>10 DEF FirstIsCallers
<1>12. Nested' /\ Covered' /\ KeptMapped'
  BY <1>10 DEF Nested, Covered, KeptMapped
<1> QED BY <1>5, <1>6, <1>7, <1>9, <1>11, <1>12 DEF PagingInv

LEMMA MapTableKeeps ==
  ASSUME PagingInv, status = "ok", todo # <<>>, MapTable, UNCHANGED fb_size
  PROVE  PagingInv'
<1>1. CASE Ends("wild")
  BY <1>1, EndsKeeps
<1>2. CASE Ends("overflow")
  BY <1>2, EndsKeeps
<1>3. ASSUME enabled_paging, Len(todo) < Depth, NEW f \in FirstFit(1),
             own' = own \cup {f}, todo' = Append(todo, Call(f, f + 1, f, f)),
             UNCHANGED <<enabled_paging, tables, held, status>>
      PROVE  PagingInv'
  BY <1>3, NestedCallKeeps DEF MapTable
<1>4. ASSUME ~enabled_paging, NEW f \in FirstFit(1), own' = own \cup {f}, set_page(f, todo),
             UNCHANGED <<enabled_paging, held, status>>
      PROVE  PagingInv'
  BY <1>4, BootTableKeeps DEF MapTable
<1> QED BY <1>1, <1>2, <1>3, <1>4 DEF MapTable

LEMMA CallsAround ==
  ASSUME NEW s \in Seq(Asking), s # <<>>
  PROVE  /\ Front(s) \in Seq(Asking) /\ Len(Front(s)) = Len(s) - 1
         /\ \A i \in 1..Len(s) - 1 : Front(s)[i] = s[i]
<1> DEFINE n == Len(s) - 1
           front == SubSeq(s, 1, n)
<1>1. n \in Nat /\ 1 \in Int /\ n \in Int /\ \A i \in 1..n : s[i] \in Asking
  OBVIOUS
<1> HIDE DEF n
<1>2. /\ front \in Seq(Asking) /\ Len(front) = IF 1 <= n THEN n - 1 + 1 ELSE 0
      /\ \A i \in 1..n - 1 + 1 : front[i] = s[1 + i - 1]
  BY <1>1, SubSeqProperties
<1>3. Front(s) = front
  BY DEF Front, n
<1> HIDE DEF front
<1>4. Len(front) = n /\ \A i \in 1..n : front[i] = s[i]
  BY <1>1, <1>2
<1> QED BY <1>2, <1>3, <1>4 DEF n

\* A nested call ends: the page of the call around it is set in the new table.
LEMMA NestedReturnKeeps ==
  ASSUME PagingInv, todo # <<>>, Top.at > Top.last, Top.frame # nullptr, Len(todo) > 1,
         set_page(Top.frame, Front(todo)),
         UNCHANGED <<enabled_paging, fb_size, held, own, status>>
  PROVE  PagingInv'
<1> DEFINE n == Len(todo)
           m == n - 1
           t == todo[m + 1].frame
<1>1. /\ Typed /\ BootHoldsNothing /\ Nested /\ todo \in Seq(Asking)
      /\ status \in {"ok", "fault", "overflow", "wild"}
  BY DEF PagingInv, Typed, TypeOK
<1>2. /\ n \in Nat /\ n > 1 /\ m \in 1..n /\ m + 1 = n /\ n \in 2..n
      /\ todo[n] \in Asking /\ Top = todo[n]
  BY <1>1 DEF Top, Last
<1>3. enabled_paging
  BY <1>1, <1>2 DEF BootHoldsNothing
<1>4. t \in own /\ todo[m].at <= todo[m].last
  BY <1>1, <1>2, <1>3 DEF Nested
<1>5. Span(todo[m + 1]) = {}
  BY <1>2 DEF Span, Asking
<1>6. /\ Front(todo) \in Seq(Asking) /\ Len(Front(todo)) = m
      /\ \A i \in 1..m : Front(todo)[i] = todo[i]
  BY <1>1, CallsAround
<1>7. set_page(t, Front(todo))
  BY <1>2
<1>8. UNCHANGED <<enabled_paging, fb_size, held, own>>
      /\ status' \in {"ok", "fault", "overflow", "wild"}
  BY <1>1
<1>9. m \in 1..Len(todo) /\ m + 1 = Len(todo) /\ t = todo[m + 1].frame
  BY <1>2
<1> HIDE DEF n, m, t
<1> QED BY <1>3, <1>4, <1>5, <1>6, <1>7, <1>8, <1>9, SetPageKeeps

\* The caller has its block.
LEMMA CallerReturnKeeps ==
  ASSUME PagingInv, todo # <<>>, Top.at > Top.last, Top.frame # nullptr, Len(todo) = 1,
         mem' = [mem EXCEPT ![Top.frame] = Data], todo' = <<>>,
         UNCHANGED <<enabled_paging, fb_size, page_tables, tlb, held, own, status>>
  PROVE  PagingInv'
<1>1. /\ TypeOK /\ Typed /\ BootHoldsNothing /\ FirstIsCallers /\ OneTablePerRegion
      /\ KeptMapped /\ todo \in Seq(Asking)
  BY DEF PagingInv, Typed
<1>2. todo[1] \in Asking /\ Top = todo[1]
  BY <1>1 DEF Top, Last
<1>3. Top.frame \in Frame /\ Top.frame \notin own
  BY <1>1, <1>2 DEF FirstIsCallers, HeldFrames, TypeOK
<1>4. Data \in [Entry -> Page \cup {None}]
  <2>1. 0 \in Page
    BY PagingAssumption DEF Page
  <2> QED BY <2>1 DEF Data
<1>5. HeldFrames' = HeldFrames /\ Len(todo') = 0 /\ todo' \in Seq(Asking)
  BY DEF HeldFrames, FramesOf
<1>6. Typed'
  <2>1. mem' \in [Frame -> [Entry -> Page \cup {None}]]
    BY <1>1, <1>4 DEF TypeOK
  <2>2. Len(todo') <= Depth
    BY <1>5, PagingAssumption
  <2> QED BY <1>1, <1>5, <2>1, <2>2 DEF Typed, TypeOK, FramesOf
<1>7. AllIdentical' /\ FirstIsCallers' /\ Nested' /\ Covered' /\ BootHoldsNothing'
  BY <1>1, <1>5 DEF AllIdentical, FirstIsCallers, Nested, Covered, BootHoldsNothing
<1>8. OneTablePerRegion'
  BY <1>1 DEF OneTablePerRegion
<1>9. KeptMapped'
  <2> SUFFICES ASSUME NEW f \in HeldFrames PROVE virtual_to_physical(f)' = f
    BY <1>5 DEF KeptMapped
  <2>1. f \in Page
    <3>1. f \in Frame
      BY <1>1 DEF HeldFrames, TypeOK
    <3> QED BY <3>1, FramesArePages
  <2>2. Span(todo[1]) = {}
    BY <1>2 DEF Span, Asking
  <2>3. virtual_to_physical(f) = f
    BY <1>1, <2>2 DEF KeptMapped
  <2>4. page_tables[PD_INDEX(f)] \in own \cup {nullptr}
    BY <1>1, <2>1, PageIndices DEF TypeOK
  <2>5. page_tables[PD_INDEX(f)] # nullptr => page_tables[PD_INDEX(f)] \in Frame
    BY <1>1, <2>4 DEF TypeOK
  <2> QED BY <1>1, <1>3, <2>3, <2>4, <2>5 DEF TypeOK, virtual_to_physical, Walk
<1> QED BY <1>6, <1>7, <1>8, <1>9 DEF PagingInv

\* identity_map_region is done, in vmm::init or for a device, or alloc_page is.
LEMMA MappedReturnKeeps ==
  ASSUME PagingInv, todo # <<>>, Top.at > Top.last, Top.frame = nullptr,
         todo' = Front(todo), enabled_paging' = (enabled_paging \/ Len(todo) = 1),
         UNCHANGED <<fb_size, page_tables, mem, held, own, status>>
  PROVE  PagingInv'
<1> DEFINE n == Len(todo)
<1>1. /\ TypeOK /\ Typed /\ AllIdentical /\ BootHoldsNothing /\ FirstIsCallers /\ Nested
      /\ OneTablePerRegion /\ KeptMapped /\ todo \in Seq(Asking) /\ own \subseteq Frame
  BY DEF PagingInv, Typed, TypeOK
<1>2. n \in Nat \ {0} /\ todo[n] \in Asking /\ Top = todo[n] /\ n <= Depth
  BY <1>1 DEF Top, Last, TypeOK
<1>3. /\ todo' \in Seq(Asking) /\ Len(todo') = n - 1
      /\ \A i \in 1..n - 1 : todo'[i] = todo[i]
  BY <1>1, CallsAround
<1>4. HeldFrames' = HeldFrames
  BY DEF HeldFrames, FramesOf
<1>5. \A u \in Page : virtual_to_physical(u)' = virtual_to_physical(u)
  BY DEF virtual_to_physical, Walk
<1> HIDE DEF n
<1>6. \/ n = 1
      \/ ~enabled_paging /\ ~enabled_paging' /\ held = {} /\ HeldFrames = {}
  <2>1. CASE ~enabled_paging
    BY <1>1, <1>2, <2>1 DEF BootHoldsNothing, HeldFrames, n
  <2>2. CASE enabled_paging /\ n # 1
    <3>1. n \in 2..n
      BY <1>2, <2>2
    <3>2. nullptr \in own
      BY <1>1, <1>2, <2>2, <3>1 DEF Nested, n
    <3> QED BY <1>1, <3>2, FramesArePages
  <2> QED BY <2>1, <2>2
<1>7. Typed'
  <2>1. Len(todo') <= Depth /\ enabled_paging' \in BOOLEAN
    BY <1>1, <1>2, <1>3, PagingAssumption DEF TypeOK
  <2> QED BY <1>1, <1>3, <2>1 DEF Typed, TypeOK, FramesOf
<1>8. AllIdentical' /\ OneTablePerRegion'
  BY <1>1, <1>2, <1>3 DEF AllIdentical, Identical, OneTablePerRegion, n
<1>9. BootHoldsNothing'
  <2> SUFFICES ASSUME ~enabled_paging'
               PROVE  held = {} /\ \A i \in 1..n - 1 : todo'[i].frame = nullptr
    BY <1>3 DEF BootHoldsNothing
  <2>1. held = {} /\ \A i \in 1..n : todo[i].frame = nullptr
    BY <1>1 DEF BootHoldsNothing, n
  <2>2. \A i \in 1..n - 1 : i \in 1..n
    BY <1>2
  <2> QED BY <1>3, <2>1, <2>2
<1>10. FirstIsCallers'
  <2>1. todo' # <<>> => n >= 2
    BY <1>2, <1>3
  <2>2. n >= 2 => todo'[1] = todo[1]
    BY <1>2, <1>3
  <2>3. todo[1].frame \in HeldFrames \cup {nullptr}
    BY <1>1 DEF FirstIsCallers
  <2> QED BY <1>4, <2>1, <2>2, <2>3 DEF FirstIsCallers
<1>11. Nested' /\ Covered'
  BY <1>2, <1>3, <1>4, <1>6 DEF Nested, Covered
<1>12. KeptMapped'
  <2> SUFFICES ASSUME NEW f \in HeldFrames PROVE virtual_to_physical(f)' = f
    BY <1>4 DEF KeptMapped
  <2>1. f \in Page
    <3>1. f \in Frame
      BY <1>1 DEF HeldFrames, TypeOK
    <3> QED BY <3>1, FramesArePages
  <2>2. n = 1
    BY <1>6
  <2>3. Span(todo[1]) = {}
    BY <1>2, <2>2 DEF Span, Asking
  <2>4. virtual_to_physical(f) = f
    BY <1>1, <2>2, <2>3 DEF KeptMapped, n
  <2> QED BY <1>5, <2>1, <2>4
<1> QED BY <1>7, <1>8, <1>9, <1>10, <1>11, <1>12 DEF PagingInv

LEMMA ReturnKeeps ==
  ASSUME PagingInv, status = "ok", todo # <<>>, Return, UNCHANGED fb_size
  PROVE  PagingInv'
<1>1. CASE Ends("fault")
  BY <1>1, EndsKeeps
<1>2. CASE Top.frame # nullptr /\ ~Ends("fault") /\ Len(todo) > 1
  BY <1>2, NestedReturnKeeps DEF Return
<1>3. CASE Top.frame # nullptr /\ ~Ends("fault") /\ ~(Len(todo) > 1)
  <2>1. Len(todo) = 1
    <3>1. todo \in Seq(Asking)
      BY DEF PagingInv, Typed
    <3> DEFINE n == Len(todo)
    <3>2. n \in Nat /\ n # 0 /\ ~(n > 1)
      BY <1>3, <3>1
    <3> HIDE DEF n
    <3>3. n = 1
      BY <3>2
    <3> QED BY <3>3 DEF n
  <2> QED BY <1>3, <2>1, CallerReturnKeeps DEF Return
<1>4. CASE Top.frame = nullptr /\ ~Ends("fault")
  BY <1>4, MappedReturnKeeps DEF Return
<1> QED BY <1>1, <1>2, <1>3, <1>4
-----------------------------------------------------------------------------
(***************************************************************************)
(* The calls of the kernel.                                                *)
(***************************************************************************)
LEMMA FirstCallKeeps ==
  ASSUME PagingInv, Idle, NEW c \in Asking, Identical(c), todo' = <<c>>,
         held' \subseteq [addr : Frame, size : Nat \ {0}],
         \A b \in held' : FramesOf(b) \subseteq Frame \ own,
         \A b, d \in held' : b # d => FramesOf(b) \cap FramesOf(d) = {},
         c.frame \in HeldFrames' \cup {nullptr},
         \A f \in HeldFrames' : f \in HeldFrames \/ f \in Span(c),
         UNCHANGED <<enabled_paging, fb_size, tables, own, status>>
  PROVE  PagingInv'
<1>1. /\ TypeOK /\ OneTablePerRegion /\ KeptMapped /\ todo = <<>> /\ enabled_paging
  BY DEF PagingInv, Typed, Idle
<1>2. UNCHANGED <<page_tables, mem, tlb>>
  BY DEF tables
<1>3. todo' \in Seq(Asking) /\ Len(todo') = 1 /\ todo'[1] = c
  OBVIOUS
<1> HIDE DEF PagingInv
<1>4. Typed'
  <2>1. Len(todo') <= Depth
    BY <1>3, PagingAssumption
  <2>2. /\ (\A b \in held : FramesOf(b) \subseteq Frame \ own)'
        /\ (\A b, d \in held : b # d => FramesOf(b) \cap FramesOf(d) = {})'
    BY DEF FramesOf
  <2> QED BY <1>1, <1>2, <1>3, <2>1, <2>2 DEF Typed, TypeOK
<1>5. AllIdentical'
  BY <1>3 DEF AllIdentical, Identical
<1>6. BootHoldsNothing' /\ Nested' /\ Covered'
  BY <1>1, <1>3 DEF BootHoldsNothing, Nested, Covered
<1>7. FirstIsCallers'
  BY <1>3 DEF FirstIsCallers
<1>8. OneTablePerRegion'
  BY <1>1, <1>2 DEF OneTablePerRegion
<1>9. KeptMapped'
  <2> SUFFICES ASSUME NEW f \in HeldFrames', f \notin Span(c)
               PROVE  Walk(page_tables', mem', f) = f
    BY <1>3 DEF KeptMapped, virtual_to_physical
  <2>1. f \in HeldFrames
    OBVIOUS
  <2>2. virtual_to_physical(f) = f
    BY <1>1, <2>1 DEF KeptMapped
  <2> QED BY <1>2, <2>2 DEF virtual_to_physical, Walk
<1> QED BY <1>4, <1>5, <1>6, <1>7, <1>8, <1>9 DEF PagingInv

LEMMA AllocFrameKeeps ==
  ASSUME PagingInv, NEW n \in Blocks, alloc_frame(n), UNCHANGED fb_size
  PROVE  PagingInv'
<1>1. PICK f \in FirstFit(n) : /\ held' = held \cup {[addr |-> f, size |-> n]}
                               /\ todo' = << BlockCall(f, n) >>
  BY DEF alloc_frame
<1> DEFINE b == [addr |-> f, size |-> n]
           c == BlockCall(f, n)
<1>2. /\ n \in Nat \ {0} /\ Idle /\ UNCHANGED <<enabled_paging, tables, own, status>>
  BY PagingAssumption DEF alloc_frame
<1>3. f \in Frame /\ f..(f + n - 1) \subseteq Frame \ Taken
  BY <1>2, WhatFitIs
<1>4. f \in Nat /\ f \in Page /\ f + n - 1 \in Frame /\ f + n - 1 \in Page /\ f + n \in Page
  <2>1. f \in Nat /\ f \in Page
    BY <1>3, FramesArePages
  <2>2. f + n - 1 \in f..(f + n - 1)
    BY <1>2, <2>1
  <2>3. f + n - 1 \in Frame
    BY <1>3, <2>2
  <2>4. f + n - 1 \in Page /\ (f + n - 1) + 1 \in Page
    BY <2>3, FramesArePages
  <2>5. (f + n - 1) + 1 = f + n
    BY <1>2, <2>1
  <2> QED BY <2>1, <2>3, <2>4, <2>5
<1>5. c \in Asking /\ c.at = f /\ c.last = f + n /\ c.phys = f /\ c.frame = f
  BY <1>2, <1>4 DEF BlockCall, Call, Asking
<1>6. b \in [addr : Frame, size : Nat \ {0}] /\ FramesOf(b) = f..(f + n - 1)
  BY <1>2, <1>3 DEF FramesOf
<1>7. Taken = own \cup HeldFrames
  BY DEF Taken, HeldFrames
<1> HIDE DEF b, c
<1>8. held' = held \cup {b} /\ todo' = <<c>>
  BY <1>1 DEF b, c
<1>9. /\ held \subseteq [addr : Frame, size : Nat \ {0}]
      /\ \A d \in held : FramesOf(d) \subseteq Frame \ own
      /\ \A d, e \in held : d # e => FramesOf(d) \cap FramesOf(e) = {}
  BY DEF PagingInv, Typed, TypeOK
<1>10. Identical(c)
  <2> DEFINE pages == PD_ENTRIES * PT_ENTRIES
  <2>1. PD_ENTRIES \in Nat /\ PT_ENTRIES \in Nat
    BY PagingAssumption
  <2>2. pages \in Nat
    BY <2>1
  <2>3. Page = 0..(pages - 1)
    BY DEF Page
  <2> HIDE DEF pages
  <2>4. c.last < pages
    BY <1>4, <1>5, <2>2, <2>3
  <2> QED BY <1>4, <1>5, <2>4 DEF Identical, pages
<1>11. /\ \A d \in held' : FramesOf(d) \subseteq Frame \ own
       /\ \A d \in held : FramesOf(d) \cap FramesOf(b) = {}
  <2>1. \A g \in FramesOf(b) : g \in Frame /\ g \notin own /\ g \notin HeldFrames
    BY <1>3, <1>6, <1>7
  <2>2. \A d \in held : FramesOf(d) \subseteq HeldFrames
    BY DEF HeldFrames
  <2>3. \A d \in held : FramesOf(d) \cap FramesOf(b) = {}
    BY <2>1, <2>2
  <2> QED BY <1>8, <1>9, <2>1, <2>3
<1>12. \A d, e \in held' : d # e => FramesOf(d) \cap FramesOf(e) = {}
  BY <1>8, <1>9, <1>11
<1>13. HeldFrames' = HeldFrames \cup FramesOf(b)
  BY <1>8 DEF HeldFrames, FramesOf
<1>14. c.frame \in HeldFrames' \cup {nullptr}
  BY <1>2, <1>4, <1>5, <1>6, <1>13
<1>15. \A g \in FramesOf(b) : g \in Span(c)
  BY <1>2, <1>4, <1>5, <1>6 DEF Span
<1>16. held' \subseteq [addr : Frame, size : Nat \ {0}]
  BY <1>6, <1>8, <1>9
<1>17. \A g \in HeldFrames' : g \in HeldFrames \/ g \in Span(c)
  BY <1>13, <1>15
<1> HIDE DEF PagingInv
<1> QED BY <1>2, <1>5, <1>8, <1>10, <1>11, <1>12, <1>14, <1>16, <1>17, FirstCallKeeps

\* A call that holds no new block.
LEMMA OtherCallKeeps ==
  ASSUME PagingInv, Idle, NEW c \in Asking, Identical(c), c.frame = nullptr, todo' = <<c>>,
         UNCHANGED <<enabled_paging, fb_size, tables, held, own, status>>
  PROVE  PagingInv'
<1>1. /\ held' \subseteq [addr : Frame, size : Nat \ {0}]
      /\ \A d \in held' : FramesOf(d) \subseteq Frame \ own
      /\ \A d, e \in held' : d # e => FramesOf(d) \cap FramesOf(e) = {}
  BY DEF PagingInv, Typed, TypeOK
<1>2. HeldFrames' = HeldFrames
  BY DEF HeldFrames, FramesOf
<1> HIDE DEF PagingInv
<1> QED BY <1>1, <1>2, FirstCallKeeps

LEMMA MapDeviceKeeps ==
  ASSUME PagingInv, map_device, UNCHANGED fb_size
  PROVE  PagingInv'
<1> DEFINE c == Identity(Device, Device + 2)
           pages == PD_ENTRIES * PT_ENTRIES
<1>1. Page = 0..(pages - 1) /\ PD_ENTRIES \in Nat /\ PT_ENTRIES \in Nat
      /\ Device \in Page /\ Device + 2 \in Page
  BY PagingAssumption DEF Page
<1>2. pages \in Nat
  BY <1>1
<1> HIDE DEF pages
<1>3. c \in Asking /\ c.at = Device /\ c.last = Device + 2 /\ c.phys = Device
      /\ c.frame = nullptr
  BY <1>1, <1>2 DEF Identity, Call, Asking, nullptr
<1>4. Idle /\ todo' = <<c>> /\ UNCHANGED <<enabled_paging, tables, held, own, status>>
  BY DEF map_device
<1> HIDE DEF c
<1>5. c.last < pages
  BY <1>1, <1>2, <1>3
<1>6. Identical(c)
  BY <1>1, <1>3, <1>5 DEF Identical, pages
<1> QED BY <1>3, <1>4, <1>6, OtherCallKeeps

LEMMA AllocPageKeeps ==
  ASSUME PagingInv, NEW b \in held, NEW v \in 0..(Low - 1), alloc_page(v, b.addr),
         UNCHANGED fb_size
  PROVE  PagingInv'
<1> DEFINE c == Call(v, v, b.addr, nullptr)
           pages == PD_ENTRIES * PT_ENTRIES
<1>1. /\ Page = 0..(pages - 1) /\ PD_ENTRIES \in Nat /\ PT_ENTRIES \in Nat
      /\ Low \in Nat /\ Low <= METADATA_ADDR /\ METADATA_ADDR \in Page
  BY PagingAssumption DEF Page
<1>2. pages \in Nat
  BY <1>1
<1>3. b.addr \in Page
  <2>1. b.addr \in Frame
    BY DEF PagingInv, Typed
  <2> QED BY <2>1, FramesArePages
<1> HIDE DEF pages
<1>4. c \in Asking /\ c.at = v /\ c.last = v /\ c.phys = b.addr /\ c.frame = nullptr
  BY <1>1, <1>2, <1>3 DEF Call, Asking, nullptr
<1>5. Idle /\ todo' = <<c>> /\ UNCHANGED <<enabled_paging, tables, held, own, status>>
  BY DEF alloc_page
<1> HIDE DEF c, PagingInv
<1>6. c.last < pages /\ c.last < Low /\ c.last <= c.at
  BY <1>1, <1>2, <1>4
<1>7. Identical(c)
  BY <1>3, <1>4, <1>6 DEF Identical, pages
<1> QED BY <1>4, <1>5, <1>7, OtherCallKeeps

\* free_frame unmaps the pages below the kernel, and no frame is below it.
LEMMA FreeFrameKeeps ==
  ASSUME PagingInv, NEW b \in held, free_frame(b), UNCHANGED fb_size
  PROVE  PagingInv'
<1>1. /\ TypeOK /\ Typed /\ OneTablePerRegion /\ KeptMapped /\ todo = <<>> /\ enabled_paging
      /\ own \subseteq Frame /\ page_tables \in [Region -> own \cup {nullptr}]
  BY DEF PagingInv, Typed, TypeOK, free_frame, Idle
<1>2. PICK n \in 1..Low : free_pages(0..(n - 1))
  BY DEF free_frame
<1>3. /\ held' = held \ {b} /\ page_tables' = page_tables /\ todo' = <<>>
      /\ UNCHANGED <<enabled_paging, own, status>>
  BY <1>1, <1>2 DEF free_frame, free_pages
<1>4. mem' = [f \in Frame |->
         [i \in Entry |->
            IF \E v \in 0..(n - 1) : page_tables[PD_INDEX(v)] = f /\ PT_INDEX(v) = i
            THEN None ELSE mem[f][i]]]
  BY <1>2 DEF free_pages
<1> HIDE DEF PagingInv
<1>5. Typed'
  <2>1. mem' \in [Frame -> [Entry -> Page \cup {None}]]
    BY <1>1, <1>4 DEF TypeOK
  <2>2. Len(todo') <= Depth /\ todo' \in Seq(Asking)
    BY <1>3, PagingAssumption
  <2> QED BY <1>1, <1>3, <2>1, <2>2 DEF Typed, TypeOK, FramesOf
<1>6. Len(todo') = 0
  BY <1>3
<1>7. /\ AllIdentical' /\ BootHoldsNothing' /\ FirstIsCallers' /\ Nested' /\ Covered'
  BY <1>1, <1>3, <1>6 DEF AllIdentical, BootHoldsNothing, FirstIsCallers, Nested, Covered
<1>8. OneTablePerRegion'
  BY <1>1, <1>3 DEF OneTablePerRegion
<1>9. HeldFrames' \subseteq HeldFrames
  BY <1>3 DEF HeldFrames, FramesOf
<1>10. KeptMapped'
  <2> SUFFICES ASSUME NEW f \in HeldFrames PROVE Walk(page_tables', mem', f) = f
    BY <1>9 DEF KeptMapped, virtual_to_physical
  <2> DEFINE t == page_tables[PD_INDEX(f)]
             i == PT_INDEX(f)
  <2>1. f \in Frame
    BY <1>1 DEF HeldFrames, TypeOK
  <2>2. f \in Page /\ f >= Low /\ f # None
    BY <2>1, FramesArePages
  <2>3. PD_INDEX(f) \in Region /\ i \in Entry
    BY <2>2, PageIndices
  <2>4. virtual_to_physical(f) = f
    BY <1>1 DEF KeptMapped
  <2>5. t # nullptr /\ t \in Frame /\ mem[t][i] = f
    BY <1>1, <2>2, <2>3, <2>4 DEF virtual_to_physical, Walk
  <2>6. ~\E v \in 0..(n - 1) : page_tables[PD_INDEX(v)] = t /\ PT_INDEX(v) = i
    <3> SUFFICES ASSUME NEW v \in 0..(n - 1), page_tables[PD_INDEX(v)] = t, PT_INDEX(v) = i
                 PROVE  FALSE
      OBVIOUS
    <3>1. v \in Page /\ v < f
      <4> DEFINE pages == PD_ENTRIES * PT_ENTRIES
      <4>1. /\ Page = 0..(pages - 1) /\ PD_ENTRIES \in Nat /\ PT_ENTRIES \in Nat
            /\ Low \in Nat /\ Low <= METADATA_ADDR /\ METADATA_ADDR \in Page
        BY PagingAssumption DEF Page
      <4>2. pages \in Nat
        BY <4>1
      <4> HIDE DEF pages, t, i
      <4> QED BY <2>2, <4>1, <4>2
    <3>2. PD_INDEX(v) = PD_INDEX(f)
      BY <1>1, <2>3, <2>5, <3>1, PageIndices DEF OneTablePerRegion
    <3>3. v = f
      BY <2>2, <3>1, <3>2, IndicesTellPages
    <3> QED BY <2>1, <3>1, <3>3, FramesArePages
  <2>7. mem'[t][i] = mem[t][i]
    BY <1>4, <2>3, <2>5, <2>6
  <2> QED BY <1>3, <2>5, <2>7 DEF Walk
<1> QED BY <1>5, <1>7, <1>8, <1>10 DEF PagingInv
-----------------------------------------------------------------------------
Boot == BootCalls(fb_size)

LEMMA BootCallsAre ==
  ASSUME fb_size \in FbSizes
  PROVE  /\ Boot \in Seq(Asking) /\ Len(Boot) = 4
         /\ Boot[1] = Identity(LOW_DATA_START_ADDR, LOW_DATA_START_ADDR + 5)
         /\ Boot[2] = Identity(framebuffer, framebuffer + fb_size - 1)
         /\ Boot[3] = Identity(METADATA_ADDR, METADATA_ADDR)
         /\ Boot[4] = Identity(0, METADATA_ADDR + 1)
         /\ \A i \in 1..4 : /\ Boot[i] \in Asking /\ Identical(Boot[i])
                             /\ Boot[i].frame = nullptr /\ Boot[i].phys = Boot[i].at
                             /\ Span(Boot[i]) \subseteq Page
<1> DEFINE pages == PD_ENTRIES * PT_ENTRIES
<1>1. /\ Page = 0..(pages - 1) /\ PD_ENTRIES \in Nat \ {0} /\ PT_ENTRIES \in Nat \ {0}
      /\ METADATA_ADDR \in Page /\ LOW_DATA_START_ADDR \in Page
      /\ LOW_DATA_START_ADDR + 5 \in Page /\ METADATA_ADDR < LOW_DATA_START_ADDR
      /\ framebuffer \in Page /\ framebuffer + fb_size \in Page /\ fb_size \in Nat
  BY PagingAssumption DEF Page
<1>2. pages \in Nat
  BY <1>1
<1> HIDE DEF pages
<1>3. /\ Len(Boot) = 4
      /\ Boot[1] = Identity(LOW_DATA_START_ADDR, LOW_DATA_START_ADDR + 5)
      /\ Boot[2] = Identity(framebuffer, framebuffer + fb_size - 1)
      /\ Boot[3] = Identity(METADATA_ADDR, METADATA_ADDR)
      /\ Boot[4] = Identity(0, METADATA_ADDR + 1)
  BY DEF BootCalls, Boot
<1>4. ASSUME NEW start \in Nat, NEW end \in Int, end < pages
      PROVE  LET c == Identity(start, end) IN
               /\ c \in Asking /\ Identical(c) /\ c.frame = nullptr
               /\ c.phys = c.at /\ Span(c) \subseteq Page
  <2> DEFINE c == Identity(start, end)
  <2>1. c \in Asking /\ c.at = start /\ c.last = end /\ c.phys = start /\ c.frame = nullptr
    BY DEF Identity, Call, Asking, nullptr
  <2> HIDE DEF c
  <2>2. c.at <= c.last => c.phys \in Page
    BY <1>1, <1>2, <1>4, <2>1
  <2>3. Identical(c)
    BY <1>4, <2>1, <2>2 DEF Identical, pages
  <2>4. Span(c) \subseteq Page
    BY <1>1, <1>2, <1>4, <2>1 DEF Span
  <2> QED BY <2>1, <2>3, <2>4 DEF c
<1>5. /\ LOW_DATA_START_ADDR \in Nat /\ LOW_DATA_START_ADDR + 5 \in Int
      /\ LOW_DATA_START_ADDR + 5 < pages
      /\ framebuffer \in Nat /\ framebuffer + fb_size - 1 \in Int
      /\ framebuffer + fb_size - 1 < pages
      /\ METADATA_ADDR \in Nat /\ METADATA_ADDR < pages
      /\ METADATA_ADDR + 1 \in Int /\ METADATA_ADDR + 1 < pages /\ 0 \in Nat
  BY <1>1, <1>2
<1> DEFINE Good(c) == /\ c \in Asking /\ Identical(c) /\ c.frame = nullptr
                      /\ c.phys = c.at /\ Span(c) \subseteq Page
<1>6. Good(Boot[1]) /\ Good(Boot[2]) /\ Good(Boot[3]) /\ Good(Boot[4])
  BY <1>3, <1>4, <1>5
<1> HIDE DEF Good
<1>7. \A i \in 1..4 : Good(Boot[i])
  <2>1. \A i \in 1..4 : i = 1 \/ i = 2 \/ i = 3 \/ i = 4
    OBVIOUS
  <2> QED BY <1>6, <2>1
<1>8. Boot \in Seq(Asking)
  BY <1>3, <1>7 DEF BootCalls, Boot, Good
<1> QED BY <1>3, <1>7, <1>8 DEF Good

LEMMA InitHolds ==
  ASSUME Init PROVE PagingInv
<1>1. /\ LOW_DATA_START_ADDR \in Nat /\ LOW_DATA_START_ADDR + 1 < Limit /\ Limit \in Nat
      /\ Depth >= 4 /\ Depth \in Nat
  BY PagingAssumption DEF Page
<1>2. /\ own \subseteq Frame /\ held = {} /\ todo = Boot /\ ~enabled_paging
      /\ enabled_paging \in BOOLEAN /\ status = "ok" /\ fb_size \in FbSizes
      /\ page_tables = [r \in Region |-> nullptr] /\ mem = [f \in Frame |-> Zeroed]
  <2>1. {LOW_DATA_START_ADDR, LOW_DATA_START_ADDR + 1} \subseteq Frame
    BY <1>1 DEF Frame
  <2> QED BY <2>1 DEF Init, Boot
<1>3. /\ Boot \in Seq(Asking) /\ Len(Boot) = 4
      /\ \A i \in 1..4 : Identical(Boot[i]) /\ Boot[i].frame = nullptr
  BY <1>2, BootCallsAre
<1>4. HeldFrames = {}
  BY <1>2 DEF HeldFrames
<1>5. Typed
  BY <1>1, <1>2, <1>3 DEF Typed, TypeOK, Zeroed
<1>6. AllIdentical /\ BootHoldsNothing
  BY <1>2, <1>3 DEF AllIdentical, BootHoldsNothing
<1>7. FirstIsCallers /\ Nested /\ OneTablePerRegion /\ Covered /\ KeptMapped
  BY <1>2, <1>3, <1>4
     DEF FirstIsCallers, Nested, OneTablePerRegion, Covered, KeptMapped
<1> QED BY <1>5, <1>6, <1>7 DEF PagingInv

LEMMA NextKeeps ==
  ASSUME PagingInv, [Next]_vars PROVE PagingInv'
<1>1. CASE UNCHANGED vars
  <2>1. UNCHANGED <<enabled_paging, fb_size, page_tables, mem, held, own, todo, status>>
    BY <1>1 DEF vars, tables
  <2>2. Typed' /\ AllIdentical'
    BY <2>1 DEF PagingInv, Typed, TypeOK, FramesOf, AllIdentical, Identical
  <2>3. BootHoldsNothing' /\ FirstIsCallers' /\ Nested' /\ OneTablePerRegion'
    BY <2>1 DEF PagingInv, FramesOf, HeldFrames, BootHoldsNothing, FirstIsCallers, Nested,
       OneTablePerRegion
  <2>4. Covered' /\ KeptMapped'
    BY <2>1 DEF PagingInv, FramesOf, HeldFrames, Covered, KeptMapped, Span,
       virtual_to_physical, Walk
  <2> QED BY <2>2, <2>3, <2>4 DEF PagingInv
<1>2. CASE Next
  <2> HIDE DEF PagingInv
  <2>1. status = "ok" /\ UNCHANGED fb_size
    BY <1>2 DEF Next
  <2>2. CASE todo # <<>> /\ MapPage
    BY <2>1, <2>2, MapPageKeeps
  <2>3. CASE todo # <<>> /\ MapTable
    BY <2>1, <2>3, MapTableKeeps
  <2>4. CASE todo # <<>> /\ Return
    BY <2>1, <2>4, ReturnKeeps
  <2>5. ASSUME NEW n \in Blocks, alloc_frame(n) PROVE PagingInv'
    BY <2>1, <2>5, AllocFrameKeeps
  <2>6. ASSUME NEW b \in held, free_frame(b) PROVE PagingInv'
    BY <2>1, <2>6, FreeFrameKeeps
  <2>7. ASSUME NEW b \in held, NEW v \in 0..(Low - 1), alloc_page(v, b.addr) PROVE PagingInv'
    BY <2>1, <2>7, AllocPageKeeps
  <2>8. CASE map_device
    BY <2>1, <2>8, MapDeviceKeeps
  <2> QED BY <1>2, <2>2, <2>3, <2>4, <2>5, <2>6, <2>7, <2>8 DEF Next
<1> QED BY <1>1, <1>2

LEMMA PagingInvHolds == Spec => []PagingInv
<1>1. Init => PagingInv
  BY InitHolds
<1>2. PagingInv /\ [Next]_vars => PagingInv'
  BY NextKeeps
<1> QED BY <1>1, <1>2, PTL DEF Spec

(***************************************************************************)
(* Every frame of a block that a caller holds is mapped to itself, unless  *)
(* a call in progress has still to map it, although alloc_page takes its   *)
(* tables from alloc_frame, alloc_frame maps with alloc_page, and free     *)
(* unmaps other pages than those of the block.                             *)
(***************************************************************************)
THEOREM HeldStayMapped == Spec => []HeldAreMapped
<1>1. ASSUME PagingInv PROVE HeldAreMapped
  <2>1. TypeOK /\ KeptMapped
    BY <1>1 DEF PagingInv, Typed
  <2>2. \A b \in held : \A f \in FramesOf(b) \ Pending : virtual_to_physical(f) = f
    <3> SUFFICES ASSUME NEW b \in held, NEW f \in FramesOf(b) \ Pending
                 PROVE  virtual_to_physical(f) = f
      OBVIOUS
    <3>1. f \in HeldFrames
      BY DEF HeldFrames
    <3>2. \A i \in 1..Len(todo) : f \notin Span(todo[i])
      BY DEF Pending, Span
    <3> QED BY <2>1, <3>1, <3>2 DEF KeptMapped
  <2> QED BY <2>1, <2>2 DEF HeldAreMapped
<1> QED BY <1>1, PagingInvHolds, PTL
-----------------------------------------------------------------------------
(***************************************************************************)
(* With framebuffer and device in regions behind the frames, regions of    *)
(* frames get their tables in order, so that a nested call that returns    *)
(* has not given a table to the region for which its frame was allocated.  *)
(***************************************************************************)
HasTable(pt, v) == pt[PD_INDEX(v)] # nullptr
Tabled(v) == HasTable(page_tables, v)

InOrder == \A g, h \in Frame : g <= h /\ Tabled(h) => Tabled(g)

LowTabled == \A v \in 0..(Low - 1) : Tabled(v)

\* Free frames in regions without a table are the last frames.
FreeAreLast == \A g \in Frame \ Taken : ~Tabled(g) => \A h \in Taken : h < g

\* A table that was allocated before paging was on may lie in such a region,
\* when it is the last frame that is taken.
OwnAreFirst ==
  \A g \in own :
    ~Tabled(g) /\ (Len(todo) >= 2 => g # todo[2].frame) =>
      /\ \A h \in Frame \ own : g < h
      /\ Len(todo) >= 2 => g < todo[2].frame

HeldAreTabled ==
  \A g \in HeldFrames : ~Tabled(g) => todo # <<>> /\ g \in Span(todo[1])

\* The call of the kernel is for a block, the device or a page below Low.
FirstIsKnown ==
  todo # <<>> =>
    LET c == todo[1] IN
    \/ c.frame # nullptr /\ c.last - 1 \in HeldFrames
    \/ c.frame = nullptr /\ (c.last < Low \/ Device <= c.at)

\* The innermost call maps a frame that was the first free one and the page
\* behind it.
InnermostIsLast ==
  Len(todo) >= 2 =>
    LET c == todo[Len(todo)] IN
    /\ c.frame \in Frame /\ c.last = c.frame + 1
    /\ c.at \in c.frame..(c.frame + 2)
    /\ c.at > c.frame => Tabled(c.frame)
    /\ \A h \in Frame \ Taken : c.frame < h

Waits == Len(todo) = 2 => ~Tabled(todo[1].at)

\* No call that is nested twice ever returns.
Endless ==
  Len(todo) >= 3 => LET c == todo[Len(todo)] IN c.at = c.frame /\ ~Tabled(c.frame)

Ordered ==
  /\ InOrder /\ LowTabled /\ FirstIsKnown /\ InnermostIsLast /\ Waits /\ Endless
  /\ Len(todo) <= 2 => FreeAreLast /\ OwnAreFirst /\ HeldAreTabled

\* Before paging is on the calls of vmm::init are done one after the other.
Booting ==
  /\ Len(todo) \in 1..4
  /\ \A i \in 1..Len(todo) - 1 : todo[i] = Boot[i]
  /\ todo[Len(todo)].last = Boot[Len(todo)].last
  /\ todo[Len(todo)].at >= Boot[Len(todo)].at
  /\ todo[Len(todo)].phys = todo[Len(todo)].at
  /\ \A g \in Frame, h \in own : g <= h => g \in own
  /\ \A r \in Region : page_tables[r] # nullptr =>
       \E i \in 1..4 : \E v \in Span(Boot[i]) : r = PD_INDEX(v)
  /\ \A i \in 1..4 : \A v \in Span(Boot[i]) :
       i > Len(todo) \/ (i = Len(todo) /\ v < todo[i].at) => virtual_to_physical(v) = v
  /\ Cardinality(own) = 2 + Cardinality({r \in Region : page_tables[r] # nullptr})

BootInv == ~enabled_paging => Booting /\ tlb = {}

\* Every change of a page is followed by its invlpg.
TlbFresh == \A e \in tlb : e[1] \in Page /\ virtual_to_physical(e[1]) = e[2]

OrderInv == TlbFresh /\ (enabled_paging => Ordered)

Few == Cardinality(BootRegions) <= 4

\* All tables can be accessed, but for the frames of nested calls.
OwnMapped ==
  enabled_paging =>
    \A f \in own :
      (\A i \in 2..Len(todo) : todo[i].frame = f => f < todo[i].at) => virtual_to_physical(f) = f

StopInv ==
  /\ Separate => (status = "overflow" => enabled_paging /\ Len(todo) >= 3)
  /\ Separate /\ Few => OwnMapped /\ status # "fault"
-----------------------------------------------------------------------------
LEMMA Bounds ==
  /\ Device \in Nat /\ framebuffer \in Nat /\ Low \in Nat \ {0} /\ Limit - 1 \in Nat
  /\ LOW_DATA_START_ADDR \in Nat /\ METADATA_ADDR \in Nat
  /\ Low <= METADATA_ADDR /\ METADATA_ADDR < LOW_DATA_START_ADDR
  /\ 0..(Low - 1) \subseteq Page /\ Frame \subseteq Page
<1> DEFINE pages == PD_ENTRIES * PT_ENTRIES
<1>1. /\ PD_ENTRIES \in Nat /\ PT_ENTRIES \in Nat /\ Page = 0..(pages - 1)
      /\ Device \in Page /\ framebuffer \in Page /\ Low \in Nat \ {0} /\ Limit \in Page
      /\ METADATA_ADDR \in Page /\ LOW_DATA_START_ADDR \in Page
      /\ Low <= METADATA_ADDR /\ METADATA_ADDR < LOW_DATA_START_ADDR
      /\ LOW_DATA_START_ADDR + 1 < Limit
  BY PagingAssumption DEF Page
<1>2. pages \in Nat
  BY <1>1
<1> HIDE DEF pages
<1>3. 0..(Low - 1) \subseteq Page
  BY <1>1, <1>2
<1> QED BY <1>1, <1>2, <1>3, FramesArePages

LEMMA IndicesAreOrdered ==
  ASSUME NEW u \in Nat, NEW v \in Nat, u <= v
  PROVE  PD_INDEX(u) <= PD_INDEX(v) /\ PD_INDEX(u) \in Nat /\ PD_INDEX(v) \in Nat
<1> DEFINE p == PT_ENTRIES
           a == u \div p
           b == v \div p
<1>1. p \in Nat \ {0}
  BY PagingAssumption
<1>2. /\ a \in Nat /\ u % p \in 0..(p - 1) /\ u = p * a + (u % p)
      /\ b \in Nat /\ v % p \in 0..(p - 1) /\ v = p * b + (v % p)
  BY <1>1, Division
<1>3. a <= b
  <2> HIDE DEF a, b, p
  <2> SUFFICES ASSUME a >= b + 1 PROVE FALSE
    BY <1>2
  <2>1. p * a >= p * (b + 1)
    BY <1>1, <1>2
  <2>2. p * (b + 1) = p * b + p
    BY <1>1, <1>2
  <2>3. p * a \in Nat /\ p * b \in Nat
    BY <1>1, <1>2
  <2> QED BY <1>1, <1>2, <2>1, <2>2, <2>3
<1> QED BY <1>2, <1>3 DEF PD_INDEX

LEMMA LowestFit ==
  ASSUME NEW k \in Nat \ {0}, NEW f \in FirstFit(k),
         NEW g \in Frame, g..(g + k - 1) \subseteq Frame \ Taken
  PROVE  f <= g
<1>1. f \in Fits(k) /\ \A h \in Fits(k) : f <= h
  BY DEF FirstFit, Lowest
<1>2. g \in Fits(k)
  BY <1>1 DEF Fits
<1> QED BY <1>1, <1>2

LEMMA LowestFrame ==
  ASSUME NEW f \in FirstFit(1)
  PROVE  \A g \in Frame \ Taken : f <= g
<1> SUFFICES ASSUME NEW g \in Frame, g \notin Taken PROVE f <= g
  OBVIOUS
<1>1. g \in Nat
  BY FramesArePages
<1>2. g..(g + 1 - 1) = {g}
  BY <1>1
<1>3. g..(g + 1 - 1) \subseteq Frame \ Taken
  BY <1>2
<1>4. 1 \in Nat \ {0}
  OBVIOUS
<1> QED BY <1>3, <1>4, LowestFit

\* invlpg of every page that changes keeps the TLB fresh.
LEMMA FlushKeepsFresh ==
  ASSUME TlbFresh, NEW flushed, tlb' = Tlb(flushed),
         \A u \in Page : u \notin flushed => virtual_to_physical(u)' = virtual_to_physical(u)
  PROVE  TlbFresh'
<1> SUFFICES ASSUME NEW e \in tlb'
             PROVE  e[1] \in Page /\ Walk(page_tables', mem', e[1]) = e[2]
  BY DEF TlbFresh, virtual_to_physical
<1>1. CASE e \in tlb /\ e[1] \notin flushed
  BY <1>1 DEF TlbFresh, virtual_to_physical
<1>2. CASE e \in {<<v, Walk(page_tables', mem', v)>> :
                    v \in {w \in Page : Walk(page_tables', mem', w) # None}}
  BY <1>2
<1> QED BY <1>1, <1>2 DEF Tlb

LEMMA SameKeepsFresh ==
  ASSUME TlbFresh, tlb' = tlb,
         \A u \in Page : virtual_to_physical(u)' = virtual_to_physical(u)
  PROVE  TlbFresh'
<1> SUFFICES ASSUME NEW e \in tlb
             PROVE  e[1] \in Page /\ Walk(page_tables', mem', e[1]) = e[2]
  BY DEF TlbFresh, virtual_to_physical
<1> QED BY DEF TlbFresh, virtual_to_physical

LEMMA TheSameIsMapped ==
  ASSUME UNCHANGED <<page_tables, mem>>
  PROVE  /\ \A u \in Page : virtual_to_physical(u)' = virtual_to_physical(u)
         /\ \A u \in Page : Tabled(u)' = Tabled(u)
BY DEF virtual_to_physical, Walk, Tabled, HasTable
-----------------------------------------------------------------------------
(***************************************************************************)
(* Before paging is on.                                                    *)
(***************************************************************************)
TabledRegions == {r \in Region : page_tables[r] # nullptr}

LEMMA RegionsAreFinite ==
  /\ IsFiniteSet(Region) /\ IsFiniteSet(Frame)
  /\ \A s \in SUBSET Region : IsFiniteSet(s) /\ Cardinality(s) \in Nat
  /\ \A s \in SUBSET Frame : IsFiniteSet(s) /\ Cardinality(s) \in Nat
<1>1. PD_ENTRIES - 1 \in Int /\ LOW_DATA_START_ADDR \in Int /\ Limit - 1 \in Int
  BY PagingAssumption DEF Page
<1>2. IsFiniteSet(Region) /\ IsFiniteSet(Frame)
  BY <1>1, FS_Interval DEF Region, Frame
<1> QED BY <1>2, FS_Subset, FS_CardinalityType

LEMMA BootSetPage ==
  ASSUME PagingInv, BootInv, ~enabled_paging, Top.at <= Top.last,
         NEW t \in Frame, set_page(t, todo), UNCHANGED <<enabled_paging, fb_size>>,
         \/ page_tables[PD_INDEX(Top.at)] = t /\ own' = own
         \/ /\ page_tables[PD_INDEX(Top.at)] = nullptr /\ \A r \in Region : page_tables[r] # t
            /\ own' = own \cup {t} /\ t \notin own /\ \A g \in Frame \ own : t <= g
  PROVE  BootInv'
<1> DEFINE n == Len(todo)
           c == todo[n]
           R == PD_INDEX(c.at)
<1>1. /\ Booting /\ todo \in Seq(Asking) /\ n \in 1..Len(todo) /\ Len(todo) = n /\ Top = c
      /\ n \in 1..4 /\ own \subseteq Frame /\ c \in Asking /\ fb_size \in FbSizes
      /\ page_tables \in [Region -> own \cup {nullptr}]
  <2>1. Booting /\ n \in 1..4
    BY DEF BootInv, Booting
  <2>2. /\ todo \in Seq(Asking) /\ own \subseteq Frame /\ fb_size \in FbSizes
        /\ page_tables \in [Region -> own \cup {nullptr}]
    BY DEF PagingInv, Typed, TypeOK
  <2>3. n \in 1..Len(todo)
    <3> DEFINE k == Len(todo)
    <3>1. k \in 1..4
      BY <2>1
    <3> HIDE DEF k
    <3>2. k \in 1..k
      BY <3>1
    <3> QED BY <3>2 DEF k
  <2>4. todo[n] \in Asking
    BY <2>2, <2>3
  <2> QED BY <2>1, <2>2, <2>3, <2>4 DEF Top, Last
<1>2. /\ c.at \in Page /\ c.phys \in Page
      /\ Walk(page_tables', mem', c.at) = c.phys
      /\ \A u \in Page : u # c.at => virtual_to_physical(u)' = virtual_to_physical(u)
      /\ \A r \in Region : page_tables'[r] = IF r = R THEN t ELSE page_tables[r]
      /\ Len(todo') = n
      /\ \A i \in 1..n - 1 : todo'[i] = todo[i]
      /\ todo'[n].at = c.at + 1 /\ todo'[n].last = c.last /\ todo'[n].phys = c.phys + 1
      /\ tlb' = {}
  <2>1. c.at <= c.last /\ \A i \in 1..n : todo[i] = todo[i]
    BY <1>1
  <2>2. page_tables[R] \in {t, nullptr} /\ (page_tables[R] = t \/ \A r \in Region : page_tables[r] # t)
    BY <1>1
  <2> HIDE DEF n, PagingInv
  <2> QED BY <1>1, <2>1, <2>2, SetPageEffect
<1>3. /\ \A i \in 1..n - 1 : todo[i] = Boot[i]
      /\ c.last = Boot[n].last /\ c.at >= Boot[n].at /\ c.phys = c.at
      /\ \A g \in Frame, h \in own : g <= h => g \in own
      /\ \A r \in Region : page_tables[r] # nullptr =>
           \E i \in 1..4 : \E v \in Span(Boot[i]) : r = PD_INDEX(v)
      /\ \A i \in 1..4 : \A v \in Span(Boot[i]) :
           i > n \/ (i = n /\ v < todo[i].at) => virtual_to_physical(v) = v
      /\ Cardinality(own) = 2 + Cardinality(TabledRegions)
  BY <1>1 DEF Booting, TabledRegions
<1>4. Boot' = Boot /\ c.at \in Nat /\ c.last \in Int /\ Boot[n].at \in Nat
  <2>1. Boot[n] \in Asking
    BY <1>1, BootCallsAre
  <2>2. Boot' = Boot
    BY DEF Boot
  <2> QED BY <1>1, <2>1, <2>2 DEF Asking
<1>5. R \in Region /\ t # nullptr
  BY <1>2, PageIndices, FramesArePages
<1> HIDE DEF n, c, R, PagingInv, BootInv
<1>6. ASSUME NEW g \in Frame, NEW h \in own', g <= h PROVE g \in own'
  <2>1. g \in Nat /\ t \in Nat
    BY FramesArePages
  <2>2. CASE h \in own
    BY <1>3, <1>6, <2>2
  <2>3. CASE h = t /\ own' = own \cup {t} /\ \A k \in Frame \ own : t <= k
    BY <1>6, <2>1, <2>3
  <2> QED BY <1>6, <2>2, <2>3
<1>7. c.at \in Span(Boot[n])
  BY <1>1, <1>3, <1>4 DEF Span, c
<1>8. \A r \in Region : page_tables'[r] # nullptr =>
        \E i \in 1..4 : \E v \in Span(Boot[i]) : r = PD_INDEX(v)
  <2> SUFFICES ASSUME NEW r \in Region, page_tables'[r] # nullptr
               PROVE  \E i \in 1..4 : \E v \in Span(Boot[i]) : r = PD_INDEX(v)
    OBVIOUS
  <2>1. CASE r = R
    BY <1>1, <1>7, <2>1 DEF R
  <2>2. CASE r # R
    BY <1>2, <1>3, <2>2
  <2> QED BY <2>1, <2>2
<1>9. ASSUME NEW i \in 1..4, NEW v \in Span(Boot[i]),
             i > n \/ (i = n /\ v < todo'[i].at)
      PROVE  virtual_to_physical(v)' = v
  <2>1. CASE v = c.at
    BY <1>2, <1>3, <2>1 DEF virtual_to_physical
  <2>2. CASE v # c.at
    <3>1. v \in Int
      BY DEF Span
    <3>2. i > n \/ (i = n /\ v < todo[i].at)
      BY <1>2, <1>4, <1>9, <2>2, <3>1 DEF c
    <3>3. virtual_to_physical(v) = v
      BY <1>3, <3>2
    <3>4. virtual_to_physical(v)' = virtual_to_physical(v)
      <4>1. v \in Page
        BY <1>1, BootCallsAre
      <4> QED BY <1>2, <2>2, <4>1
    <3> QED BY <3>3, <3>4
  <2> QED BY <2>1, <2>2
<1>10. Cardinality(own') = 2 + Cardinality(TabledRegions')
  <2>1. IsFiniteSet(own) /\ IsFiniteSet(TabledRegions)
    BY <1>1, RegionsAreFinite DEF TabledRegions
  <2>2. CASE page_tables[R] = t /\ own' = own
    <3>1. TabledRegions' = TabledRegions
      BY <1>2, <1>5, <2>2 DEF TabledRegions
    <3> QED BY <1>3, <2>2, <3>1
  <2>3. CASE page_tables[R] = nullptr /\ own' = own \cup {t} /\ t \notin own
    <3>1. TabledRegions' = TabledRegions \cup {R} /\ R \notin TabledRegions
      BY <1>2, <1>5, <2>3 DEF TabledRegions
    <3>2. /\ Cardinality(own') = Cardinality(own) + 1
          /\ Cardinality(TabledRegions') = Cardinality(TabledRegions) + 1
      BY <2>1, <2>3, <3>1, FS_AddElement
    <3>3. Cardinality(own) \in Nat /\ Cardinality(TabledRegions) \in Nat
      BY <2>1, FS_CardinalityType
    <3> QED BY <1>3, <3>2, <3>3
  <2> QED BY <1>1, <2>2, <2>3 DEF R
<1>11. Booting'
  <2>1. /\ Len(todo') \in 1..4
        /\ \A i \in 1..Len(todo') - 1 : todo'[i] = Boot'[i]
        /\ todo'[Len(todo')].last = Boot'[Len(todo')].last
        /\ todo'[Len(todo')].at >= Boot'[Len(todo')].at
        /\ todo'[Len(todo')].phys = todo'[Len(todo')].at
    BY <1>1, <1>2, <1>3, <1>4
  <2>2. \A i \in 1..4 : \A v \in Span(Boot'[i]) :
           i > Len(todo') \/ (i = Len(todo') /\ v < todo'[i].at)
             => virtual_to_physical(v)' = v
    BY <1>2, <1>4, <1>9
  <2> QED BY <1>4, <1>6, <1>8, <1>10, <2>1, <2>2 DEF Booting, TabledRegions
<1> QED BY <1>2, <1>11 DEF BootInv

LEMMA BootSame ==
  ASSUME BootInv, UNCHANGED <<enabled_paging, fb_size, page_tables, mem, tlb, own, todo>>
  PROVE  BootInv'
BY DEF BootInv, Booting, Boot, virtual_to_physical, Walk, Span

LEMMA BootReturn ==
  ASSUME PagingInv, BootInv, ~enabled_paging, Return, UNCHANGED fb_size
  PROVE  BootInv'
<1> DEFINE n == Len(todo)
<1>1. Booting /\ n \in 1..4 /\ todo \in Seq(Asking) /\ todo # <<>> /\ fb_size \in FbSizes
  <2>1. Booting /\ n \in 1..4
    BY DEF BootInv, Booting
  <2>2. todo \in Seq(Asking) /\ fb_size \in FbSizes
    BY DEF PagingInv, Typed, TypeOK
  <2>3. n # 0
    BY <2>1
  <2> QED BY <2>1, <2>2, <2>3
<1>2. n \in 1..n /\ Top = todo[n] /\ todo[n] \in Asking
  <2>1. n \in 1..n
    BY <1>1
  <2> QED BY <1>1, <2>1 DEF Top, Last
<1>3. Top.frame = nullptr
  BY <1>2 DEF PagingInv, BootHoldsNothing
<1>4. /\ todo[n].at > todo[n].last
      /\ todo' = Front(todo) /\ enabled_paging' = (enabled_paging \/ n = 1)
      /\ UNCHANGED <<page_tables, mem, own>> /\ (~enabled_paging' => tlb' = {})
  BY <1>2, <1>3 DEF Return
<1>5. /\ Len(todo') = n - 1 /\ \A i \in 1..n - 1 : todo'[i] = todo[i]
  BY <1>1, <1>4, CallsAround
<1> SUFFICES ASSUME n # 1 PROVE Booting'
  BY <1>4 DEF BootInv
<1>6. /\ \A i \in 1..n - 1 : todo[i] = Boot[i]
      /\ todo[n].last = Boot[n].last
      /\ \A g \in Frame, h \in own : g <= h => g \in own
      /\ \A r \in Region : page_tables[r] # nullptr =>
           \E i \in 1..4 : \E v \in Span(Boot[i]) : r = PD_INDEX(v)
      /\ \A i \in 1..4 : \A v \in Span(Boot[i]) :
           i > n \/ (i = n /\ v < todo[i].at) => virtual_to_physical(v) = v
      /\ Cardinality(own) = 2 + Cardinality(TabledRegions)
  BY <1>1 DEF Booting, TabledRegions
<1> DEFINE m == n - 1
<1>7. m \in 1..4 /\ m \in 1..m /\ n = m + 1
  BY <1>1
<1>8. Boot' = Boot /\ \A i \in 1..4 : Boot[i] \in Asking /\ Boot[i].phys = Boot[i].at
  <2>1. Boot' = Boot
    BY DEF Boot
  <2> QED BY <1>1, <2>1, BootCallsAre
<1> HIDE DEF n, m, PagingInv, BootInv
<1>9. todo'[m] = Boot[m] /\ \A i \in 1..m - 1 : todo'[i] = Boot[i]
  BY <1>5, <1>6, <1>7 DEF m
<1>10. ASSUME NEW i \in 1..4, NEW v \in Span(Boot[i]),
              i > m \/ (i = m /\ v < todo'[i].at)
       PROVE  virtual_to_physical(v)' = v
  <2>1. /\ v \in Int /\ v >= Boot[i].at /\ v <= Boot[i].last /\ Boot[i].at \in Nat
        /\ todo[n].at \in Nat /\ todo[n].last \in Int
    BY <1>2, <1>8 DEF Span, Asking
  <2>2. i # m
    BY <1>9, <1>10, <2>1
  <2>3. i > n \/ (i = n /\ v < todo[i].at)
    BY <1>4, <1>6, <1>7, <1>10, <2>1, <2>2
  <2>4. virtual_to_physical(v) = v
    BY <1>6, <2>3
  <2> QED BY <1>4, <2>4 DEF virtual_to_physical, Walk
<1>11. /\ Len(todo') \in 1..4 /\ Len(todo') = m
       /\ todo'[m].last = Boot[m].last /\ todo'[m].at >= Boot[m].at
       /\ todo'[m].phys = todo'[m].at
  <2>1. Boot[m].at \in Nat /\ Boot[m].phys = Boot[m].at
    BY <1>7, <1>8 DEF Asking
  <2> QED BY <1>5, <1>7, <1>9, <2>1 DEF m
<1> QED BY <1>4, <1>6, <1>8, <1>9, <1>10, <1>11 DEF Booting, TabledRegions

LEMMA BootNext ==
  ASSUME PagingInv, BootInv, [Next]_vars
  PROVE  BootInv'
<1>1. CASE UNCHANGED vars
  BY <1>1, BootSame DEF vars, tables
<1>2. CASE enabled_paging /\ Next
  <2>1. enabled_paging'
    BY <1>2 DEF Next, MapPage, MapTable, Return, Ends, alloc_frame, free_frame, map_device,
       alloc_page
  <2> QED BY <2>1 DEF BootInv
<1>3. CASE ~enabled_paging /\ Next
  <2>1. UNCHANGED fb_size /\ todo # <<>> /\ (MapPage \/ MapTable \/ Return)
    BY <1>3 DEF Next, alloc_frame, free_frame, map_device, alloc_page, Idle
  <2>2. ASSUME NEW how, Ends(how) PROVE BootInv'
    BY <2>1, <2>2, BootSame DEF Ends, tables
  <2>3. CASE MapPage
    <3> DEFINE t == page_tables[PD_INDEX(Top.at)]
    <3>1. /\ Top.at <= Top.last /\ t # nullptr /\ set_page(t, todo)
          /\ UNCHANGED <<enabled_paging, own>>
      BY <1>3, <2>3 DEF MapPage, Accessible
    <3>2. t \in Frame
      BY <2>1, <3>1, Innermost
    <3>3. page_tables[PD_INDEX(Top.at)] = t
      OBVIOUS
    <3> HIDE DEF t
    <3> QED BY <1>3, <2>1, <3>1, <3>2, <3>3, BootSetPage
  <2>4. CASE MapTable
    <3>1. CASE Ends("wild") \/ Ends("overflow")
      BY <2>2, <3>1
    <3>2. ASSUME NEW f \in FirstFit(1), own' = own \cup {f}, set_page(f, todo),
                 UNCHANGED <<enabled_paging, held, status>>
          PROVE  BootInv'
      <4>1. f \in Frame /\ f \notin own /\ \A r \in Region : page_tables[r] # f
        BY FitsOne, WhatTakenIs DEF PagingInv
      <4>2. \A g \in Frame \ own : f <= g
        <5>1. Taken = own
          BY <1>3 DEF PagingInv, BootHoldsNothing, Taken
        <5> QED BY <5>1, LowestFrame
      <4>3. Top.at <= Top.last /\ page_tables[PD_INDEX(Top.at)] = nullptr
        BY <2>4 DEF MapTable
      <4> HIDE DEF PagingInv, BootInv
      <4> QED BY <1>3, <2>1, <3>2, <4>1, <4>2, <4>3, BootSetPage
    <3> QED BY <1>3, <2>4, <3>1, <3>2 DEF MapTable
  <2>5. CASE Return
    BY <1>3, <2>1, <2>5, BootReturn
  <2> QED BY <2>1, <2>3, <2>4, <2>5
<1> QED BY <1>1, <1>2, <1>3
-----------------------------------------------------------------------------
(***************************************************************************)
(* The order of the regions.                                               *)
(***************************************************************************)
LEMMA BootEnds ==
  ASSUME PagingInv, BootInv, Separate, ~enabled_paging, Len(todo) = 1, Return, UNCHANGED fb_size
  PROVE  Ordered'
<1>1. Booting /\ todo \in Seq(Asking) /\ fb_size \in FbSizes /\ held = {}
      /\ own \subseteq Frame
  BY DEF BootInv, PagingInv, Typed, TypeOK, BootHoldsNothing
<1>2. Top = todo[1] /\ todo[1] \in Asking /\ todo # <<>>
  BY <1>1 DEF Top, Last
<1>3. Top.frame = nullptr
  BY <1>2 DEF PagingInv, BootHoldsNothing
<1>4. /\ todo[1].at > todo[1].last /\ todo' = Front(todo)
      /\ UNCHANGED <<page_tables, mem, own, held>>
  BY <1>2, <1>3 DEF Return
<1> HIDE DEF PagingInv, BootInv
<1>5. Len(todo') = 0 /\ todo' = <<>>
  BY <1>1, <1>2, <1>4, CallsAround, EmptySeq
<1>6. \A i \in 1..4 : \A v \in Span(Boot[i]) : v \in Page /\ Tabled(v)
  <2> SUFFICES ASSUME NEW i \in 1..4, NEW v \in Span(Boot[i]) PROVE v \in Page /\ Tabled(v)
    OBVIOUS
  <2>1. v \in Page
    BY <1>1, BootCallsAre
  <2>2. i = 1 => v < todo[1].at
    <3>1. Boot[1].last = todo[1].last
      BY <1>1, <1>2 DEF Booting
    <3> QED BY <1>2, <1>4, <3>1 DEF Span, Asking
  <2>3. virtual_to_physical(v) = v
    <3>1. i > 1 \/ i = 1
      OBVIOUS
    <3> QED BY <1>1, <2>2, <3>1 DEF Booting
  <2>4. v # None
    BY <2>1, FramesArePages
  <2> QED BY <2>1, <2>3, <2>4 DEF virtual_to_physical, Walk, Tabled, HasTable
<1>7. \A r \in Region : page_tables[r] # nullptr =>
        \E i \in 1..4 : \E v \in Span(Boot[i]) : r = PD_INDEX(v)
  BY <1>1 DEF Booting
<1>8. \A g \in Frame, h \in own : g <= h => g \in own
  BY <1>1 DEF Booting
<1>9. /\ Boot[1].at = LOW_DATA_START_ADDR /\ Boot[1].last = LOW_DATA_START_ADDR + 5
      /\ Boot[2].at = framebuffer
      /\ Boot[3].at = METADATA_ADDR /\ Boot[3].last = METADATA_ADDR
      /\ Boot[4].at = 0 /\ Boot[4].last = METADATA_ADDR + 1
  BY <1>1, BootCallsAre DEF Identity, Call
<1>10. /\ LOW_DATA_START_ADDR \in Nat /\ METADATA_ADDR \in Nat /\ framebuffer \in Nat
       /\ Limit - 1 \in Nat /\ Low \in Nat /\ Low <= METADATA_ADDR
       /\ METADATA_ADDR < LOW_DATA_START_ADDR
  BY PagingAssumption DEF Page
<1>11. LowTabled
  <2> SUFFICES ASSUME NEW v \in 0..(Low - 1) PROVE Tabled(v)
    BY DEF LowTabled
  <2>1. v \in Span(Boot[4])
    BY <1>9, <1>10 DEF Span
  <2> QED BY <1>6, <2>1
<1>12. InOrder
  <2> SUFFICES ASSUME NEW g \in Frame, NEW h \in Frame, g <= h, Tabled(h) PROVE Tabled(g)
    BY DEF InOrder
  <2>1. /\ g \in Nat /\ h \in Nat /\ h \in Page /\ g >= LOW_DATA_START_ADDR /\ h <= Limit - 1
    BY <1>10, FramesArePages DEF Frame
  <2>2. PICK i \in 1..4 : \E v \in Span(Boot[i]) : PD_INDEX(h) = PD_INDEX(v)
    BY <1>7, <2>1, PageIndices DEF Tabled, HasTable
  <2>3. PICK v \in Span(Boot[i]) : PD_INDEX(h) = PD_INDEX(v)
    BY <2>2
  <2>4. v \in Nat /\ Tabled(v) /\ v >= Boot[i].at /\ v <= Boot[i].last
    BY <1>6, FramesArePages DEF Span
  <2>5. CASE v <= g
    <3>1. PD_INDEX(v) <= PD_INDEX(g) /\ PD_INDEX(g) <= PD_INDEX(h)
          /\ PD_INDEX(v) \in Nat /\ PD_INDEX(g) \in Nat
      BY <2>1, <2>4, <2>5, IndicesAreOrdered
    <3>2. PD_INDEX(g) = PD_INDEX(v)
      BY <2>3, <3>1
    <3> QED BY <2>4, <3>2 DEF Tabled, HasTable
  <2>6. CASE i = 2
    <3>1. /\ PD_INDEX(framebuffer) <= PD_INDEX(v) /\ PD_INDEX(h) <= PD_INDEX(Limit - 1)
          /\ PD_INDEX(framebuffer) \in Nat /\ PD_INDEX(v) \in Nat /\ PD_INDEX(Limit - 1) \in Nat
      BY <1>9, <1>10, <2>1, <2>4, <2>6, IndicesAreOrdered
    <3>2. PD_INDEX(Limit - 1) < PD_INDEX(framebuffer)
      BY DEF Separate
    <3> QED BY <2>3, <3>1, <3>2
  <2>7. CASE i = 1 /\ g < v
    <3>1. g \in Span(Boot[1])
      BY <1>9, <1>10, <2>1, <2>4, <2>7 DEF Span
    <3> QED BY <1>6, <3>1
  <2>8. i = 3 \/ i = 4 => v <= g
    BY <1>9, <1>10, <2>1, <2>4
  <2>9. i = 1 \/ i = 2 \/ i = 3 \/ i = 4
    OBVIOUS
  <2> QED BY <2>1, <2>4, <2>5, <2>6, <2>7, <2>8, <2>9
<1>13. FreeAreLast'
  <2>1. Taken' = own
    BY <1>1, <1>4 DEF Taken
  <2>2. \A g \in Frame \ own : \A h \in own : h < g
    BY <1>1, <1>8, FramesArePages
  <2> QED BY <2>1, <2>2 DEF FreeAreLast
<1>14. OwnAreFirst'
  <2>1. \A g \in own : \A h \in Frame \ own : g < h
    BY <1>1, <1>8, FramesArePages
  <2> QED BY <1>4, <1>5, <2>1 DEF OwnAreFirst
<1>15. HeldAreTabled'
  BY <1>1, <1>4 DEF HeldAreTabled, HeldFrames
<1>16. InOrder' /\ LowTabled'
  BY <1>4, <1>11, <1>12 DEF InOrder, LowTabled, Tabled, HasTable
<1>17. FirstIsKnown' /\ InnermostIsLast' /\ Waits' /\ Endless'
  BY <1>5 DEF FirstIsKnown, InnermostIsLast, Waits, Endless
<1> QED BY <1>13, <1>14, <1>15, <1>16, <1>17 DEF Ordered

LEMMA FramesAndTables ==
  ASSUME TypeOK
  PROVE  /\ HeldFrames \subseteq Frame /\ own \subseteq Frame /\ Taken = own \cup HeldFrames
         /\ HeldFrames \cap own = {}
         /\ \A v \in Page : virtual_to_physical(v) = v => Tabled(v)
<1>1. \A v \in Page : v # None
  BY FramesArePages
<1> QED BY <1>1 DEF TypeOK, HeldFrames, Taken, virtual_to_physical, Walk, Tabled, HasTable

\* The page of the innermost call is mapped: what it means for the order.
LEMMA OrderedMapPage ==
  ASSUME PagingInv, Ordered, enabled_paging, todo # <<>>, Top.at <= Top.last,
         NEW t \in Frame, page_tables[PD_INDEX(Top.at)] = t, set_page(t, todo),
         UNCHANGED <<enabled_paging, fb_size, held, own>>
  PROVE  /\ Ordered'
         /\ \A u \in Page : u # Top.at => virtual_to_physical(u)' = virtual_to_physical(u)
         /\ Walk(page_tables', mem', Top.at) = Top.phys
         /\ tlb' = Tlb({Top.at})
<1> DEFINE n == Len(todo)
           c == todo[n]
<1>1. /\ todo \in Seq(Asking) /\ n \in 1..Len(todo) /\ Len(todo) = n /\ n \in Nat \ {0}
      /\ Top = c /\ c \in Asking /\ c.at \in Page /\ PD_INDEX(c.at) \in Region
      /\ c.at <= c.last
  BY Innermost
<1>2. /\ Walk(page_tables', mem', c.at) = c.phys
      /\ \A u \in Page : u # c.at => virtual_to_physical(u)' = virtual_to_physical(u)
      /\ \A r \in Region : page_tables'[r] = IF r = PD_INDEX(c.at) THEN t ELSE page_tables[r]
      /\ Len(todo') = n
      /\ \A i \in 1..n - 1 : todo'[i] = todo[i]
      /\ todo'[n].at = c.at + 1 /\ todo'[n].last = c.last /\ todo'[n].frame = c.frame
      /\ Span(todo'[n]) = Span(c) \ {c.at}
      /\ tlb' = Tlb({c.at})
  <2>1. page_tables[PD_INDEX(c.at)] = t /\ \A i \in 1..n : todo[i] = todo[i]
    BY <1>1
  <2> HIDE DEF n, PagingInv
  <2> QED BY <1>1, <2>1, SetPageEffect
<1>3. /\ InOrder /\ LowTabled /\ FirstIsKnown /\ InnermostIsLast /\ Waits /\ Endless
      /\ (n <= 2 => FreeAreLast /\ OwnAreFirst /\ HeldAreTabled)
  BY DEF Ordered
<1>4. t # nullptr /\ \A v \in Page : Tabled(v)' = Tabled(v)
  <2>1. t # nullptr
    BY FramesArePages
  <2>2. \A v \in Page : page_tables'[PD_INDEX(v)] = page_tables[PD_INDEX(v)]
    BY <1>1, <1>2, PageIndices
  <2> QED BY <2>1, <2>2 DEF Tabled, HasTable
<1>5. Tabled(c.at)
  BY <1>1, <1>4 DEF Tabled, HasTable
<1>6. HeldFrames' = HeldFrames /\ Taken' = Taken /\ HeldFrames \subseteq Frame /\ own \subseteq Frame
  <2>1. TypeOK
    BY DEF PagingInv, Typed
  <2> QED BY <2>1, FramesAndTables DEF HeldFrames, Taken, FramesOf
<1>7. Frame \subseteq Page /\ 0..(Low - 1) \subseteq Page /\ Device \in Nat
  BY Bounds
<1> HIDE DEF n, c, PagingInv
<1>8. InOrder' /\ LowTabled'
  BY <1>3, <1>4, <1>7 DEF InOrder, LowTabled
<1>9. \A i \in 1..n : todo'[i].frame = todo[i].frame /\ todo'[i].last = todo[i].last
  <2> SUFFICES ASSUME NEW i \in 1..n
               PROVE  todo'[i].frame = todo[i].frame /\ todo'[i].last = todo[i].last
    OBVIOUS
  <2>1. i \in 1..n - 1 \/ i = n
    BY <1>1
  <2> QED BY <1>2, <2>1 DEF c
<1>10. FirstIsKnown'
  <2>1. todo # <<>> /\ 1 \in 1..n /\ todo'[1].at >= todo[1].at
    <3>1. CASE n = 1
      BY <1>1, <1>2, <3>1 DEF c, Asking
    <3>2. CASE n # 1
      <4>1. 1 \in 1..n - 1 /\ todo[1] \in Asking
        BY <1>1, <3>2
      <4> QED BY <1>1, <1>2, <4>1 DEF Asking
    <3> QED BY <3>1, <3>2
  <2>2. \/ todo[1].frame # nullptr /\ todo[1].last - 1 \in HeldFrames
        \/ todo[1].frame = nullptr /\ (todo[1].last < Low \/ Device <= todo[1].at)
    BY <1>3, <2>1 DEF FirstIsKnown
  <2>3. todo[1].at \in Nat /\ todo'[1].at \in Nat /\ Device \in Nat
    <3>1. todo[1] \in Asking
      BY <1>1, <2>1
    <3>2. CASE n = 1
      BY <1>1, <1>2, <1>7, <3>1, <3>2 DEF c, Asking
    <3>3. CASE n # 1
      <4>1. 1 \in 1..n - 1
        BY <1>1, <3>3
      <4> QED BY <1>2, <1>7, <3>1, <4>1 DEF Asking
    <3> QED BY <3>2, <3>3
  <2>4. Device <= todo[1].at => Device <= todo'[1].at
    BY <2>1, <2>3
  <2> QED BY <1>6, <1>9, <2>1, <2>2, <2>4 DEF FirstIsKnown
<1>11. InnermostIsLast'
  <2> SUFFICES ASSUME n >= 2
               PROVE  /\ todo'[n].frame \in Frame /\ todo'[n].last = todo'[n].frame + 1
                      /\ todo'[n].at \in todo'[n].frame..(todo'[n].frame + 2)
                      /\ todo'[n].at > todo'[n].frame => HasTable(page_tables', todo'[n].frame)
                      /\ \A h \in Frame \ Taken' : todo'[n].frame < h
    BY <1>2 DEF InnermostIsLast, Tabled
  <2>1. /\ c.frame \in Frame /\ c.last = c.frame + 1 /\ c.at \in c.frame..(c.frame + 2)
        /\ c.at > c.frame => Tabled(c.frame)
        /\ \A h \in Frame \ Taken : c.frame < h
    BY <1>1, <1>3 DEF InnermostIsLast, c, n
  <2>2. c.frame \in Nat /\ c.frame \in Page
    BY <2>1, FramesArePages
  <2>3. c.at + 1 \in c.frame..(c.frame + 2) /\ (c.at > c.frame \/ c.at = c.frame)
    BY <1>1, <2>1, <2>2
  <2>4. Tabled(c.frame)
    BY <1>5, <2>1, <2>3
  <2>5. HasTable(page_tables', c.frame)
    BY <1>4, <2>2, <2>4 DEF Tabled
  <2> QED BY <1>2, <1>6, <2>1, <2>3, <2>5
<1>12. Waits'
  <2> SUFFICES ASSUME n = 2 PROVE ~HasTable(page_tables', todo'[1].at)
    BY <1>2 DEF Waits, Tabled
  <2>1. todo'[1] = todo[1] /\ todo[1].at <= todo[1].last /\ todo[1] \in Asking
    BY <1>1, <1>2 DEF PagingInv, Nested, n
  <2>2. ~Tabled(todo[1].at)
    BY <1>3 DEF Waits, n
  <2>3. todo[1].at \in Page
    <3> DEFINE d == todo[1]
    <3>1. Identical(d)
      BY <1>1 DEF PagingInv, AllIdentical
    <3>2. d \in Asking /\ d.at <= d.last
      BY <2>1
    <3> HIDE DEF d
    <3>3. d.at \in Page
      BY <3>1, <3>2, NextPage
    <3> QED BY <3>3 DEF d
  <2> QED BY <1>4, <2>1, <2>2, <2>3 DEF Tabled
<1>13. Endless'
  <2> SUFFICES ASSUME n >= 3 PROVE FALSE
    BY <1>2 DEF Endless
  <2>1. c.at = c.frame /\ ~Tabled(c.frame)
    BY <1>3 DEF Endless, c, n
  <2> QED BY <1>5, <2>1
<1>14. ASSUME n <= 2 PROVE FreeAreLast' /\ OwnAreFirst' /\ HeldAreTabled'
  <2>1. FreeAreLast'
    BY <1>3, <1>4, <1>6, <1>7, <1>14 DEF FreeAreLast
  <2>2. OwnAreFirst'
    <3>1. n >= 2 => todo'[2].frame = todo[2].frame
      BY <1>1, <1>9, <1>14
    <3> QED BY <1>2, <1>3, <1>4, <1>6, <1>7, <1>14, <3>1 DEF OwnAreFirst, n
  <2>3. HeldAreTabled'
    <3> SUFFICES ASSUME NEW g \in HeldFrames, ~HasTable(page_tables', g)
                 PROVE  todo' # <<>> /\ g \in Span(todo'[1])
      BY <1>6 DEF HeldAreTabled, Tabled
    <3>1. ~Tabled(g)
      BY <1>4, <1>6, <1>7 DEF Tabled
    <3>2. g \in Span(todo[1])
      BY <1>3, <1>14, <3>1 DEF HeldAreTabled
    <3>3. n = 1 \/ 1 \in 1..n - 1
      BY <1>1
    <3>4. todo' # <<>>
      BY <1>1, <1>2
    <3> QED BY <1>2, <1>5, <3>1, <3>2, <3>3, <3>4 DEF c
  <2> QED BY <2>1, <2>2, <2>3
<1> QED BY <1>1, <1>2, <1>8, <1>10, <1>11, <1>12, <1>13, <1>14 DEF Ordered

\* A frame that is allocated for a table is the first free one; for a page of a
\* nested call, it lies in a region that has none.
LEMMA OrderedNestedCall ==
  ASSUME PagingInv, Ordered, enabled_paging, todo # <<>>, Top.at <= Top.last,
         page_tables[PD_INDEX(Top.at)] = nullptr, NEW f \in FirstFit(1),
         own' = own \cup {f}, todo' = Append(todo, Call(f, f + 1, f, f)),
         UNCHANGED <<enabled_paging, fb_size, tables, held, status>>
  PROVE  Ordered'
<1> DEFINE n == Len(todo)
           c == todo[n]
           d == Call(f, f + 1, f, f)
<1>1. /\ todo \in Seq(Asking) /\ n \in 1..n /\ n \in Nat \ {0} /\ Top = c /\ c \in Asking
      /\ c.at \in Page /\ c.at <= c.last
  BY Innermost
<1>2. f \in Frame /\ f \notin Taken /\ f \in Nat /\ f \in Page
  BY FitsOne, FramesArePages
<1>3. d \in Asking /\ d.at = f /\ d.last = f + 1 /\ d.frame = f
  BY <1>2 DEF Asking, Call
<1> HIDE DEF d
<1>4. /\ Len(todo') = n + 1 /\ \A i \in 1..n : todo'[i] = todo[i]
      /\ todo'[n + 1] = d
  BY <1>1, <1>3, AppendProperties DEF d
<1>5. /\ InOrder /\ LowTabled /\ FirstIsKnown /\ InnermostIsLast /\ Waits /\ Endless
      /\ (n <= 2 => FreeAreLast /\ OwnAreFirst /\ HeldAreTabled)
  BY DEF Ordered
<1>6. /\ HeldFrames' = HeldFrames /\ Taken' = Taken \cup {f} /\ HeldFrames \subseteq Frame
      /\ own \subseteq Frame /\ f \notin own /\ own \subseteq Taken
  <2>1. TypeOK
    BY DEF PagingInv, Typed
  <2> QED BY <1>2, <2>1, FramesAndTables DEF HeldFrames, Taken, FramesOf
<1>7. page_tables' = page_tables
  BY DEF tables
<1>8. \A g \in Frame \ Taken : f <= g
  BY LowestFrame
<1>9. Frame \subseteq Nat
  BY FramesArePages
<1> HIDE DEF n, c, PagingInv
<1>10. InOrder' /\ LowTabled'
  BY <1>5, <1>7 DEF InOrder, LowTabled, Tabled, HasTable
<1>11. todo'[1] = todo[1] /\ todo # <<>> /\ todo' # <<>>
  BY <1>1, <1>4
<1>12. FirstIsKnown'
  BY <1>5, <1>6, <1>11 DEF FirstIsKnown
<1>13. InnermostIsLast'
  <2>1. f \in f..(f + 2) /\ ~(f > f)
    BY <1>2
  <2>2. \A h \in Frame \ Taken' : f < h
    BY <1>2, <1>6, <1>8, <1>9
  <2> QED BY <1>2, <1>3, <1>4, <2>1, <2>2 DEF InnermostIsLast
<1>14. Waits'
  <2> SUFFICES ASSUME n = 1 PROVE ~HasTable(page_tables', todo[1].at)
    BY <1>1, <1>4, <1>11 DEF Waits, Tabled
  <2> QED BY <1>1, <1>7 DEF HasTable, c
<1>15. Endless'
  <2> SUFFICES ASSUME n >= 2 PROVE ~HasTable(page_tables', f)
    BY <1>1, <1>3, <1>4 DEF Endless, Tabled
  <2>1. /\ c.frame \in Frame /\ c.last = c.frame + 1 /\ c.at \in c.frame..(c.frame + 2)
        /\ c.frame < f
    BY <1>1, <1>2, <1>5 DEF InnermostIsLast, c, n
  <2>2. c.at \in Frame /\ c.at <= f
    BY <1>1, <1>2, <1>9, <2>1, Bounds DEF Frame
  <2>3. ~Tabled(c.at)
    BY <1>1 DEF Tabled, HasTable
  <2>4. ~Tabled(f)
    BY <1>2, <1>5, <2>2, <2>3 DEF InOrder
  <2> QED BY <1>7, <2>4 DEF Tabled
<1>16. ASSUME Len(todo') <= 2 PROVE FreeAreLast' /\ OwnAreFirst' /\ HeldAreTabled'
  <2>1. n = 1 /\ FreeAreLast /\ OwnAreFirst /\ HeldAreTabled
    BY <1>1, <1>4, <1>5, <1>16
  <2>2. FreeAreLast'
    BY <1>2, <1>6, <1>7, <1>8, <1>9, <2>1 DEF FreeAreLast, Tabled
  <2>3. OwnAreFirst'
    <3> SUFFICES ASSUME NEW g \in own', ~HasTable(page_tables', g), g # f
                 PROVE  (\A h \in Frame \ own' : g < h) /\ g < f
      BY <1>3, <1>4, <2>1 DEF OwnAreFirst, Tabled
    <3>1. g \in own /\ ~Tabled(g)
      BY <1>7 DEF Tabled
    <3>2. \A h \in Frame \ own : g < h
      BY <2>1, <3>1 DEF OwnAreFirst, n
    <3> QED BY <1>2, <1>6, <3>2
  <2>4. HeldAreTabled'
    BY <1>6, <1>7, <1>11, <2>1 DEF HeldAreTabled, Tabled
  <2> QED BY <2>2, <2>3, <2>4
<1> QED BY <1>10, <1>12, <1>13, <1>14, <1>15, <1>16 DEF Ordered

\* Only a call that is nested once returns, and the region that waits for its
\* frame is the first one without a table.
LEMMA OrderedNestedReturn ==
  ASSUME PagingInv, Ordered, Separate, enabled_paging, todo # <<>>, Top.at > Top.last,
         Len(todo) > 1, set_page(Top.frame, Front(todo)),
         UNCHANGED <<enabled_paging, fb_size, held, own, status>>
  PROVE  /\ Ordered' /\ Len(todo) = 2
         /\ \A u \in Page : u # todo[1].at => virtual_to_physical(u)' = virtual_to_physical(u)
         /\ Walk(page_tables', mem', todo[1].at) = todo[1].phys
         /\ tlb' = Tlb({todo[1].at})
<1> DEFINE c == todo[1]
           f == todo[2].frame
           R == PD_INDEX(c.at)
<1>1. /\ InOrder /\ LowTabled /\ FirstIsKnown /\ InnermostIsLast /\ Waits /\ Endless
  BY DEF Ordered
<1>2. Len(todo) = 2
  <2> DEFINE k == Len(todo)
             d == todo[k]
  <2>1. k \in Nat /\ Top = d /\ d \in Asking /\ k > 1
    BY Innermost
  <2>2. d.last = d.frame + 1 /\ (k >= 3 => d.at = d.frame)
    BY <1>1, <2>1 DEF InnermostIsLast, Endless
  <2>3. d.at > d.last
    BY <2>1
  <2>4. d.at \in Nat
    BY <2>1 DEF Asking
  <2> HIDE DEF d, k
  <2>5. ~(k >= 3)
    BY <2>2, <2>3, <2>4
  <2>6. k = 2
    BY <2>1, <2>5
  <2> QED BY <2>6 DEF k
<1>3. /\ todo \in Seq(Asking) /\ todo[2] \in Asking /\ c \in Asking /\ Top = todo[2]
      /\ own \subseteq Frame
  BY <1>2, Innermost
<1>4. /\ Nested /\ c.at <= c.last /\ f \in own /\ f \in Frame
      /\ \A r \in Region : page_tables[r] # f
  <2>1. Nested
    BY DEF PagingInv
  <2>2. 2 \in 2..Len(todo) /\ 2 - 1 = 1
    BY <1>2
  <2> QED BY <1>3, <2>1, <2>2 DEF Nested
<1>5. FreeAreLast /\ OwnAreFirst /\ HeldAreTabled
  BY <1>2 DEF Ordered
<1>6. ~Tabled(c.at) /\ page_tables[R] = nullptr
  BY <1>1, <1>2 DEF Waits, Tabled, HasTable
<1>7. /\ c.at \in Page
      /\ Walk(page_tables', mem', c.at) = c.phys
      /\ \A u \in Page : u # c.at => virtual_to_physical(u)' = virtual_to_physical(u)
      /\ \A r \in Region : page_tables'[r] = IF r = R THEN f ELSE page_tables[r]
      /\ todo' \in Seq(Asking) /\ Len(todo') = 1
      /\ todo'[1].at = c.at + 1 /\ todo'[1].last = c.last /\ todo'[1].frame = c.frame
      /\ Span(todo'[1]) = Span(c) \ {c.at}
      /\ tlb' = Tlb({c.at})
  <2>1. /\ Front(todo) \in Seq(Asking) /\ Len(Front(todo)) = 1
        /\ \A i \in 1..1 : Front(todo)[i] = todo[i]
    <3>1. /\ Front(todo) \in Seq(Asking) /\ Len(Front(todo)) = Len(todo) - 1
          /\ \A i \in 1..Len(todo) - 1 : Front(todo)[i] = todo[i]
      BY <1>3, CallsAround
    <3>2. Len(todo) - 1 = 1
      BY <1>2
    <3> QED BY <3>1, <3>2
  <2>2. set_page(f, Front(todo)) /\ 1 \in 1..Len(todo)
    BY <1>2, <1>3
  <2>3. page_tables[PD_INDEX(todo[1].at)] \in {f, nullptr}
    BY <1>6
  <2> HIDE DEF f, PagingInv
  <2> QED BY <1>4, <2>1, <2>2, <2>3, SetPageEffect
<1>8. /\ f # nullptr /\ f \in Page /\ Frame \subseteq Page /\ Frame \subseteq Nat
      /\ 0..(Low - 1) \subseteq Page /\ c.at \in Nat /\ c.last \in Int
  BY <1>3, <1>4, FramesArePages, Bounds DEF Asking
<1>9. \A v \in Page : HasTable(page_tables', v) <=> Tabled(v) \/ PD_INDEX(v) = R
  BY <1>7, <1>8, PageIndices DEF Tabled, HasTable
<1>10. Tabled(f)
  <2>1. f + 1 = todo[2].last /\ (todo[2].at > f => Tabled(f)) /\ todo[2].at > todo[2].last
    BY <1>1, <1>2, <1>3 DEF InnermostIsLast
  <2>2. todo[2].at \in Nat /\ f \in Nat
    BY <1>3 DEF Asking
  <2> QED BY <2>1, <2>2
<1>11. /\ HeldFrames' = HeldFrames /\ Taken' = Taken /\ HeldFrames \subseteq Frame
       /\ Taken = own \cup HeldFrames
  <2>1. TypeOK
    BY DEF PagingInv, Typed
  <2> QED BY <2>1, FramesAndTables DEF HeldFrames, Taken, FramesOf
<1>12. todo # <<>> /\ todo' # <<>>
  <2> SUFFICES ASSUME todo' = <<>> PROVE FALSE
    OBVIOUS
  <2>1. Len(todo') = 0
    OBVIOUS
  <2> QED BY <1>7, <2>1
<1>13. \/ c.frame # nullptr /\ c.last - 1 \in HeldFrames
       \/ c.frame = nullptr /\ (c.last < Low \/ Device <= c.at)
  BY <1>1 DEF FirstIsKnown
<1> HIDE DEF c, f, R, PagingInv
<1>14. ASSUME NEW g \in Frame, NEW h \in Frame, g <= h, PD_INDEX(h) = R, PD_INDEX(g) # R
       PROVE  Tabled(g)
  <2> SUFFICES ASSUME ~Tabled(g) PROVE FALSE
    OBVIOUS
  <2>1. g \in Nat /\ h \in Nat
    BY <1>8
  <2>2. PD_INDEX(g) < R
    BY <1>14, <2>1, IndicesAreOrdered
  <2>3. g < c.at
    <3>1. c.at <= g => R <= PD_INDEX(g) /\ R \in Nat /\ PD_INDEX(g) \in Nat
      BY <1>8, <2>1, IndicesAreOrdered DEF R
    <3> QED BY <1>8, <2>1, <2>2, <3>1
  <2>4. CASE g \in HeldFrames
    <3>1. g \in Span(c)
      BY <1>5, <2>4 DEF HeldAreTabled, c
    <3> QED BY <1>8, <2>1, <2>3, <3>1 DEF Span
  <2>5. CASE g \in own
    <3>1. g # f
      BY <1>10
    <3>2. g < f
      BY <1>2, <1>5, <2>5, <3>1 DEF OwnAreFirst, f
    <3> QED BY <1>1, <1>4, <1>8, <1>10, <2>1, <3>2 DEF InOrder
  <2>6. CASE g \notin Taken
    <3>1. CASE c.last - 1 \in HeldFrames
      <4>1. c.last - 1 < g
        BY <1>5, <1>11, <2>6, <3>1 DEF FreeAreLast
      <4> QED BY <1>4, <1>8, <2>1, <2>3, <4>1 DEF c
    <3>2. CASE c.last < Low
      <4>1. c.at \in 0..(Low - 1)
        BY <1>4, <1>8, <3>2, Bounds DEF c
      <4> QED BY <1>1, <1>6, <4>1 DEF LowTabled
    <3>3. CASE Device <= c.at
      <4>1. /\ PD_INDEX(Device) <= R /\ R \in Nat /\ PD_INDEX(Device) \in Nat
            /\ PD_INDEX(h) <= PD_INDEX(Limit - 1) /\ PD_INDEX(Limit - 1) \in Nat
        <5>1. h <= Limit - 1 /\ Limit - 1 \in Nat /\ Device \in Nat
          BY Bounds, <2>1 DEF Frame
        <5> QED BY <1>8, <2>1, <3>3, <5>1, IndicesAreOrdered DEF R
      <4>2. PD_INDEX(Limit - 1) < PD_INDEX(Device)
        BY DEF Separate
      <4> QED BY <1>14, <4>1, <4>2
    <3> QED BY <1>13, <3>1, <3>2, <3>3
  <2> QED BY <1>11, <2>4, <2>5, <2>6
<1>15. InOrder' /\ LowTabled'
  <2>1. InOrder'
    BY <1>1, <1>8, <1>9, <1>14 DEF InOrder, Tabled
  <2>2. LowTabled'
    BY <1>1, <1>8, <1>9 DEF LowTabled, Tabled
  <2> QED BY <2>1, <2>2
<1>16. FirstIsKnown'
  <2>1. Device <= c.at => Device <= c.at + 1
    BY <1>8, Bounds
  <2> QED BY <1>7, <1>11, <1>13, <2>1 DEF FirstIsKnown
<1>17. InnermostIsLast' /\ Waits' /\ Endless'
  BY <1>7 DEF InnermostIsLast, Waits, Endless
<1>18. FreeAreLast'
  BY <1>5, <1>8, <1>9, <1>11 DEF FreeAreLast, Tabled
<1>19. OwnAreFirst'
  <2> SUFFICES ASSUME NEW g \in own, ~HasTable(page_tables', g)
               PROVE  \A h \in Frame \ own : g < h
    BY <1>7 DEF OwnAreFirst, Tabled
  <2>1. ~Tabled(g) /\ g # f
    BY <1>3, <1>8, <1>9, <1>10
  <2> QED BY <1>2, <1>5, <2>1 DEF OwnAreFirst, f
<1>20. HeldAreTabled'
  <2> SUFFICES ASSUME NEW g \in HeldFrames, ~HasTable(page_tables', g)
               PROVE  g \in Span(todo'[1])
    BY <1>11, <1>12 DEF HeldAreTabled, Tabled
  <2>1. g \in Page /\ ~Tabled(g) /\ PD_INDEX(g) # R
    BY <1>8, <1>9, <1>11
  <2>2. g \in Span(c)
    BY <1>5, <2>1 DEF HeldAreTabled, c
  <2> QED BY <1>7, <2>1, <2>2 DEF R
<1>21. Ordered'
  BY <1>15, <1>16, <1>17, <1>18, <1>19, <1>20 DEF Ordered
<1> QED BY <1>2, <1>7, <1>21 DEF c

\* The call of the kernel is done.
LEMMA OrderedDone ==
  ASSUME PagingInv, Ordered, enabled_paging, Len(todo) = 1, Span(todo[1]) = {}, todo' = <<>>,
         UNCHANGED <<enabled_paging, page_tables, held, own>>
  PROVE  Ordered'
<1>1. InOrder /\ LowTabled /\ FreeAreLast /\ OwnAreFirst /\ HeldAreTabled
  BY DEF Ordered
<1>2. Len(todo') = 0 /\ HeldFrames' = HeldFrames /\ Taken' = Taken
  BY DEF HeldFrames, Taken, FramesOf
<1>3. InOrder' /\ LowTabled' /\ FreeAreLast'
  BY <1>1, <1>2 DEF InOrder, LowTabled, FreeAreLast, Tabled
<1>4. OwnAreFirst'
  BY <1>1, <1>2 DEF OwnAreFirst, Tabled
<1>5. HeldAreTabled'
  BY <1>1, <1>2 DEF HeldAreTabled, Tabled
<1>6. FirstIsKnown' /\ InnermostIsLast' /\ Waits' /\ Endless'
  BY <1>2 DEF FirstIsKnown, InnermostIsLast, Waits, Endless
<1> QED BY <1>3, <1>4, <1>5, <1>6 DEF Ordered

\* A block is the first that fits, so no free frame in a region without a table
\* is in front of it.
LEMMA OrderedAllocFrame ==
  ASSUME PagingInv, Ordered, NEW k \in Blocks, alloc_frame(k), UNCHANGED fb_size
  PROVE  Ordered'
<1>1. PICK f \in FirstFit(k) : /\ held' = held \cup {[addr |-> f, size |-> k]}
                               /\ todo' = << BlockCall(f, k) >>
  BY DEF alloc_frame
<1> DEFINE b == [addr |-> f, size |-> k]
           c == BlockCall(f, k)
<1>2. /\ k \in Nat \ {0} /\ todo = <<>> /\ enabled_paging
      /\ UNCHANGED <<enabled_paging, page_tables, own>>
  BY PagingAssumption DEF alloc_frame, Idle, tables
<1>3. f \in Frame /\ f..(f + k - 1) \subseteq Frame \ Taken /\ f \in Nat /\ f # nullptr
  BY <1>2, WhatFitIs, FramesArePages
<1>4. c.at = f /\ c.last = f + k /\ c.phys = f /\ c.frame = f
  BY DEF BlockCall, Call
<1>5. FramesOf(b) = f..(f + k - 1)
  BY DEF FramesOf
<1> HIDE DEF b, c
<1>6. /\ HeldFrames' = HeldFrames \cup FramesOf(b) /\ Taken' = Taken \cup FramesOf(b)
  BY <1>1, <1>2 DEF HeldFrames, Taken, FramesOf, b
<1>7. todo' = <<c>> /\ Len(todo') = 1 /\ todo'[1] = c /\ todo' # <<>>
  BY <1>1 DEF c
<1>8. InOrder /\ LowTabled /\ FreeAreLast /\ OwnAreFirst /\ HeldAreTabled
  BY <1>2 DEF Ordered
<1>9. TypeOK /\ HeldFrames \subseteq Frame /\ Frame \subseteq Nat /\ Limit - 1 \in Nat
      /\ own \subseteq Taken
  BY FramesAndTables, FramesArePages, Bounds DEF PagingInv, Typed
<1>10. InOrder' /\ LowTabled'
  BY <1>2, <1>8 DEF InOrder, LowTabled, Tabled
<1>11. FirstIsKnown'
  <2>1. c.last - 1 \in FramesOf(b)
    BY <1>2, <1>3, <1>4, <1>5
  <2> QED BY <1>3, <1>4, <1>6, <1>7, <2>1 DEF FirstIsKnown
<1>12. InnermostIsLast' /\ Waits' /\ Endless'
  BY <1>7 DEF InnermostIsLast, Waits, Endless
<1>13. FreeAreLast'
  <2> SUFFICES ASSUME NEW g \in Frame, g \notin Taken, g \notin FramesOf(b), ~Tabled(g),
                      NEW h \in Taken \cup FramesOf(b)
               PROVE  h < g
    BY <1>2, <1>6 DEF FreeAreLast, Tabled
  <2>1. \A i \in Taken : i < g
    BY <1>8 DEF FreeAreLast
  <2>2. CASE h \in FramesOf(b) /\ g < f
    <3>1. f + k - 1 \in Frame
      <4>1. f + k - 1 \in f..(f + k - 1)
        BY <1>2, <1>3
      <4> QED BY <1>3, <4>1
    <3>2. \A i \in g..(g + k - 1) : i \in Frame /\ i \notin Taken
      <4> SUFFICES ASSUME NEW i \in g..(g + k - 1) PROVE i \in Frame /\ i \notin Taken
        OBVIOUS
      <4>1. g \in Nat /\ i \in Nat /\ i >= g /\ i <= f + k - 1
        BY <1>2, <1>3, <1>9, <2>2
      <4>2. i \in Frame
        <5>1. g >= LOW_DATA_START_ADDR /\ f + k - 1 <= Limit - 1
          BY <3>1 DEF Frame
        <5>2. LOW_DATA_START_ADDR \in Nat /\ Limit - 1 \in Nat /\ f + k - 1 \in Int
          BY <1>2, <1>3, Bounds
        <5>3. LOW_DATA_START_ADDR <= i /\ i <= Limit - 1
          BY <4>1, <5>1, <5>2
        <5> QED BY <4>1, <5>3 DEF Frame
      <4> QED BY <2>1, <4>1, <4>2
    <3>3. g..(g + k - 1) \subseteq Frame \ Taken
      BY <3>2
    <3>4. f <= g
      BY <1>2, <3>3, LowestFit
    <3> QED BY <1>3, <1>9, <2>2, <3>4
  <2>3. CASE h \in FramesOf(b) /\ ~(g < f)
    BY <1>2, <1>3, <1>5, <1>9, <2>3
  <2> QED BY <2>1, <2>2, <2>3
<1>14. OwnAreFirst'
  BY <1>2, <1>7, <1>8 DEF OwnAreFirst, Tabled
<1>15. HeldAreTabled'
  <2>1. \A g \in FramesOf(b) : g \in Span(c)
    BY <1>2, <1>3, <1>4, <1>5 DEF Span
  <2>2. \A g \in HeldFrames : Tabled(g)
    BY <1>2, <1>8 DEF HeldAreTabled
  <2> QED BY <1>2, <1>6, <1>7, <2>1, <2>2 DEF HeldAreTabled, Tabled
<1> QED BY <1>10, <1>11, <1>12, <1>13, <1>14, <1>15 DEF Ordered

LEMMA OrderedOtherCall ==
  ASSUME Ordered, Idle, NEW c, c.frame = nullptr, c.last < Low \/ Device <= c.at,
         todo' = <<c>>, UNCHANGED <<enabled_paging, page_tables, held, own>>
  PROVE  Ordered'
<1>1. InOrder /\ LowTabled /\ FreeAreLast /\ OwnAreFirst /\ HeldAreTabled /\ todo = <<>>
  BY DEF Ordered, Idle
<1>2. /\ Len(todo') = 1 /\ todo'[1] = c /\ todo' # <<>>
      /\ HeldFrames' = HeldFrames /\ Taken' = Taken
  BY DEF HeldFrames, Taken, FramesOf
<1>3. InOrder' /\ LowTabled' /\ FreeAreLast'
  BY <1>1, <1>2 DEF InOrder, LowTabled, FreeAreLast, Tabled
<1>4. OwnAreFirst' /\ HeldAreTabled'
  BY <1>1, <1>2 DEF OwnAreFirst, HeldAreTabled, Tabled
<1>5. FirstIsKnown' /\ InnermostIsLast' /\ Waits' /\ Endless'
  BY <1>2 DEF FirstIsKnown, InnermostIsLast, Waits, Endless
<1> QED BY <1>3, <1>4, <1>5 DEF Ordered

LEMMA OrderedFreeFrame ==
  ASSUME PagingInv, Ordered, NEW b \in held, free_frame(b)
  PROVE  Ordered'
<1>1. /\ InOrder /\ LowTabled /\ FreeAreLast /\ OwnAreFirst /\ HeldAreTabled
      /\ todo = <<>> /\ todo' = <<>> /\ page_tables' = page_tables /\ own' = own
      /\ held' = held \ {b}
  BY DEF Ordered, free_frame, free_pages, Idle
<1>2. HeldFrames' \subseteq HeldFrames /\ Taken' \subseteq Taken /\ Taken = own \cup HeldFrames
      /\ own \subseteq Taken' /\ HeldFrames \subseteq Frame
  <2>1. TypeOK
    BY DEF PagingInv, Typed
  <2> QED BY <1>1, <2>1, FramesAndTables DEF HeldFrames, Taken, FramesOf
<1>3. \A g \in HeldFrames : Tabled(g)
  BY <1>1 DEF HeldAreTabled
<1>4. InOrder' /\ LowTabled'
  BY <1>1 DEF InOrder, LowTabled, Tabled
<1>5. FreeAreLast'
  <2> SUFFICES ASSUME NEW g \in Frame, g \notin Taken', ~Tabled(g), NEW h \in Taken'
               PROVE  h < g
    BY <1>1 DEF FreeAreLast, Tabled
  <2>1. g \notin Taken
    BY <1>2, <1>3
  <2> QED BY <1>1, <1>2, <2>1 DEF FreeAreLast
<1>6. OwnAreFirst' /\ HeldAreTabled'
  BY <1>1, <1>2, <1>3 DEF OwnAreFirst, HeldAreTabled, Tabled
<1>7. FirstIsKnown' /\ InnermostIsLast' /\ Waits' /\ Endless'
  BY <1>1 DEF FirstIsKnown, InnermostIsLast, Waits, Endless
<1> QED BY <1>4, <1>5, <1>6, <1>7 DEF Ordered

(***************************************************************************)
(* What a step changes, and that the TLB follows.                          *)
(***************************************************************************)
Asked(v) ==
  \/ \E i \in 1..Len(todo) : /\ todo[i].at = v /\ todo[i].at <= todo[i].last
                            /\ virtual_to_physical(v)' = todo[i].phys
  \/ todo = <<>> /\ v < Low /\ ~is_mapped(v)'

AsAsked == \A v \in Page : virtual_to_physical(v)' # virtual_to_physical(v) => Asked(v)

\* A page of one of the calls in progress is set.
LEMMA OnePageChanges ==
  ASSUME NEW i \in 1..Len(todo), Walk(page_tables', mem', todo[i].at) = todo[i].phys,
         todo[i].at <= todo[i].last,
         \A u \in Page : u # todo[i].at => virtual_to_physical(u)' = virtual_to_physical(u)
  PROVE  AsAsked
BY DEF AsAsked, Asked, virtual_to_physical

LEMMA NoPageChanges ==
  ASSUME UNCHANGED <<page_tables, mem>>
  PROVE  AsAsked
BY DEF AsAsked, virtual_to_physical, Walk

\* alloc_frame's caller gets zeroes: no table is changed by it.
LEMMA DataAreNoTable ==
  ASSUME PagingInv, todo # <<>>, Top.frame # nullptr, Len(todo) = 1,
         mem' = [mem EXCEPT ![Top.frame] = Data], page_tables' = page_tables
  PROVE  /\ \A u \in Page : virtual_to_physical(u)' = virtual_to_physical(u)
         /\ Top = todo[1] /\ todo[1] \in Asking
<1>1. /\ TypeOK /\ Typed /\ FirstIsCallers /\ todo \in Seq(Asking)
      /\ mem \in [Frame -> [Entry -> Page \cup {None}]]
      /\ page_tables \in [Region -> own \cup {nullptr}] /\ own \subseteq Frame
  BY DEF PagingInv, Typed, TypeOK
<1>2. todo[1] \in Asking /\ Top = todo[1]
  BY <1>1 DEF Top, Last
<1>3. Top.frame \in HeldFrames /\ Top.frame \notin own
  <2>1. HeldFrames \cap own = {}
    BY <1>1, FramesAndTables
  <2> QED BY <1>1, <1>2, <2>1 DEF FirstIsCallers
<1>4. ASSUME NEW u \in Page
      PROVE  virtual_to_physical(u)' = virtual_to_physical(u)
  <2> DEFINE r == PD_INDEX(u)
  <2>1. r \in Region
    BY PageIndices
  <2> HIDE DEF r
  <2>2. page_tables[r] = nullptr \/ (page_tables[r] \in Frame /\ page_tables[r] # Top.frame)
    BY <1>1, <1>3, <2>1
  <2>3. page_tables[r] = nullptr \/ mem'[page_tables[r]] = mem[page_tables[r]]
    BY <1>1, <2>2
  <2> QED BY <2>3 DEF virtual_to_physical, Walk, r
<1> QED BY <1>2, <1>4

\* free_page of the first pages: no other page is mapped by an entry of theirs.
LEMMA FreedPagesChange ==
  ASSUME PagingInv, NEW n \in 1..Low, free_pages(0..(n - 1))
  PROVE  \A u \in Page :
           IF u \in 0..(n - 1)
           THEN /\ u < Low
                /\ \/ Walk(page_tables', mem', u) = None
                   \/ virtual_to_physical(u)' = virtual_to_physical(u)
           ELSE virtual_to_physical(u)' = virtual_to_physical(u)
<1>1. /\ OneTablePerRegion /\ mem \in [Frame -> [Entry -> Page \cup {None}]]
      /\ page_tables \in [Region -> own \cup {nullptr}] /\ own \subseteq Frame
  BY DEF PagingInv, Typed, TypeOK
<1>2. page_tables' = page_tables /\
      mem' = [f \in Frame |->
         [i \in Entry |->
            IF \E v \in 0..(n - 1) : page_tables[PD_INDEX(v)] = f /\ PT_INDEX(v) = i
            THEN None ELSE mem[f][i]]]
  BY DEF free_pages
<1>3. n \in Nat /\ n <= Low /\ Low \in Nat /\ 0..(n - 1) \subseteq Page
  <2>1. Low \in Nat /\ 0..(Low - 1) \subseteq Page
    BY Bounds
  <2>2. \A v \in 0..(n - 1) : v \in 0..(Low - 1)
    BY <2>1
  <2> QED BY <2>1, <2>2
<1> HIDE DEF PagingInv
<1> TAKE u \in Page
<1> DEFINE t == page_tables[PD_INDEX(u)]
           i == PT_INDEX(u)
<1>4. PD_INDEX(u) \in Region /\ i \in Entry /\ t \in own \cup {nullptr}
  BY <1>1, PageIndices
<1>5. CASE t = nullptr
  BY <1>2, <1>3, <1>5 DEF virtual_to_physical, Walk
<1>6. CASE t # nullptr /\ u \in 0..(n - 1)
  <2>1. t \in Frame /\ \E v \in 0..(n - 1) : page_tables[PD_INDEX(v)] = t /\ PT_INDEX(v) = i
    BY <1>1, <1>4, <1>6
  <2>2. mem'[t][i] = None
    <3> HIDE DEF t, i
    <3> QED BY <1>2, <1>4, <2>1
  <2> QED BY <1>2, <1>3, <1>6, <2>2 DEF Walk
<1>7. CASE t # nullptr /\ u \notin 0..(n - 1)
  <2>1. t \in Frame
    BY <1>1, <1>4, <1>7
  <2>2. ~\E v \in 0..(n - 1) : page_tables[PD_INDEX(v)] = t /\ PT_INDEX(v) = i
    <3> SUFFICES ASSUME NEW v \in 0..(n - 1), page_tables[PD_INDEX(v)] = t, PT_INDEX(v) = i
                 PROVE  FALSE
      OBVIOUS
    <3>1. v \in Page /\ PD_INDEX(v) \in Region
      BY <1>3, PageIndices
    <3>2. PD_INDEX(v) = PD_INDEX(u)
      BY <1>1, <1>4, <1>7, <3>1 DEF OneTablePerRegion
    <3> QED BY <1>7, <3>1, <3>2, IndicesTellPages
  <2>3. mem'[t][i] = mem[t][i]
    <3> HIDE DEF t, i
    <3> QED BY <1>2, <1>4, <2>1, <2>2
  <2> QED BY <1>2, <1>7, <2>3 DEF virtual_to_physical, Walk
<1> QED BY <1>5, <1>6, <1>7

LEMMA OrderAtBoot ==
  ASSUME PagingInv, BootInv, Separate, OrderInv, ~enabled_paging, Next
  PROVE  OrderInv' /\ AsAsked
<1>1. /\ UNCHANGED fb_size /\ todo # <<>> /\ (MapPage \/ MapTable \/ Return) /\ tlb = {}
  BY DEF Next, alloc_frame, free_frame, map_device, alloc_page, Idle, BootInv
<1>2. ASSUME NEW how, Ends(how) PROVE OrderInv' /\ AsAsked
  <2>1. UNCHANGED <<page_tables, mem, tlb, enabled_paging>>
    BY <1>2 DEF Ends, tables
  <2>2. TlbFresh'
    BY <1>1, <2>1 DEF TlbFresh
  <2> QED BY <2>1, <2>2, NoPageChanges DEF OrderInv
<1>3. ASSUME NEW t \in Frame, set_page(t, todo), Top.at <= Top.last, UNCHANGED enabled_paging,
             \/ page_tables[PD_INDEX(Top.at)] = t
             \/ page_tables[PD_INDEX(Top.at)] = nullptr /\ \A r \in Region : page_tables[r] # t
      PROVE  OrderInv' /\ AsAsked
  <2> DEFINE m == Len(todo)
  <2>1. /\ todo \in Seq(Asking) /\ m \in 1..Len(todo) /\ Len(todo) = m /\ todo[m].at <= todo[m].last
        /\ \A i \in 1..m : todo[i] = todo[i] /\ Top = todo[m]
    BY <1>1, <1>3, Innermost
  <2>2. /\ page_tables[PD_INDEX(todo[m].at)] \in {t, nullptr}
        /\ page_tables[PD_INDEX(todo[m].at)] = t \/ \A r \in Region : page_tables[r] # t
    BY <1>3, <2>1
  <2> HIDE DEF m, PagingInv
  <2>3. /\ Walk(page_tables', mem', todo[m].at) = todo[m].phys
        /\ \A u \in Page : u # todo[m].at => virtual_to_physical(u)' = virtual_to_physical(u)
        /\ tlb' = IF enabled_paging THEN Tlb({todo[m].at}) ELSE {}
    BY <1>3, <2>1, <2>2, SetPageEffect
  <2>4. TlbFresh' /\ ~enabled_paging'
    BY <1>3, <2>3 DEF TlbFresh
  <2> QED BY <2>1, <2>3, <2>4, OnePageChanges DEF OrderInv
<1>4. CASE MapPage /\ ~Ends("fault")
  <2> DEFINE t == page_tables[PD_INDEX(Top.at)]
  <2>1. Top.at <= Top.last /\ t # nullptr /\ set_page(t, todo) /\ UNCHANGED enabled_paging
    BY <1>4 DEF MapPage
  <2>2. t \in Frame
    BY <1>1, <2>1, Innermost
  <2> QED BY <1>3, <2>1, <2>2
<1>5. CASE MapTable /\ ~Ends("wild") /\ ~Ends("overflow")
  <2>1. PICK f \in FirstFit(1) : set_page(f, todo) /\ UNCHANGED enabled_paging
    BY <1>5 DEF MapTable
  <2>2. f \in Frame /\ \A r \in Region : page_tables[r] # f
    BY FitsOne, WhatTakenIs DEF PagingInv
  <2>3. Top.at <= Top.last /\ page_tables[PD_INDEX(Top.at)] = nullptr
    BY <1>5 DEF MapTable
  <2> QED BY <1>3, <2>1, <2>2, <2>3
<1>6. CASE Return
  <2>1. Top.frame = nullptr
    BY <1>1, Innermost DEF PagingInv, BootHoldsNothing
  <2>2. /\ UNCHANGED <<page_tables, mem>> /\ enabled_paging' = (enabled_paging \/ Len(todo) = 1)
        /\ tlb' = IF enabled_paging' THEN Tlb({}) ELSE {}
    BY <1>6, <2>1 DEF Return
  <2>3. AsAsked
    BY <2>2, NoPageChanges
  <2>4. TlbFresh'
    <3>1. CASE ~enabled_paging'
      BY <2>2, <3>1 DEF TlbFresh
    <3>2. CASE enabled_paging'
      <4>1. TlbFresh
        BY DEF OrderInv
      <4>2. \A u \in Page : virtual_to_physical(u)' = virtual_to_physical(u)
        BY <2>2, TheSameIsMapped
      <4> QED BY <2>2, <3>2, <4>1, <4>2, FlushKeepsFresh
    <3> QED BY <3>1, <3>2
  <2>5. enabled_paging' => Ordered'
    BY <1>1, <1>6, <2>2, BootEnds
  <2> QED BY <2>3, <2>4, <2>5 DEF OrderInv
<1> QED BY <1>1, <1>2, <1>4, <1>5, <1>6

LEMMA OrderedEnds ==
  ASSUME TlbFresh, Ordered, NEW how, Ends(how), UNCHANGED fb_size
  PROVE  TlbFresh' /\ Ordered' /\ AsAsked
<1>1. UNCHANGED <<enabled_paging, page_tables, mem, tlb, held, own, todo>>
  BY DEF Ends, tables
<1>2. TlbFresh' /\ AsAsked
  BY <1>1, NoPageChanges, TheSameIsMapped, SameKeepsFresh
<1>3. InOrder' /\ LowTabled' /\ FirstIsKnown' /\ InnermostIsLast' /\ Waits' /\ Endless'
  BY <1>1 DEF Ordered, InOrder, LowTabled, FirstIsKnown, InnermostIsLast, Waits, Endless,
     Tabled, HasTable, HeldFrames, Taken, FramesOf
<1>4. Len(todo') <= 2 => FreeAreLast' /\ OwnAreFirst' /\ HeldAreTabled'
  BY <1>1 DEF Ordered, FreeAreLast, OwnAreFirst, HeldAreTabled,
     Tabled, HasTable, HeldFrames, Taken, FramesOf, Span
<1> QED BY <1>2, <1>3, <1>4 DEF Ordered

\* A call in progress, with paging on.
LEMMA OrderedStep ==
  ASSUME PagingInv, Separate, TlbFresh, Ordered, enabled_paging, todo # <<>>,
         MapPage \/ MapTable \/ Return, UNCHANGED fb_size
  PROVE  TlbFresh' /\ Ordered' /\ AsAsked
<1>1. ASSUME NEW how, Ends(how) PROVE TlbFresh' /\ Ordered' /\ AsAsked
  BY <1>1, OrderedEnds
<1>2. ASSUME NEW m \in 1..Len(todo), Walk(page_tables', mem', todo[m].at) = todo[m].phys,
             todo[m].at <= todo[m].last,
             \A u \in Page : u # todo[m].at => virtual_to_physical(u)' = virtual_to_physical(u),
             tlb' = Tlb({todo[m].at})
      PROVE  TlbFresh' /\ AsAsked
  BY <1>2, OnePageChanges, FlushKeepsFresh
<1>3. ASSUME UNCHANGED <<page_tables, mem>>, tlb' = tlb \/ tlb' = Tlb({})
      PROVE  TlbFresh' /\ AsAsked
  <2>1. \A u \in Page : virtual_to_physical(u)' = virtual_to_physical(u)
    BY <1>3, TheSameIsMapped
  <2> QED BY <1>3, <2>1, NoPageChanges, SameKeepsFresh, FlushKeepsFresh
<1>4. CASE MapPage /\ ~Ends("fault")
  <2> DEFINE t == page_tables[PD_INDEX(Top.at)]
  <2>1. /\ Top.at <= Top.last /\ t # nullptr /\ set_page(t, todo)
        /\ UNCHANGED <<enabled_paging, held, own>>
    BY <1>4 DEF MapPage
  <2>2. /\ t \in Frame /\ page_tables[PD_INDEX(Top.at)] = t
        /\ Top = todo[Len(todo)] /\ Len(todo) \in 1..Len(todo)
    BY <2>1, Innermost
  <2> HIDE DEF t, PagingInv, Ordered
  <2>3. /\ Ordered'
        /\ \A u \in Page : u # Top.at => virtual_to_physical(u)' = virtual_to_physical(u)
        /\ Walk(page_tables', mem', Top.at) = Top.phys
        /\ tlb' = Tlb({Top.at})
    BY <2>1, <2>2, OrderedMapPage
  <2> QED BY <1>2, <2>1, <2>2, <2>3
<1>5. CASE MapTable /\ ~Ends("wild") /\ ~Ends("overflow")
  <2>1. PICK f \in FirstFit(1) :
          /\ own' = own \cup {f} /\ todo' = Append(todo, Call(f, f + 1, f, f))
          /\ UNCHANGED <<enabled_paging, tables, held, status>>
    BY <1>5 DEF MapTable
  <2>2. Top.at <= Top.last /\ page_tables[PD_INDEX(Top.at)] = nullptr
    BY <1>5 DEF MapTable
  <2>3. Ordered'
    BY <2>1, <2>2, OrderedNestedCall
  <2> QED BY <1>3, <2>1, <2>3 DEF tables
<1>6. CASE Return /\ Top.frame # nullptr /\ ~Ends("fault") /\ Len(todo) > 1
  <2>1. /\ Top.at > Top.last /\ set_page(Top.frame, Front(todo))
        /\ UNCHANGED <<enabled_paging, held, own, status>>
    BY <1>6 DEF Return
  <2> HIDE DEF PagingInv, Ordered
  <2>2. /\ Ordered' /\ Len(todo) = 2
        /\ \A u \in Page : u # todo[1].at => virtual_to_physical(u)' = virtual_to_physical(u)
        /\ Walk(page_tables', mem', todo[1].at) = todo[1].phys
        /\ tlb' = Tlb({todo[1].at})
    BY <1>6, <2>1, OrderedNestedReturn
  <2>3. 1 \in 1..Len(todo)
    BY <2>2
  <2>4. todo[1].at <= todo[1].last
    <3>1. 2 \in 2..Len(todo) /\ 2 - 1 = 1
      BY <2>2
    <3> QED BY <3>1 DEF PagingInv, Nested
  <2> QED BY <1>2, <2>2, <2>3, <2>4
<1>7. CASE Return /\ ~Ends("fault") /\ (Top.frame = nullptr \/ ~(Len(todo) > 1))
  <2>1. Len(todo) = 1 /\ Span(todo[1]) = {} /\ Top = todo[1]
    <3> DEFINE k == Len(todo)
    <3>1. k \in Nat \ {0} /\ Top = todo[k] /\ todo[k] \in Asking /\ own \subseteq Frame
      BY Innermost
    <3>2. k # 1 => Top.frame # nullptr
      <4> SUFFICES ASSUME k # 1 PROVE Top.frame \in own
        BY <3>1, FramesArePages
      <4>1. k \in 2..Len(todo)
        <5> HIDE DEF k, PagingInv
        <5>1. k \in 2..k
          BY <3>1
        <5> QED BY <5>1 DEF k
      <4> QED BY <3>1, <4>1 DEF PagingInv, Nested
    <3>3. Top.at > Top.last
      BY <1>7 DEF Return
    <3>4. k = 1
      <4>1. k = 1 \/ ~(k > 1)
        BY <1>7, <3>2
      <4> HIDE DEF k, PagingInv
      <4> QED BY <3>1, <4>1
    <3>5. Span(todo[1]) = {}
      BY <3>1, <3>3, <3>4 DEF Span, Asking
    <3> QED BY <3>1, <3>4, <3>5
  <2>2. /\ todo' = <<>> /\ UNCHANGED <<enabled_paging, page_tables, held, own>>
        /\ \/ UNCHANGED <<page_tables, tlb>> /\ Top.frame # nullptr
              /\ mem' = [mem EXCEPT ![Top.frame] = Data]
           \/ UNCHANGED mem /\ tlb' = Tlb({})
    <3>1. CASE Top.frame # nullptr
      <4>1. ~(Len(todo) > 1)
        BY <2>1
      <4> QED BY <1>7, <3>1, <4>1 DEF Return
    <3>2. CASE Top.frame = nullptr
      <4>1. todo' = Front(todo)
        BY <1>7, <3>2 DEF Return
      <4>2. todo \in Seq(Asking)
        BY Innermost
      <4>3. Front(todo) \in Seq(Asking) /\ Len(Front(todo)) = 0
        BY <2>1, <4>2, CallsAround
      <4>4. todo' = <<>>
        BY <4>1, <4>3, EmptySeq
      <4> QED BY <1>7, <3>2, <4>4 DEF Return
    <3> QED BY <3>1, <3>2
  <2>3. Ordered'
    BY <2>1, <2>2, OrderedDone
  <2>4. CASE UNCHANGED <<page_tables, tlb>> /\ Top.frame # nullptr
             /\ mem' = [mem EXCEPT ![Top.frame] = Data]
    <3>1. \A u \in Page : virtual_to_physical(u)' = virtual_to_physical(u)
      BY <2>1, <2>4, DataAreNoTable
    <3>2. TlbFresh'
      BY <2>4, <3>1, SameKeepsFresh
    <3> QED BY <2>3, <3>1, <3>2 DEF AsAsked
  <2> QED BY <1>3, <2>2, <2>3, <2>4
<1> QED BY <1>1, <1>4, <1>5, <1>6, <1>7

LEMMA OrderedKernelCall ==
  ASSUME PagingInv, Separate, TlbFresh, Ordered, UNCHANGED fb_size,
         \/ \E k \in Blocks : alloc_frame(k)
         \/ \E b \in held : free_frame(b) \/ \E v \in 0..(Low - 1) : alloc_page(v, b.addr)
         \/ map_device
  PROVE  TlbFresh' /\ Ordered' /\ AsAsked
<1>1. ASSUME UNCHANGED tables PROVE TlbFresh' /\ AsAsked
  BY <1>1, NoPageChanges, TheSameIsMapped, SameKeepsFresh DEF tables
<1>2. ASSUME NEW k \in Blocks, alloc_frame(k) PROVE TlbFresh' /\ Ordered' /\ AsAsked
  <2>1. Ordered'
    BY <1>2, OrderedAllocFrame
  <2> QED BY <1>1, <1>2, <2>1 DEF alloc_frame
<1>3. ASSUME NEW b \in held, free_frame(b) PROVE TlbFresh' /\ Ordered' /\ AsAsked
  <2>1. Ordered'
    BY <1>3, OrderedFreeFrame
  <2>2. PICK n \in 1..Low : free_pages(0..(n - 1))
    BY <1>3 DEF free_frame
  <2>3. todo = <<>> /\ tlb' = Tlb(0..(n - 1))
    BY <1>3, <2>2 DEF free_frame, Idle, free_pages, Flushed
  <2> HIDE DEF PagingInv, Ordered
  <2>4. \A u \in Page :
          IF u \in 0..(n - 1)
          THEN /\ u < Low
               /\ \/ Walk(page_tables', mem', u) = None
                  \/ virtual_to_physical(u)' = virtual_to_physical(u)
          ELSE virtual_to_physical(u)' = virtual_to_physical(u)
    BY <2>2, FreedPagesChange
  <2>5. TlbFresh'
    BY <2>3, <2>4, FlushKeepsFresh
  <2>6. AsAsked
    BY <2>3, <2>4 DEF AsAsked, Asked, is_mapped, virtual_to_physical
  <2> QED BY <2>1, <2>5, <2>6
<1>4. ASSUME NEW c, c.frame = nullptr, c.last < Low \/ Device <= c.at, Idle, todo' = <<c>>,
             UNCHANGED <<enabled_paging, tables, held, own, status>>
      PROVE  TlbFresh' /\ Ordered' /\ AsAsked
  <2>1. Ordered'
    BY <1>4, OrderedOtherCall DEF tables
  <2> QED BY <1>1, <1>4, <2>1
<1>5. ASSUME NEW v \in 0..(Low - 1), NEW p, alloc_page(v, p)
      PROVE  TlbFresh' /\ Ordered' /\ AsAsked
  <2> DEFINE c == Call(v, v, p, nullptr)
  <2>1. c.frame = nullptr /\ c.last < Low
    BY Bounds DEF Call
  <2>2. /\ Idle /\ todo' = <<c>>
        /\ UNCHANGED <<enabled_paging, tables, held, own, status>>
    BY <1>5 DEF alloc_page
  <2> HIDE DEF c
  <2> QED BY <1>4, <2>1, <2>2
<1>6. ASSUME map_device PROVE TlbFresh' /\ Ordered' /\ AsAsked
  <2> DEFINE c == Identity(Device, Device + 2)
  <2>1. c.frame = nullptr /\ Device <= c.at
    BY Bounds DEF Identity, Call
  <2>2. /\ Idle /\ todo' = <<c>>
        /\ UNCHANGED <<enabled_paging, tables, held, own, status>>
    BY <1>6 DEF map_device
  <2> HIDE DEF c
  <2> QED BY <1>4, <2>1, <2>2
<1> QED BY <1>2, <1>3, <1>5, <1>6

LEMMA OrderNext ==
  ASSUME PagingInv, BootInv, Separate, OrderInv, [Next]_vars
  PROVE  OrderInv' /\ AsAsked
<1>1. CASE UNCHANGED vars
  <2>1. UNCHANGED fb_size /\ UNCHANGED enabled_paging /\ Ends(status)
        /\ UNCHANGED <<page_tables, mem, tlb>>
    BY <1>1 DEF vars, tables, Ends
  <2>2. TlbFresh' /\ AsAsked
    BY <2>1, NoPageChanges, TheSameIsMapped, SameKeepsFresh DEF OrderInv
  <2>3. enabled_paging => Ordered'
    BY <2>1, OrderedEnds DEF OrderInv
  <2> QED BY <2>1, <2>2, <2>3 DEF OrderInv
<1>2. CASE Next /\ ~enabled_paging
  BY <1>2, OrderAtBoot
<1>3. CASE Next /\ enabled_paging
  <2>1. UNCHANGED fb_size /\ TlbFresh /\ Ordered
    BY <1>3 DEF Next, OrderInv
  <2>2. CASE todo # <<>> /\ (MapPage \/ MapTable \/ Return)
    <3>1. TlbFresh' /\ Ordered' /\ AsAsked
      BY <1>3, <2>1, <2>2, OrderedStep
    <3> QED BY <3>1 DEF OrderInv
  <2>3. CASE \/ \E k \in Blocks : alloc_frame(k)
             \/ \E b \in held : free_frame(b) \/ \E v \in 0..(Low - 1) : alloc_page(v, b.addr)
             \/ map_device
    <3>1. TlbFresh' /\ Ordered' /\ AsAsked
      BY <2>1, <2>3, OrderedKernelCall
    <3> QED BY <3>1 DEF OrderInv
  <2> QED BY <1>3, <2>2, <2>3 DEF Next
<1> QED BY <1>1, <1>2, <1>3

LEMMA InitBoot ==
  ASSUME Init PROVE BootInv /\ OrderInv
<1>1. /\ ~enabled_paging /\ fb_size \in FbSizes /\ page_tables = [r \in Region |-> nullptr]
      /\ tlb = {} /\ own = {LOW_DATA_START_ADDR, LOW_DATA_START_ADDR + 1} /\ todo = Boot
  BY DEF Init, Boot
<1>2. /\ Len(Boot) = 4 /\ Boot[4] = Identity(0, METADATA_ADDR + 1)
      /\ \A i \in 1..4 : Boot[i] \in Asking /\ Boot[i].phys = Boot[i].at
  BY <1>1, BootCallsAre
<1>3. \A g \in Frame, h \in own : g <= h => g \in own
  BY <1>1, Bounds DEF Frame
<1>4. TabledRegions = {}
  BY <1>1 DEF TabledRegions
<1>5. Cardinality(own) = 2 + Cardinality(TabledRegions)
  <2>1. Cardinality(TabledRegions) = 0
    BY <1>4, FS_EmptySet
  <2> DEFINE g == LOW_DATA_START_ADDR
  <2>2. g # g + 1
    BY Bounds
  <2> HIDE DEF g
  <2>3. /\ IsFiniteSet({}) /\ Cardinality({}) = 0
    BY FS_EmptySet
  <2>4. IsFiniteSet({g}) /\ Cardinality({g}) = 1
    BY FS_Singleton
  <2>5. Cardinality({g} \cup {g + 1}) = 2
    BY <2>2, <2>4, FS_AddElement
  <2>6. own = {g} \cup {g + 1}
    BY <1>1 DEF g
  <2> QED BY <2>1, <2>5, <2>6
<1>6. \A i \in 1..4 : \A v \in Span(Boot[i]) :
        ~(i > 4) /\ ~(i = 4 /\ v < Boot[i].at)
  BY <1>2 DEF Span, Asking
<1>7. Boot[4].at >= Boot[4].at
  BY <1>2 DEF Asking
<1>8. Booting
  BY <1>1, <1>2, <1>3, <1>4, <1>5, <1>6, <1>7 DEF Booting, TabledRegions
<1> QED BY <1>1, <1>8 DEF BootInv, OrderInv, TlbFresh

MappingInv == PagingInv /\ BootInv /\ (Separate => OrderInv)

LEMMA MappingInvHolds == Spec => []MappingInv
<1>1. Init => MappingInv
  BY InitHolds, InitBoot DEF MappingInv
<1>2. MappingInv /\ [Next]_vars => MappingInv'
  BY NextKeeps, BootNext, OrderNext DEF MappingInv, Separate
<1> QED BY <1>1, <1>2, PTL DEF Spec

(***************************************************************************)
(* With framebuffer and device in regions behind the frames, the TLB never *)
(* holds a translation other than that of the tables: alloc_page and       *)
(* free_page flush every page that their writes change, those included     *)
(* that a new table unmaps or maps.                                        *)
(***************************************************************************)
THEOREM TlbStaysFresh == Spec => []TlbIsFresh
<1>1. MappingInv => TlbIsFresh
  BY DEF MappingInv, OrderInv, TlbFresh, TlbIsFresh
<1> QED BY <1>1, MappingInvHolds, PTL

(***************************************************************************)
(* There, a page changes only when it is asked for and to what was asked:  *)
(* alloc_page never replaces a table that is in use, and no caller writes  *)
(* to a frame that is a table.                                             *)
(***************************************************************************)
THEOREM NothingElseChanges == Spec => OnlyRequestedPagesChange
<1> DEFINE Changes ==
      \A v \in Page : Separate /\ virtual_to_physical(v)' # virtual_to_physical(v) =>
        \/ \E i \in 1..Len(todo) : /\ todo[i].at = v
                                   /\ virtual_to_physical(v)' = todo[i].phys
        \/ todo = <<>> /\ v < Low /\ ~is_mapped(v)'
<1>1. MappingInv /\ [Next]_vars => [Changes]_vars
  <2> SUFFICES ASSUME MappingInv, [Next]_vars PROVE Changes
    OBVIOUS
  <2>1. Separate => AsAsked
    BY OrderNext DEF MappingInv
  <2> QED BY <2>1 DEF AsAsked, Asked
<1>2. [][Changes]_vars <=> OnlyRequestedPagesChange
  BY DEF OnlyRequestedPagesChange
<1> QED BY <1>1, <1>2, MappingInvHolds, PTL DEF Spec
-----------------------------------------------------------------------------
(***************************************************************************)
(* How the kernel stops.                                                   *)
(***************************************************************************)

\* A table that could be accessed still can.
LEMMA OwnKept ==
  ASSUME PagingInv, AsAsked, OwnMapped, enabled_paging, NEW f \in own,
         \A i \in 2..Len(todo) : todo[i].frame = f => f < todo[i].at
  PROVE  virtual_to_physical(f)' = f
<1>1. /\ own \subseteq Frame /\ todo \in Seq(Asking) /\ AllIdentical
  BY DEF PagingInv, Typed, TypeOK
<1>2. f \in Frame /\ f \in Page /\ f >= Low /\ f \in Nat /\ Low \in Nat
  BY <1>1, FramesArePages, Bounds
<1>3. virtual_to_physical(f) = f
  BY DEF OwnMapped
<1>4. CASE virtual_to_physical(f)' # virtual_to_physical(f)
  <2>1. Asked(f)
    BY <1>2, <1>4 DEF AsAsked
  <2>2. PICK i \in 1..Len(todo) : /\ todo[i].at = f /\ todo[i].at <= todo[i].last
                                  /\ virtual_to_physical(f)' = todo[i].phys
    BY <1>2, <2>1 DEF Asked
  <2>3. todo[i] \in Asking /\ Identical(todo[i])
    BY <1>1 DEF AllIdentical
  <2>4. todo[i].at \in Frame => todo[i].phys = todo[i].at
    BY <2>2, <2>3, NextPage
  <2> QED BY <1>2, <2>2, <2>4
<1> QED BY <1>3, <1>4

LEMMA OwnStep ==
  ASSUME PagingInv, Separate, TlbFresh, Ordered, OwnMapped, enabled_paging, todo # <<>>,
         MapPage \/ MapTable \/ Return, UNCHANGED fb_size
  PROVE  OwnMapped'
<1>1. AsAsked
  BY OrderedStep
<1> DEFINE n == Len(todo)
<1>2. /\ todo \in Seq(Asking) /\ n \in 1..n /\ n \in Nat \ {0} /\ Top = todo[n]
      /\ own \subseteq Frame /\ Top \in Asking
  BY Innermost
<1>3. CASE UNCHANGED <<own, todo>>
  <2> SUFFICES ASSUME NEW f \in own,
                      \A i \in 2..Len(todo) : todo[i].frame = f => f < todo[i].at
               PROVE  virtual_to_physical(f)' = f
    BY <1>3 DEF OwnMapped
  <2> QED BY <1>1, OwnKept
<1>4. CASE MapPage /\ ~Ends("fault")
  <2> DEFINE t == page_tables[PD_INDEX(Top.at)]
  <2>1. /\ Top.at <= Top.last /\ t # nullptr /\ set_page(t, todo)
        /\ UNCHANGED <<enabled_paging, held, own>>
    BY <1>4 DEF MapPage
  <2>2. /\ t \in Frame /\ page_tables[PD_INDEX(Top.at)] = t
    BY <2>1, Innermost
  <2> HIDE DEF t, PagingInv, Ordered, OwnMapped
  <2>3. Walk(page_tables', mem', Top.at) = Top.phys
    BY <2>1, <2>2, OrderedMapPage
  <2>4. /\ Len(todo') = n /\ \A i \in 1..n - 1 : todo'[i] = todo[i]
        /\ todo'[n] = [todo[n] EXCEPT !.at = @ + 1, !.phys = @ + 1]
    BY <1>2, <2>1, WhatSetPageDoes
  <2> SUFFICES ASSUME NEW f \in own,
                      \A i \in 2..n : todo'[i].frame = f => f < todo'[i].at
               PROVE  Walk(page_tables', mem', f) = f
    BY <2>1, <2>4 DEF OwnMapped, virtual_to_physical
  <2>5. CASE f = Top.at
    <3>1. Identical(Top)
      BY <1>2 DEF PagingInv, AllIdentical
    <3>2. Top.at \in Frame => Top.phys = Top.at
      <4> HIDE DEF Top
      <4> QED BY <1>2, <2>1, <3>1, NextPage
    <3> QED BY <1>2, <2>3, <2>5, <3>2
  <2>6. CASE f # Top.at
    <3> SUFFICES ASSUME NEW i \in 2..n, todo[i].frame = f PROVE f < todo[i].at
      BY <1>1, OwnKept DEF virtual_to_physical
    <3>1. i \in 1..n - 1 \/ i = n
      BY <1>2
    <3>2. CASE i \in 1..n - 1
      BY <2>4, <3>2
    <3>3. CASE i = n
      <4>1. todo'[n].frame = Top.frame /\ todo'[n].at = Top.at + 1
        BY <1>2, <2>4 DEF Asking
      <4>2. f < Top.at + 1
        BY <1>2, <3>3, <4>1
      <4>3. f \in Nat /\ Top.at \in Nat
        BY <1>2, FramesArePages DEF Asking
      <4> HIDE DEF Top
      <4> QED BY <1>2, <2>6, <3>3, <4>2, <4>3
    <3> QED BY <3>1, <3>2, <3>3
  <2> QED BY <2>5, <2>6
<1>5. CASE MapTable /\ ~Ends("wild") /\ ~Ends("overflow")
  <2>1. PICK f \in FirstFit(1) :
          own' = own \cup {f} /\ todo' = Append(todo, Call(f, f + 1, f, f))
    BY <1>5 DEF MapTable
  <2> DEFINE d == Call(f, f + 1, f, f)
  <2>2. d.at = f /\ d.frame = f /\ d \in Asking /\ f \in Nat
    <3>1. f \in Nat
      BY FitsOne, FramesArePages
    <3> QED BY <3>1 DEF Call, Asking
  <2> HIDE DEF d, n, PagingInv, Ordered
  <2>3. /\ Len(todo') = n + 1 /\ \A i \in 1..n : todo'[i] = todo[i]
        /\ todo'[n + 1] = d
    BY <1>2, <2>1, <2>2, AppendProperties DEF d, n
  <2> SUFFICES ASSUME NEW g \in own',
                      \A i \in 2..n + 1 : todo'[i].frame = g => g < todo'[i].at
               PROVE  virtual_to_physical(g)' = g
    BY <2>3 DEF OwnMapped
  <2>4. n + 1 \in 2..n + 1 /\ \A i \in 2..n : i \in 2..n + 1 /\ i \in 1..n
    BY <1>2
  <2>5. g # f
    BY <2>2, <2>3, <2>4
  <2>6. \A i \in 2..Len(todo) : todo[i].frame = g => g < todo[i].at
    BY <2>3, <2>4 DEF n
  <2> QED BY <1>1, <2>1, <2>5, <2>6, OwnKept
<1>6. CASE Return /\ ~Ends("fault")
  <2>1. own' = own /\ Top.at > Top.last
    BY <1>6 DEF Return
  <2>2. \A f \in own, i \in 2..n : todo[i].frame = f => f < todo[i].at
    <3> SUFFICES ASSUME NEW i \in 2..n PROVE todo[i].frame < todo[i].at
      OBVIOUS
    <3>1. n >= 2 /\ Len(todo) >= 2
      BY <1>2
    <3>2. Top.frame \in Frame /\ Top.last = Top.frame + 1
      BY <1>2, <3>1 DEF Ordered, InnermostIsLast
    <3>3. Top.frame # nullptr
      BY <3>2, FramesArePages
    <3>4. Len(todo) > 1
      <4> HIDE DEF n
      <4> QED BY <1>2, <3>1 DEF n
    <3>5. set_page(Top.frame, Front(todo)) /\ UNCHANGED <<enabled_paging, held, own, status>>
      BY <1>6, <3>3, <3>4 DEF Return
    <3>6. Len(todo) = 2
      BY <2>1, <3>4, <3>5, OrderedNestedReturn
    <3>7. todo[i] = Top
      <4>1. i = n
        BY <3>6
      <4> QED BY <1>2, <4>1
    <3> HIDE DEF Top
    <3> QED BY <1>2, <2>1, <3>2, <3>7, FramesArePages DEF Asking
  <2>3. \A f \in own : virtual_to_physical(f)' = f
    BY <1>1, <2>2, OwnKept
  <2> QED BY <2>1, <2>3 DEF OwnMapped
<1>7. ASSUME NEW how, Ends(how) PROVE OwnMapped'
  BY <1>3, <1>7 DEF Ends
<1> QED BY <1>4, <1>5, <1>6, <1>7

LEMMA OwnKernelCall ==
  ASSUME PagingInv, AsAsked, OwnMapped, enabled_paging,
         \/ \E k \in Blocks : alloc_frame(k)
         \/ \E b \in held : free_frame(b) \/ \E v \in 0..(Low - 1) : alloc_page(v, b.addr)
         \/ map_device
  PROVE  OwnMapped'
<1>1. todo = <<>> /\ own' = own
  BY DEF alloc_frame, free_frame, alloc_page, map_device, Idle
<1>2. \A i \in 2..Len(todo) : FALSE
  BY <1>1
<1>3. \A f \in own : virtual_to_physical(f)' = f
  BY <1>2, OwnKept
<1> QED BY <1>1, <1>3 DEF OwnMapped

\* There are no more tables than regions that vmm::init maps pages of, so all of
\* them are in the six pages that it maps for them.
LEMMA OwnAtBoot ==
  ASSUME PagingInv, BootInv, Few, ~enabled_paging, Len(todo) = 1, Return
  PROVE  OwnMapped'
<1>1. Booting /\ todo \in Seq(Asking) /\ fb_size \in FbSizes /\ own \subseteq Frame
  BY DEF BootInv, PagingInv, Typed, TypeOK
<1>2. Top = todo[1] /\ todo[1] \in Asking /\ todo # <<>>
  BY <1>1 DEF Top, Last
<1>3. Top.frame = nullptr
  BY <1>2 DEF PagingInv, BootHoldsNothing
<1>4. /\ todo[1].at > todo[1].last /\ todo' = Front(todo)
      /\ UNCHANGED <<page_tables, mem, own>>
  BY <1>2, <1>3 DEF Return
<1> HIDE DEF PagingInv, BootInv
<1>5. /\ Boot \in Seq(Asking) /\ Len(Boot) = 4
      /\ Boot[1].at = LOW_DATA_START_ADDR /\ Boot[1].last = LOW_DATA_START_ADDR + 5
      /\ \A i \in 1..4 : Span(Boot[i]) \subseteq Page
  BY <1>1, BootCallsAre DEF Identity, Call
<1>6. Cardinality(TabledRegions) <= 4
  <2>1. BootRegions \subseteq Region
    <3> SUFFICES ASSUME NEW c \in Range(Boot), NEW v \in c.at..c.last PROVE PD_INDEX(v) \in Region
      BY DEF BootRegions, Boot
    <3>1. PICK i \in 1..4 : c = Boot[i]
      BY <1>5 DEF Range
    <3>2. v \in Page
      BY <1>5, <3>1 DEF Span
    <3> QED BY <3>2, PageIndices
  <2>2. TabledRegions \subseteq BootRegions
    <3> SUFFICES ASSUME NEW r \in Region, page_tables[r] # nullptr PROVE r \in BootRegions
      BY DEF TabledRegions
    <3>1. PICK i \in 1..4 : \E v \in Span(Boot[i]) : r = PD_INDEX(v)
      BY <1>1 DEF Booting
    <3>2. PICK v \in Span(Boot[i]) : r = PD_INDEX(v)
      BY <3>1
    <3>3. Boot[i] \in Range(Boot)
      BY <1>5 DEF Range
    <3>4. v \in UNION {c.at..c.last : c \in Range(Boot)}
      BY <3>3 DEF Span
    <3> QED BY <3>2, <3>4 DEF BootRegions, Boot
  <2>3. IsFiniteSet(BootRegions) /\ Cardinality(BootRegions) \in Nat
    BY <2>1, RegionsAreFinite
  <2>4. Cardinality(TabledRegions) <= Cardinality(BootRegions) /\ Cardinality(TabledRegions) \in Nat
    BY <2>2, <2>3, FS_Subset, FS_CardinalityType
  <2> QED BY <2>3, <2>4 DEF Few
<1>7. Cardinality(own) <= 6 /\ Cardinality(own) \in Nat /\ IsFiniteSet(own)
  <2>1. Cardinality(own) = 2 + Cardinality(TabledRegions)
    BY <1>1 DEF Booting, TabledRegions
  <2>2. Cardinality(own) \in Nat /\ Cardinality(TabledRegions) \in Nat /\ IsFiniteSet(own)
    BY <1>1, RegionsAreFinite DEF TabledRegions
  <2> QED BY <1>6, <2>1, <2>2
<1>8. ASSUME NEW f \in own PROVE f \in Span(Boot[1])
  <2> DEFINE first == LOW_DATA_START_ADDR
  <2>1. f \in Frame /\ first \in Nat /\ f \in Nat /\ Limit - 1 \in Nat /\ first <= f /\ f <= Limit - 1
    BY <1>1, Bounds, FramesArePages DEF Frame
  <2>2. CASE f > first + 5
    <3>1. first..(first + 6) \subseteq own
      <4> SUFFICES ASSUME NEW g \in first..(first + 6) PROVE g \in own
        OBVIOUS
      <4>1. g \in Frame /\ g <= f
        BY <2>1, <2>2 DEF Frame
      <4> QED BY <1>1, <4>1 DEF Booting
    <3>2. Cardinality(first..(first + 6)) = 7
      <4>1. first \in Int /\ first + 6 \in Int /\ ~(first > first + 6) /\ first + 6 - first + 1 = 7
        BY <2>1
      <4> HIDE DEF first
      <4>2. Cardinality(first..(first + 6)) =
              IF first > first + 6 THEN 0 ELSE first + 6 - first + 1
        BY <4>1, FS_Interval
      <4> QED BY <4>1, <4>2
    <3>3. Cardinality(first..(first + 6)) <= Cardinality(own)
      <4> HIDE DEF first
      <4> QED BY <1>7, <3>1, FS_Subset
    <3> QED BY <1>7, <3>2, <3>3
  <2>3. CASE f <= first + 5
    BY <1>5, <2>1, <2>3 DEF Span
  <2> QED BY <2>1, <2>2, <2>3
<1>9. ASSUME NEW f \in own PROVE virtual_to_physical(f) = f
  <2>1. f \in Span(Boot[1])
    BY <1>8
  <2>2. f < todo[1].at
    <3>1. Boot[1].last = todo[1].last
      BY <1>1, <1>2 DEF Booting
    <3> QED BY <1>2, <1>4, <2>1, <3>1 DEF Span, Asking
  <2>3. 1 \in 1..4 /\ Len(todo) = 1
    OBVIOUS
  <2> QED BY <1>1, <2>1, <2>2, <2>3 DEF Booting
<1> QED BY <1>4, <1>9 DEF OwnMapped, virtual_to_physical, Walk

\* The table that is written and the frame that is zeroed can be accessed.
LEMMA NoFault ==
  ASSUME PagingInv, enabled_paging => Ordered /\ OwnMapped, status = "ok", todo # <<>>,
         MapPage \/ MapTable \/ Return
  PROVE  status' # "fault"
<1> SUFFICES ASSUME status' = "fault" PROVE FALSE
  OBVIOUS
<1> DEFINE n == Len(todo)
<1>1. /\ todo \in Seq(Asking) /\ n \in 1..n /\ n \in Nat \ {0} /\ Top = todo[n]
      /\ own \subseteq Frame /\ Top \in Asking
      /\ OneTablePerRegion /\ Nested /\ FirstIsCallers /\ KeptMapped /\ BootHoldsNothing /\ TypeOK
  BY Innermost DEF PagingInv, Typed
<1>2. CASE MapPage
  <2> DEFINE t == page_tables[PD_INDEX(Top.at)]
  <2>1. /\ Top.at <= Top.last /\ t # nullptr /\ ~Accessible(t)
    BY <1>2 DEF MapPage
  <2>2. t \in own /\ PD_INDEX(Top.at) \in Region
    BY <2>1, Innermost
  <2>3. enabled_paging
    BY <2>1 DEF Accessible
  <2>4. \A i \in 2..Len(todo) : todo[i].frame # t
    BY <1>1, <2>2, <2>3 DEF Nested
  <2>5. virtual_to_physical(t) = t
    <3> HIDE DEF t
    <3> QED BY <2>2, <2>3, <2>4 DEF OwnMapped
  <2> HIDE DEF t
  <2> QED BY <2>1, <2>5 DEF Accessible
<1>3. CASE MapTable
  BY <1>3 DEF MapTable, Ends
<1>4. CASE Return
  <2> DEFINE f == Top.frame
  <2>1. Top.at > Top.last /\ f # nullptr /\ ~Accessible(f)
    BY <1>4 DEF Return
  <2>2. enabled_paging
    BY <2>1 DEF Accessible
  <2>3. CASE n = 1
    <3>1. f \in HeldFrames
      BY <1>1, <2>1, <2>3 DEF FirstIsCallers
    <3>2. \A i \in 1..Len(todo) : f \notin Span(todo[i])
      BY <1>1, <2>1, <2>3 DEF Span, Asking
    <3>3. virtual_to_physical(f) = f
      <4> HIDE DEF f
      <4> QED BY <1>1, <3>1, <3>2 DEF KeptMapped
    <3> QED BY <2>1, <3>3 DEF Accessible
  <2>4. CASE n # 1
    <3>1. n \in 2..n /\ n >= 2
      <4> HIDE DEF n
      <4> QED BY <1>1, <2>4
    <3>2. f \in own /\ \A i \in 2..n : todo[i].frame = f => i = n
      BY <1>1, <2>2, <3>1 DEF Nested
    <3>3. Top.last = f + 1
      BY <1>1, <2>2, <3>1 DEF Ordered, InnermostIsLast
    <3>4. f < Top.at
      <4>1. f \in Nat /\ Top.at \in Nat
        BY <1>1 DEF Asking
      <4> HIDE DEF Top
      <4> QED BY <2>1, <3>3, <4>1
    <3>5. \A i \in 2..n : todo[i].frame = f => f < todo[i].at
      BY <1>1, <3>2, <3>4
    <3>6. virtual_to_physical(f) = f
      <4> HIDE DEF f
      <4> QED BY <2>2, <3>2, <3>5 DEF OwnMapped
    <3> QED BY <2>1, <3>6 DEF Accessible
  <2> QED BY <2>3, <2>4
<1> QED BY <1>2, <1>3, <1>4

LEMMA OverflowIsDeep ==
  ASSUME PagingInv, Next, status' = "overflow"
  PROVE  enabled_paging' /\ Len(todo') >= 3
<1>1. Next /\ status = "ok"
  BY DEF Next
<1>2. MapTable
  BY <1>1 DEF Next, MapPage, MapTable, Return, Ends, alloc_frame, free_frame, map_device, alloc_page
<1>3. enabled_paging /\ Len(todo) = Depth /\ Ends("overflow")
  BY <1>1, <1>2 DEF MapTable, Ends
<1>4. enabled_paging' /\ todo' = todo
  BY <1>3 DEF Ends
<1>5. Depth \in Nat /\ Depth >= 4
  BY PagingAssumption
<1> QED BY <1>3, <1>4, <1>5

LEMMA StopNext ==
  ASSUME MappingInv, StopInv, [Next]_vars
  PROVE  StopInv'
<1>1. CASE UNCHANGED vars
  BY <1>1 DEF StopInv, vars, tables, OwnMapped, Separate, Few, BootRegions, virtual_to_physical, Walk
<1>2. CASE Next
  <2>1. status' = "overflow" => enabled_paging' /\ Len(todo') >= 3
    BY <1>2, OverflowIsDeep DEF MappingInv
  <2>2. ASSUME Separate, Few PROVE OwnMapped' /\ status' # "fault"
    <3>1. /\ PagingInv /\ BootInv /\ OrderInv /\ OwnMapped /\ status = "ok" /\ UNCHANGED fb_size
      BY <1>2, <2>2 DEF MappingInv, StopInv, Next
    <3>2. AsAsked
      BY <2>2, <3>1, OrderNext
    <3>3. CASE ~enabled_paging
      <4>1. todo # <<>> /\ (MapPage \/ MapTable \/ Return)
        BY <1>2, <3>3 DEF Next, alloc_frame, free_frame, map_device, alloc_page, Idle
      <4>2. status' # "fault"
        BY <3>1, <3>3, <4>1, NoFault
      <4>3. CASE ~enabled_paging'
        BY <4>2, <4>3 DEF OwnMapped
      <4>4. CASE enabled_paging'
        <5>1. Return
          BY <3>3, <4>1, <4>4 DEF MapPage, MapTable, Ends
        <5>2. Len(todo) = 1
          BY <3>1, <3>3, <4>1, <4>4, <5>1, Innermost
             DEF Return, Ends, PagingInv, BootHoldsNothing
        <5> QED BY <2>2, <3>1, <3>3, <4>2, <5>1, <5>2, OwnAtBoot
      <4> QED BY <4>2, <4>3, <4>4
    <3>4. CASE enabled_paging /\ todo # <<>> /\ (MapPage \/ MapTable \/ Return)
      <4>1. TlbFresh /\ Ordered
        BY <3>1, <3>4 DEF OrderInv
      <4>2. status' # "fault"
        BY <3>1, <3>4, <4>1, NoFault
      <4>3. OwnMapped'
        BY <2>2, <3>1, <3>4, <4>1, OwnStep
      <4> QED BY <4>2, <4>3
    <3>5. CASE /\ enabled_paging
               /\ \/ \E k \in Blocks : alloc_frame(k)
                  \/ \E b \in held : free_frame(b) \/ \E v \in 0..(Low - 1) : alloc_page(v, b.addr)
                  \/ map_device
      <4>1. OwnMapped'
        BY <3>1, <3>2, <3>5, OwnKernelCall
      <4>2. status' = status
        BY <3>5 DEF alloc_frame, free_frame, alloc_page, map_device
      <4> QED BY <3>1, <4>1, <4>2
    <3> QED BY <1>2, <3>3, <3>4, <3>5 DEF Next
  <2>3. Few' = Few /\ (Separate' <=> Separate)
    BY <1>2 DEF Next, Few, BootRegions, Separate
  <2> QED BY <2>1, <2>2, <2>3 DEF StopInv
<1> QED BY <1>1, <1>2

LEMMA StopInvHolds == Spec => [](MappingInv /\ StopInv)
<1>1. Init => StopInv
  BY DEF Init, StopInv, OwnMapped
<1>2. MappingInv /\ StopInv /\ [Next]_vars => StopInv'
  BY StopNext
<1> QED BY <1>1, <1>2, MappingInvHolds, PTL DEF Spec

(***************************************************************************)
(* The kernel never meets a table or a frame that is not mapped, when the  *)
(* regions of vmm::init are at most four, and alloc_frame and alloc_page   *)
(* call each other without end only when every frame that is left lies in  *)
(* a region without a table; for every size of the tables and every depth  *)
(* of the stack.                                                           *)
(***************************************************************************)
THEOREM StopsOnlyForAReason == Spec => []StopsForAReason
<1>1. ASSUME MappingInv, StopInv PROVE StopsForAReason
  <2> SUFFICES ASSUME Separate PROVE NoPageFault /\ EndlessOnlyWithoutTables
    BY DEF StopsForAReason
  <2>1. NoPageFault
    BY <1>1 DEF StopInv, Few, NoPageFault
  <2>2. ASSUME status = "overflow", NEW h \in Frame \ Taken
        PROVE  page_tables[PD_INDEX(h)] = nullptr
    <3> DEFINE n == Len(todo)
               f == todo[n].frame
    <3>1. enabled_paging /\ n >= 3 /\ Ordered /\ n \in Nat /\ todo \in Seq(Asking)
      BY <1>1, <2>2 DEF StopInv, MappingInv, OrderInv, PagingInv, Typed
    <3>2. n >= 2
      <4> HIDE DEF n
      <4> QED BY <3>1
    <3>3. f \in Frame /\ f < h
      BY <2>2, <3>1, <3>2 DEF Ordered, InnermostIsLast
    <3>4. ~Tabled(f)
      BY <3>1 DEF Ordered, Endless
    <3>5. f <= h
      <4>1. f \in Nat /\ h \in Nat
        BY <2>2, <3>3, FramesArePages
      <4> HIDE DEF f
      <4> QED BY <3>3, <4>1
    <3>6. ~Tabled(h)
      <4> HIDE DEF f
      <4> QED BY <2>2, <3>1, <3>3, <3>4, <3>5 DEF Ordered, InOrder
    <3> QED BY <3>6 DEF Tabled, HasTable
  <2> QED BY <2>1, <2>2 DEF EndlessOnlyWithoutTables
<1> QED BY <1>1, StopInvHolds, PTL
=============================================================================
