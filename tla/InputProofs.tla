----------------------------- MODULE InputProofs -----------------------------
(***************************************************************************)
(* Proofs for the way of a key into the system.  The keyboard driver: its  *)
(* ring buffer is a bounded queue for every KEYBOARD_BUFFER_SIZE, wherever *)
(* interrupts fall in its reader, and the decoder follows the keys,        *)
(* whatever keyboard sends the bytes.  The terminal: the history holds the *)
(* newest inputs and the screen shows the input, keeping what stands       *)
(* before it, for every size of the screen, of a line and of the history.  *)
(***************************************************************************)
EXTENDS KeyboardProperties, Terminal, SequenceTheorems, NaturalsInduction,
        WellFoundedInduction, TLAPS

(***************************************************************************)
(* The inductive invariant: the reader copies only what is there, the wire *)
(* is a sequence of whole scancodes, and the last shift byte on it says    *)
(* what the shift flag does not say yet.                                   *)
(***************************************************************************)
ReadsWhatIsThere == reader # "test" => kb_buf_head # kb_buf_tail

\* A prefix has just been seen before the i-th byte of the wire.
Prefixed(i) == IF i = 1 THEN is_extended ELSE wire[i - 1] = Prefix

WireIsFramed ==
  /\ \A i \in 1..Len(wire) : IF wire[i] = Prefix THEN ~Prefixed(i) /\ i # Len(wire)
                                                 ELSE wire[i].ext <=> Prefixed(i)
  /\ wire = <<>> => ~is_extended

ShiftKey == {k \in Key : k.code \in {"lshift", "rshift"} /\ ~k.ext}
ShiftByte(b) == b # Prefix /\ b.code \in {"lshift", "rshift"} /\ ~b.ext
ShiftHeld == \E k \in down : k \in ShiftKey

ShiftFollows ==
  /\ \A i \in 1..Len(wire) :
       ShiftByte(wire[i]) /\ (\A j \in i + 1..Len(wire) : ~ShiftByte(wire[j]))
         => (wire[i].up <=> ~ShiftHeld)
  /\ (\A i \in 1..Len(wire) : ~ShiftByte(wire[i])) => (shift <=> ShiftHeld)

KeyboardInv == TypeOK /\ ReadsWhatIsThere /\ WireIsFramed

\* One of the two shift keys is used: the driver has one flag for both.
OneShiftKey == \A j, k \in ShiftKey : j = k
-----------------------------------------------------------------------------
(***************************************************************************)
(* The indices of the ring.                                                *)
(***************************************************************************)
LEMMA RingIndices ==
  ASSUME TypeOK
  PROVE  /\ Count \in 0..(KEYBOARD_BUFFER_SIZE - 1)
         /\ (Count = 0) <=> (kb_buf_head = kb_buf_tail)
         /\ (Count < KEYBOARD_BUFFER_SIZE - 1) <=> (Successor(kb_buf_head) # kb_buf_tail)
         /\ Successor(kb_buf_head) \in Slot /\ Successor(kb_buf_tail) \in Slot
         /\ \A i \in 1..Count : SlotOf(i) \in Slot /\ SlotOf(i) # kb_buf_head
         /\ Count > 0 => SlotOf(1) = kb_buf_tail
BY SizeAssumption DEF TypeOK, Slot, Count, Successor, SlotOf

LEMMA ContentsAreEvents ==
  ASSUME TypeOK
  PROVE  /\ Contents \in Seq(Event) /\ Len(Contents) = Count
         /\ \A i \in 1..Count : Contents[i] = keyboardBuffer[SlotOf(i)]
         /\ Count > 0 => Contents # <<>> /\ Head(Contents) = keyboardBuffer[kb_buf_tail]
         /\ SubSeq(Contents, 2, Count) \in Seq(Event)
         /\ Len(SubSeq(Contents, 2, Count)) = IF Count = 0 THEN 0 ELSE Count - 1
         /\ \A i \in 1..Count - 1 : SubSeq(Contents, 2, Count)[i] = Contents[i + 1]
<1>1. /\ Count \in Nat
      /\ \A i \in 1..Count : SlotOf(i) \in Slot
      /\ Count > 0 => SlotOf(1) = kb_buf_tail
  BY RingIndices, SizeAssumption
<1>2. \A i \in 1..Count : keyboardBuffer[SlotOf(i)] \in Event
  BY <1>1 DEF TypeOK
<1> HIDE DEF Count
<1>3. /\ Contents \in Seq(Event) /\ Len(Contents) = Count
      /\ \A i \in 1..Count : Contents[i] = keyboardBuffer[SlotOf(i)]
  BY <1>1, <1>2 DEF Contents
<1>4. Count > 0 => Contents # <<>> /\ Head(Contents) = keyboardBuffer[kb_buf_tail]
  BY <1>1, <1>3
<1>5. \A i \in 2..Count : Contents[i] \in Event
  BY <1>1, <1>3
<1>6. /\ SubSeq(Contents, 2, Count) \in Seq(Event)
      /\ Len(SubSeq(Contents, 2, Count)) = IF 2 <= Count THEN Count - 2 + 1 ELSE 0
      /\ \A i \in 1..(Count - 2 + 1) : SubSeq(Contents, 2, Count)[i] = Contents[2 + i - 1]
  BY <1>1, <1>5, SubSeqProperties
<1> QED BY <1>1, <1>3, <1>4, <1>6

\* push_key_event into a ring with room.
LEMMA PushAppends ==
  ASSUME TypeOK, NEW e \in Event, push_key_event(e), kb_buf_tail' = kb_buf_tail,
         Count < KEYBOARD_BUFFER_SIZE - 1
  PROVE  Count' = Count + 1 /\ Contents' = Append(Contents, e)
<1>1. /\ keyboardBuffer' = [keyboardBuffer EXCEPT ![kb_buf_head] = e]
      /\ kb_buf_head' = Successor(kb_buf_head)
  BY RingIndices DEF push_key_event
<1>2. /\ Count' = Count + 1 /\ Count \in Nat
      /\ \A i \in 1..Count : SlotOf(i)' = SlotOf(i)
      /\ \A i \in 1..Count : SlotOf(i) \in Slot /\ SlotOf(i) # kb_buf_head
      /\ \A i \in Nat : i = Count + 1 => SlotOf(i)' = kb_buf_head
  BY <1>1, SizeAssumption DEF TypeOK, Slot, Count, Successor, SlotOf
<1> HIDE DEF Count, SlotOf
<1>3. /\ \A i \in 1..Count : keyboardBuffer'[SlotOf(i)'] = keyboardBuffer[SlotOf(i)]
      /\ \A i \in Nat : i = Count + 1 => keyboardBuffer'[SlotOf(i)'] = e
  BY <1>1, <1>2 DEF TypeOK
<1>4. Contents' = [i \in 1..Count + 1 |-> keyboardBuffer'[SlotOf(i)']]
  BY <1>2 DEF Contents
<1>5. /\ Contents \in Seq(Event) /\ Len(Contents) = Count
      /\ \A i \in 1..Count : Contents[i] = keyboardBuffer[SlotOf(i)]
  BY ContentsAreEvents
<1> DEFINE c == Contents
           u == Append(c, e)
           t == Contents'
<1>6. /\ u \in Seq(Event) /\ Len(u) = Count + 1 /\ u[Count + 1] = e
      /\ \A i \in 1..Count : u[i] = c[i]
  BY <1>5
<1>7. \A i \in 1..Count + 1 : keyboardBuffer'[SlotOf(i)'] = u[i]
  <2> SUFFICES ASSUME NEW i \in 1..Count + 1 PROVE keyboardBuffer'[SlotOf(i)'] = u[i]
    OBVIOUS
  <2>1. CASE i \in 1..Count
    BY <1>3, <1>5, <1>6, <2>1
  <2>2. CASE i = Count + 1
    BY <1>2, <1>3, <1>6, <2>2
  <2>3. i \in 1..Count \/ i = Count + 1
    BY <1>2
  <2> QED BY <2>1, <2>2, <2>3
<1>8. t = [i \in 1..Count + 1 |-> u[i]]
  BY <1>4, <1>7
<1> HIDE DEF t, u
<1>9. t = u
  BY <1>2, <1>6, <1>8
<1> QED BY <1>2, <1>9 DEF t, u
-----------------------------------------------------------------------------
(***************************************************************************)
(* What the keyboard sends, and what the handler takes from the wire.      *)
(***************************************************************************)
Scancode(k, up) == [code |-> k.code, up |-> up, ext |-> k.ext]

LEMMA ScancodeIsByte ==
  ASSUME NEW k \in Key, NEW up \in BOOLEAN
  PROVE  /\ Scancode(k, up) \in Byte /\ Scancode(k, up) # Prefix
         /\ Scancode(k, up).ext = k.ext /\ Scancode(k, up).up = up
         /\ Scancode(k, up).code = k.code
         /\ k.ext \in BOOLEAN /\ k.code \in Code
<1>1. k \in [code : Code, ext : BOOLEAN]
  BY KeyAssumption
<1>2. k.code # "prefix" /\ k.code \in Code /\ k.ext \in BOOLEAN
  BY <1>1 DEF Code
<1> QED BY <1>2 DEF Scancode, Byte, Prefix

\* The wire after a key was sent.
LEMMA WireGrows ==
  ASSUME TypeOK, NEW k \in Key, NEW up \in BOOLEAN, wire' = wire \o Bytes(k, up)
  PROVE  /\ wire' \in Seq(Byte \cup {Prefix}) /\ wire' # <<>>
         /\ Len(wire) \in Nat
         /\ Len(wire') = Len(wire) + (IF k.ext THEN 2 ELSE 1)
         /\ \A i \in 1..Len(wire) : wire'[i] = wire[i]
         /\ k.ext => wire'[Len(wire) + 1] = Prefix
         /\ wire'[Len(wire')] = Scancode(k, up)
<1> DEFINE S == Byte \cup {Prefix}
<1>1. Scancode(k, up) \in S /\ Prefix \in S /\ k.ext \in BOOLEAN
  BY ScancodeIsByte
<1>2. wire \in Seq(S)
  BY DEF TypeOK
<1> HIDE DEF S
<1>3. CASE k.ext
  <2>1. Bytes(k, up) = <<Prefix, Scancode(k, up)>>
    BY <1>3 DEF Bytes, Scancode
  <2> QED BY <1>1, <1>2, <1>3, <2>1 DEF S
<1>4. CASE ~k.ext
  <2>1. Bytes(k, up) = <<Scancode(k, up)>>
    BY <1>4 DEF Bytes, Scancode
  <2> QED BY <1>1, <1>2, <1>4, <2>1 DEF S
<1> QED BY <1>1, <1>3, <1>4

LEMMA SendKeepsFrames ==
  ASSUME TypeOK, WireIsFramed, NEW k \in Key, NEW up \in BOOLEAN,
         wire' = wire \o Bytes(k, up), is_extended' = is_extended
  PROVE  WireIsFramed'
<1> DEFINE n == Len(wire)
           byte == Scancode(k, up)
<1>1. /\ wire' # <<>> /\ n \in Nat
      /\ Len(wire') = n + (IF k.ext THEN 2 ELSE 1)
      /\ \A i \in 1..n : wire'[i] = wire[i]
      /\ k.ext => wire'[n + 1] = Prefix
      /\ wire'[Len(wire')] = byte
  BY WireGrows
<1>2. byte # Prefix /\ byte.ext = k.ext /\ k.ext \in BOOLEAN
  BY ScancodeIsByte
<1>3. /\ \A i \in 1..n : IF wire[i] = Prefix THEN ~Prefixed(i) /\ i # n
                                             ELSE wire[i].ext <=> Prefixed(i)
      /\ n = 0 => ~is_extended
  BY DEF WireIsFramed, TypeOK
<1> HIDE DEF n, byte
<1>4. \A i \in 1..n + 1 : Prefixed(i)' <=> Prefixed(i)
  <2>1. ASSUME NEW i \in 1..n + 1 PROVE Prefixed(i)' <=> Prefixed(i)
    <3>1. i # 1 => i - 1 \in 1..n
      BY <1>1
    <3>2. i # 1 => wire'[i - 1] = wire[i - 1]
      BY <1>1, <3>1
    <3>3. is_extended' = is_extended
      OBVIOUS
    <3> QED BY ONLY <3>2, <3>3 DEF Prefixed
  <2> QED BY <2>1
<1>5. ~Prefixed(n + 1)
  BY <1>1, <1>3 DEF Prefixed
<1>6. ASSUME NEW i \in 1..Len(wire')
      PROVE  IF wire'[i] = Prefix THEN ~Prefixed(i)' /\ i # Len(wire')
                                  ELSE wire'[i].ext <=> Prefixed(i)'
  <2>1. CASE i \in 1..n
    BY <1>1, <1>3, <1>4, <2>1
  <2>2. CASE i = n + 1 /\ ~k.ext
    BY <1>1, <1>2, <1>4, <1>5, <2>2
  <2>3. CASE i = n + 1 /\ k.ext
    BY <1>1, <1>4, <1>5, <2>3
  <2>4. CASE i = n + 2 /\ k.ext
    <3>1. Prefixed(i)'
      BY <1>1, <2>4 DEF Prefixed
    <3> QED BY <1>1, <1>2, <2>4, <3>1
  <2> QED BY <1>1, <2>1, <2>2, <2>3, <2>4
<1> QED BY <1>1, <1>6 DEF WireIsFramed

\* The code tables have a character for every code that reaches them.
LEMMA TerminalKeys ==
  ASSUME NEW c \in Code, c \notin {"lshift", "rshift", "caps"}, NEW sh, NEW caps
  PROVE  get_terminal_key(c, sh, caps) \in Character
<1>1. Lower[c] \in Character
  BY DEF Lower, Code, Character
<1>2. Upper[c] = CASE c = "letter" -> "A" [] c = "digit" -> "!" [] OTHER -> Lower[c]
  <2>1. c \in DOMAIN Lower
    BY DEF Lower, Code
  <2> QED BY <2>1 DEF Upper
<1>3. Upper[c] \in Character
  BY <1>1, <1>2 DEF Character
<1> QED BY <1>1, <1>3, Zenon DEF get_terminal_key

\* The handler's view: the first byte leaves, and the flag tells if it was a prefix.
LEMMA HandlerSteps ==
  ASSUME KeyboardInv, keyboardHandler
  PROVE  /\ wire # <<>> /\ wire' = Tail(wire) /\ wire' \in Seq(Byte \cup {Prefix})
         /\ Len(wire') = Len(wire) - 1 /\ Len(wire) \in Nat
         /\ \A i \in 1..Len(wire') : wire'[i] = wire[i + 1]
         /\ is_extended' <=> wire[1] = Prefix
         /\ is_extended' \in BOOLEAN /\ shift' \in BOOLEAN /\ capsLock' \in BOOLEAN
         /\ IF ShiftByte(wire[1]) THEN shift' = ~wire[1].up ELSE shift' = shift
         /\ \/ UNCHANGED <<keyboardBuffer, kb_buf_head>>
            \/ \E e \in Event : push_key_event(e)
         /\ UNCHANGED <<down, kb_buf_tail, out, reader>>
<1> USE DEF KeyboardInv
<1> DEFINE b == wire[1]
           S == Byte \cup {Prefix}
<1>1. /\ wire \in Seq(S) /\ wire # <<>> /\ wire' = Tail(wire) /\ b = Head(wire)
      /\ UNCHANGED <<down, kb_buf_tail, out, reader>>
  BY DEF keyboardHandler, TypeOK
<1>2. /\ wire' \in Seq(S) /\ Len(wire') = Len(wire) - 1 /\ Len(wire) \in Nat
      /\ \A i \in 1..Len(wire') : wire'[i] = wire[i + 1]
      /\ b \in S /\ Len(wire) >= 1
  <2> HIDE DEF S
  <2> QED BY <1>1, HeadTailProperties
<1>3. b # Prefix => /\ b \in Byte /\ b.code \in Code /\ b.up \in BOOLEAN
                    /\ (b.ext <=> is_extended)
  BY <1>2 DEF Byte, WireIsFramed, Prefixed
<1>4. CASE b = Prefix
  BY <1>1, <1>2, <1>4 DEF keyboardHandler, ShiftByte, TypeOK
<1>5. CASE b # Prefix /\ HandleExtended(b)
  <2>1. [character |-> ExtendedKey(b.code), pressed |-> ~b.up] \in Event
    BY <1>3, <1>5 DEF Event, ExtendedKey, Character
  <2> QED BY <1>1, <1>2, <1>3, <1>5, <2>1 DEF HandleExtended, ShiftByte, TypeOK
<1>6. CASE b # Prefix /\ HandlePlain(b)
  <2> HIDE DEF b, S, KeyboardInv
  <2>1. is_extended = FALSE /\ is_extended' = FALSE /\ ~b.ext
    BY <1>3, <1>6 DEF HandlePlain, KeyboardInv, TypeOK, modifiers
  <2>2. ShiftByte(b) <=> b.code \in {"lshift", "rshift"}
    BY <1>6, <2>1 DEF ShiftByte
  <2>3. CASE /\ b.code \in {"lshift", "rshift"}
             /\ shift' = ~b.up
             /\ UNCHANGED <<is_extended, capsLock, keyboardBuffer, kb_buf_head>>
    BY <1>1, <1>2, <1>3, <1>6, <2>1, <2>2, <2>3 DEF KeyboardInv, TypeOK, b, S
  <2>4. CASE /\ b.code = "caps"
             /\ capsLock' = IF b.up THEN capsLock ELSE ~capsLock
             /\ UNCHANGED <<is_extended, shift, keyboardBuffer, kb_buf_head>>
    <3>1. capsLock' \in BOOLEAN /\ ~ShiftByte(b)
      BY <1>3, <1>6, <2>2, <2>4 DEF KeyboardInv, TypeOK
    <3> QED BY <1>1, <1>2, <1>6, <2>1, <2>4, <3>1 DEF KeyboardInv, TypeOK, b, S
  <2>5. CASE /\ b.code \notin {"lshift", "rshift", "caps"}
             /\ push_key_event([character |-> get_terminal_key(b.code, shift, capsLock),
                                pressed |-> ~b.up])
             /\ UNCHANGED modifiers
    <3>1. get_terminal_key(b.code, shift, capsLock) \in Character
      BY <1>3, <1>6, <2>5, TerminalKeys
    <3>2. [character |-> get_terminal_key(b.code, shift, capsLock),
           pressed |-> ~b.up] \in Event
      BY <1>3, <1>6, <3>1 DEF Event
    <3> QED BY <1>1, <1>2, <1>6, <2>1, <2>2, <2>5, <3>2 DEF KeyboardInv, TypeOK, modifiers, b, S
  <2> QED BY <1>6, <2>3, <2>4, <2>5 DEF HandlePlain
<1> QED BY <1>1, <1>4, <1>5, <1>6 DEF keyboardHandler

LEMMA HandleKeepsFrames ==
  ASSUME KeyboardInv, keyboardHandler
  PROVE  WireIsFramed'
<1> DEFINE n == Len(wire')
<1>1. /\ Len(wire) \in Nat /\ Len(wire) = n + 1 /\ n \in Nat
      /\ \A i \in 1..n : wire'[i] = wire[i + 1]
      /\ wire' \in Seq(Byte \cup {Prefix})
      /\ is_extended' <=> wire[1] = Prefix
  BY HandlerSteps
<1>2. \A i \in 1..Len(wire) : IF wire[i] = Prefix THEN ~Prefixed(i) /\ i # Len(wire)
                                                  ELSE wire[i].ext <=> Prefixed(i)
  BY DEF KeyboardInv, WireIsFramed
<1>3. wire' = <<>> => n = 0
  BY <1>1
<1> HIDE DEF n
<1>4. \A i \in 1..n : Prefixed(i)' <=> Prefixed(i + 1)
  BY <1>1 DEF Prefixed
<1>5. wire' = <<>> => ~is_extended'
  BY <1>1, <1>2, <1>3
<1>6. \A i \in 1..n : IF wire'[i] = Prefix THEN ~Prefixed(i)' /\ i # n
                                           ELSE wire'[i].ext <=> Prefixed(i)'
  <2>1. ASSUME NEW i \in 1..n
        PROVE  IF wire'[i] = Prefix THEN ~Prefixed(i)' /\ i # n
                                    ELSE wire'[i].ext <=> Prefixed(i)'
    <3>1. i + 1 \in 1..Len(wire) /\ (i + 1 # Len(wire) => i # n)
      BY <1>1
    <3>2. IF wire[i + 1] = Prefix THEN ~Prefixed(i + 1) /\ i + 1 # Len(wire)
                                  ELSE wire[i + 1].ext <=> Prefixed(i + 1)
      BY <1>2, <3>1
    <3>3. wire'[i] = wire[i + 1] /\ (Prefixed(i)' <=> Prefixed(i + 1))
      BY <1>1, <1>4
    <3> QED BY ONLY <3>1, <3>2, <3>3
  <2> QED BY <2>1
<1> QED BY <1>5, <1>6 DEF WireIsFramed, n
-----------------------------------------------------------------------------
(***************************************************************************)
(* What a push does to the ring, and that the reader's slot is safe.       *)
(***************************************************************************)
LEMMA PushKeepsRing ==
  ASSUME TypeOK, kb_buf_tail' = kb_buf_tail,
         \/ UNCHANGED <<keyboardBuffer, kb_buf_head>>
         \/ \E e \in Event : push_key_event(e)
  PROVE  /\ keyboardBuffer' \in [Slot -> Event] /\ kb_buf_head' \in Slot
         /\ kb_buf_head # kb_buf_tail => kb_buf_head' # kb_buf_tail'
<1>1. CASE UNCHANGED <<keyboardBuffer, kb_buf_head>>
  BY <1>1 DEF TypeOK
<1>2. ASSUME NEW e \in Event, push_key_event(e)
      PROVE  /\ keyboardBuffer' \in [Slot -> Event] /\ kb_buf_head' \in Slot
             /\ kb_buf_head # kb_buf_tail => kb_buf_head' # kb_buf_tail'
  <2>1. Successor(kb_buf_head) \in Slot
    BY RingIndices
  <2> QED BY <1>2, <2>1 DEF push_key_event, TypeOK
<1> QED BY <1>1, <1>2

LEMMA SendKeeps ==
  ASSUME KeyboardInv, NEW k \in Key, Press(k) \/ Release(k)
  PROVE  KeyboardInv'
<1> USE DEF KeyboardInv
<1>1. PICK up \in BOOLEAN : wire' = wire \o Bytes(k, up)
  BY DEF Press, Release
<1>2. /\ UNCHANGED <<is_extended, shift, capsLock, keyboardBuffer, kb_buf_head,
                     kb_buf_tail, out, reader>>
      /\ down' \subseteq Key
  BY DEF Press, Release, modifiers, ring, TypeOK
<1>3. wire' \in Seq(Byte \cup {Prefix})
  BY <1>1, WireGrows
<1>4. WireIsFramed'
  BY <1>1, <1>2, SendKeepsFrames
<1>5. TypeOK'
  BY <1>2, <1>3 DEF TypeOK
<1> QED BY <1>2, <1>4, <1>5 DEF ReadsWhatIsThere

LEMMA HandleKeeps ==
  ASSUME KeyboardInv, keyboardHandler
  PROVE  KeyboardInv'
<1>1. /\ wire' \in Seq(Byte \cup {Prefix})
      /\ is_extended' \in BOOLEAN /\ shift' \in BOOLEAN /\ capsLock' \in BOOLEAN
      /\ \/ UNCHANGED <<keyboardBuffer, kb_buf_head>>
         \/ \E e \in Event : push_key_event(e)
      /\ UNCHANGED <<down, kb_buf_tail, out, reader>>
  BY HandlerSteps
<1>2. TypeOK /\ ReadsWhatIsThere
  BY DEF KeyboardInv
<1>3. /\ keyboardBuffer' \in [Slot -> Event] /\ kb_buf_head' \in Slot
      /\ kb_buf_head # kb_buf_tail => kb_buf_head' # kb_buf_tail'
  BY <1>1, <1>2, PushKeepsRing
<1>4. TypeOK'
  BY <1>1, <1>2, <1>3 DEF TypeOK
<1>5. ReadsWhatIsThere'
  BY <1>1, <1>2, <1>3 DEF ReadsWhatIsThere
<1> QED BY <1>4, <1>5, HandleKeepsFrames DEF KeyboardInv

LEMMA PopKeeps ==
  ASSUME KeyboardInv, pop_key_event
  PROVE  KeyboardInv'
<1> USE DEF KeyboardInv
<1>1. UNCHANGED <<down, wire, is_extended, shift, capsLock, keyboardBuffer, kb_buf_head>>
  BY DEF pop_key_event, PopTest, PopCopy, PopAdvance, hardware, modifiers, ring
<1>2. WireIsFramed'
  BY <1>1 DEF WireIsFramed, Prefixed
<1>3. Successor(kb_buf_tail) \in Slot /\ keyboardBuffer[kb_buf_tail] \in Event
  BY RingIndices DEF TypeOK
<1>4. TypeOK'
  BY <1>1, <1>3 DEF TypeOK, pop_key_event, PopTest, PopCopy, PopAdvance, ring
<1>5. ReadsWhatIsThere'
  BY <1>1 DEF ReadsWhatIsThere, TypeOK, pop_key_event, PopTest, PopCopy, PopAdvance, ring
<1> QED BY <1>2, <1>4, <1>5

LEMMA KeyboardInvHolds == Spec => []KeyboardInv
<1>1. Init => KeyboardInv
  <2> SUFFICES ASSUME Init PROVE KeyboardInv
    OBVIOUS
  <2>1. ZeroEvent \in Event /\ 0 \in Slot
    BY SizeAssumption DEF ZeroEvent, Event, Character, Slot
  <2>2. keyboardBuffer \in [Slot -> Event]
    BY <2>1 DEF Init
  <2>3. wire \in Seq(Byte \cup {Prefix}) /\ wire = <<>> /\ Len(wire) = 0
    BY DEF Init
  <2>4. TypeOK
    BY <2>1, <2>2, <2>3 DEF Init, TypeOK
  <2>5. WireIsFramed
    BY <2>3 DEF Init, WireIsFramed
  <2> QED BY <2>4, <2>5 DEF Init, KeyboardInv, ReadsWhatIsThere
<1>2. KeyboardInv /\ [Next]_vars => KeyboardInv'
  <2> SUFFICES ASSUME KeyboardInv, [Next]_vars PROVE KeyboardInv'
    OBVIOUS
  <2>1. CASE \E k \in Key : Press(k) \/ Release(k)
    BY <2>1, SendKeeps
  <2>2. CASE keyboardHandler
    BY <2>2, HandleKeeps
  <2>3. CASE pop_key_event
    BY <2>3, PopKeeps
  <2>4. CASE UNCHANGED vars
    BY <2>4 DEF vars, hardware, modifiers, ring, KeyboardInv, TypeOK,
       ReadsWhatIsThere, WireIsFramed, Prefixed
  <2> QED BY <2>1, <2>2, <2>3, <2>4 DEF Next
<1> QED BY <1>1, <1>2, PTL DEF Spec
-----------------------------------------------------------------------------
(***************************************************************************)
(* The ring implements the bounded queue.                                  *)
(***************************************************************************)
Rest == SubSeq(Contents, 2, Count)

LEMMA RestOfContents ==
  ASSUME TypeOK, Count > 0
  PROVE  /\ Contents # <<>> /\ Rest = Tail(Contents)
         /\ Head(Contents) = keyboardBuffer[kb_buf_tail]
         /\ Rest \in Seq(Event) /\ Len(Rest) = Count - 1
<1>1. /\ Contents \in Seq(Event) /\ Len(Contents) = Count
      /\ Contents # <<>> /\ Head(Contents) = keyboardBuffer[kb_buf_tail]
      /\ Rest \in Seq(Event) /\ Len(Rest) = Count - 1
      /\ \A i \in 1..Count - 1 : Rest[i] = Contents[i + 1]
  BY ContentsAreEvents DEF Rest
<1>2. Rest = Tail(Contents)
  BY <1>1, TailIsSubSeq DEF Rest
<1> QED BY <1>1, <1>2

LEMMA TailOfAppend ==
  ASSUME NEW S, NEW c \in Seq(S), NEW e \in S, c # <<>>
  PROVE  Tail(Append(c, e)) = Append(Tail(c), e)
<1> DEFINE a == Tail(Append(c, e))
           b == Append(Tail(c), e)
<1>1. /\ Append(c, e) \in Seq(S) /\ Append(c, e) # <<>>
      /\ Len(Append(c, e)) = Len(c) + 1
      /\ \A i \in 1..Len(c) : Append(c, e)[i] = c[i]
      /\ Append(c, e)[Len(c) + 1] = e
  BY AppendProperties
<1>2. /\ Tail(c) \in Seq(S) /\ Len(Tail(c)) = Len(c) - 1
      /\ \A i \in 1..Len(Tail(c)) : Tail(c)[i] = c[i + 1]
  BY HeadTailProperties
<1>3. /\ a \in Seq(S) /\ Len(a) = Len(c)
      /\ \A i \in 1..Len(a) : a[i] = Append(c, e)[i + 1]
  BY <1>1, HeadTailProperties
<1>4. /\ b \in Seq(S) /\ Len(b) = Len(c)
      /\ \A i \in 1..Len(Tail(c)) : b[i] = Tail(c)[i]
      /\ b[Len(c)] = e
  BY <1>2, AppendProperties
<1>5. Len(c) \in Nat
  OBVIOUS
<1> HIDE DEF a, b
<1>6. ASSUME NEW i \in 1..Len(a) PROVE a[i] = b[i]
  <2>1. CASE i = Len(c)
    BY <1>1, <1>3, <1>4, <1>5, <2>1
  <2>2. CASE i # Len(c)
    <3>1. i \in 1..Len(Tail(c)) /\ i + 1 \in 1..Len(c)
      <4>1. i \in 1..Len(c)
        BY <1>3
      <4>2. i \in 1..(Len(c) - 1) /\ i + 1 \in 1..Len(c)
        BY <1>5, <2>2, <4>1
      <4> QED BY <1>2, <4>2
    <3>2. a[i] = c[i + 1]
      BY <1>1, <1>3, <3>1
    <3> QED BY <1>2, <1>4, <3>1, <3>2
  <2> QED BY <2>1, <2>2
<1>7. a = b
  BY <1>3, <1>4, <1>6, SeqEqual
<1> QED BY <1>7 DEF a, b

\* An interrupt puts an event into the queue, drops it or leaves it alone.
LEMMA HandlerPuts ==
  ASSUME KeyboardInv, keyboardHandler
  PROVE  [Fifo!Next]_(Fifo!vars)
<1>1. /\ \/ UNCHANGED <<keyboardBuffer, kb_buf_head>>
         \/ \E e \in Event : push_key_event(e)
      /\ UNCHANGED <<kb_buf_tail, out, reader>>
  BY HandlerSteps
<1>2. TypeOK /\ ReadsWhatIsThere
  BY DEF KeyboardInv
<1>3. CASE UNCHANGED <<keyboardBuffer, kb_buf_head>>
  BY <1>1, <1>3 DEF Fifo!vars, Contents, Count, SlotOf
<1>4. ASSUME NEW e \in Event, push_key_event(e),
             ~(UNCHANGED <<keyboardBuffer, kb_buf_head>>)
      PROVE  Fifo!Put(e)
  <2>1. Successor(kb_buf_head) # kb_buf_tail
    BY <1>4 DEF push_key_event
  <2>2. Count < KEYBOARD_BUFFER_SIZE - 1 /\ Count \in Nat
    BY <1>2, <2>1, RingIndices, SizeAssumption
  <2>3. Count' = Count + 1 /\ Contents' = Append(Contents, e)
    BY <1>1, <1>2, <1>4, <2>2, PushAppends
  <2>4. Contents \in Seq(Event) /\ Len(Contents) = Count
    BY <1>2, ContentsAreEvents
  <2>5. CASE reader = "advance"
    <3>1. Count > 0
      BY <1>2, <2>2, <2>5, RingIndices DEF ReadsWhatIsThere
    <3>2. /\ Contents # <<>> /\ Rest = Tail(Contents) /\ Rest \in Seq(Event)
          /\ Len(Rest) = Count - 1
      BY <1>2, <3>1, RestOfContents
    <3>3. Rest' = Append(Rest, e)
      <4>1. /\ Append(Contents, e) \in Seq(Event) /\ Append(Contents, e) # <<>>
            /\ Len(Append(Contents, e)) = Count + 1
        BY <2>4, AppendProperties
      <4>2. SubSeq(Append(Contents, e), 2, Count + 1) = Tail(Append(Contents, e))
        BY <4>1, TailIsSubSeq
      <4>3. Tail(Append(Contents, e)) = Append(Tail(Contents), e)
        BY <2>4, <3>2, TailOfAppend
      <4> QED BY <2>3, <3>2, <4>2, <4>3 DEF Rest
    <3>4. Rest = SubSeq(Contents, 2, Count) /\ Rest' = SubSeq(Contents', 2, Count')
      BY DEF Rest
    <3> HIDE DEF Rest, Contents, Count
    <3>5. Len(Rest) + 1 < KEYBOARD_BUFFER_SIZE - 1
      BY <2>2, <3>2
    <3> QED BY <1>1, <2>5, <3>3, <3>4, <3>5 DEF Fifo!Put, Fifo!Occupied
  <2>6. CASE reader # "advance"
    BY <1>1, <2>2, <2>3, <2>4, <2>6 DEF Fifo!Put, Fifo!Occupied
  <2> QED BY <2>5, <2>6
<1> QED BY <1>1, <1>3, <1>4 DEF Fifo!Next

LEMMA CopyTakes ==
  ASSUME KeyboardInv, PopCopy
  PROVE  Fifo!Take
<1>1. TypeOK /\ reader = "copy" /\ kb_buf_head # kb_buf_tail
  BY DEF KeyboardInv, ReadsWhatIsThere, PopCopy
<1>2. /\ out' = keyboardBuffer[kb_buf_tail] /\ reader' = "advance"
      /\ UNCHANGED <<keyboardBuffer, kb_buf_head, kb_buf_tail>>
  BY DEF PopCopy, ring
<1>3. Count > 0
  BY <1>1, RingIndices, SizeAssumption
<1>4. /\ Contents # <<>> /\ Rest = Tail(Contents)
      /\ Head(Contents) = keyboardBuffer[kb_buf_tail]
  BY <1>1, <1>3, RestOfContents
<1>5. Rest' = Rest
  BY <1>2 DEF Rest, Contents, Count, SlotOf
<1>6. Rest' = SubSeq(Contents', 2, Count')
  BY DEF Rest
<1> HIDE DEF Rest, Contents, Count
<1> QED BY <1>1, <1>2, <1>4, <1>5, <1>6 DEF Fifo!Take

LEMMA AdvanceIsDone ==
  ASSUME KeyboardInv, PopAdvance
  PROVE  Fifo!Done
<1>1. TypeOK /\ reader = "advance" /\ kb_buf_head # kb_buf_tail
  BY DEF KeyboardInv, ReadsWhatIsThere, PopAdvance
<1>2. /\ reader' = "test" /\ kb_buf_tail' = Successor(kb_buf_tail)
      /\ UNCHANGED <<keyboardBuffer, kb_buf_head, out>>
  BY DEF PopAdvance
<1>3. /\ Count' = Count - 1 /\ Count \in Nat /\ Count > 0
      /\ \A i \in 1..Count - 1 : SlotOf(i)' = SlotOf(i + 1)
  BY <1>1, <1>2, SizeAssumption DEF TypeOK, Slot, Count, SlotOf, Successor
<1>4. /\ Contents \in Seq(Event) /\ Len(Contents) = Count
      /\ \A i \in 1..Count : Contents[i] = keyboardBuffer[SlotOf(i)]
      /\ Rest \in Seq(Event) /\ Len(Rest) = Count - 1
      /\ \A i \in 1..Count - 1 : Rest[i] = Contents[i + 1]
  BY <1>1, <1>3, ContentsAreEvents DEF Rest
<1> DEFINE r == Rest
           t == Contents'
<1> HIDE DEF Count, SlotOf, r
<1>5. t = [i \in 1..Count - 1 |-> keyboardBuffer[SlotOf(i)']]
  BY <1>2, <1>3 DEF Contents
<1>6. \A i \in 1..Count - 1 : keyboardBuffer[SlotOf(i)'] = r[i]
  BY <1>3, <1>4 DEF r
<1>7. t = [i \in 1..Count - 1 |-> r[i]]
  BY <1>5, <1>6
<1> HIDE DEF t
<1>8. t = r
  BY <1>3, <1>4, <1>7 DEF r
<1>9. Contents' = SubSeq(Contents, 2, Count)
  BY <1>8 DEF t, r, Rest
<1> QED BY <1>1, <1>2, <1>9 DEF Fifo!Done

(***************************************************************************)
(* For every size of the buffer and wherever interrupts fall in            *)
(* pop_key_event, the ring is a bounded first-in-first-out queue: no       *)
(* accepted event is lost, repeated, reordered or overwritten while it is  *)
(* read, and an event is dropped only when the ring is full.               *)
(***************************************************************************)
THEOREM TheRingIsAFifo == Spec => ImplementsFifo
<1>1. Init => Fifo!Init
  <2> SUFFICES ASSUME Init PROVE Fifo!Init
    OBVIOUS
  <2>1. Count = 0 /\ reader = "test" /\ out \in Event
    BY SizeAssumption DEF Init, Count, ZeroEvent, Event, Character
  <2>2. Contents = <<>>
    BY <2>1 DEF Contents
  <2> QED BY <2>1, <2>2 DEF Fifo!Init
<1>2. KeyboardInv /\ [Next]_vars => [Fifo!Next]_(Fifo!vars)
  <2> SUFFICES ASSUME KeyboardInv, [Next]_vars PROVE [Fifo!Next]_(Fifo!vars)
    OBVIOUS
  <2>1. ASSUME UNCHANGED <<keyboardBuffer, kb_buf_head, kb_buf_tail, out>>,
               (reader = "advance") <=> (reader' = "advance")
        PROVE  UNCHANGED Fifo!vars
    BY <2>1 DEF Fifo!vars, Contents, Count, SlotOf
  <2>2. CASE \E k \in Key : Press(k) \/ Release(k)
    BY <2>1, <2>2 DEF Press, Release, ring
  <2>3. CASE keyboardHandler
    BY <2>3, HandlerPuts
  <2>4. CASE PopTest
    BY <2>1, <2>4 DEF PopTest, ring
  <2>5. CASE PopCopy
    BY <2>5, CopyTakes DEF Fifo!Next
  <2>6. CASE PopAdvance
    BY <2>6, AdvanceIsDone DEF Fifo!Next
  <2>7. CASE UNCHANGED vars
    BY <2>1, <2>7 DEF vars, ring
  <2> QED BY <2>2, <2>3, <2>4, <2>5, <2>6, <2>7 DEF Next, pop_key_event
<1> QED BY <1>1, <1>2, KeyboardInvHolds, PTL DEF Spec, ImplementsFifo, Fifo!Spec
-----------------------------------------------------------------------------
(***************************************************************************)
(* The shift flag.                                                         *)
(***************************************************************************)
LEMMA SendKeepsShift ==
  ASSUME OneShiftKey, KeyboardInv, ShiftFollows, NEW k \in Key, Press(k) \/ Release(k)
  PROVE  ShiftFollows'
<1> DEFINE n == Len(wire)
<1>1. PICK up \in BOOLEAN : /\ wire' = wire \o Bytes(k, up) /\ shift' = shift
                            /\ down' = IF up THEN down \ {k} ELSE down \cup {k}
  BY DEF Press, Release, modifiers
<1>2. /\ wire' # <<>> /\ n \in Nat
      /\ Len(wire') = n + (IF k.ext THEN 2 ELSE 1)
      /\ \A i \in 1..n : wire'[i] = wire[i]
      /\ k.ext => wire'[n + 1] = Prefix
      /\ wire'[Len(wire')] = Scancode(k, up)
  BY <1>1, WireGrows DEF KeyboardInv
<1>3. /\ Scancode(k, up) # Prefix /\ Scancode(k, up).ext = k.ext /\ k.ext \in BOOLEAN
      /\ Scancode(k, up).up = up /\ Scancode(k, up).code = k.code
  BY ScancodeIsByte
<1>4. \A i \in 1..n : ShiftByte(wire[i]) <=> ShiftByte(wire'[i])
  BY <1>2 DEF ShiftByte
<1>5. ShiftByte(wire'[Len(wire')]) <=> k \in ShiftKey
  BY <1>2, <1>3 DEF ShiftByte, ShiftKey
<1> HIDE DEF n
<1>6. CASE k \in ShiftKey
  <2>1. ShiftHeld' <=> ~up
    BY <1>1, <1>6 DEF ShiftHeld, ShiftKey, OneShiftKey, KeyboardInv, TypeOK
  <2>2. Len(wire') = n + 1 /\ Len(wire') \in 1..Len(wire')
    BY <1>2, <1>3, <1>6 DEF ShiftKey
  <2>3. ASSUME NEW i \in 1..Len(wire'), ShiftByte(wire'[i]),
               \A j \in i + 1..Len(wire') : ~ShiftByte(wire'[j])
        PROVE  i = Len(wire')
    BY <1>2, <1>5, <1>6, <2>2, <2>3
  <2> QED BY <1>2, <1>3, <1>5, <1>6, <2>1, <2>2, <2>3 DEF ShiftFollows, ShiftByte
<1>7. CASE k \notin ShiftKey
  <2>1. ShiftHeld' <=> ShiftHeld
    BY <1>1, <1>7 DEF ShiftHeld
  <2>2. \A i \in 1..Len(wire') : i \notin 1..n => ~ShiftByte(wire'[i])
    BY <1>2, <1>3, <1>5, <1>7 DEF ShiftByte
  <2>3. ASSUME NEW i \in 1..Len(wire'), ShiftByte(wire'[i]),
               \A j \in i + 1..Len(wire') : ~ShiftByte(wire'[j])
        PROVE  wire'[i].up <=> ~ShiftHeld'
    <3>1. i \in 1..n /\ wire'[i] = wire[i]
      BY <1>2, <2>2, <2>3
    <3>2. \A j \in i + 1..n : ~ShiftByte(wire[j])
      BY <1>2, <1>3, <1>4, <2>3, <3>1
    <3> QED BY <1>4, <2>1, <2>3, <3>1, <3>2 DEF ShiftFollows, n
  <2>4. (\A i \in 1..Len(wire') : ~ShiftByte(wire'[i])) => (shift' <=> ShiftHeld')
    BY <1>1, <1>2, <1>3, <1>4, <2>1 DEF ShiftFollows, n
  <2> QED BY <2>3, <2>4 DEF ShiftFollows, ShiftByte
<1> QED BY <1>6, <1>7

LEMMA HandleKeepsShift ==
  ASSUME KeyboardInv, ShiftFollows, keyboardHandler
  PROVE  ShiftFollows'
<1> DEFINE n == Len(wire')
<1>1. /\ Len(wire) = n + 1 /\ n \in Nat
      /\ \A i \in 1..n : wire'[i] = wire[i + 1]
      /\ IF ShiftByte(wire[1]) THEN shift' = ~wire[1].up ELSE shift' = shift
      /\ down' = down
  BY HandlerSteps
<1> HIDE DEF n
<1>2. ShiftHeld' <=> ShiftHeld
  BY <1>1 DEF ShiftHeld
<1>3. \A i \in 1..n : ShiftByte(wire'[i]) <=> ShiftByte(wire[i + 1])
  BY <1>1 DEF ShiftByte
<1>4. ASSUME NEW i \in 1..n, ShiftByte(wire'[i]), \A j \in i + 1..n : ~ShiftByte(wire'[j])
      PROVE  wire'[i].up <=> ~ShiftHeld'
  <2>1. ASSUME NEW j \in i + 2..n + 1 PROVE ~ShiftByte(wire[j])
    <3>1. j - 1 \in i + 1..n /\ (j - 1) + 1 = j /\ j - 1 \in 1..n
      BY <1>1, <2>1
    <3>2. ~ShiftByte(wire'[j - 1])
      BY <1>4, <3>1
    <3> QED BY <1>3, <3>1, <3>2
  <2>2. i + 1 \in 1..n + 1 /\ (i + 1) + 1 = i + 2 /\ ShiftByte(wire[i + 1])
    BY <1>1, <1>3, <1>4
  <2>3. wire[i + 1].up <=> ~ShiftHeld
    BY <1>1, <2>1, <2>2 DEF ShiftFollows
  <2> QED BY <1>1, <1>2, <2>3
<1>5. ASSUME \A i \in 1..n : ~ShiftByte(wire'[i])
      PROVE  shift' <=> ShiftHeld'
  <2>1. \A j \in 2..n + 1 : ~ShiftByte(wire[j])
    <3> SUFFICES ASSUME NEW j \in 2..n + 1 PROVE ~ShiftByte(wire[j])
      OBVIOUS
    <3>1. j - 1 \in 1..n /\ (j - 1) + 1 = j
      BY <1>1
    <3> QED BY <1>3, <1>5, <3>1
  <2>2. CASE ShiftByte(wire[1])
    <3>1. 1 \in 1..n + 1 /\ 1 + 1 = 2
      BY <1>1
    <3>2. wire[1].up <=> ~ShiftHeld
      BY <1>1, <2>1, <2>2, <3>1 DEF ShiftFollows
    <3> QED BY <1>1, <1>2, <2>2, <3>2
  <2>3. CASE ~ShiftByte(wire[1])
    <3>1. \A i \in 1..Len(wire) : ~ShiftByte(wire[i])
      BY <1>1, <2>1, <2>3
    <3> QED BY <1>1, <1>2, <2>3, <3>1 DEF ShiftFollows
  <2> QED BY <2>2, <2>3
<1> QED BY <1>4, <1>5 DEF ShiftFollows, ShiftByte, n

(***************************************************************************)
(* The decoder follows the keys: a byte is taken for the second byte of an *)
(* extended key exactly if it was sent as one, and when every byte is read *)
(* shift says whether the shift key is held.  The hypothesis is the limit  *)
(* of the code: one flag serves both shift keys (HandlePlain), so it is    *)
(* right for a keyboard of which one of them is used.                      *)
(***************************************************************************)
THEOREM TheDecoderFollows == OneShiftKey => (Spec => []DecoderFollowsKeys)
<1> SUFFICES ASSUME OneShiftKey PROVE Spec => []DecoderFollowsKeys
  OBVIOUS
<1>1. Init => ShiftFollows
  BY DEF Init, ShiftFollows, ShiftHeld
<1>2. KeyboardInv /\ ShiftFollows /\ [Next]_vars => ShiftFollows'
  <2> SUFFICES ASSUME KeyboardInv, ShiftFollows, [Next]_vars PROVE ShiftFollows'
    OBVIOUS
  <2>1. ASSUME UNCHANGED <<wire, down, shift>> PROVE ShiftFollows'
    BY <2>1 DEF ShiftFollows, ShiftHeld
  <2>2. CASE \E k \in Key : Press(k) \/ Release(k)
    BY <2>2, SendKeepsShift
  <2>3. CASE keyboardHandler
    BY <2>3, HandleKeepsShift
  <2>4. CASE pop_key_event
    BY <2>1, <2>4 DEF pop_key_event, PopTest, PopCopy, PopAdvance, hardware, modifiers
  <2>5. CASE UNCHANGED vars
    BY <2>1, <2>5 DEF vars, hardware, modifiers
  <2> QED BY <2>2, <2>3, <2>4, <2>5 DEF Next
<1>3. KeyboardInv /\ ShiftFollows => DecoderFollowsKeys
  <2> SUFFICES ASSUME KeyboardInv, ShiftFollows PROVE DecoderFollowsKeys
    OBVIOUS
  <2>1. TypeOK /\ (wire # <<>> => Len(wire) >= 1 /\ Head(wire) = wire[1])
    BY DEF KeyboardInv, TypeOK
  <2>2. wire # <<>> /\ wire[1] # Prefix
          => wire[1].ext \in BOOLEAN /\ (wire[1].ext <=> is_extended)
    <3> SUFFICES ASSUME wire # <<>>, wire[1] # Prefix
                 PROVE  wire[1].ext \in BOOLEAN /\ (wire[1].ext <=> is_extended)
      OBVIOUS
    <3>1. wire[1] \in Byte /\ 1 \in 1..Len(wire)
      BY <2>1 DEF TypeOK
    <3> QED BY <3>1 DEF KeyboardInv, WireIsFramed, Prefixed, Byte
  <2>3. wire # <<>> /\ Head(wire) # Prefix => is_extended = Head(wire).ext
    BY <2>1, <2>2 DEF TypeOK
  <2>4. wire = <<>> => (shift <=> ShiftHeld)
    BY DEF ShiftFollows
  <2>5. ShiftHeld <=> \E k \in down : k.code \in {"lshift", "rshift"} /\ ~k.ext
    BY <2>1 DEF ShiftHeld, ShiftKey, TypeOK
  <2> QED BY <2>1, <2>3, <2>4, <2>5 DEF DecoderFollowsKeys
<1> QED BY <1>1, <1>2, <1>3, KeyboardInvHolds, PTL DEF Spec
-----------------------------------------------------------------------------
(***************************************************************************)
(* The terminal.                                                           *)
(***************************************************************************)
(***************************************************************************)
(* Induction over the natural numbers, by sets.                            *)
(***************************************************************************)
LEMMA LeastOf ==
  ASSUME NEW S \in SUBSET Nat, S # {}
  PROVE  \E x \in S : \A y \in S : x <= y
<1> DEFINE R == OpToRel(<, Nat)
<1>1. \A x, y \in Nat : x < y => <<x, y>> \in R
  BY DEF OpToRel
<1>2. IsWellFoundedOn(R, Nat)
  BY NatLessThanWellFounded
<1> HIDE DEF R
<1>3. PICK x \in S : \A y \in S : ~ (<<y, x>> \in R)
  BY <1>2, WFMin
<1>4. ASSUME NEW y \in S PROVE x <= y
  <2>1. x \in Nat /\ y \in Nat
    OBVIOUS
  <2>2. ~ (y < x)
    BY <1>1, <1>3, <2>1
  <2> QED BY <2>1, <2>2
<1> QED BY <1>4

LEMMA Induction ==
  ASSUME NEW T \in SUBSET Nat, 0 \in T, \A n \in T : n + 1 \in T
  PROVE  T = Nat
<1> DEFINE S == Nat \ T
<1> SUFFICES ASSUME S # {} PROVE FALSE
  OBVIOUS
<1>1. S \in SUBSET Nat
  OBVIOUS
<1>2. PICK x \in S : \A y \in S : x <= y
  <2> HIDE DEF S
  <2> QED BY <1>1, LeastOf
<1>3. x \in Nat /\ x # 0
  OBVIOUS
<1>4. x - 1 \in Nat /\ ~ (x <= x - 1) /\ (x - 1) + 1 = x
  BY <1>3
<1>5. x - 1 \notin S
  BY <1>2, <1>4
<1>6. x - 1 \in T
  BY <1>4, <1>5
<1>7. x \in T
  BY <1>4, <1>6
<1> QED BY <1>7

\* What a function that is defined by recursion makes of its first value: step
\* takes the number of the value and the one before.
StaysIn(step, S) == \A k \in Nat, v \in S : step[<<k, v>>] \in S
Iterated(g, x, step, n) == g[0] = x /\ \A k \in 1..n : g[k] = step[<<k, g[k - 1]>>]

LEMMA Iterates ==
  ASSUME NEW S, NEW x \in S, NEW step, StaysIn(step, S), NEW n \in Nat
  PROVE  \E g \in [0..n -> S] : Iterated(g, x, step, n)
<1> DEFINE Is(g, k) == /\ g \in [0..k -> S] /\ g[0] = x
                       /\ \A j \in 1..k : g[j] = step[<<j, g[j - 1]>>]
           T == {k \in Nat : \E g : Is(g, k)}
<1>0. \A k \in Nat, v \in S : step[<<k, v>>] \in S
  BY DEF StaysIn
<1>1. 0 \in T
  <2> DEFINE g == [k \in 0..0 |-> x]
  <2>1. Is(g, 0)
    OBVIOUS
  <2> QED BY <2>1
<1>2. ASSUME NEW k \in T PROVE k + 1 \in T
  <2>0. k \in Nat /\ k + 1 \in Nat
    OBVIOUS
  <2>1. PICK g : Is(g, k)
    OBVIOUS
  <2> DEFINE next == step[<<k + 1, g[k]>>]
             f == [j \in 0..(k + 1) |-> IF j = k + 1 THEN next ELSE g[j]]
  <2>2. next \in S
    <3>1. g[k] \in S
      BY <2>0, <2>1
    <3> QED BY <1>0, <2>0, <3>1
  <2>3. f \in [0..(k + 1) -> S]
    <3>1. \A j \in 0..(k + 1) : j # k + 1 => j \in 0..k
      BY <2>0
    <3> HIDE DEF next
    <3> QED BY <2>1, <2>2, <3>1
  <2>4. f[0] = x
    BY <2>0, <2>1
  <2>5. ASSUME NEW j \in 1..(k + 1) PROVE f[j] = step[<<j, f[j - 1]>>]
    <3>1. f[j - 1] = g[j - 1]
      BY <2>0
    <3>2. CASE j = k + 1
      <4>1. f[j] = next /\ j - 1 = k
        BY <2>0, <3>2
      <4> QED BY <3>1, <3>2, <4>1
    <3>3. CASE j \in 1..k
      <4>1. f[j] = g[j]
        BY <2>0, <3>3
      <4>2. g[j] = step[<<j, g[j - 1]>>]
        <5> HIDE DEF f
        <5> QED BY <2>1, <3>3
      <4> QED BY <3>1, <4>1, <4>2
    <3> QED BY <2>0, <3>2, <3>3
  <2> HIDE DEF f
  <2>6. Is(f, k + 1)
    BY <2>3, <2>4, <2>5
  <2> HIDE DEF Is
  <2> QED BY <2>0, <2>6
<1>3. T \in SUBSET Nat
  OBVIOUS
<1>4. n \in T
  <2> HIDE DEF T
  <2> QED BY <1>1, <1>2, <1>3, Induction
<1> QED BY <1>4 DEF Iterated
LEMMA UpTo ==
  ASSUME NEW n \in Nat, NEW T, 0 \in T, \A k \in 0..(n - 1) : k \in T => k + 1 \in T
  PROVE  \A k \in 0..n : k \in T
<1> DEFINE S == {k \in Nat : k <= n => k \in T}
<1>1. 0 \in S
  OBVIOUS
<1>2. ASSUME NEW k \in S PROVE k + 1 \in S
  <2>1. CASE k + 1 <= n
    <3>1. k \in 0..(n - 1) /\ k <= n /\ k + 1 \in Nat
      BY <2>1
    <3>2. k + 1 \in T
      BY <1>2, <3>1
    <3> QED BY <3>1, <3>2
  <2>2. CASE ~ (k + 1 <= n)
    BY <2>2
  <2> QED BY <2>1, <2>2
<1>3. S \in SUBSET Nat
  OBVIOUS
<1>4. S = Nat
  <2> HIDE DEF S
  <2> QED BY <1>1, <1>2, <1>3, Induction
<1>5. ASSUME NEW k \in 0..n PROVE k \in T
  <2>1. k \in S /\ k <= n
    BY <1>4
  <2> QED BY <2>1
<1> QED BY <1>5
-----------------------------------------------------------------------------
(***************************************************************************)
(* The screen and the order of its cells.                                  *)
(***************************************************************************)
LEMMA ScreenSize ==
  /\ screen_col_num \in Nat /\ screen_col_num > 1
  /\ screen_row_num \in Nat /\ screen_row_num > 1
  /\ INPUT_MAX_SIZE \in Nat /\ INPUT_MAX_SIZE <= (screen_row_num - 1) * screen_col_num
<1>1. /\ screen_width \in Nat \ {0} /\ font_width \in Nat \ {0}
      /\ screen_row_num \in Nat \ {0} /\ screen_col_num > 1
  BY ConsoleAssumption
<1>2. screen_col_num \in Nat
  BY <1>1 DEF screen_col_num
<1>3. /\ INPUT_MAX_SIZE \in Nat /\ INPUT_MAX_SIZE > 1 /\ Len(Prompt) \in Nat
      /\ Len(Prompt) + INPUT_MAX_SIZE <= (screen_row_num - 1) * (screen_col_num - 1)
  BY TerminalAssumption
<1> DEFINE R == screen_row_num - 1
           C == screen_col_num - 1
<1>4. R \in Nat /\ C \in Nat
  BY <1>1, <1>2
<1>5. INPUT_MAX_SIZE <= R * C /\ R * C > 0
  <2>1. R * C \in Int
    BY <1>4
  <2> HIDE DEF R, C
  <2> QED BY <1>3, <2>1 DEF R, C
<1>6. R > 0
  <2> HIDE DEF R, C
  <2>1. R # 0
    BY <1>4, <1>5
  <2> QED BY <1>4, <2>1
<1>7. R * screen_col_num = R * C + R
  <2>1. screen_col_num = C + 1
    BY <1>2
  <2> HIDE DEF R, C
  <2> QED BY <1>4, <2>1
<1>8. INPUT_MAX_SIZE <= R * screen_col_num
  <2>1. R * C \in Int
    BY <1>4
  <2> HIDE DEF R, C
  <2> QED BY <1>3, <1>4, <1>5, <1>7, <2>1
<1> QED BY <1>1, <1>2, <1>3, <1>6, <1>8

\* A character that does not end its line leaves the cursor on it.
LEMMA FitsRow ==
  ASSUME NEW k \in Nat, ~ (k * font_width + font_width >= screen_width)
  PROVE  k < screen_col_num
<1>1. screen_width \in Nat \ {0} /\ font_width \in Nat \ {0}
  BY ConsoleAssumption
<1> DEFINE n == screen_width \div font_width
<1>2. n \in Nat /\ screen_width < n * font_width + font_width
  BY <1>1
<1>3. k * font_width + font_width < screen_width
  BY <1>1
<1> HIDE DEF n
<1>4. k * font_width < n * font_width
  BY <1>1, <1>2, <1>3
<1>5. k < n
  <2>1. CASE k >= n
    <3>1. k * font_width >= n * font_width
      BY <1>1, <1>2, <2>1
    <3> QED BY <1>1, <1>2, <1>4, <3>1
  <2> QED BY <1>2, <2>1
<1> QED BY <1>5 DEF n, screen_col_num

LEMMA RowOffsets ==
  ASSUME NEW a \in Nat
  PROVE  /\ a * screen_col_num \in Nat
         /\ (a + 1) * screen_col_num = a * screen_col_num + screen_col_num
         /\ \A b \in Nat : a < b => a * screen_col_num + screen_col_num <= b * screen_col_num
         /\ \A b \in 0..a : (a - b) * screen_col_num = a * screen_col_num - b * screen_col_num
<1>1. screen_col_num \in Nat
  BY ScreenSize
<1>2. a * screen_col_num \in Nat
  BY <1>1
<1>3. (a + 1) * screen_col_num = a * screen_col_num + screen_col_num
  BY <1>1
<1>4. ASSUME NEW b \in Nat, a < b
      PROVE  a * screen_col_num + screen_col_num <= b * screen_col_num
  <2>1. PICK d \in Nat : b = (a + 1) + d
    <3>1. b - (a + 1) \in Nat /\ b = (a + 1) + (b - (a + 1))
      BY <1>4
    <3> QED BY <3>1
  <2>2. b * screen_col_num = (a + 1) * screen_col_num + d * screen_col_num
    BY <1>1, <2>1
  <2>3. d * screen_col_num \in Nat /\ (a + 1) * screen_col_num \in Nat
    BY <1>1
  <2> QED BY <1>1, <1>2, <1>3, <2>2, <2>3
<1>5. ASSUME NEW b \in 0..a
      PROVE  (a - b) * screen_col_num = a * screen_col_num - b * screen_col_num
  BY <1>1
<1> QED BY <1>2, <1>3, <1>4, <1>5

LEMMA CellFacts ==
  ASSUME NEW p \in Cell
  PROVE  /\ p[1] \in 0..(screen_row_num - 1) /\ p[2] \in 0..(screen_col_num - 1)
         /\ p = <<p[1], p[2]>> /\ p[1] \in Nat /\ p[2] \in Nat
         /\ Offset(p) \in Nat /\ Offset(p) = p[1] * screen_col_num + p[2]
<1>1. /\ p[1] \in 0..(screen_row_num - 1) /\ p[2] \in 0..(screen_col_num - 1)
      /\ p = <<p[1], p[2]>>
  BY DEF Cell
<1>2. p[1] \in Nat /\ p[2] \in Nat
  BY <1>1, ScreenSize
<1>3. p[1] * screen_col_num \in Nat
  BY <1>2, RowOffsets
<1> QED BY <1>1, <1>2, <1>3 DEF Offset

\* A cell and the place of its text when the text has moved up u rows.
LEMMA CellAbove ==
  ASSUME NEW p \in Cell, NEW u \in 0..p[1]
  PROVE  /\ <<p[1] - u, p[2]>> \in Cell
         /\ Offset(<<p[1] - u, p[2]>>) + u * screen_col_num = Offset(p)
         /\ u * screen_col_num \in Nat
<1>1. /\ p[1] \in 0..(screen_row_num - 1) /\ p[2] \in 0..(screen_col_num - 1)
      /\ p[1] \in Nat /\ p[2] \in Nat /\ Offset(p) = p[1] * screen_col_num + p[2]
  BY CellFacts
<1>2. u \in Nat
  BY <1>1
<1>3. (p[1] - u) * screen_col_num = p[1] * screen_col_num - u * screen_col_num
  BY <1>1, RowOffsets
<1>4. u * screen_col_num \in Nat /\ p[1] * screen_col_num \in Nat
  BY <1>1, <1>2, RowOffsets
<1>5. p[1] - u \in 0..(screen_row_num - 1)
  BY <1>1, <1>2, ScreenSize
<1>6. <<p[1] - u, p[2]>> \in Cell
  BY <1>1, <1>5 DEF Cell
<1>7. Offset(<<p[1] - u, p[2]>>) = (p[1] - u) * screen_col_num + p[2]
  BY DEF Offset
<1> QED BY <1>1, <1>3, <1>4, <1>6, <1>7
-----------------------------------------------------------------------------
(***************************************************************************)
(* What the functions of the console make of a screen.                     *)
(***************************************************************************)
Cells == [Cell -> SUBSET Char]

Screen == [cells : Cells, row : 0..(screen_row_num - 1), col : 0..(screen_col_num - 1),
           up : 0..screen_row_num]

LEMMA ScreenFacts ==
  ASSUME NEW s \in Screen
  PROVE  /\ s.cells \in Cells /\ \A p \in Cell : s.cells[p] \in SUBSET Char
         /\ s.row \in 0..(screen_row_num - 1) /\ s.col \in 0..(screen_col_num - 1)
         /\ s.up \in 0..screen_row_num
         /\ s.row \in Nat /\ s.col \in Nat /\ s.up \in Nat
         /\ Cursor(s) = <<s.row, s.col>> /\ Cursor(s) \in Cell
         /\ Offset(Cursor(s)) = s.row * screen_col_num + s.col
         /\ Offset(Cursor(s)) \in Nat
<1>1. /\ s.cells \in Cells
      /\ s.row \in 0..(screen_row_num - 1) /\ s.col \in 0..(screen_col_num - 1)
      /\ s.up \in 0..screen_row_num
  BY DEF Screen
<1>2. s.row \in Nat /\ s.col \in Nat /\ s.up \in Nat
  BY <1>1, ScreenSize
<1>3. \A p \in Cell : s.cells[p] \in SUBSET Char
  BY <1>1 DEF Cells
<1>4. Cursor(s) = <<s.row, s.col>> /\ Cursor(s) \in Cell
  BY <1>1 DEF Cursor, Cell
<1>5. Offset(Cursor(s)) = s.row * screen_col_num + s.col
  BY <1>4 DEF Offset
<1>6. Offset(Cursor(s)) \in Nat
  BY <1>4, CellFacts
<1> QED BY <1>1, <1>2, <1>3, <1>4, <1>5, <1>6

\* The cells when c is drawn at the cursor, and when the text moves up.
Inked(s, c) == [p \in Cell |-> IF c # Newline /\ p = Cursor(s) THEN s.cells[p] \cup Ink(c)
                                                              ELSE s.cells[p]]
MovedUp(cells) == [p \in Cell |-> IF p[1] + 1 < screen_row_num THEN cells[<<p[1] + 1, p[2]>>]
                                                               ELSE {}]

\* The cursor stays on its row behind c.
StaysOnRow(s, c) ==
  c # Newline /\ ~ ((s.col + 1) * font_width + font_width >= screen_width)

LEMMA InkedType ==
  ASSUME NEW s \in Screen, NEW c \in Char
  PROVE  Inked(s, c) \in Cells
<1>1. \A p \in Cell : s.cells[p] \in SUBSET Char
  BY ScreenFacts
<1>2. Ink(c) \in SUBSET Char
  BY DEF Ink
<1>3. \A p \in Cell : s.cells[p] \cup Ink(c) \in SUBSET Char
  BY <1>1, <1>2
<1> QED BY <1>1, <1>3 DEF Inked, Cells

LEMMA MovedUpType ==
  ASSUME NEW d \in Cells
  PROVE  MovedUp(d) \in Cells
<1>1. ASSUME NEW p \in Cell, p[1] + 1 < screen_row_num
      PROVE  d[<<p[1] + 1, p[2]>>] \in SUBSET Char
  <2>1. p[1] + 1 \in 0..(screen_row_num - 1) /\ p[2] \in 0..(screen_col_num - 1)
    BY <1>1, CellFacts, ScreenSize
  <2>2. <<p[1] + 1, p[2]>> \in Cell
    BY <2>1 DEF Cell
  <2> QED BY <2>2 DEF Cells
<1> QED BY <1>1 DEF MovedUp, Cells

\* newline, for a screen whose cursor may have passed the last column.
LEMMA NewlineIs ==
  ASSUME NEW d \in Cells, NEW r \in 0..(screen_row_num - 1), NEW c \in Nat,
         NEW u \in 0..screen_row_num, NEW s, s = [cells |-> d, row |-> r, col |-> c, up |-> u]
  PROVE  /\ newline(s) \in Screen /\ newline(s).col = 0
         /\ r < screen_row_num - 1 =>
              newline(s).row = r + 1 /\ newline(s).up = u /\ newline(s).cells = d
         /\ ~ (r < screen_row_num - 1) =>
              /\ newline(s).row = r /\ newline(s).cells = MovedUp(d)
              /\ newline(s).up = IF u = screen_row_num THEN u ELSE u + 1
<1>0. r \in Nat /\ u \in Nat /\ 0 \in 0..(screen_col_num - 1)
  BY ScreenSize
<1>1. CASE r < screen_row_num - 1
  <2>1. newline(s) = [cells |-> d, row |-> r + 1, col |-> 0, up |-> u]
    BY <1>1 DEF newline, CanGoDown
  <2>2. r + 1 \in 0..(screen_row_num - 1)
    BY <1>0, <1>1, ScreenSize
  <2> QED BY <1>0, <1>1, <2>1, <2>2 DEF Screen
<1>2. CASE ~ (r < screen_row_num - 1)
  <2> DEFINE v == IF u = screen_row_num THEN u ELSE u + 1
  <2>1. newline(s) = [cells |-> MovedUp(d), row |-> r, col |-> 0, up |-> v]
    BY <1>2 DEF newline, CanGoDown, MovedUp
  <2>2. v \in 0..screen_row_num
    BY <1>0, ScreenSize
  <2>3. MovedUp(d) \in Cells
    BY MovedUpType
  <2> HIDE DEF v
  <2>4. newline(s) \in Screen /\ newline(s).col = 0 /\ newline(s).row = r
        /\ newline(s).up = v /\ newline(s).cells = MovedUp(d)
    BY <1>0, <2>1, <2>2, <2>3 DEF Screen
  <2> QED BY <1>2, <2>4 DEF v
<1> QED BY <1>1, <1>2

LEMMA ScreenRecord ==
  ASSUME NEW s \in Screen
  PROVE  s = [cells |-> s.cells, row |-> s.row, col |-> s.col, up |-> s.up]
BY DEF Screen

\* A screen whose cursor may be anywhere.
Drawing == [cells : Cells, row : Nat, col : Nat, up : Nat]

LEMMA DrawingWith ==
  ASSUME NEW s \in Drawing
  PROVE  /\ \A x \in Cells, y \in Nat : LET t == [s EXCEPT !.cells = x, !.col = y] IN
              t \in Drawing /\ t.cells = x /\ t.col = y /\ t.row = s.row /\ t.up = s.up
         /\ \A x, y \in Nat : LET t == [s EXCEPT !.col = x, !.row = y] IN
              t \in Drawing /\ t.cells = s.cells /\ t.col = x /\ t.row = y /\ t.up = s.up
         /\ s = [cells |-> s.cells, row |-> s.row, col |-> s.col, up |-> s.up]
BY DEF Drawing

LEMMA ScreenIsDrawing ==
  /\ Screen \subseteq Drawing
  /\ \A s \in Drawing : /\ s.row < screen_row_num /\ s.col < screen_col_num
                         /\ s.up <= screen_row_num
                         => s \in Screen
BY ScreenSize DEF Screen, Drawing

\* The three ways of kputchar: on along the row, down a row, or on the last row
\* with the text moved up.
LEMMA KputcharIs ==
  ASSUME NEW s \in Screen, NEW c \in Char, NEW t, t = kputchar(s, c)
  PROVE  /\ t \in Screen
         /\ StaysOnRow(s, c) =>
              /\ t.row = s.row /\ t.col = s.col + 1 /\ t.up = s.up
              /\ t.cells = Inked(s, c)
         /\ ~ StaysOnRow(s, c) /\ s.row < screen_row_num - 1 =>
              /\ t.row = s.row + 1 /\ t.col = 0 /\ t.up = s.up
              /\ t.cells = Inked(s, c)
         /\ ~ StaysOnRow(s, c) /\ ~ (s.row < screen_row_num - 1) =>
              /\ t.row = s.row /\ t.col = 0
              /\ t.up = IF s.up = screen_row_num THEN s.up ELSE s.up + 1
              /\ t.cells = MovedUp(Inked(s, c))
<1> DEFINE d == [s EXCEPT !.cells = [p \in Cell |-> IF p = Cursor(s) THEN @[p] \cup Ink(c)
                                                   ELSE @[p]],
                          !.col = @ + 1]
           full == d.col * font_width + font_width >= screen_width
           k == s.col + 1
<1>1. /\ s.row \in 0..(screen_row_num - 1) /\ s.up \in 0..screen_row_num
      /\ s.col \in Nat /\ k \in Nat /\ s.cells \in Cells
  BY ScreenFacts
<1>2. Inked(s, c) \in Cells
  BY InkedType
<1>3. CASE c = Newline
  <2>1. t = newline(s) /\ ~ StaysOnRow(s, c)
    BY <1>3 DEF kputchar, StaysOnRow
  <2>2. Inked(s, c) = s.cells
    BY <1>1, <1>3 DEF Inked, Cells
  <2>3. s = [cells |-> s.cells, row |-> s.row, col |-> s.col, up |-> s.up]
    BY ScreenRecord
  <2> HIDE DEF d, full, k
  <2> QED BY <1>1, <2>1, <2>2, <2>3, NewlineIs
<1>4. CASE c # Newline
  <2>1. d = [cells |-> Inked(s, c), row |-> s.row, col |-> k, up |-> s.up]
    <3>1. Inked(s, c) = [p \in Cell |-> IF p = Cursor(s) THEN s.cells[p] \cup Ink(c)
                                                        ELSE s.cells[p]]
      BY <1>4 DEF Inked
    <3> DEFINE drawn == [p \in Cell |-> IF p = Cursor(s) THEN s.cells[p] \cup Ink(c)
                                                        ELSE s.cells[p]]
    <3>2. d = [s EXCEPT !.cells = drawn, !.col = k]
      OBVIOUS
    <3>3. drawn = Inked(s, c)
      BY <3>1
    <3> HIDE DEF d, drawn, k
    <3>4. /\ d \in Drawing /\ d.cells = Inked(s, c) /\ d.col = k
          /\ d.row = s.row /\ d.up = s.up
      <4>1. s \in Drawing /\ k \in Nat
        BY <1>1, ScreenIsDrawing DEF k
      <4>2. \A x \in Cells, y \in Nat : LET w == [s EXCEPT !.cells = x, !.col = y] IN
              w \in Drawing /\ w.cells = x /\ w.col = y /\ w.row = s.row /\ w.up = s.up
        BY ONLY <4>1, DrawingWith
      <4>3. d = [s EXCEPT !.cells = Inked(s, c), !.col = k]
        BY <3>2, <3>3
      <4> QED BY ONLY <1>2, <4>1, <4>2, <4>3
    <3>5. d = [cells |-> d.cells, row |-> d.row, col |-> d.col, up |-> d.up]
      BY ONLY <3>4, DrawingWith
    <3> QED BY ONLY <3>4, <3>5
  <2>2. t = IF full THEN newline(d) ELSE d
    BY <1>4 DEF kputchar
  <2>3. StaysOnRow(s, c) <=> ~ full
    BY <1>4, <2>1 DEF StaysOnRow
  <2> HIDE DEF d, full
  <2>4. CASE full
    <3>1. t = newline(d)
      BY <2>2, <2>4
    <3> HIDE DEF k
    <3> QED BY ONLY <1>1, <1>2, <2>1, <2>3, <2>4, <3>1, NewlineIs
  <2>5. CASE ~ full
    <3>1. t = d
      BY <2>2, <2>5
    <3>2. k < screen_col_num
      <4>1. ~ (k * font_width + font_width >= screen_width)
        BY <2>1, <2>5 DEF full
      <4> HIDE DEF k
      <4> QED BY <1>1, <4>1, FitsRow
    <3>3. k \in 0..(screen_col_num - 1)
      BY <1>1, <3>2, ScreenSize
    <3>4. t \in Screen /\ t.row = s.row /\ t.col = k /\ t.up = s.up /\ t.cells = Inked(s, c)
      <4> HIDE DEF k
      <4> QED BY <1>1, <1>2, <2>1, <3>1, <3>3 DEF Screen
    <3> QED BY <2>3, <2>5, <3>4
  <2> QED BY <2>4, <2>5
<1> QED BY <1>3, <1>4

\* kputs is kputchar, one character after the other.
PutUpTo(g, s, text, n) ==
  /\ g[0] = s
  /\ \A k \in 1..n : g[k] = kputchar(g[k - 1], text[k])
  /\ \A k \in 0..n : g[k] \in Screen

LEMMA KputsSteps ==
  ASSUME NEW s \in Screen, NEW text \in Seq(Char)
  PROVE  \E g : PutUpTo(g, s, text, Len(text)) /\ kputs(s, text) = g[Len(text)]
<1> DEFINE n == Len(text)
           put(v, k) == IF k \in 1..n THEN kputchar(v, text[k]) ELSE v
           step == [p \in Nat \X Screen |-> put(p[2], p[1])]
           Is(f) == f = [k \in 0..n |-> IF k = 0 THEN s ELSE kputchar(f[k - 1], text[k])]
<1>1. n \in Nat /\ \A k \in 1..n : text[k] \in Char
  OBVIOUS
<1>2. \A k \in Nat, v \in Screen : step[<<k, v>>] = put(v, k)
  OBVIOUS
<1>3. \A k \in Nat, v \in Screen : put(v, k) \in Screen
  <2>1. ASSUME NEW k \in Nat, NEW v \in Screen PROVE put(v, k) \in Screen
    <3>1. CASE k \in 1..n
      <4>1. kputchar(v, text[k]) \in Screen
        BY <1>1, <3>1, KputcharIs
      <4> QED BY <3>1, <4>1
    <3>2. CASE k \notin 1..n
      BY <3>2
    <3> QED BY <3>1, <3>2
  <2> QED BY <2>1
<1>4. StaysIn(step, Screen)
  <2> HIDE DEF step, put
  <2> QED BY <1>2, <1>3 DEF StaysIn
<1> HIDE DEF step
<1>5. \E g \in [0..n -> Screen] : Iterated(g, s, step, n)
  <2> HIDE DEF n, Is, put
  <2> QED BY ONLY <1>1, <1>4, s \in Screen, Iterates
<1>6. PICK g \in [0..n -> Screen] : g[0] = s /\ \A k \in 1..n : g[k] = step[<<k, g[k - 1]>>]
  BY <1>5 DEF Iterated
<1>7. \A k \in 1..n : g[k] = kputchar(g[k - 1], text[k])
  <2>1. ASSUME NEW k \in 1..n PROVE g[k] = kputchar(g[k - 1], text[k])
    <3>1. k - 1 \in 0..n /\ k \in Nat
      BY <1>1
    <3>2. step[<<k, g[k - 1]>>] = put(g[k - 1], k)
      BY <1>2, <3>1
    <3> QED BY <1>6, <3>2
  <2> QED BY <2>1
<1>8. Is(g)
  <2>1. ASSUME NEW k \in 0..n
        PROVE  g[k] = IF k = 0 THEN s ELSE kputchar(g[k - 1], text[k])
    <3>1. CASE k = 0
      BY <1>6, <3>1
    <3>2. CASE k # 0
      <4>1. k \in 1..n
        BY <1>1, <3>2
      <4> QED BY <1>7, <3>2, <4>1
    <3> QED BY <3>1, <3>2
  <2> QED BY <2>1
<1>9. ASSUME NEW f, Is(f) PROVE f = g
  <2> DEFINE T == {k \in 0..n : f[k] = g[k]}
  <2>1. 0 \in T
    BY <1>1, <1>6, <1>9
  <2>2. ASSUME NEW k \in 0..(n - 1), k \in T PROVE k + 1 \in T
    <3>1. k + 1 \in 1..n /\ k + 1 \in 0..n /\ k + 1 # 0 /\ (k + 1) - 1 = k
      BY <1>1
    <3>2. f[k + 1] = kputchar(f[k], text[k + 1])
      BY <1>9, <3>1
    <3>3. g[k + 1] = kputchar(g[k], text[k + 1])
      BY <1>7, <3>1
    <3> QED BY <2>2, <3>1, <3>2, <3>3
  <2>3. \A k \in 0..n : k \in T
    <3> HIDE DEF T, n, Is
    <3> QED BY ONLY <1>1, <2>1, <2>2, UpTo
  <2>4. \A k \in 0..n : f[k] = g[k]
    BY <2>3
  <2>5. f = [k \in 0..n |-> f[k]] /\ g = [k \in 0..n |-> g[k]]
    BY <1>9
  <2> QED BY <2>4, <2>5
<1>10. kputs(s, text) = (CHOOSE f : Is(f))[n]
  BY DEF kputs
<1>11. (CHOOSE f : Is(f)) = g
  <2> HIDE DEF Is
  <2> QED BY <1>8, <1>9
<1>12. \A k \in 0..n : g[k] \in Screen
  OBVIOUS
<1>13. PutUpTo(g, s, text, n)
  BY <1>6, <1>7, <1>12 DEF PutUpTo
<1> QED BY <1>10, <1>11, <1>13

LEMMA KputsType ==
  ASSUME NEW s \in Screen, NEW text \in Seq(Char)
  PROVE  kputs(s, text) \in Screen
<1>1. PICK g : PutUpTo(g, s, text, Len(text)) /\ kputs(s, text) = g[Len(text)]
  BY KputsSteps
<1>2. Len(text) \in 0..Len(text)
  OBVIOUS
<1> QED BY <1>1, <1>2 DEF PutUpTo

LEMMA KputsNothing ==
  ASSUME NEW s \in Screen
  PROVE  kputs(s, <<>>) = s
<1>1. <<>> \in Seq(Char) /\ Len(<<>>) = 0
  OBVIOUS
<1>2. PICK g : PutUpTo(g, s, <<>>, 0) /\ kputs(s, <<>>) = g[0]
  BY <1>1, KputsSteps
<1> QED BY <1>2 DEF PutUpTo

LEMMA AppendFacts ==
  ASSUME NEW S, NEW l \in Seq(S), NEW e \in S
  PROVE  /\ Len(l) \in Nat /\ Append(l, e) \in Seq(S) /\ Len(Append(l, e)) = Len(l) + 1
         /\ Append(l, e)[Len(l) + 1] = e /\ \A k \in 1..Len(l) : Append(l, e)[k] = l[k]
BY AppendProperties

LEMMA KputsAppend ==
  ASSUME NEW s \in Screen, NEW text \in Seq(Char), NEW c \in Char
  PROVE  kputs(s, Append(text, c)) = kputchar(kputs(s, text), c)
<1> DEFINE n == Len(text)
           longer == Append(text, c)
<1>1. /\ n \in Nat /\ longer \in Seq(Char) /\ Len(longer) = n + 1
      /\ longer[n + 1] = c /\ \A k \in 1..n : longer[k] = text[k]
  BY ONLY text \in Seq(Char), c \in Char, AppendFacts
<1>2. PICK g : PutUpTo(g, s, text, n) /\ kputs(s, text) = g[n]
  BY KputsSteps
<1> HIDE DEF longer
<1>3. PICK f : PutUpTo(f, s, longer, n + 1) /\ kputs(s, longer) = f[n + 1]
  BY <1>1, KputsSteps
<1> HIDE DEF n
<1> DEFINE T == {k \in 0..n : f[k] = g[k]}
<1>4. 0 \in T
  BY <1>1, <1>2, <1>3 DEF PutUpTo
<1>5. ASSUME NEW k \in 0..(n - 1), k \in T PROVE k + 1 \in T
  <2>1. /\ k + 1 \in 1..n /\ k + 1 \in 1..(n + 1) /\ k + 1 \in 0..n /\ (k + 1) - 1 = k
    BY <1>1
  <2>2. f[k + 1] = kputchar(f[k], longer[k + 1]) /\ g[k + 1] = kputchar(g[k], text[k + 1])
    BY <1>2, <1>3, <2>1 DEF PutUpTo
  <2> QED BY <1>1, <1>5, <2>1, <2>2
<1>6. \A k \in 0..n : k \in T
  <2> HIDE DEF T
  <2> QED BY ONLY <1>1, <1>4, <1>5, UpTo
<1>7. f[n] = g[n]
  BY <1>1, <1>6
<1>8. n + 1 \in 1..(n + 1) /\ (n + 1) - 1 = n
  BY <1>1
<1>9. f[n + 1] = kputchar(f[n], longer[n + 1])
  BY <1>3, <1>8 DEF PutUpTo
<1> QED BY <1>1, <1>2, <1>3, <1>7, <1>9 DEF longer
-----------------------------------------------------------------------------
(***************************************************************************)
(* What keys leave alone: on the screen s, k characters behind the prompt  *)
(* of p, the text before the input has only moved up.                      *)
(***************************************************************************)
Kept(p, s) ==
  \A q \in Cell : Offset(q) < Offset(Cursor(p)) /\ q[1] >= s.up =>
    s.cells[<<q[1] - s.up, q[2]>>] = p.cells[q]

Behind(p, s, k) ==
  /\ s \in Screen
  /\ Offset(Cursor(s)) >= k
  /\ s.up < screen_row_num =>
       Offset(Cursor(s)) + s.up * screen_col_num >= Offset(Cursor(p)) + k
  /\ Kept(p, s)

\* A screen on which no cell from the cursor on has another text.
LEMMA KeptBefore ==
  ASSUME NEW p \in Screen, NEW s \in Screen, NEW t \in Screen, Kept(p, s), t.up = s.up,
         s.up < screen_row_num =>
           \A q \in Cell : Offset(q) + s.up * screen_col_num < Offset(Cursor(p))
                             => t.cells[q] = s.cells[q]
  PROVE  Kept(p, t)
<1> SUFFICES ASSUME NEW q \in Cell, Offset(q) < Offset(Cursor(p)), q[1] >= t.up
             PROVE  t.cells[<<q[1] - t.up, q[2]>>] = p.cells[q]
  BY DEF Kept
<1> DEFINE r == <<q[1] - s.up, q[2]>>
<1>1. s.up \in 0..q[1] /\ s.up < screen_row_num
  BY CellFacts, ScreenFacts, ScreenSize
<1>2. r \in Cell /\ Offset(r) + s.up * screen_col_num = Offset(q)
  BY <1>1, CellAbove
<1>3. s.cells[r] = p.cells[q]
  BY DEF Kept
<1> HIDE DEF r
<1>4. t.cells[r] = s.cells[r]
  BY <1>1, <1>2
<1> QED BY <1>3, <1>4 DEF r

LEMMA BehindKputchar ==
  ASSUME NEW p \in Screen, NEW s, NEW k \in Nat, NEW c \in Char, Behind(p, s, k),
         k + 1 <= (screen_row_num - 1) * screen_col_num
  PROVE  Behind(p, kputchar(s, c), k + 1)
<1> DEFINE t == kputchar(s, c)
           d == Inked(s, c)
           C == screen_col_num
           O == Offset(Cursor(s))
           P == Offset(Cursor(p))
<1> SUFFICES Behind(p, t, k + 1)
  OBVIOUS
<1>1. /\ s \in Screen /\ O >= k /\ Kept(p, s)
      /\ s.up < screen_row_num => O + s.up * C >= P + k
  BY DEF Behind
<1>2. /\ s.row \in 0..(screen_row_num - 1) /\ s.col \in 0..(C - 1) /\ s.up \in 0..screen_row_num
      /\ s.row \in Nat /\ s.col \in Nat /\ s.up \in Nat
      /\ O = s.row * C + s.col /\ O \in Nat /\ P \in Nat /\ Cursor(s) \in Cell
  BY <1>1, ScreenFacts
<1>3. /\ C \in Nat /\ C > 1 /\ screen_row_num \in Nat /\ screen_row_num > 1
      /\ s.row * C \in Nat /\ (s.row + 1) * C = s.row * C + C
      /\ s.up * C \in Nat /\ (s.up + 1) * C = s.up * C + C
  BY <1>2, ScreenSize, RowOffsets
<1>4. t \in Screen /\ d \in Cells
  BY <1>1, KputcharIs, InkedType
<1>5. Offset(Cursor(t)) = t.row * C + t.col
  BY <1>4, ScreenFacts
<1>6. \A q \in Cell : q # Cursor(s) => d[q] = s.cells[q]
  BY DEF Inked
<1>7. ASSUME t.up = s.up, t.cells = d PROVE Kept(p, t)
  <2>1. ASSUME s.up < screen_row_num, NEW q \in Cell, Offset(q) + s.up * C < P
        PROVE  t.cells[q] = s.cells[q]
    <3>1. O + s.up * C >= P
      BY <1>1, <1>2, <1>3, <2>1
    <3>2. Offset(q) \in Nat
      BY CellFacts
    <3>3. Offset(q) < O
      BY <1>2, <1>3, <2>1, <3>1, <3>2
    <3>4. q # Cursor(s)
      BY <1>2, <3>3
    <3> QED BY <1>6, <1>7, <3>4
  <2> HIDE DEF t, d
  <2> QED BY <1>1, <1>4, <1>7, <2>1, KeptBefore DEF P, C
<1>8. CASE StaysOnRow(s, c)
  <2>1. t.row = s.row /\ t.col = s.col + 1 /\ t.up = s.up /\ t.cells = d
    BY <1>1, <1>8, KputcharIs
  <2>2. Kept(p, t)
    BY <1>7, <2>1
  <2>3. Offset(Cursor(t)) = O + 1
    <3>1. Offset(Cursor(t)) = s.row * C + (s.col + 1)
      BY <1>5, <2>1
    <3> HIDE DEF t, C, O
    <3> QED BY <1>2, <1>3, <3>1
  <2> HIDE DEF t, d, C, O, P
  <2>4. Offset(Cursor(t)) >= k + 1
    BY <1>1, <1>2, <2>3
  <2>5. t.up < screen_row_num => Offset(Cursor(t)) + t.up * C >= P + (k + 1)
    BY <1>1, <1>2, <1>3, <2>1, <2>3
  <2> QED BY <1>4, <2>2, <2>4, <2>5 DEF Behind, C, P
<1>9. CASE ~ StaysOnRow(s, c) /\ s.row < screen_row_num - 1
  <2>1. t.row = s.row + 1 /\ t.col = 0 /\ t.up = s.up /\ t.cells = d
    BY <1>1, <1>9, KputcharIs
  <2>2. Kept(p, t)
    BY <1>7, <2>1
  <2>3. Offset(Cursor(t)) \in Nat /\ Offset(Cursor(t)) >= O + 1
    BY <1>2, <1>3, <1>5, <2>1
  <2> HIDE DEF t, d, C, O, P
  <2>4. Offset(Cursor(t)) >= k + 1
    BY <1>1, <1>2, <2>3
  <2>5. t.up < screen_row_num => Offset(Cursor(t)) + t.up * C >= P + (k + 1)
    BY <1>1, <1>2, <1>3, <2>1, <2>3
  <2> QED BY <1>4, <2>2, <2>4, <2>5 DEF Behind, C, P
<1>10. CASE ~ StaysOnRow(s, c) /\ ~ (s.row < screen_row_num - 1)
  <2>1. /\ t.row = s.row /\ t.col = 0 /\ t.cells = MovedUp(d)
        /\ t.up = IF s.up = screen_row_num THEN s.up ELSE s.up + 1
    BY <1>1, <1>10, KputcharIs
  <2>2. s.row = screen_row_num - 1
    BY <1>2, <1>3, <1>10
  <2>3. Offset(Cursor(t)) >= k + 1 /\ Offset(Cursor(t)) = s.row * C
    BY <1>3, <1>5, <2>1, <2>2
  <2>4. t.up < screen_row_num => s.up < screen_row_num /\ t.up = s.up + 1
    BY <1>2, <1>3, <2>1
  <2>5. t.up < screen_row_num => Offset(Cursor(t)) + t.up * C >= P + (k + 1)
    <3>1. CASE t.up < screen_row_num
      <4>1. t.up * C = s.up * C + C /\ O + s.up * C >= P + k
        BY <1>1, <1>3, <2>4, <3>1
      <4> HIDE DEF t, d, O, P, C
      <4> QED BY <1>2, <1>3, <2>3, <4>1
    <3> QED BY <3>1
  <2>6. Kept(p, t)
    <3> SUFFICES ASSUME NEW q \in Cell, Offset(q) < P, q[1] >= t.up
                 PROVE  t.cells[<<q[1] - t.up, q[2]>>] = p.cells[q]
      BY DEF Kept
    <3>1. q[1] \in Nat /\ q[1] < screen_row_num /\ q[1] \in 0..(screen_row_num - 1)
      BY CellFacts, ScreenSize
    <3>2. t.up < screen_row_num
      BY <1>3, <1>4, <3>1, ScreenFacts
    <3>3. t.up = s.up + 1 /\ s.up < screen_row_num /\ s.up + 1 \in 0..q[1] /\ s.up \in 0..q[1]
      BY <1>2, <2>4, <3>1, <3>2
    <3> DEFINE r == <<q[1] - s.up, q[2]>>
               above == <<q[1] - (s.up + 1), q[2]>>
    <3>4. above \in Cell /\ r \in Cell /\ Offset(r) + s.up * C = Offset(q)
      BY <3>3, CellAbove
    <3>5. above[1] + 1 < screen_row_num /\ <<above[1] + 1, above[2]>> = r
      BY <1>2, <1>3, <3>1, <3>3
    <3>6. t.cells[above] = d[r]
      <4> HIDE DEF r, above, d, t
      <4> QED BY <2>1, <3>4, <3>5 DEF MovedUp
    <3>7. d[r] = s.cells[r]
      <4>1. O + s.up * C >= P
        BY <1>1, <1>2, <1>3, <3>3
      <4>2. Offset(r) \in Nat /\ Offset(q) \in Nat
        BY <3>4, CellFacts
      <4> HIDE DEF r, d
      <4>3. Offset(r) < O
        BY <1>2, <1>3, <3>4, <4>1, <4>2
      <4>4. r # Cursor(s)
        BY <1>2, <4>3
      <4> QED BY <1>6, <3>4, <4>4
    <3>8. s.cells[r] = p.cells[q]
      <4>1. q[1] >= s.up
        BY <1>2, <3>1, <3>3
      <4> QED BY <1>1, <4>1 DEF Kept
    <3> HIDE DEF r, d, t
    <3> QED BY <3>3, <3>6, <3>7, <3>8
  <2> HIDE DEF t, d, O
  <2> QED BY <1>4, <2>3, <2>5, <2>6 DEF Behind
<1> QED BY <1>8, <1>9, <1>10

LEMMA BehindKputs ==
  ASSUME NEW p \in Screen, NEW s, NEW text \in Seq(Char), Behind(p, s, 0),
         Len(text) <= (screen_row_num - 1) * screen_col_num
  PROVE  Behind(p, kputs(s, text), Len(text))
<1> DEFINE n == Len(text)
<1>1. s \in Screen /\ n \in Nat /\ \A k \in 1..n : text[k] \in Char
  BY DEF Behind
<1>2. PICK g : PutUpTo(g, s, text, n) /\ kputs(s, text) = g[n]
  BY <1>1, KputsSteps
<1>3. n <= (screen_row_num - 1) * screen_col_num
  OBVIOUS
<1>30. (screen_row_num - 1) * screen_col_num \in Int
  BY ScreenSize
<1> HIDE DEF n
<1> DEFINE T == {k \in 0..n : Behind(p, g[k], k)}
<1>4. 0 \in T
  BY <1>1, <1>2 DEF PutUpTo
<1>5. ASSUME NEW k \in 0..(n - 1), k \in T PROVE k + 1 \in T
  <2>1. k + 1 \in 1..n /\ k + 1 \in 0..n /\ (k + 1) - 1 = k /\ k \in Nat
    BY <1>1
  <2>2. k + 1 <= (screen_row_num - 1) * screen_col_num
    BY <1>1, <1>3, <1>30, <2>1
  <2>3. g[k + 1] = kputchar(g[k], text[k + 1]) /\ text[k + 1] \in Char
    BY <1>1, <1>2, <2>1 DEF PutUpTo
  <2>4. Behind(p, g[k], k)
    BY <1>5
  <2>5. Behind(p, kputchar(g[k], text[k + 1]), k + 1)
    BY ONLY p \in Screen, <2>1, <2>2, <2>3, <2>4, BehindKputchar
  <2> QED BY <2>1, <2>3, <2>5
<1>6. \A k \in 0..n : k \in T
  <2> HIDE DEF T
  <2> QED BY ONLY <1>1, <1>4, <1>5, UpTo
<1>7. Behind(p, g[n], n)
  BY <1>1, <1>6
<1> QED BY <1>2, <1>7 DEF n
-----------------------------------------------------------------------------
(***************************************************************************)
(* What backspace and a recall make of the screen.                         *)
(***************************************************************************)
Cleared(s, t, at, len) ==
  \A q \in Cell : t.cells[q] = IF at <= Offset(q) /\ Offset(q) < at + len THEN {} ELSE s.cells[q]

IsCleared(t, s, at, len) ==
  t \in Screen /\ t.row = s.row /\ t.col = s.col /\ t.up = s.up /\ Cleared(s, t, at, len)

LEMMA ClearIs ==
  ASSUME NEW s \in Screen, NEW col, NEW row, <<row, col>> \in Cell, NEW len \in Nat
  PROVE  IsCleared(clear_text_region(s, col, row, len), s, Offset(<<row, col>>), len)
<1> DEFINE d == [q \in Cell |-> IF q \in Region(col, row, len) THEN {} ELSE s.cells[q]]
           t == clear_text_region(s, col, row, len)
<1>1. t = [s EXCEPT !.cells = d]
  BY DEF clear_text_region
<1>2. d \in Cells
  <2>1. \A q \in Cell : s.cells[q] \in SUBSET Char
    BY ScreenFacts
  <2> QED BY <2>1 DEF Cells
<1>3. /\ t \in Screen /\ t.row = s.row /\ t.col = s.col /\ t.up = s.up /\ t.cells = d
  <2> HIDE DEF d, t
  <2> QED BY <1>1, <1>2 DEF Screen
<1>4. \A q \in Cell : q \in Region(col, row, len) <=>
        Offset(<<row, col>>) <= Offset(q) /\ Offset(q) < Offset(<<row, col>>) + len
  BY DEF Region
<1>5. Cleared(s, t, Offset(<<row, col>>), len)
  <2> HIDE DEF t
  <2> QED BY <1>3, <1>4 DEF Cleared
<1> QED BY <1>3, <1>5 DEF IsCleared

LEMMA BackspaceIs ==
  ASSUME NEW s \in Screen, Offset(Cursor(s)) > 0, NEW t, t = backspace(s)
  PROVE  /\ t \in Screen /\ t.up = s.up /\ Offset(Cursor(t)) = Offset(Cursor(s)) - 1
         /\ s.col # 0 => t.row = s.row /\ t.col = s.col - 1
         /\ \A q \in Cell : t.cells[q] = IF Offset(q) = Offset(Cursor(t)) THEN {} ELSE s.cells[q]
<1> DEFINE p == IF s.col = 0 THEN <<s.row - 1, screen_col_num - 1>> ELSE <<s.row, s.col - 1>>
           u == [s EXCEPT !.col = p[2], !.row = p[1]]
<1>1. /\ s.row \in 0..(screen_row_num - 1) /\ s.col \in 0..(screen_col_num - 1)
      /\ s.row \in Nat /\ s.col \in Nat
      /\ Offset(Cursor(s)) = s.row * screen_col_num + s.col
  BY ScreenFacts
<1>2. screen_col_num \in Nat /\ screen_col_num > 1 /\ screen_row_num \in Nat
  BY ScreenSize
<1>3. p \in Cell /\ Offset(p) = Offset(Cursor(s)) - 1
  <2>1. CASE s.col = 0
    <3>1. s.row # 0
      BY <1>1, <1>2, <2>1
    <3>2. s.row - 1 \in 0..(screen_row_num - 1) /\ screen_col_num - 1 \in 0..(screen_col_num - 1)
          /\ 1 \in 0..s.row
      BY <1>1, <1>2, <3>1
    <3>3. p \in Cell
      BY <2>1, <3>2 DEF Cell
    <3>4. (s.row - 1) * screen_col_num = s.row * screen_col_num - 1 * screen_col_num
      BY <1>1, <3>2, RowOffsets
    <3>5. 1 * screen_col_num = screen_col_num /\ s.row * screen_col_num \in Nat
      BY <1>1, <1>2, RowOffsets
    <3>6. Offset(p) = (s.row - 1) * screen_col_num + (screen_col_num - 1)
      BY <2>1 DEF Offset
    <3> HIDE DEF p
    <3> QED BY <1>1, <1>2, <2>1, <3>3, <3>4, <3>5, <3>6
  <2>2. CASE s.col # 0
    <3>1. s.col - 1 \in 0..(screen_col_num - 1)
      BY <1>1, <1>2, <2>2
    <3>2. p \in Cell
      BY <1>1, <2>2, <3>1 DEF Cell
    <3>3. s.row * screen_col_num \in Nat /\ Offset(p) = s.row * screen_col_num + (s.col - 1)
      BY <1>1, <2>2, RowOffsets DEF Offset
    <3> HIDE DEF p
    <3> QED BY <1>1, <3>2, <3>3
  <2> QED BY <2>1, <2>2
<1>4. /\ u \in Screen /\ Cursor(u) = p /\ u.row = p[1] /\ u.col = p[2]
      /\ u.up = s.up /\ u.cells = s.cells
  <2>1. u = [s EXCEPT !.col = p[2], !.row = p[1]]
    OBVIOUS
  <2>2. p[1] \in 0..(screen_row_num - 1) /\ p[2] \in 0..(screen_col_num - 1) /\ p = <<p[1], p[2]>>
    <3> HIDE DEF p
    <3> QED BY <1>3, CellFacts
  <2> DEFINE x == p[1]
             y == p[2]
  <2>3. u = [s EXCEPT !.col = y, !.row = x] /\ x \in 0..(screen_row_num - 1)
        /\ y \in 0..(screen_col_num - 1)
    BY <2>1, <2>2
  <2> HIDE DEF p, u, x, y
  <2>4. u \in Screen /\ Cursor(u) = <<x, y>> /\ u.row = x /\ u.col = y
        /\ u.up = s.up /\ u.cells = s.cells
    BY ONLY s \in Screen, <2>3 DEF Screen, Cursor
  <2> QED BY <2>2, <2>4 DEF x, y
<1>5. t = clear_text_region(u, u.col, u.row, 1)
  <2>1. CASE s.col = 0
    <3>1. [s EXCEPT !.col = screen_col_num - 1, !.row = @ - 1] = u
      BY <2>1
    <3>2. t = Erase(s, [s EXCEPT !.col = screen_col_num - 1, !.row = @ - 1])
      BY <2>1 DEF backspace
    <3> HIDE DEF u
    <3> QED BY <3>1, <3>2 DEF Erase
  <2>2. CASE s.col # 0
    <3>1. [s EXCEPT !.col = @ - 1] = u
      BY <2>2 DEF Screen
    <3>2. t = Erase(s, [s EXCEPT !.col = @ - 1])
      BY <2>2 DEF backspace
    <3> HIDE DEF u
    <3> QED BY <3>1, <3>2 DEF Erase
  <2> QED BY <2>1, <2>2
<1> HIDE DEF u
<1>6. <<u.row, u.col>> = p /\ p \in Cell
  <2> HIDE DEF p
  <2> QED BY <1>3, <1>4, CellFacts
<1>7. /\ t \in Screen /\ t.row = u.row /\ t.col = u.col /\ t.up = u.up
      /\ \A q \in Cell : t.cells[q] =
           IF Offset(p) <= Offset(q) /\ Offset(q) < Offset(p) + 1 THEN {} ELSE u.cells[q]
  <2> HIDE DEF p
  <2>1. IsCleared(t, u, Offset(p), 1)
    BY <1>4, <1>5, <1>6, ClearIs
  <2> QED BY <2>1 DEF IsCleared, Cleared
<1>8. Cursor(t) = p
  BY <1>6, <1>7 DEF Cursor
<1>9. \A q \in Cell : t.cells[q] = IF Offset(q) = Offset(Cursor(t)) THEN {} ELSE s.cells[q]
  <2>1. ASSUME NEW q \in Cell
        PROVE  t.cells[q] = IF Offset(q) = Offset(Cursor(t)) THEN {} ELSE s.cells[q]
    <3>1. Offset(q) \in Nat /\ Offset(p) \in Nat
      BY <1>3, CellFacts
    <3> HIDE DEF p
    <3>2. (Offset(p) <= Offset(q) /\ Offset(q) < Offset(p) + 1) <=> Offset(q) = Offset(p)
      BY <3>1
    <3> QED BY <1>4, <1>7, <1>8, <3>2
  <2> QED BY <2>1
<1>10. s.col # 0 => t.row = s.row /\ t.col = s.col - 1
  BY <1>4, <1>7
<1> HIDE DEF p
<1> QED BY <1>3, <1>4, <1>7, <1>8, <1>9, <1>10

LEMMA BehindBackspace ==
  ASSUME NEW p \in Screen, NEW s, NEW k \in Nat, Behind(p, s, k + 1)
  PROVE  Behind(p, backspace(s), k)
<1> DEFINE t == backspace(s)
           C == screen_col_num
           O == Offset(Cursor(s))
           P == Offset(Cursor(p))
<1> SUFFICES Behind(p, t, k)
  OBVIOUS
<1>1. /\ s \in Screen /\ O >= k + 1 /\ Kept(p, s)
      /\ s.up < screen_row_num => O + s.up * C >= P + (k + 1)
  BY DEF Behind
<1>2. O \in Nat /\ P \in Nat /\ s.up \in Nat /\ C \in Nat /\ s.up * C \in Nat
  BY <1>1, ScreenFacts, ScreenSize, RowOffsets
<1>3. O > 0
  <2> HIDE DEF O
  <2> QED BY <1>1, <1>2
<1>4. /\ t \in Screen /\ t.up = s.up /\ Offset(Cursor(t)) = O - 1
      /\ \A q \in Cell : t.cells[q] = IF Offset(q) = Offset(Cursor(t)) THEN {} ELSE s.cells[q]
  BY <1>1, <1>3, BackspaceIs
<1> HIDE DEF t
<1>5. ASSUME s.up < screen_row_num, NEW q \in Cell, Offset(q) + s.up * C < P
      PROVE  t.cells[q] = s.cells[q]
  <2>1. O + s.up * C >= P + (k + 1) /\ Offset(q) \in Nat
    BY <1>1, <1>5, CellFacts
  <2> HIDE DEF O, P, C
  <2>2. Offset(q) # Offset(Cursor(t))
    BY <1>2, <1>4, <1>5, <2>1
  <2> QED BY <1>4, <2>2
<1>6. Kept(p, t)
  BY <1>1, <1>4, <1>5, KeptBefore DEF P, C
<1>7. Offset(Cursor(t)) >= k
  <2> HIDE DEF O
  <2> QED BY <1>1, <1>2, <1>4
<1>8. t.up < screen_row_num => Offset(Cursor(t)) + t.up * C >= P + k
  <2> HIDE DEF O, P, C
  <2> QED BY <1>1, <1>2, <1>4
<1> QED BY <1>4, <1>6, <1>7, <1>8 DEF Behind, P, C

\* The text of a recall starts at the prompt, on a screen without the input.
Reset(s, p, len) == [clear_text_region(s, p.col, p.row, len) EXCEPT !.col = p.col, !.row = p.row]

LEMMA RecallIs ==
  ASSUME NEW s, NEW p \in Screen, NEW len, NEW text
  PROVE  insert(clear_text_region(s, p.col, p.row, len), p.col, p.row, text)
           = kputs(Reset(s, p, len), text)
<1>1. <<p.row, p.col>> \in Cell
  BY ScreenFacts
<1> QED BY <1>1 DEF insert, Reset

IsReset(t, s, p, len) ==
  /\ t \in Screen /\ t.up = s.up /\ t.row = p.row /\ t.col = p.col
  /\ Cursor(t) = Cursor(p) /\ Cleared(s, t, Offset(Cursor(p)), len)

LEMMA ResetIs ==
  ASSUME NEW s \in Screen, NEW p \in Screen, NEW len \in Nat
  PROVE  IsReset(Reset(s, p, len), s, p, len)
<1> DEFINE t == Reset(s, p, len)
           u == clear_text_region(s, p.col, p.row, len)
           r == Cursor(p)
<1>0. t = Reset(s, p, len)
  OBVIOUS
<1>1. r \in Cell /\ r = <<p.row, p.col>> /\ r[1] = p.row /\ r[2] = p.col
  BY ScreenFacts
<1>2. u \in Screen /\ u.up = s.up /\ Cleared(s, u, Offset(r), len)
  <2> HIDE DEF r
  <2>1. IsCleared(u, s, Offset(r), len)
    BY <1>1, ClearIs
  <2> HIDE DEF u
  <2> QED BY <2>1 DEF IsCleared
<1>3. t = [u EXCEPT !.col = p.col, !.row = p.row]
  BY DEF Reset
<1> HIDE DEF t
<1> HIDE DEF u
<1>5. t \in Screen /\ Cursor(t) = r /\ t.row = p.row /\ t.col = p.col
      /\ t.up = u.up /\ t.cells = u.cells
  <2> DEFINE x == p.row
             y == p.col
  <2>1. x \in 0..(screen_row_num - 1) /\ y \in 0..(screen_col_num - 1)
        /\ t = [u EXCEPT !.col = y, !.row = x]
    BY <1>3, ScreenFacts
  <2> HIDE DEF r, x, y
  <2>2. t \in Screen /\ Cursor(t) = <<x, y>> /\ t.row = x /\ t.col = y
        /\ t.up = u.up /\ t.cells = u.cells
    BY ONLY <1>2, <2>1 DEF Screen, Cursor
  <2> QED BY <1>1, <2>2 DEF x, y
<1> HIDE DEF r
<1>6. IsReset(t, s, p, len)
  BY <1>1, <1>2, <1>5 DEF IsReset, Cleared, r
<1> QED BY <1>0, <1>6

LEMMA BehindReset ==
  ASSUME NEW p \in Screen, NEW s, NEW k \in Nat, Behind(p, s, k), NEW len \in Nat
  PROVE  Behind(p, Reset(s, p, len), 0)
<1> DEFINE t == Reset(s, p, len)
           C == screen_col_num
           P == Offset(Cursor(p))
<1> SUFFICES Behind(p, t, 0)
  OBVIOUS
<1>1. s \in Screen /\ Kept(p, s)
  BY DEF Behind
<1>2. P \in Nat /\ s.up \in Nat /\ C \in Nat /\ s.up * C \in Nat
  BY <1>1, ScreenFacts, ScreenSize, RowOffsets
<1>3. /\ t \in Screen /\ t.up = s.up /\ Cursor(t) = Cursor(p)
      /\ \A q \in Cell : t.cells[q] =
           IF P <= Offset(q) /\ Offset(q) < P + len THEN {} ELSE s.cells[q]
  <2>2. t \in Screen /\ t.up = s.up /\ Cursor(t) = Cursor(p) /\ Cleared(s, t, Offset(Cursor(p)), len)
    BY <1>1, ResetIs DEF IsReset
  <2> QED BY <2>2 DEF Cleared
<1> HIDE DEF t
<1>4. ASSUME s.up < screen_row_num, NEW q \in Cell, Offset(q) + s.up * C < P
      PROVE  t.cells[q] = s.cells[q]
  <2>1. Offset(q) \in Nat
    BY CellFacts
  <2> HIDE DEF P, C
  <2>2. ~ (P <= Offset(q))
    BY <1>2, <1>4, <2>1
  <2> QED BY <1>3, <2>2
<1>5. Kept(p, t)
  BY <1>1, <1>3, <1>4, KeptBefore DEF P, C
<1>6. Offset(Cursor(t)) = P
  BY <1>3
<1>7. Offset(Cursor(t)) >= 0 /\ Offset(Cursor(t)) + t.up * C >= P + 0
  <2> HIDE DEF P, C
  <2> QED BY <1>2, <1>3, <1>6
<1> QED BY <1>3, <1>5, <1>7 DEF Behind, P, C
-----------------------------------------------------------------------------
(***************************************************************************)
(* What the input looks like: s shows a on top of either a's cells or b's. *)
(***************************************************************************)
Shown(s, a, b) ==
  /\ s \in Screen /\ a \in Screen /\ b \in Screen
  /\ s.row = a.row /\ s.col = a.col /\ s.up = a.up
  /\ s.row = b.row /\ s.col = b.col /\ s.up = b.up
  /\ \A q \in Cell : s.cells[q] \in {a.cells[q], b.cells[q]}

LEMMA ShownInked ==
  ASSUME NEW s, NEW a, NEW b, NEW c \in Char, Shown(s, a, b)
  PROVE  /\ \A q \in Cell : Inked(s, c)[q] \in {Inked(a, c)[q], Inked(b, c)[q]}
         /\ StaysOnRow(s, c) = StaysOnRow(a, c) /\ StaysOnRow(s, c) = StaysOnRow(b, c)
<1>1. Cursor(s) = Cursor(a) /\ Cursor(s) = Cursor(b)
  BY DEF Shown, Cursor
<1>2. \A q \in Cell : Inked(s, c)[q] \in {Inked(a, c)[q], Inked(b, c)[q]}
  BY <1>1 DEF Inked, Shown
<1> QED BY <1>2 DEF StaysOnRow, Shown

LEMMA KputcharMovesUp ==
  ASSUME NEW s \in Screen, NEW c \in Char,
         ~ StaysOnRow(s, c), ~ (s.row < screen_row_num - 1)
  PROVE  /\ kputchar(s, c).row = s.row /\ kputchar(s, c).col = 0
         /\ kputchar(s, c).up = IF s.up = screen_row_num THEN s.up ELSE s.up + 1
         /\ kputchar(s, c).cells = MovedUp(Inked(s, c))
<1> DEFINE t == kputchar(s, c)
<1>1. t = kputchar(s, c)
  OBVIOUS
<1> HIDE DEF t
<1>2. /\ t.row = s.row /\ t.col = 0
      /\ t.up = IF s.up = screen_row_num THEN s.up ELSE s.up + 1
      /\ t.cells = MovedUp(Inked(s, c))
  BY <1>1, KputcharIs
<1> QED BY <1>2 DEF t

LEMMA ShownKputchar ==
  ASSUME NEW s, NEW a, NEW b, NEW c \in Char, Shown(s, a, b)
  PROVE  Shown(kputchar(s, c), kputchar(a, c), kputchar(b, c))
<1> DEFINE t == kputchar(s, c)
           u == kputchar(a, c)
           v == kputchar(b, c)
           d == Inked(s, c)
           e == Inked(a, c)
           f == Inked(b, c)
<1> SUFFICES Shown(t, u, v)
  OBVIOUS
<1>1. /\ s \in Screen /\ a \in Screen /\ b \in Screen
      /\ s.row = a.row /\ s.col = a.col /\ s.up = a.up
      /\ s.row = b.row /\ s.col = b.col /\ s.up = b.up
  BY DEF Shown
<1>2. t \in Screen /\ u \in Screen /\ v \in Screen
  BY <1>1, KputcharIs
<1>3. /\ \A q \in Cell : d[q] \in {e[q], f[q]}
      /\ StaysOnRow(s, c) = StaysOnRow(a, c) /\ StaysOnRow(s, c) = StaysOnRow(b, c)
  BY ShownInked
<1>4. CASE StaysOnRow(s, c)
  <2>1. t.row = s.row /\ t.col = s.col + 1 /\ t.up = s.up /\ t.cells = d
    BY <1>1, <1>4, KputcharIs
  <2>2. u.row = a.row /\ u.col = a.col + 1 /\ u.up = a.up /\ u.cells = e
    BY <1>1, <1>3, <1>4, KputcharIs
  <2>3. v.row = b.row /\ v.col = b.col + 1 /\ v.up = b.up /\ v.cells = f
    BY <1>1, <1>3, <1>4, KputcharIs
  <2> HIDE DEF t, u, v, d, e, f
  <2> QED BY <1>1, <1>2, <1>3, <2>1, <2>2, <2>3 DEF Shown
<1>5. CASE ~ StaysOnRow(s, c) /\ s.row < screen_row_num - 1
  <2>1. t.row = s.row + 1 /\ t.col = 0 /\ t.up = s.up /\ t.cells = d
    BY <1>1, <1>5, KputcharIs
  <2>2. u.row = a.row + 1 /\ u.col = 0 /\ u.up = a.up /\ u.cells = e
    BY <1>1, <1>3, <1>5, KputcharIs
  <2>3. v.row = b.row + 1 /\ v.col = 0 /\ v.up = b.up /\ v.cells = f
    BY <1>1, <1>3, <1>5, KputcharIs
  <2> HIDE DEF t, u, v, d, e, f
  <2> QED BY <1>1, <1>2, <1>3, <2>1, <2>2, <2>3 DEF Shown
<1>6. CASE ~ StaysOnRow(s, c) /\ ~ (s.row < screen_row_num - 1)
  <2>1. /\ t.row = s.row /\ t.col = 0 /\ t.cells = MovedUp(d)
        /\ t.up = IF s.up = screen_row_num THEN s.up ELSE s.up + 1
    BY ONLY <1>1, <1>6, c \in Char, KputcharMovesUp DEF d, t
  <2>2. /\ u.row = a.row /\ u.col = 0 /\ u.cells = MovedUp(e)
        /\ u.up = IF a.up = screen_row_num THEN a.up ELSE a.up + 1
    <3>1. a \in Screen /\ ~ StaysOnRow(a, c) /\ ~ (a.row < screen_row_num - 1)
      BY <1>1, <1>3, <1>6
    <3> QED BY ONLY <3>1, c \in Char, KputcharMovesUp DEF e, u
  <2>3. /\ v.row = b.row /\ v.col = 0 /\ v.cells = MovedUp(f)
        /\ v.up = IF b.up = screen_row_num THEN b.up ELSE b.up + 1
    <3>1. b \in Screen /\ ~ StaysOnRow(b, c) /\ ~ (b.row < screen_row_num - 1)
      BY <1>1, <1>3, <1>6
    <3> QED BY ONLY <3>1, c \in Char, KputcharMovesUp DEF f, v
  <2>4. ASSUME NEW q \in Cell PROVE MovedUp(d)[q] \in {MovedUp(e)[q], MovedUp(f)[q]}
    <3> HIDE DEF t, u, v, d, e, f
    <3>1. CASE q[1] + 1 < screen_row_num
      <4>1. q[1] + 1 \in 0..(screen_row_num - 1) /\ q[2] \in 0..(screen_col_num - 1)
        BY <3>1, CellFacts, ScreenSize
      <4>2. <<q[1] + 1, q[2]>> \in Cell
        BY <4>1 DEF Cell
      <4> QED BY <1>3, <3>1, <4>2 DEF MovedUp
    <3>2. CASE ~ (q[1] + 1 < screen_row_num)
      BY <3>2 DEF MovedUp
    <3> QED BY <3>1, <3>2
  <2> HIDE DEF t, u, v, d, e, f
  <2>5. t.up = u.up /\ t.up = v.up
    BY <1>1, <2>1, <2>2, <2>3
  <2> QED BY <1>1, <1>2, <2>1, <2>2, <2>3, <2>4, <2>5 DEF Shown
<1> QED BY <1>4, <1>5, <1>6

LEMMA ShownKputs ==
  ASSUME NEW s, NEW a, NEW b, NEW text \in Seq(Char), Shown(s, a, b)
  PROVE  Shown(kputs(s, text), kputs(a, text), kputs(b, text))
<1> DEFINE n == Len(text)
<1>1. /\ s \in Screen /\ a \in Screen /\ b \in Screen
      /\ n \in Nat /\ \A k \in 1..n : text[k] \in Char
  BY DEF Shown
<1>2. PICK f : PutUpTo(f, s, text, n) /\ kputs(s, text) = f[n]
  BY <1>1, KputsSteps
<1>3. PICK g : PutUpTo(g, a, text, n) /\ kputs(a, text) = g[n]
  BY <1>1, KputsSteps
<1>4. PICK h : PutUpTo(h, b, text, n) /\ kputs(b, text) = h[n]
  BY <1>1, KputsSteps
<1> HIDE DEF n
<1> DEFINE T == {k \in 0..n : Shown(f[k], g[k], h[k])}
<1>5. 0 \in T
  BY <1>1, <1>2, <1>3, <1>4 DEF PutUpTo
<1>6. ASSUME NEW k \in 0..(n - 1), k \in T PROVE k + 1 \in T
  <2>1. k + 1 \in 1..n /\ k + 1 \in 0..n /\ (k + 1) - 1 = k
    BY <1>1
  <2>2. /\ f[k + 1] = kputchar(f[k], text[k + 1]) /\ g[k + 1] = kputchar(g[k], text[k + 1])
        /\ h[k + 1] = kputchar(h[k], text[k + 1]) /\ text[k + 1] \in Char
    BY <1>1, <1>2, <1>3, <1>4, <2>1 DEF PutUpTo
  <2>3. Shown(f[k], g[k], h[k])
    BY <1>6
  <2>4. Shown(f[k + 1], g[k + 1], h[k + 1])
    BY ONLY <2>2, <2>3, ShownKputchar
  <2> QED BY <2>1, <2>4
<1>7. \A k \in 0..n : k \in T
  <2> HIDE DEF T
  <2> QED BY ONLY <1>1, <1>5, <1>6, UpTo
<1>8. Shown(f[n], g[n], h[n])
  BY <1>1, <1>7
<1> QED BY <1>2, <1>3, <1>4, <1>8

\* Nothing stands from the cursor on.
BlankBehind(s) == \A q \in Cell : Offset(q) >= Offset(Cursor(s)) => s.cells[q] = {}

LEMMA BlankKputchar ==
  ASSUME NEW s \in Screen, NEW c \in Char, BlankBehind(s)
  PROVE  BlankBehind(kputchar(s, c))
<1> DEFINE t == kputchar(s, c)
           d == Inked(s, c)
           C == screen_col_num
           O == Offset(Cursor(s))
<1> SUFFICES ASSUME NEW q \in Cell, Offset(q) >= Offset(Cursor(t)) PROVE t.cells[q] = {}
  BY DEF BlankBehind
<1>1. /\ s.row \in 0..(screen_row_num - 1) /\ s.col \in 0..(C - 1)
      /\ s.row \in Nat /\ s.col \in Nat /\ O = s.row * C + s.col /\ O \in Nat
      /\ Cursor(s) \in Cell
  BY ScreenFacts
<1>2. /\ C \in Nat /\ C > 1 /\ screen_row_num \in Nat
      /\ s.row * C \in Nat /\ (s.row + 1) * C = s.row * C + C
  BY <1>1, ScreenSize, RowOffsets
<1>3. t \in Screen
  BY KputcharIs
<1>4. Offset(Cursor(t)) = t.row * C + t.col /\ Offset(Cursor(t)) \in Nat
  BY <1>3, ScreenFacts
<1>5. Offset(q) \in Nat /\ q[1] \in Nat /\ q[2] \in Nat /\ q[2] \in 0..(C - 1)
      /\ Offset(q) = q[1] * C + q[2] /\ q[1] \in 0..(screen_row_num - 1)
  BY CellFacts
<1>6. Offset(q) > O => d[q] = {}
  <2>1. CASE Offset(q) > O
    <3> HIDE DEF O
    <3>1. q # Cursor(s) /\ Offset(q) >= O
      BY <1>1, <1>5, <2>1 DEF O
    <3>2. s.cells[q] = {}
      BY <3>1 DEF BlankBehind, O
    <3> QED BY <3>1, <3>2 DEF Inked
  <2> QED BY <2>1
<1>7. CASE StaysOnRow(s, c)
  <2>1. t.row = s.row /\ t.col = s.col + 1 /\ t.cells = d
    BY <1>7, KputcharIs
  <2>2. Offset(Cursor(t)) = s.row * C + (s.col + 1)
    BY <1>4, <2>1
  <2> HIDE DEF t, d, O, C
  <2>3. Offset(q) > O
    BY <1>1, <1>2, <1>5, <2>2
  <2> QED BY <1>6, <2>1, <2>3
<1>8. CASE ~ StaysOnRow(s, c) /\ s.row < screen_row_num - 1
  <2>1. t.row = s.row + 1 /\ t.col = 0 /\ t.cells = d
    BY <1>8, KputcharIs
  <2>2. Offset(Cursor(t)) = (s.row + 1) * C + 0
    BY <1>4, <2>1
  <2> HIDE DEF t, d, O, C
  <2>3. Offset(q) > O
    BY <1>1, <1>2, <1>5, <2>2
  <2> QED BY <1>6, <2>1, <2>3
<1>9. CASE ~ StaysOnRow(s, c) /\ ~ (s.row < screen_row_num - 1)
  <2>1. t.row = s.row /\ t.col = 0 /\ t.cells = MovedUp(d)
    BY <1>9, KputcharIs
  <2>2. Offset(Cursor(t)) = s.row * C + 0 /\ s.row = screen_row_num - 1
    BY <1>1, <1>2, <1>4, <1>9, <2>1
  <2>3. ~ (q[1] + 1 < screen_row_num)
    <3> SUFFICES ASSUME q[1] + 1 < screen_row_num PROVE FALSE
      OBVIOUS
    <3>1. q[1] < s.row
      BY <1>1, <1>2, <1>5, <2>2
    <3>2. q[1] * C + C <= s.row * C /\ q[1] * C \in Nat
      BY <1>1, <1>5, <3>1, RowOffsets
    <3> HIDE DEF t, d, O, C
    <3> QED BY <1>1, <1>2, <1>5, <2>2, <3>2
  <2> HIDE DEF t, d
  <2> QED BY <2>1, <2>3 DEF MovedUp
<1> QED BY <1>7, <1>8, <1>9

\* Up to the cursor of s, k columns behind p's, the row has been written: the
\* cells from there on are p's.  Or the cursor has left the row.
OnRow(p, s, k) ==
  /\ s.row = p.row /\ s.col = p.col + k /\ s.up = 0
  /\ \A q \in Cell : Offset(q) >= Offset(Cursor(s)) => s.cells[q] = p.cells[q]
HasLeft(p, s) == s.row > p.row \/ s.up > 0

LEMMA OnRowKputchar ==
  ASSUME NEW p \in Screen, NEW s \in Screen, NEW c \in Char, NEW k \in Nat
  PROVE  /\ OnRow(p, s, k) /\ StaysOnRow(s, c) => OnRow(p, kputchar(s, c), k + 1)
         /\ OnRow(p, s, k) /\ ~ StaysOnRow(s, c) => HasLeft(p, kputchar(s, c))
         /\ HasLeft(p, s) => HasLeft(p, kputchar(s, c))
<1> DEFINE t == kputchar(s, c)
           d == Inked(s, c)
           C == screen_col_num
           O == Offset(Cursor(s))
<1>1. /\ s.row \in 0..(screen_row_num - 1) /\ s.col \in 0..(C - 1)
      /\ s.row \in Nat /\ s.col \in Nat /\ O = s.row * C + s.col /\ O \in Nat
      /\ Cursor(s) \in Cell /\ s.up \in Nat /\ s.up \in 0..screen_row_num
      /\ p.row \in Nat /\ p.col \in Nat
  BY ScreenFacts
<1>2. C \in Nat /\ screen_row_num \in Nat /\ screen_row_num > 1 /\ s.row * C \in Nat
  BY <1>1, ScreenSize, RowOffsets
<1>3. /\ t \in Screen
      /\ StaysOnRow(s, c) => t.row = s.row /\ t.col = s.col + 1 /\ t.up = s.up /\ t.cells = d
      /\ ~ StaysOnRow(s, c) /\ s.row < screen_row_num - 1 => t.row = s.row + 1 /\ t.up = s.up
      /\ ~ StaysOnRow(s, c) /\ ~ (s.row < screen_row_num - 1) =>
           t.row = s.row /\ t.up = IF s.up = screen_row_num THEN s.up ELSE s.up + 1
  BY KputcharIs
<1>4. Offset(Cursor(t)) = t.row * C + t.col
  BY <1>3, ScreenFacts
<1>5. ASSUME OnRow(p, s, k), StaysOnRow(s, c) PROVE OnRow(p, t, k + 1)
  <2>1. t.row = s.row /\ t.col = s.col + 1 /\ t.up = s.up /\ t.cells = d
    BY <1>3, <1>5
  <2>2. Offset(Cursor(t)) = s.row * C + (s.col + 1)
    BY <1>4, <2>1
  <2>3. ASSUME NEW q \in Cell, Offset(q) >= Offset(Cursor(t)) PROVE t.cells[q] = p.cells[q]
    <3>1. Offset(q) \in Nat
      BY CellFacts
    <3> HIDE DEF t, O, C
    <3>2. Offset(q) > O
      BY <1>1, <1>2, <2>2, <2>3, <3>1
    <3>3. q # Cursor(s) /\ Offset(q) >= O
      BY <1>1, <3>1, <3>2 DEF O
    <3>4. s.cells[q] = p.cells[q]
      BY <1>5, <3>3 DEF OnRow, O
    <3>5. d[q] = s.cells[q]
      BY <3>3 DEF Inked
    <3> QED BY <2>1, <3>4, <3>5
  <2>4. t.row = p.row /\ t.col = p.col + (k + 1) /\ t.up = 0
    <3>1. s.row = p.row /\ s.col = p.col + k /\ s.up = 0
      BY <1>5 DEF OnRow
    <3> HIDE DEF t, d, O, C
    <3> QED BY <1>1, <2>1, <3>1
  <2> HIDE DEF t
  <2> QED BY <2>3, <2>4 DEF OnRow
<1> HIDE DEF t, d, O, C
<1>6. OnRow(p, s, k) /\ ~ StaysOnRow(s, c) => HasLeft(p, t)
  BY <1>1, <1>2, <1>3 DEF OnRow, HasLeft
<1>7. HasLeft(p, s) => HasLeft(p, t)
  BY <1>1, <1>2, <1>3 DEF HasLeft
<1> QED BY <1>5, <1>6, <1>7 DEF t

LEMMA PutOnRow ==
  ASSUME NEW p \in Screen, p.up = 0, NEW text \in Seq(Char)
  PROVE  /\ OnRow(p, kputs(p, text), Len(text)) \/ HasLeft(p, kputs(p, text))
         /\ BlankBehind(p) => BlankBehind(kputs(p, text))
<1> DEFINE n == Len(text)
<1>1. n \in Nat /\ \A k \in 1..n : text[k] \in Char
  OBVIOUS
<1>2. PICK g : PutUpTo(g, p, text, n) /\ kputs(p, text) = g[n]
  BY KputsSteps
<1> HIDE DEF n
<1> DEFINE Good(s, k) == /\ OnRow(p, s, k) \/ HasLeft(p, s)
                         /\ BlankBehind(p) => BlankBehind(s)
           T == {k \in 0..n : Good(g[k], k)}
<1>3. Good(p, 0)
  <2>1. p.col = p.col + 0
    BY ScreenFacts
  <2> QED BY <2>1 DEF OnRow
<1>4. 0 \in T
  <2>1. g[0] = p
    BY <1>2 DEF PutUpTo
  <2> HIDE DEF Good
  <2> QED BY <1>1, <1>3, <2>1
<1>5. ASSUME NEW k \in 0..(n - 1), k \in T PROVE k + 1 \in T
  <2>1. k + 1 \in 1..n /\ k + 1 \in 0..n /\ (k + 1) - 1 = k /\ k \in Nat /\ k \in 0..n
    BY <1>1
  <2>2. g[k + 1] = kputchar(g[k], text[k + 1]) /\ text[k + 1] \in Char /\ g[k] \in Screen
    BY <1>1, <1>2, <2>1 DEF PutUpTo
  <2>3. Good(g[k], k)
    BY <1>5
  <2>4. Good(g[k + 1], k + 1)
    <3>1. BlankBehind(g[k]) => BlankBehind(g[k + 1])
      BY <2>2, BlankKputchar
    <3>2. OnRow(p, g[k], k) \/ HasLeft(p, g[k]) => OnRow(p, g[k + 1], k + 1) \/ HasLeft(p, g[k + 1])
      BY <2>1, <2>2, OnRowKputchar
    <3> QED BY <2>3, <3>1, <3>2
  <2> HIDE DEF Good
  <2> QED BY <2>1, <2>4
<1>6. \A k \in 0..n : k \in T
  <2> HIDE DEF T
  <2> QED BY ONLY <1>1, <1>4, <1>5, UpTo
<1>7. Good(g[n], n)
  <2> HIDE DEF Good
  <2> QED BY <1>1, <1>6
<1> QED BY <1>2, <1>7 DEF n

\* The screen shows the input text behind the prompt of p.
ShowsInput(p, s, text) == Shown(s, kputs(p, text), kputs(Clean(p), text))

LEMMA CleanIs ==
  ASSUME NEW p \in Screen
  PROVE  /\ Clean(p) \in Screen /\ BlankBehind(Clean(p))
         /\ Clean(p).row = p.row /\ Clean(p).col = p.col /\ Clean(p).up = p.up
         /\ \A q \in Cell : Clean(p).cells[q] = IF Offset(q) < Offset(Cursor(p)) THEN p.cells[q]
                                                                                 ELSE {}
<1> DEFINE d == [q \in Cell |-> IF Offset(q) < Offset(Cursor(p)) THEN p.cells[q] ELSE {}]
           t == Clean(p)
<1>1. t = [p EXCEPT !.cells = d]
  BY DEF Clean
<1>2. d \in Cells
  <2>1. \A q \in Cell : p.cells[q] \in SUBSET Char
    BY ScreenFacts
  <2> QED BY <2>1 DEF Cells
<1>3. t \in Screen /\ t.row = p.row /\ t.col = p.col /\ t.up = p.up /\ t.cells = d
  <2> HIDE DEF d, t
  <2> QED BY <1>1, <1>2 DEF Screen
<1> HIDE DEF t
<1>4. Cursor(t) = Cursor(p)
  BY <1>3 DEF Cursor
<1>5. BlankBehind(t)
  <2>1. ASSUME NEW q \in Cell, Offset(q) >= Offset(Cursor(t)) PROVE t.cells[q] = {}
    <3>1. Offset(q) \in Nat /\ Offset(Cursor(p)) \in Nat
      BY CellFacts, ScreenFacts
    <3>2. ~ (Offset(q) < Offset(Cursor(p)))
      BY <1>4, <2>1, <3>1
    <3> QED BY <1>3, <3>2
  <2> QED BY <2>1 DEF BlankBehind
<1> QED BY <1>3, <1>5 DEF t

LEMMA NothingShown ==
  ASSUME NEW p \in Screen
  PROVE  ShowsInput(p, p, <<>>)
<1>1. kputs(p, <<>>) = p /\ kputs(Clean(p), <<>>) = Clean(p)
  BY CleanIs, KputsNothing
<1>2. Shown(p, p, Clean(p))
  BY CleanIs DEF Shown
<1> QED BY <1>1, <1>2 DEF ShowsInput

LEMMA TypeShows ==
  ASSUME NEW p \in Screen, NEW s, NEW text \in Seq(Char), NEW c \in Char, ShowsInput(p, s, text)
  PROVE  ShowsInput(p, kputchar(s, c), Append(text, c))
<1>1. /\ kputs(p, Append(text, c)) = kputchar(kputs(p, text), c)
      /\ kputs(Clean(p), Append(text, c)) = kputchar(kputs(Clean(p), text), c)
  BY CleanIs, KputsAppend
<1> QED BY <1>1, ShownKputchar DEF ShowsInput

\* Before the last character of a text that does not leave the row of p.
LEMMA LastOnRow ==
  ASSUME NEW p \in Screen, p.up = 0, NEW text \in Seq(Char), NEW c \in Char,
         kputs(p, Append(text, c)).row = p.row, kputs(p, Append(text, c)).up = 0
  PROVE  /\ kputs(p, text) \in Screen
         /\ OnRow(p, kputs(p, text), Len(text))
         /\ kputs(p, Append(text, c)).cells = Inked(kputs(p, text), c)
         /\ kputs(p, Append(text, c)).col = p.col + (Len(text) + 1)
<1> DEFINE a == kputs(p, text)
           b == kputs(p, Append(text, c))
<1>1. a \in Screen /\ b = kputchar(a, c)
  BY KputsType, KputsAppend
<1>2. ~ HasLeft(p, b)
  <2>1. b.row = p.row /\ b.up = 0 /\ p.row \in Nat
    BY ScreenFacts
  <2> HIDE DEF b
  <2> QED BY <2>1 DEF HasLeft
<1>3. OnRow(p, a, Len(text)) \/ HasLeft(p, a)
  BY PutOnRow
<1>4. Len(text) \in Nat
  OBVIOUS
<1> HIDE DEF a, b
<1>5. OnRow(p, a, Len(text)) /\ StaysOnRow(a, c) /\ OnRow(p, b, Len(text) + 1)
  BY <1>1, <1>2, <1>3, <1>4, OnRowKputchar
<1>6. b.cells = Inked(a, c)
  BY <1>1, <1>5, KputcharIs
<1>7. b.col = p.col + (Len(text) + 1)
  BY <1>5 DEF OnRow
<1> QED BY <1>1, <1>5, <1>6, <1>7 DEF a, b

LEMMA BackspaceShows ==
  ASSUME NEW p \in Screen, p.up = 0, NEW s, NEW text \in Seq(Char), NEW c \in Char,
         ShowsInput(p, s, Append(text, c)), s.row = p.row, s.up = 0, Offset(Cursor(s)) > 0
  PROVE  ShowsInput(p, backspace(s), text)
<1> DEFINE a == kputs(p, Append(text, c))
           e == kputs(p, text)
           b == kputs(Clean(p), Append(text, c))
           f == kputs(Clean(p), text)
           t == backspace(s)
<1>1. /\ s \in Screen /\ a \in Screen /\ b \in Screen
      /\ s.row = a.row /\ s.col = a.col /\ s.up = a.up
      /\ s.row = b.row /\ s.col = b.col /\ s.up = b.up
      /\ \A q \in Cell : s.cells[q] \in {a.cells[q], b.cells[q]}
  BY DEF ShowsInput, Shown
<1>2. /\ Clean(p) \in Screen /\ Clean(p).row = p.row /\ Clean(p).col = p.col /\ Clean(p).up = 0
      /\ BlankBehind(Clean(p))
  BY CleanIs
<1>3. /\ e \in Screen /\ OnRow(p, e, Len(text))
      /\ a.cells = Inked(e, c) /\ a.col = p.col + (Len(text) + 1)
  <2>1. a.row = p.row /\ a.up = 0
    BY <1>1
  <2> QED BY ONLY <2>1, p \in Screen, p.up = 0, text \in Seq(Char), c \in Char, LastOnRow
<1>4. /\ f \in Screen /\ OnRow(Clean(p), f, Len(text)) /\ b.cells = Inked(f, c)
  BY <1>1, <1>2, LastOnRow
<1>5. BlankBehind(f)
  BY <1>2, PutOnRow
<1>6. /\ e.row = p.row /\ e.col = p.col + Len(text) /\ e.up = 0
      /\ f.row = p.row /\ f.col = p.col + Len(text) /\ f.up = 0
  BY <1>2, <1>3, <1>4 DEF OnRow
<1>7. p.col \in Nat /\ Len(text) \in Nat
  BY ScreenFacts
<1>8. s.col = e.col + 1 /\ e.col \in Nat
  <2> DEFINE n == Len(text)
  <2>1. s.col = p.col + (n + 1)
    BY <1>1, <1>3
  <2>2. e.col = p.col + n /\ n \in Nat /\ p.col \in Nat
    BY <1>6, <1>7
  <2>3. p.col + (n + 1) = (p.col + n) + 1 /\ p.col + n \in Nat
    BY ONLY <2>2
  <2> QED BY ONLY <2>1, <2>2, <2>3
<1>9. /\ t \in Screen /\ t.up = s.up
      /\ s.col # 0 => t.row = s.row /\ t.col = s.col - 1
      /\ \A q \in Cell : t.cells[q] = IF Offset(q) = Offset(Cursor(t)) THEN {} ELSE s.cells[q]
  BY <1>1, BackspaceIs
<1> HIDE DEF a, e, b, f, t
<1>10. /\ t.row = e.row /\ t.col = e.col /\ t.up = e.up
       /\ t.row = f.row /\ t.col = f.col /\ t.up = f.up
  <2>1. s.col # 0 /\ s.col - 1 = e.col
    BY <1>8
  <2>2. t.row = p.row /\ t.col = e.col /\ t.up = 0
    BY <1>9, <2>1
  <2> QED BY <1>6, <2>2
<1>11. Cursor(t) = Cursor(e) /\ Cursor(t) = Cursor(f)
  BY <1>10 DEF Cursor
<1>12. ASSUME NEW q \in Cell PROVE t.cells[q] \in {e.cells[q], f.cells[q]}
  <2>1. CASE Offset(q) = Offset(Cursor(t))
    <3>1. t.cells[q] = {}
      BY <1>9, <2>1
    <3>2. Offset(q) >= Offset(Cursor(f))
      BY <1>11, <2>1, CellFacts
    <3>3. f.cells[q] = {}
      BY <1>5, <3>2 DEF BlankBehind
    <3> QED BY <3>1, <3>3
  <2>2. CASE Offset(q) # Offset(Cursor(t))
    <3>1. t.cells[q] = s.cells[q]
      BY <1>9, <2>2
    <3>2. q # Cursor(e) /\ q # Cursor(f)
      BY <1>11, <2>2
    <3>3. a.cells[q] = e.cells[q]
      BY <1>3, <3>2 DEF Inked
    <3>4. b.cells[q] = f.cells[q]
      BY <1>4, <3>2 DEF Inked
    <3>5. s.cells[q] \in {a.cells[q], b.cells[q]}
      BY <1>1
    <3> QED BY <3>1, <3>3, <3>4, <3>5
  <2> QED BY <2>1, <2>2
<1>13. Shown(t, e, f)
  BY <1>3, <1>4, <1>9, <1>10, <1>12 DEF Shown
<1> QED BY <1>13 DEF ShowsInput, t, e, f

LEMMA RecallShows ==
  ASSUME NEW p \in Screen, p.up = 0, NEW s, NEW text \in Seq(Char), NEW new \in Seq(Char),
         ShowsInput(p, s, text), s.row = p.row, s.up = 0, Kept(p, s)
  PROVE  ShowsInput(p, kputs(Reset(s, p, Len(text)), new), new)
<1> DEFINE a == kputs(p, text)
           b == kputs(Clean(p), text)
           t == Reset(s, p, Len(text))
           P == Offset(Cursor(p))
<1>1. /\ s \in Screen /\ a \in Screen /\ b \in Screen
      /\ s.row = a.row /\ s.col = a.col /\ s.up = a.up
      /\ s.row = b.row /\ s.col = b.col /\ s.up = b.up
      /\ \A q \in Cell : s.cells[q] \in {a.cells[q], b.cells[q]}
  BY DEF ShowsInput, Shown
<1>2. /\ Clean(p) \in Screen /\ BlankBehind(Clean(p))
      /\ Clean(p).row = p.row /\ Clean(p).col = p.col /\ Clean(p).up = p.up
      /\ \A q \in Cell : Clean(p).cells[q] = IF Offset(q) < P THEN p.cells[q] ELSE {}
  BY CleanIs
<1>3. Len(text) \in Nat /\ p.row \in Nat /\ p.col \in Nat /\ P \in Nat
      /\ P = p.row * screen_col_num + p.col /\ p.row * screen_col_num \in Nat
  <2>1. Len(text) \in Nat
    OBVIOUS
  <2>2. p.row \in Nat /\ p.col \in Nat /\ P \in Nat /\ P = p.row * screen_col_num + p.col
    BY ScreenFacts
  <2>3. p.row * screen_col_num \in Nat
    BY <2>2, RowOffsets
  <2> HIDE DEF P
  <2> QED BY <2>1, <2>2, <2>3
<1>4. /\ t \in Screen /\ t.up = s.up /\ t.row = p.row /\ t.col = p.col
      /\ Cleared(s, t, P, Len(text))
  <2>1. IsReset(t, s, p, Len(text))
    BY ONLY <1>1, <1>3, p \in Screen, ResetIs DEF t
  <2> HIDE DEF t
  <2> QED BY <2>1 DEF IsReset
<1>5. OnRow(p, a, Len(text)) \/ HasLeft(p, a)
  BY PutOnRow
<1>6. BlankBehind(b)
  BY <1>2, PutOnRow
<1> HIDE DEF a, b, t
<1>7. OnRow(p, a, Len(text))
  BY <1>1, <1>3, <1>5 DEF HasLeft
<1>8. Cursor(a) = Cursor(b) /\ Cursor(a) \in Cell
  BY <1>1, ScreenFacts DEF Cursor
<1>9. Offset(Cursor(a)) = P + Len(text)
  <2>1. a.row = p.row /\ a.col = p.col + Len(text)
    BY <1>7 DEF OnRow
  <2>2. Offset(Cursor(a)) = p.row * screen_col_num + (p.col + Len(text))
    BY <1>1, <2>1, ScreenFacts
  <2> HIDE DEF P
  <2> QED BY <1>3, <2>2
<1>10. ASSUME NEW q \in Cell PROVE t.cells[q] \in {p.cells[q], Clean(p).cells[q]}
  <2>0. Offset(q) \in Nat /\ q[1] \in Nat /\ q = <<q[1], q[2]>> /\ q[1] - 0 = q[1]
    BY CellFacts
  <2>1. CASE Offset(q) < P
    <3>1. t.cells[q] = s.cells[q]
      <4> HIDE DEF P
      <4>1. ~ (P <= Offset(q))
        BY <1>3, <2>0, <2>1
      <4> QED BY <1>4, <4>1 DEF Cleared
    <3>2. s.cells[<<q[1] - 0, q[2]>>] = p.cells[q]
      BY <2>0, <2>1 DEF Kept
    <3> QED BY <2>0, <3>1, <3>2
  <2>2. CASE P <= Offset(q) /\ Offset(q) < P + Len(text)
    <3>1. t.cells[q] = {}
      BY <1>4, <2>2 DEF Cleared
    <3>2. Clean(p).cells[q] = {}
      <4> HIDE DEF P
      <4>1. ~ (Offset(q) < P)
        BY <1>3, <2>0, <2>2
      <4> QED BY <1>2, <4>1
    <3> QED BY <3>1, <3>2
  <2>3. CASE Offset(q) >= P + Len(text)
    <3> HIDE DEF P
    <3>1. ~ (Offset(q) < P + Len(text)) /\ ~ (Offset(q) < P)
      BY <1>3, <2>0, <2>3
    <3>2. t.cells[q] = s.cells[q]
      BY <1>4, <3>1 DEF Cleared
    <3>3. Clean(p).cells[q] = {}
      BY <1>2, <3>1
    <3>4. a.cells[q] = p.cells[q]
      BY <1>7, <1>9, <2>3 DEF OnRow
    <3>5. b.cells[q] = {}
      BY <1>6, <1>8, <1>9, <2>3 DEF BlankBehind
    <3>6. s.cells[q] \in {a.cells[q], b.cells[q]}
      BY <1>1
    <3> QED BY <3>2, <3>3, <3>4, <3>5, <3>6
  <2> HIDE DEF P
  <2> QED BY <1>3, <2>0, <2>1, <2>2, <2>3
<1>11. Shown(t, p, Clean(p))
  BY <1>2, <1>4, <1>10 DEF Shown
<1>12. Shown(kputs(t, new), kputs(p, new), kputs(Clean(p), new))
  BY <1>11, ShownKputs
<1> QED BY <1>12 DEF ShowsInput, t
-----------------------------------------------------------------------------
(***************************************************************************)
(* The texts.                                                              *)
(***************************************************************************)
Chars == Letter \cup UNION {Range(s) : s \in Unwritten}

LEMMA SequenceOf ==
  ASSUME NEW S, NEW l
  PROVE  l \in Seq(S) <=> \E n \in Nat : l \in [1..n -> S]
OBVIOUS

LEMMA ConstantFacts ==
  /\ INPUTS_TO_SAVE \in Nat /\ INPUTS_TO_SAVE > 1
  /\ INPUT_MAX_SIZE \in Nat
  /\ Chars \subseteq Char /\ Letter \subseteq Chars
  /\ Newline \in Char /\ Prompt \in Seq(Char)
  /\ Outputs \subseteq Seq(Char) /\ Unwritten \subseteq Seq(Chars)
  /\ \A s \in Unwritten : Len(s) <= INPUT_MAX_SIZE
<1>1. /\ INPUTS_TO_SAVE \in Nat /\ INPUTS_TO_SAVE > 1 /\ INPUT_MAX_SIZE \in Nat
      /\ Letter \subseteq Char /\ Prompt \in Seq(Char)
      /\ Outputs \subseteq Seq(Char) /\ Unwritten \subseteq Seq(Char)
      /\ \A s \in Unwritten : Len(s) <= INPUT_MAX_SIZE
  BY TerminalAssumption
<1>2. ASSUME NEW s \in Unwritten PROVE Range(s) \subseteq Char /\ s \in Seq(Range(s))
  <2>1. s \in Seq(Char)
    BY <1>1
  <2>2. DOMAIN s = 1..Len(s) /\ Len(s) \in Nat /\ \A i \in 1..Len(s) : s[i] \in Char
    BY <2>1
  <2>3. s = [i \in 1..Len(s) |-> s[i]]
    BY <2>1
  <2>4. \A i \in 1..Len(s) : s[i] \in Range(s)
    BY <2>2 DEF Range
  <2>5. s \in [1..Len(s) -> Range(s)]
    BY <2>3, <2>4
  <2>6. s \in Seq(Range(s))
    BY <2>2, <2>5, SequenceOf
  <2> QED BY <2>2, <2>6 DEF Range
<1>3. Chars \subseteq Char
  BY <1>1, <1>2 DEF Chars
<1>4. ASSUME NEW s \in Unwritten PROVE s \in Seq(Chars)
  <2>1. Range(s) \subseteq Chars
    BY DEF Chars
  <2> QED BY <1>2, <2>1, SeqMonotonic
<1>5. Newline \in Char
  BY ConsoleAssumption
<1> QED BY <1>1, <1>3, <1>4, <1>5 DEF Chars

LEMMA LineIs ==
  /\ \A l : l \in Line <=> l \in Seq(Chars) /\ Len(l) <= INPUT_MAX_SIZE
  /\ \A l \in Line : l \in Seq(Char) /\ Len(l) \in Nat
<1>1. ASSUME NEW l, l \in Line
      PROVE  l \in Seq(Chars) /\ Len(l) <= INPUT_MAX_SIZE /\ Len(l) \in Nat /\ l \in Seq(Char)
  <2>1. PICK n \in 0..INPUT_MAX_SIZE : l \in [1..n -> Chars]
    BY <1>1 DEF Line, Chars
  <2>2. n \in Nat
    OBVIOUS
  <2>3. l \in Seq(Chars)
    BY <2>1, <2>2, SequenceOf
  <2>4. Len(l) = n
    <3>1. DOMAIN l = 1..n /\ DOMAIN l = 1..Len(l) /\ Len(l) \in Nat
      BY <2>1, <2>3
    <3> QED BY <2>2, <3>1
  <2>5. l \in Seq(Char)
    BY <2>3, ConstantFacts, SeqMonotonic
  <2> QED BY <2>2, <2>3, <2>4, <2>5, ConstantFacts
<1>2. ASSUME NEW l, l \in Seq(Chars), Len(l) <= INPUT_MAX_SIZE PROVE l \in Line
  <2>1. l \in [1..Len(l) -> Chars] /\ Len(l) \in Nat
    BY <1>2
  <2>2. Len(l) \in 0..INPUT_MAX_SIZE
    BY <1>2, <2>1, ConstantFacts
  <2> QED BY <2>1, <2>2 DEF Line, Chars
<1> QED BY <1>1, <1>2

LEMMA LineSteps ==
  /\ <<>> \in Line
  /\ Unwritten \subseteq Line
  /\ \A l \in Line, c \in Letter : Len(l) < INPUT_MAX_SIZE => Append(l, c) \in Line
<1>1. <<>> \in Line
  <2>1. <<>> \in Seq(Chars) /\ Len(<<>>) = 0
    OBVIOUS
  <2>2. 0 <= INPUT_MAX_SIZE
    BY ConstantFacts
  <2> QED BY <2>1, <2>2, LineIs
<1>2. Unwritten \subseteq Line
  BY LineIs, ConstantFacts
<1>3. ASSUME NEW l \in Line, NEW c \in Letter, Len(l) < INPUT_MAX_SIZE
      PROVE  Append(l, c) \in Line
  <2>1. l \in Seq(Chars) /\ Len(l) \in Nat /\ c \in Chars
    BY LineIs, ConstantFacts
  <2>2. Append(l, c) \in Seq(Chars) /\ Len(Append(l, c)) = Len(l) + 1
    BY <2>1, AppendFacts
  <2>3. Len(Append(l, c)) <= INPUT_MAX_SIZE
    BY <1>3, <2>1, <2>2, ConstantFacts
  <2> QED BY <2>2, <2>3, LineIs
<1> QED BY <1>1, <1>2, <1>3

\* A line is its front and its last character.
LEMMA FrontFacts ==
  ASSUME NEW l \in Line, l # <<>>
  PROVE  /\ Front(l) \in Line /\ Front(l) \in Seq(Char) /\ l[Len(l)] \in Char
         /\ Len(l) = Len(Front(l)) + 1 /\ l = Append(Front(l), l[Len(l)])
<1>1. l \in Seq(Chars) /\ Len(l) \in Nat /\ Len(l) <= INPUT_MAX_SIZE
  BY LineIs
<1>2. Len(l) > 0 /\ \A i \in 1..Len(l) : l[i] \in Chars
  BY <1>1
<1> DEFINE f == SubSeq(l, 1, Len(l) - 1)
           c == l[Len(l)]
<1>3. /\ f \in Seq(Chars) /\ Len(f) = Len(l) - 1
      /\ \A i \in 1..(Len(l) - 1) : f[i] = l[i]
  <2>1. \A i \in 1..(Len(l) - 1) : l[i] \in Chars
    BY <1>1, <1>2
  <2> DEFINE n == Len(l) - 1
  <2>0. n \in Nat
    BY <1>1, <1>2
  <2>3. f = SubSeq(l, 1, n) /\ \A i \in 1..n : l[i] \in Chars
    BY <2>1
  <2> HIDE DEF n, f
  <2>2. n \in Nat /\ n \in Int /\ n - 1 + 1 = n /\ (1 <= n \/ n = 0) /\ 1 \in Int
    BY ONLY <2>0
  <2>4. /\ SubSeq(l, 1, n) \in Seq(Chars)
        /\ Len(SubSeq(l, 1, n)) = IF 1 <= n THEN n - 1 + 1 ELSE 0
        /\ \A i \in 1..(n - 1 + 1) : SubSeq(l, 1, n)[i] = l[1 + i - 1]
    BY ONLY <2>2, <2>3, SubSeqProperties
  <2>5. Len(f) = n
    BY <2>2, <2>3, <2>4
  <2>6. \A i \in 1..n : f[i] = l[i]
    <3>1. ASSUME NEW i \in 1..n PROVE f[i] = l[i]
      <4>1. i \in 1..(n - 1 + 1) /\ 1 + i - 1 = i
        BY <2>2
      <4> QED BY <2>3, <2>4, <4>1
    <3> QED BY <3>1
  <2> QED BY <2>3, <2>4, <2>5, <2>6 DEF n
<1>4. c \in Chars
  BY <1>1, <1>2
<1>5. Front(l) = f
  BY DEF Front
<1> HIDE DEF f
<1>6. /\ Append(f, c) \in Seq(Chars) /\ Len(Append(f, c)) = Len(l)
      /\ Append(f, c)[Len(f) + 1] = c /\ \A i \in 1..Len(f) : Append(f, c)[i] = f[i]
  <2> HIDE DEF c
  <2> QED BY <1>1, <1>3, <1>4, AppendFacts
<1>7. \A i \in 1..Len(l) : l[i] = Append(f, c)[i]
  <2>1. ASSUME NEW i \in 1..Len(l) PROVE l[i] = Append(f, c)[i]
    <3>1. CASE i = Len(l)
      <4>1. i = Len(f) + 1
        BY <1>1, <1>3, <3>1
      <4> QED BY <1>6, <3>1, <4>1
    <3>2. CASE i \in 1..(Len(l) - 1)
      <4>1. i \in 1..Len(f)
        BY <1>3, <3>2
      <4> QED BY <1>3, <1>6, <3>2, <4>1
    <3>3. i = Len(l) \/ i \in 1..(Len(l) - 1)
      BY <1>1
    <3> QED BY <3>1, <3>2, <3>3
  <2> QED BY <2>1
<1>8. l = Append(f, c)
  <2>1. Append(f, c) \in Seq(Chars)
    BY <1>6
  <2> HIDE DEF c
  <2> QED BY <1>1, <1>6, <1>7, SeqEqual
<1>9. Front(l) \in Line
  BY <1>1, <1>3, <1>5, LineIs, ConstantFacts
<1>10. Front(l) \in Seq(Char) /\ c \in Char
  BY <1>4, <1>9, LineIs, ConstantFacts
<1> QED BY <1>1, <1>3, <1>5, <1>8, <1>9, <1>10
-----------------------------------------------------------------------------
(***************************************************************************)
(* The inductive invariant: the line and the places of the history, which  *)
(* inputs they hold, and what the screen shows of them.                    *)
(***************************************************************************)
LineInv ==
  /\ currentInput \in Line
  /\ saved_inputs \in [Place -> Line]
  /\ input_write_index \in Place
  /\ saved_inputs_num = input_write_index
  /\ input_read_index \in 0..saved_inputs_num
  /\ entered \in Seq(Line)

LastPlace == INPUTS_TO_SAVE - 1

\* The places before the last one hold the inputs in order until the list is
\* filled; the newest ones end at the last place from then on.
HistoryInv ==
  /\ input_write_index = IF Len(entered) < LastPlace THEN Len(entered) ELSE LastPlace
  /\ Len(entered) <= LastPlace =>
       \A i \in 1..Len(entered) : saved_inputs[i - 1] = entered[i]
  /\ Len(entered) > LastPlace =>
       \A k \in 0..LastPlace : k < Len(entered) - LastPlace =>
         saved_inputs[LastPlace - k] = entered[Len(entered) - k]

ScreenInv ==
  /\ wrapped \in BOOLEAN
  /\ prompted \in Screen /\ prompted.up = 0
  /\ input_row = prompted.row /\ input_col = prompted.col
  /\ Behind(prompted, screen, Len(currentInput))
  /\ ~ wrapped => /\ screen.row = prompted.row /\ screen.up = 0
                  /\ ShowsInput(prompted, screen, currentInput)

TerminalInv == LineInv /\ HistoryInv /\ ScreenInv

LEMMA PlaceFacts ==
  /\ LastPlace \in Nat /\ LastPlace > 0 /\ Place = 0..LastPlace
BY ConstantFacts DEF LastPlace, Place

LEMMA NewlineType ==
  ASSUME NEW s \in Screen
  PROVE  newline(s) \in Screen
<1>1. /\ s.cells \in Cells /\ s.row \in 0..(screen_row_num - 1) /\ s.col \in Nat
      /\ s.up \in 0..screen_row_num
      /\ s = [cells |-> s.cells, row |-> s.row, col |-> s.col, up |-> s.up]
  BY ScreenFacts, ScreenRecord
<1> QED BY <1>1, NewlineIs

LEMMA AtPromptType ==
  ASSUME NEW s \in Screen
  PROVE  AtPrompt(s) \in Screen /\ AtPrompt(s).up = 0
<1> DEFINE text == <<Newline>> \o Prompt
           t == kputs(s, text)
<1>1. text \in Seq(Char)
  <2>1. <<Newline>> \in Seq(Char) /\ Prompt \in Seq(Char)
    BY ConstantFacts
  <2> QED BY <2>1, ConcatProperties
<1> HIDE DEF text
<1>2. t \in Screen
  BY <1>1, KputsType
<1>3. AtPrompt(s) = [t EXCEPT !.up = 0]
  BY DEF AtPrompt, text
<1> HIDE DEF t
<1> QED BY <1>2, <1>3, ScreenSize DEF Screen

LEMMA BlankType == BlankScreen \in Screen
<1>1. BlankScreen = [cells |-> [p \in Cell |-> {}], row |-> 0, col |-> 0, up |-> 0]
  BY DEF BlankScreen
<1>2. [p \in Cell |-> {}] \in Cells
  BY DEF Cells
<1> QED BY <1>1, <1>2, ScreenSize DEF Screen

LEMMA ClearScreenType ==
  ASSUME NEW s \in Screen
  PROVE  clear_screen(s) \in Screen
<1> DEFINE d == [p \in Cell |-> {}]
<1>1. d \in Cells
  BY DEF Cells
<1>2. clear_screen(s) = [s EXCEPT !.cells = d, !.col = 0, !.row = 0]
  BY DEF clear_screen
<1>3. 0 \in 0..(screen_row_num - 1) /\ 0 \in 0..(screen_col_num - 1)
  BY ScreenSize
<1> HIDE DEF d
<1> QED BY <1>1, <1>2, <1>3 DEF Screen
-----------------------------------------------------------------------------
(***************************************************************************)
(* What a key that stays on the line makes of the screen.                  *)
(***************************************************************************)
\* A screen is behind itself when the text has not moved.
LEMMA BehindItself ==
  ASSUME NEW p \in Screen, p.up = 0
  PROVE  Behind(p, p, 0)
<1>1. Offset(Cursor(p)) \in Nat
  BY ScreenFacts
<1>2. Kept(p, p)
  <2>1. ASSUME NEW q \in Cell PROVE p.cells[<<q[1] - p.up, q[2]>>] = p.cells[q]
    <3>1. q = <<q[1], q[2]>> /\ q[1] - 0 = q[1]
      BY CellFacts
    <3> QED BY <3>1
  <2> QED BY <2>1 DEF Kept
<1>3. p.up * screen_col_num = 0
  BY ScreenSize
<1> QED BY <1>1, <1>2, <1>3 DEF Behind

LEMMA ScreenInvParts ==
  ASSUME ScreenInv
  PROVE  /\ wrapped \in BOOLEAN /\ prompted \in Screen /\ prompted.up = 0
         /\ input_row = prompted.row /\ input_col = prompted.col
         /\ Behind(prompted, screen, Len(currentInput)) /\ screen \in Screen
         /\ ~ wrapped => /\ screen.row = prompted.row /\ screen.up = 0
                         /\ ShowsInput(prompted, screen, currentInput)
BY DEF ScreenInv, Behind

\* A key that stays on the line keeps the invariant of the screen, when the
\* screen it leaves is behind the prompt and shows the new input.
LEMMA ShowsInv ==
  ASSUME ScreenInv, NEW s, Shows(s), Behind(prompted, s, Len(currentInput')),
         ~ wrapped /\ s.row = prompted.row /\ s.up = 0 => ShowsInput(prompted, s, currentInput')
  PROVE  ScreenInv'
<1>1. /\ screen' = s /\ wrapped' = (wrapped \/ s.row # prompted.row \/ s.up > 0)
      /\ input_row' = input_row /\ input_col' = input_col /\ prompted' = prompted
  BY DEF Shows, line
<1>2. s \in Screen
  BY DEF Behind
<1>3. s.up \in Nat
  BY <1>2, ScreenFacts
<1>4. ~ wrapped' => ~ wrapped /\ s.row = prompted.row /\ s.up = 0
  <2>1. s.up > 0 \/ s.up = 0
    BY <1>3
  <2> QED BY ONLY <1>1, <2>1, Zenon
<1>5. wrapped' \in BOOLEAN
  BY <1>1
<1>6. /\ prompted \in Screen /\ prompted.up = 0
      /\ input_row = prompted.row /\ input_col = prompted.col
  BY ScreenInvParts
<1>7. Behind(prompted', screen', Len(currentInput'))
  BY <1>1
<1>8. ~ wrapped' => ShowsInput(prompted', screen', currentInput')
  BY <1>1, <1>4
<1> QED BY <1>1, <1>4, <1>5, <1>6, <1>7, <1>8 DEF ScreenInv

\* A prompt below what stands on the screen, and no input yet.
LEMMA PromptInv ==
  ASSUME NEW s \in Screen,
         prompted' = AtPrompt(s), screen' = prompted', wrapped' = FALSE,
         input_col' = screen'.col, input_row' = screen'.row, currentInput' = <<>>
  PROVE  ScreenInv'
<1> DEFINE p == AtPrompt(s)
<1>1. p \in Screen /\ p.up = 0
  BY AtPromptType
<1>2. prompted' = p /\ screen' = p /\ input_col' = p.col /\ input_row' = p.row
  OBVIOUS
<1> HIDE DEF p
<1>3. ShowsInput(p, p, <<>>)
  BY <1>1, NothingShown
<1>4. Behind(p, p, 0)
  BY <1>1, BehindItself
<1>5. Len(<<>>) = 0
  OBVIOUS
<1>6. Behind(prompted', screen', Len(currentInput'))
  BY <1>2, <1>4, <1>5
<1>7. ShowsInput(prompted', screen', currentInput')
  BY <1>2, <1>3
<1> QED BY <1>1, <1>2, <1>6, <1>7 DEF ScreenInv
-----------------------------------------------------------------------------
(***************************************************************************)
(* The keys, one by one.                                                   *)
(***************************************************************************)
LEMMA TypeInv ==
  ASSUME TerminalInv, NEW c \in Letter, Type(c)
  PROVE  TerminalInv'
<1>1. /\ Len(currentInput) < INPUT_MAX_SIZE /\ currentInput' = Append(currentInput, c)
      /\ Shows(kputchar(screen, c))
      /\ UNCHANGED <<saved_inputs, input_write_index, input_read_index, saved_inputs_num, entered>>
  BY DEF Type, indices
<1>2. currentInput \in Line /\ LineInv /\ HistoryInv /\ ScreenInv
  BY DEF TerminalInv, LineInv
<1>3. LineInv'
  BY <1>1, <1>2, LineSteps DEF LineInv
<1>4. HistoryInv'
  BY <1>1, <1>2 DEF HistoryInv
<1>5. ScreenInv'
  <2>1. /\ currentInput \in Seq(Char) /\ Len(currentInput) \in Nat /\ c \in Char
    BY <1>2, LineIs, ConstantFacts
  <2>2. Len(currentInput') = Len(currentInput) + 1
    BY <1>1, <2>1, AppendFacts
  <2>3. Len(currentInput) + 1 <= (screen_row_num - 1) * screen_col_num
    <3>1. (screen_row_num - 1) * screen_col_num \in Nat
      BY ScreenSize
    <3> DEFINE size == (screen_row_num - 1) * screen_col_num
    <3>2. size \in Nat /\ INPUT_MAX_SIZE \in Nat /\ INPUT_MAX_SIZE <= size
      BY <3>1, ScreenSize
    <3> HIDE DEF size
    <3>3. Len(currentInput) + 1 <= size
      BY <1>1, <2>1, <3>2
    <3> QED BY <3>3 DEF size
  <2>4. Behind(prompted, kputchar(screen, c), Len(currentInput) + 1)
    BY <1>2, <2>1, <2>3, BehindKputchar, ScreenInvParts
  <2>5. Behind(prompted, kputchar(screen, c), Len(currentInput'))
    BY <2>2, <2>4
  <2>6. ~ wrapped => ShowsInput(prompted, kputchar(screen, c), currentInput')
    BY <1>1, <1>2, <2>1, TypeShows, ScreenInvParts
  <2> QED BY <1>1, <1>2, <2>5, <2>6, ShowsInv
<1> QED BY <1>3, <1>4, <1>5 DEF TerminalInv

LEMMA BackspaceInv ==
  ASSUME TerminalInv, Backspace
  PROVE  TerminalInv'
<1>1. /\ currentInput # <<>> /\ currentInput' = Front(currentInput)
      /\ Shows(backspace(screen))
      /\ UNCHANGED <<saved_inputs, input_write_index, input_read_index, saved_inputs_num, entered>>
  BY DEF Backspace, indices
<1>2. currentInput \in Line /\ LineInv /\ HistoryInv /\ ScreenInv
  BY DEF TerminalInv, LineInv
<1> DEFINE f == Front(currentInput)
           c == currentInput[Len(currentInput)]
<1>3. /\ f \in Line /\ f \in Seq(Char) /\ c \in Char /\ Len(f) \in Nat
      /\ Len(currentInput) = Len(f) + 1 /\ currentInput = Append(f, c)
  BY <1>1, <1>2, FrontFacts, LineIs
<1>4. LineInv'
  BY <1>1, <1>2, <1>3 DEF LineInv
<1>5. HistoryInv'
  BY <1>1, <1>2 DEF HistoryInv
<1>6. currentInput' = f
  BY <1>1
<1>7. ScreenInv'
  <2> HIDE DEF f, c
  <2>1. /\ prompted \in Screen /\ prompted.up = 0 /\ screen \in Screen
        /\ Behind(prompted, screen, Len(f) + 1)
    BY <1>2, <1>3, ScreenInvParts
  <2>2. Behind(prompted, backspace(screen), Len(currentInput'))
    BY <1>3, <1>6, <2>1, BehindBackspace
  <2>3. Offset(Cursor(screen)) > 0
    <3>1. Offset(Cursor(screen)) \in Nat /\ Offset(Cursor(screen)) >= Len(f) + 1
      BY <2>1, ScreenFacts DEF Behind
    <3> QED BY <1>3, <3>1
  <2>4. ~ wrapped => ShowsInput(prompted, backspace(screen), currentInput')
    <3>1. ASSUME ~ wrapped PROVE ShowsInput(prompted, backspace(screen), f)
      <4>1. ShowsInput(prompted, screen, Append(f, c)) /\ screen.row = prompted.row /\ screen.up = 0
        BY <1>2, <1>3, <3>1, ScreenInvParts
      <4> QED BY <1>3, <2>1, <2>3, <4>1, BackspaceShows
    <3> QED BY <1>6, <3>1
  <2> QED BY <1>1, <1>2, <2>2, <2>4, ShowsInv
<1> QED BY <1>4, <1>5, <1>7 DEF TerminalInv

LEMMA RecallInv ==
  ASSUME TerminalInv, NEW s \in Line, Recall(s)
  PROVE  ScreenInv'
<1>1. /\ LineInv /\ ScreenInv /\ currentInput \in Seq(Char) /\ Len(currentInput) \in Nat
      /\ s \in Seq(Char) /\ Len(s) \in Nat /\ Len(s) <= INPUT_MAX_SIZE
  BY LineIs DEF TerminalInv, LineInv
<1>2. /\ prompted \in Screen /\ prompted.up = 0 /\ screen \in Screen
      /\ input_row = prompted.row /\ input_col = prompted.col
      /\ Behind(prompted, screen, Len(currentInput))
  BY <1>1, ScreenInvParts
<1> DEFINE t == Reset(screen, prompted, Len(currentInput))
<1>3. currentInput' = s /\ Shows(kputs(t, s))
  <2>1. insert(clear_text_region(screen, input_col, input_row, Len(currentInput)),
               input_col, input_row, s) = kputs(t, s)
    BY <1>2, RecallIs
  <2> QED BY <2>1 DEF Recall
<1>4. Behind(prompted, t, 0)
  BY <1>1, <1>2, BehindReset
<1>5. Len(s) <= (screen_row_num - 1) * screen_col_num
  <2> DEFINE size == (screen_row_num - 1) * screen_col_num
  <2>1. size \in Nat /\ INPUT_MAX_SIZE \in Nat /\ INPUT_MAX_SIZE <= size
    BY ScreenSize
  <2> HIDE DEF size
  <2>2. Len(s) <= size
    BY <1>1, <2>1
  <2> QED BY <2>2 DEF size
<1> HIDE DEF t
<1>6. Behind(prompted, kputs(t, s), Len(currentInput'))
  BY <1>1, <1>2, <1>3, <1>4, <1>5, BehindKputs
<1>7. ~ wrapped => ShowsInput(prompted, kputs(t, s), currentInput')
  <2>1. ASSUME ~ wrapped PROVE ShowsInput(prompted, kputs(t, s), s)
    <3>1. /\ ShowsInput(prompted, screen, currentInput)
          /\ screen.row = prompted.row /\ screen.up = 0
      BY <1>1, <2>1, ScreenInvParts
    <3>2. Kept(prompted, screen)
      BY <1>2 DEF Behind
    <3> QED BY <1>1, <1>2, <3>1, <3>2, RecallShows DEF t
  <2> QED BY <1>3, <2>1
<1> QED BY <1>1, <1>3, <1>6, <1>7, ShowsInv

LEMMA UpInv ==
  ASSUME TerminalInv, cmd_up
  PROVE  TerminalInv'
<1>1. /\ input_read_index > 0 /\ input_read_index' = input_read_index - 1
      /\ Recall(saved_inputs[input_read_index'])
      /\ UNCHANGED <<saved_inputs, input_write_index, saved_inputs_num, entered>>
  BY DEF cmd_up
<1>2. LineInv /\ HistoryInv
  BY DEF TerminalInv
<1>3. /\ saved_inputs \in [Place -> Line] /\ input_write_index \in Place
      /\ saved_inputs_num = input_write_index /\ input_read_index \in 0..saved_inputs_num
  BY <1>2 DEF LineInv
<1>4. input_read_index' \in 0..saved_inputs_num /\ input_read_index' \in Place
  BY <1>1, <1>3, PlaceFacts
<1>5. saved_inputs[input_read_index'] \in Line
  BY <1>3, <1>4
<1>6. currentInput' \in Line
  BY <1>1, <1>5 DEF Recall
<1>7. LineInv'
  BY <1>1, <1>2, <1>4, <1>6 DEF LineInv
<1>8. HistoryInv'
  BY <1>1, <1>2 DEF HistoryInv
<1>9. ScreenInv'
  BY <1>1, <1>5, RecallInv
<1> QED BY <1>7, <1>8, <1>9 DEF TerminalInv

LEMMA DownInv ==
  ASSUME TerminalInv, cmd_down
  PROVE  TerminalInv'
<1>1. LineInv /\ HistoryInv
  BY DEF TerminalInv
<1>2. /\ saved_inputs \in [Place -> Line] /\ input_write_index \in Place
      /\ saved_inputs_num = input_write_index /\ input_read_index \in 0..saved_inputs_num
  BY <1>1 DEF LineInv
<1>3. CASE /\ input_read_index < saved_inputs_num
           /\ input_read_index' = input_read_index + 1
           /\ Recall(saved_inputs[input_read_index'])
           /\ UNCHANGED <<saved_inputs, input_write_index, saved_inputs_num, entered>>
  <2>1. input_read_index' \in 0..saved_inputs_num /\ input_read_index' \in Place
    BY <1>2, <1>3, PlaceFacts
  <2>2. saved_inputs[input_read_index'] \in Line
    BY <1>2, <2>1
  <2>3. currentInput' \in Line
    BY <1>3, <2>2 DEF Recall
  <2>4. LineInv'
    BY <1>1, <1>3, <2>1, <2>3 DEF LineInv
  <2>5. HistoryInv'
    BY <1>1, <1>3 DEF HistoryInv
  <2>6. ScreenInv'
    BY <1>3, <2>2, RecallInv
  <2> QED BY <2>4, <2>5, <2>6 DEF TerminalInv
<1>4. CASE /\ input_read_index = saved_inputs_num
           /\ Recall(<<>>) /\ UNCHANGED <<saved_inputs, indices, entered>>
  <2>1. UNCHANGED <<saved_inputs, input_write_index, input_read_index, saved_inputs_num, entered>>
    BY <1>4 DEF indices
  <2>2. currentInput' \in Line
    BY <1>4, LineSteps DEF Recall
  <2>3. LineInv'
    BY <1>1, <2>1, <2>2 DEF LineInv
  <2>4. HistoryInv'
    BY <1>1, <2>1 DEF HistoryInv
  <2>5. ScreenInv'
    BY <1>4, LineSteps, RecallInv
  <2> QED BY <2>3, <2>4, <2>5 DEF TerminalInv
<1> QED BY <1>3, <1>4 DEF cmd_down
-----------------------------------------------------------------------------
(***************************************************************************)
(* Enter: the history, then the screen of the next prompt.                 *)
(***************************************************************************)
LEMMA SaveUnchanged ==
  ASSUME LineInv, HistoryInv,
         UNCHANGED <<saved_inputs, input_write_index, saved_inputs_num, entered>>
  PROVE  /\ saved_inputs' \in [Place -> Line] /\ input_write_index' \in Place
         /\ saved_inputs_num' = input_write_index' /\ entered' \in Seq(Line) /\ HistoryInv'
         /\ saved_inputs_num <= saved_inputs_num'
<1>1. input_write_index \in Nat /\ saved_inputs_num = input_write_index
  BY PlaceFacts DEF LineInv
<1> QED BY <1>1 DEF LineInv, HistoryInv

LEMMA SaveBehindInv ==
  ASSUME LineInv, HistoryInv, input_write_index < LastPlace, SaveBehind,
         entered' = Append(entered, currentInput)
  PROVE  /\ saved_inputs' \in [Place -> Line] /\ input_write_index' \in Place
         /\ saved_inputs_num' = input_write_index' /\ entered' \in Seq(Line) /\ HistoryInv'
         /\ saved_inputs_num <= saved_inputs_num'
<1> DEFINE n == Len(entered)
<1>1. /\ currentInput \in Line /\ saved_inputs \in [Place -> Line]
      /\ input_write_index \in 0..LastPlace /\ saved_inputs_num = input_write_index
      /\ entered \in Seq(Line) /\ n \in Nat
  BY PlaceFacts DEF LineInv
<1>2. input_write_index = n /\ n < LastPlace
  BY <1>1, PlaceFacts DEF HistoryInv
<1>3. \A i \in 1..n : saved_inputs[i - 1] = entered[i]
  BY <1>1, <1>2, PlaceFacts DEF HistoryInv
<1>4. /\ saved_inputs' = [saved_inputs EXCEPT ![input_write_index] = currentInput]
      /\ input_write_index' = input_write_index + 1 /\ saved_inputs_num' = saved_inputs_num + 1
  BY DEF SaveBehind
<1>5. /\ entered' \in Seq(Line) /\ Len(entered') = n + 1 /\ entered'[n + 1] = currentInput
      /\ \A i \in 1..n : entered'[i] = entered[i]
  BY <1>1, AppendFacts
<1> HIDE DEF n
<1>6. n \in Place /\ n + 1 \in Place
  BY <1>1, <1>2, PlaceFacts
<1>7. /\ saved_inputs' \in [Place -> Line] /\ saved_inputs'[n] = currentInput
      /\ \A i \in Place : i # n => saved_inputs'[i] = saved_inputs[i]
  BY <1>1, <1>2, <1>4, <1>6
<1>8. ASSUME NEW i \in 1..(n + 1) PROVE saved_inputs'[i - 1] = entered'[i]
  <2>1. CASE i = n + 1
    <3>1. i - 1 = n
      BY <1>1, <2>1
    <3> QED BY <1>5, <1>7, <2>1, <3>1
  <2>2. CASE i \in 1..n
    <3>1. i - 1 \in Place /\ i - 1 # n
      BY <1>1, <1>2, <2>2, PlaceFacts
    <3> QED BY <1>3, <1>5, <1>7, <2>2, <3>1
  <2>3. i = n + 1 \/ i \in 1..n
    BY <1>1
  <2> QED BY <2>1, <2>2, <2>3
<1>9. HistoryInv'
  <2>1. LastPlace' = LastPlace
    BY DEF LastPlace
  <2>2. input_write_index' = n + 1 /\ n + 1 <= LastPlace /\ Len(entered') = n + 1
    BY <1>1, <1>2, <1>4, <1>5, PlaceFacts
  <2>3. /\ input_write_index' = IF Len(entered') < LastPlace THEN Len(entered') ELSE LastPlace
        /\ ~ (Len(entered') > LastPlace)
    BY <1>1, <2>2, PlaceFacts
  <2> QED BY <1>8, <2>1, <2>2, <2>3 DEF HistoryInv
<1> QED BY <1>1, <1>2, <1>4, <1>5, <1>6, <1>7, <1>9

LEMMA SaveShiftingInv ==
  ASSUME LineInv, HistoryInv, ~ (input_write_index < LastPlace), SaveShifting,
         entered' = Append(entered, currentInput)
  PROVE  /\ saved_inputs' \in [Place -> Line] /\ input_write_index' \in Place
         /\ saved_inputs_num' = input_write_index' /\ entered' \in Seq(Line) /\ HistoryInv'
         /\ saved_inputs_num <= saved_inputs_num'
<1> DEFINE n == Len(entered)
<1>1. /\ currentInput \in Line /\ saved_inputs \in [Place -> Line]
      /\ input_write_index \in 0..LastPlace /\ saved_inputs_num = input_write_index
      /\ entered \in Seq(Line) /\ n \in Nat
  BY PlaceFacts DEF LineInv
<1>2. input_write_index = LastPlace /\ n >= LastPlace
  BY <1>1, PlaceFacts DEF HistoryInv
<1>3. n > LastPlace => \A k \in 0..LastPlace : k < n - LastPlace =>
                         saved_inputs[LastPlace - k] = entered[n - k]
  BY DEF HistoryInv
<1>4. /\ saved_inputs' = [i \in Place |-> IF i = input_write_index THEN currentInput
                                          ELSE saved_inputs[i + 1]]
      /\ input_write_index' = input_write_index /\ saved_inputs_num' = saved_inputs_num
  BY DEF SaveShifting
<1>5. /\ entered' \in Seq(Line) /\ Len(entered') = n + 1 /\ entered'[n + 1] = currentInput
      /\ \A i \in 1..n : entered'[i] = entered[i]
  BY <1>1, AppendFacts
<1> HIDE DEF n
<1>6. /\ saved_inputs'[LastPlace] = currentInput
      /\ \A i \in 0..(LastPlace - 1) : saved_inputs'[i] = saved_inputs[i + 1]
  BY <1>2, <1>4, PlaceFacts
<1>7. saved_inputs' \in [Place -> Line]
  <2>1. ASSUME NEW i \in Place, i # LastPlace PROVE i + 1 \in Place
    BY <2>1, PlaceFacts
  <2>2. \A i \in Place : (IF i = input_write_index THEN currentInput
                          ELSE saved_inputs[i + 1]) \in Line
    BY <1>1, <1>2, <2>1
  <2> QED BY <1>4, <2>2
<1>8. ASSUME NEW k \in 0..LastPlace, k < n + 1 - LastPlace
      PROVE  saved_inputs'[LastPlace - k] = entered'[n + 1 - k]
  <2>1. CASE k = 0
    <3>1. LastPlace - k = LastPlace /\ n + 1 - k = n + 1
      BY <1>1, <2>1, PlaceFacts
    <3> QED BY <1>5, <1>6, <3>1
  <2>2. CASE k > 0
    <3>1. /\ k - 1 \in 0..LastPlace /\ k - 1 < n - LastPlace /\ n > LastPlace
          /\ LastPlace - k \in 0..(LastPlace - 1) /\ LastPlace - k + 1 = LastPlace - (k - 1)
          /\ n + 1 - k = n - (k - 1) /\ n + 1 - k \in 1..n
      BY <1>1, <1>2, <1>8, <2>2, PlaceFacts
    <3>2. saved_inputs'[LastPlace - k] = saved_inputs[LastPlace - (k - 1)]
      BY <1>6, <3>1
    <3>3. saved_inputs[LastPlace - (k - 1)] = entered[n - (k - 1)]
      BY <1>3, <3>1
    <3>4. entered'[n + 1 - k] = entered[n - (k - 1)]
      BY <1>5, <3>1
    <3> QED BY <3>2, <3>3, <3>4
  <2>3. k = 0 \/ k > 0
    BY PlaceFacts
  <2> QED BY <2>1, <2>2, <2>3
<1>9. HistoryInv'
  <2>1. LastPlace' = LastPlace
    BY DEF LastPlace
  <2>2. input_write_index' = LastPlace /\ ~ (n + 1 <= LastPlace) /\ ~ (n + 1 < LastPlace)
    BY <1>1, <1>2, <1>4, PlaceFacts
  <2>3. ~ (Len(entered') <= LastPlace) /\ ~ (Len(entered') < LastPlace)
    BY <1>5, <2>2
  <2>4. \A k \in 0..LastPlace : k < Len(entered') - LastPlace =>
          saved_inputs'[LastPlace - k] = entered'[Len(entered') - k]
    <3>1. Len(entered') = n + 1
      BY <1>5
    <3>2. \A k \in 0..LastPlace : k < n + 1 - LastPlace =>
            saved_inputs'[LastPlace - k] = entered'[n + 1 - k]
      BY <1>8
    <3>3. n \in Nat /\ LastPlace \in Nat
      BY <1>1, PlaceFacts
    <3>4. ASSUME NEW k \in 0..LastPlace, k < Len(entered') - LastPlace
          PROVE  saved_inputs'[LastPlace - k] = entered'[Len(entered') - k]
      <4>1. k < n + 1 - LastPlace /\ Len(entered') - k = n + 1 - k
        BY <3>1, <3>3, <3>4
      <4>2. saved_inputs'[LastPlace - k] = entered'[n + 1 - k]
        BY <3>2, <4>1
      <4> QED BY <4>1, <4>2
    <3> QED BY <3>4
  <2> QED BY <2>1, <2>2, <2>3, <2>4 DEF HistoryInv
<1>10. input_write_index' \in Place /\ saved_inputs_num <= saved_inputs_num'
  BY <1>1, <1>4, PlaceFacts
<1> QED BY <1>1, <1>4, <1>5, <1>7, <1>9, <1>10

LEMMA SaveInv ==
  ASSUME LineInv, HistoryInv, save_cmd
  PROVE  /\ saved_inputs' \in [Place -> Line] /\ input_write_index' \in Place
         /\ saved_inputs_num' = input_write_index' /\ entered' \in Seq(Line) /\ HistoryInv'
         /\ saved_inputs_num <= saved_inputs_num'
<1>1. CASE Wordless(currentInput) \/ Repeated
  <2>1. UNCHANGED <<saved_inputs, input_write_index, saved_inputs_num, entered>>
    BY <1>1 DEF save_cmd
  <2> QED BY <2>1, SaveUnchanged
<1>2. CASE ~ (Wordless(currentInput) \/ Repeated)
  <2>1. /\ entered' = Append(entered, currentInput)
        /\ IF input_write_index < LastPlace THEN SaveBehind ELSE SaveShifting
    BY <1>2 DEF save_cmd, LastPlace
  <2>2. CASE input_write_index < LastPlace
    BY <2>1, <2>2, SaveBehindInv
  <2>3. CASE ~ (input_write_index < LastPlace)
    BY <2>1, <2>3, SaveShiftingInv
  <2> QED BY <2>2, <2>3
<1> QED BY <1>1, <1>2

LEMMA EnterInv ==
  ASSUME TerminalInv, Enter
  PROVE  TerminalInv'
<1>1. LineInv /\ HistoryInv /\ ScreenInv /\ save_cmd /\ run_cmd
  BY DEF TerminalInv, Enter
<1>2. /\ saved_inputs' \in [Place -> Line] /\ input_write_index' \in Place
      /\ saved_inputs_num' = input_write_index' /\ entered' \in Seq(Line) /\ HistoryInv'
      /\ saved_inputs_num <= saved_inputs_num'
  BY <1>1, SaveInv
<1>3. LineInv'
  <2>1. /\ currentInput' = <<>>
        /\ input_read_index' \in {input_read_index, saved_inputs_num'}
    BY <1>1 DEF run_cmd
  <2>2. /\ input_read_index \in 0..saved_inputs_num /\ saved_inputs_num \in Nat
    BY <1>1, PlaceFacts DEF LineInv
  <2>3. saved_inputs_num' \in Nat
    BY <1>2, PlaceFacts
  <2>4. input_read_index' \in 0..saved_inputs_num'
    BY <1>2, <2>1, <2>2, <2>3
  <2> QED BY <1>2, <2>1, <2>4, LineSteps DEF LineInv
<1>4. ScreenInv'
  <2>1. screen \in Screen
    BY <1>1, ScreenInvParts
  <2> DEFINE below == newline(screen)
  <2>2. below \in Screen
    BY <2>1, NewlineType
  <2>3. PICK s \in IF Wordless(currentInput) THEN {below} ELSE Printed(below) :
          prompted' = AtPrompt(s)
    BY <1>1 DEF run_cmd
  <2> HIDE DEF below
  <2>4. Printed(below) \subseteq Screen
    <3>1. ASSUME NEW r \in Screen, NEW text \in Outputs PROVE kputs(r, text) \in Screen
      BY KputsType, ConstantFacts
    <3> QED BY <2>2, <3>1, ClearScreenType DEF Printed
  <2>5. s \in Screen
    BY <2>2, <2>3, <2>4
  <2>6. /\ screen' = prompted' /\ wrapped' = FALSE /\ currentInput' = <<>>
        /\ input_col' = screen'.col /\ input_row' = screen'.row
    BY <1>1 DEF run_cmd
  <2> QED BY <2>3, <2>5, <2>6, PromptInv
<1> QED BY <1>2, <1>3, <1>4 DEF TerminalInv
-----------------------------------------------------------------------------
(***************************************************************************)
(* The theorems.                                                           *)
(***************************************************************************)
LEMMA TerminalInvInit ==
  ASSUME TerminalInit
  PROVE  TerminalInv
<1>1. LineInv
  <2>1. saved_inputs \in [Place -> Line]
    BY LineSteps DEF TerminalInit
  <2>2. 0 \in Place /\ 0 \in 0..0
    BY PlaceFacts
  <2> QED BY <2>1, <2>2, LineSteps DEF TerminalInit, LineInv
<1>2. HistoryInv
  <2>1. entered = <<>> /\ Len(entered) = 0 /\ input_write_index = 0
    BY DEF TerminalInit
  <2>2. 0 < LastPlace
    BY PlaceFacts
  <2>3. ~ (0 > LastPlace) /\ \A i \in 1..0 : FALSE
    BY PlaceFacts
  <2> QED BY <2>1, <2>2, <2>3 DEF HistoryInv
<1>3. ScreenInv
  <2> DEFINE p == AtPrompt(BlankScreen)
  <2>1. /\ prompted = p /\ screen = p /\ wrapped = FALSE /\ currentInput = <<>>
        /\ input_col = p.col /\ input_row = p.row
    BY DEF TerminalInit
  <2>2. p \in Screen /\ p.up = 0
    BY AtPromptType, BlankType
  <2> HIDE DEF p
  <2>3. Behind(p, p, 0)
    BY <2>2, BehindItself
  <2>4. ShowsInput(p, p, <<>>)
    BY <2>2, NothingShown
  <2>5. Len(<<>>) = 0
    OBVIOUS
  <2>6. Behind(prompted, screen, Len(currentInput))
    BY <2>1, <2>3, <2>5
  <2>7. ShowsInput(prompted, screen, currentInput)
    BY <2>1, <2>4
  <2> QED BY <2>1, <2>2, <2>6, <2>7 DEF ScreenInv
<1> QED BY <1>1, <1>2, <1>3 DEF TerminalInv

LEMMA TerminalInvNext ==
  ASSUME TerminalInv, [TerminalNext]_terminalVars
  PROVE  TerminalInv'
<1>1. ASSUME NEW c \in Letter, Type(c) PROVE TerminalInv'
  BY <1>1, TypeInv
<1>2. CASE Backspace
  BY <1>2, BackspaceInv
<1>3. CASE Enter
  BY <1>3, EnterInv
<1>4. CASE cmd_up
  BY <1>4, UpInv
<1>5. CASE cmd_down
  BY <1>5, DownInv
<1>6. CASE UNCHANGED terminalVars
  BY <1>6 DEF terminalVars, indices, line, TerminalInv, LineInv, HistoryInv, ScreenInv
<1> QED BY <1>1, <1>2, <1>3, <1>4, <1>5, <1>6 DEF TerminalNext

LEMMA TerminalInvHolds == TerminalSpec => []TerminalInv
<1>1. TerminalInit => TerminalInv
  BY TerminalInvInit
<1>2. TerminalInv /\ [TerminalNext]_terminalVars => TerminalInv'
  BY TerminalInvNext
<1> QED BY <1>1, <1>2, PTL DEF TerminalSpec

\* The newest inputs are held in the places of the history, in their order,
\* whatever was typed, recalled and saved: the arrow keys read nothing else.
THEOREM NewestInputsAreHeldAlways == TerminalSpec => []NewestInputsAreHeld
<1>1. TerminalInv => NewestInputsAreHeld
  <2> SUFFICES ASSUME TerminalInv PROVE NewestInputsAreHeld
    OBVIOUS
  <2>1. LineInv /\ HistoryInv /\ ScreenInv
    BY DEF TerminalInv
  <2>2. TerminalTypeOK
    <3>1. /\ screen \in Screen /\ prompted \in Screen
          /\ input_row = prompted.row /\ input_col = prompted.col
      BY <2>1, ScreenInvParts
    <3>2. Cursor(screen) \in Cell /\ Cursor(prompted) \in Cell
          /\ Cursor(prompted) = <<prompted.row, prompted.col>>
      BY <3>1, ScreenFacts
    <3> QED BY <2>1, <3>1, <3>2 DEF TerminalTypeOK, LineInv
  <2>3. Len(entered) \in Nat /\ (~ (Len(entered) <= LastPlace) => Len(entered) > LastPlace)
    BY <2>1, PlaceFacts DEF LineInv
  <2>4. /\ Len(entered) <= LastPlace =>
             \A i \in 1..Len(entered) : saved_inputs[i - 1] = entered[i]
        /\ ~ (Len(entered) <= LastPlace) =>
             \A k \in 0..LastPlace : k < Len(entered) - LastPlace =>
               saved_inputs[LastPlace - k] = entered[Len(entered) - k]
    BY <2>1, <2>3 DEF HistoryInv
  <2> QED BY <2>2, <2>4 DEF NewestInputsAreHeld, LastPlace
<1> QED BY <1>1, TerminalInvHolds, PTL

\* No key but enter changes what stands before the input: what the recall of
\* an input clears and draws, and what backspace clears, lies behind it.
THEOREM OutputIsKeptAlways == TerminalSpec => []OutputIsKept
<1>1. TerminalInv => OutputIsKept
  BY ScreenInvParts DEF TerminalInv, Behind, Kept, OutputIsKept
<1> QED BY <1>1, TerminalInvHolds, PTL

\* While the cursor is on the row of the prompt, the screen shows the input as
\* if it had just been printed there, on top of nothing or of what stood there.
THEOREM InputIsShownAlways == TerminalSpec => []InputIsShown
<1>1. TerminalInv => InputIsShown
  <2> SUFFICES ASSUME TerminalInv, ~ wrapped PROVE InputIsShown
    BY DEF InputIsShown
  <2>1. ShowsInput(prompted, screen, currentInput) /\ screen.up = 0
    BY ScreenInvParts DEF TerminalInv
  <2>2. Cursor(screen) = Cursor(kputs(prompted, currentInput))
    BY <2>1 DEF ShowsInput, Shown, Cursor
  <2> QED BY <2>1, <2>2 DEF InputIsShown, ShowsInput, Shown
<1> QED BY <1>1, TerminalInvHolds, PTL
=============================================================================
