------------------------------ MODULE Keyboard ------------------------------
(***************************************************************************)
(* drivers/keyboard.cpp: the interrupt handler that turns the bytes of the *)
(* keyboard into key events, and the ring buffer through which it passes   *)
(* them to the one process that reads them (kterminal_handle_input).  The  *)
(* handler interrupts the reader anywhere; the reader never interrupts it. *)
(***************************************************************************)
EXTENDS Integers, Sequences

CONSTANTS KEYBOARD_BUFFER_SIZE,
          Key,    \* the keys of the keyboard: records [code, ext]
          Wire    \* bound: bytes the keyboard has sent and no IRQ has read

ASSUME SizeAssumption == KEYBOARD_BUFFER_SIZE \in Nat /\ KEYBOARD_BUFFER_SIZE > 1

VARIABLES
  down, wire,                     \* the hardware: the keys held, its bytes
  is_extended, shift, capsLock,
  keyboardBuffer, kb_buf_head, kb_buf_tail,
  out,                            \* the reader's event
  reader                          \* where the reader is in pop_key_event

hardware == <<down, wire>>
modifiers == <<is_extended, shift, capsLock>>
ring == <<keyboardBuffer, kb_buf_head, kb_buf_tail>>
vars == <<hardware, modifiers, ring, out, reader>>

\* Scancodes without their release bit, by what the handler does with them.
Code == {"letter", "digit", "enter", "f1", "up", "down", "lshift", "rshift",
         "caps", "other"}

ASSUME KeyAssumption == Key \subseteq [code : Code, ext : BOOLEAN]

\* The code tables, for the codes that can reach them.
Lower == [letter |-> "a", digit |-> "1", enter |-> "newline", f1 |-> "F1",
          up |-> "UP", down |-> "DOWN", other |-> "UNKNOWN"]
Upper == [Lower EXCEPT !.letter = "A", !.digit = "!"]
Printable == {"letter", "digit", "enter"}

Character == {"zero", "a", "A", "1", "!", "newline", "F1", "UP", "DOWN", "UNKNOWN"}
Event == [character : Character, pressed : BOOLEAN]

\* A static buffer is zero at boot; no event is read before one is written.
ZeroEvent == [character |-> "zero", pressed |-> FALSE]

Slot == 0..(KEYBOARD_BUFFER_SIZE - 1)
Byte == [code : Code, up : BOOLEAN, ext : BOOLEAN]

\* 0xE0, which no key has as its code.
Prefix == [code |-> "prefix", up |-> TRUE, ext |-> FALSE]

TypeOK == /\ down \subseteq Key
          /\ wire \in Seq(Byte \cup {Prefix})
          /\ is_extended \in BOOLEAN /\ shift \in BOOLEAN /\ capsLock \in BOOLEAN
          /\ keyboardBuffer \in [Slot -> Event]
          /\ kb_buf_head \in Slot /\ kb_buf_tail \in Slot
          /\ out \in Event
          /\ reader \in {"test", "copy", "advance"}

Init == /\ down = {} /\ wire = <<>>
        /\ is_extended = FALSE /\ shift = FALSE /\ capsLock = FALSE
        /\ keyboardBuffer = [i \in Slot |-> ZeroEvent]
        /\ kb_buf_head = 0 /\ kb_buf_tail = 0
        /\ out = ZeroEvent
        /\ reader = "test"
-----------------------------------------------------------------------------
\* The keyboard sends a key: an extended one as a prefix and a second byte.
\* ext is known to the keyboard only, the handler reads the code and up.
Bytes(k, up) ==
  LET byte == [code |-> k.code, up |-> up, ext |-> k.ext] IN
    IF k.ext THEN <<Prefix, byte>> ELSE <<byte>>

\* A key that is held is sent again and again.
Press(k) == /\ Len(wire) + 2 <= Wire
            /\ down' = down \cup {k}
            /\ wire' = wire \o Bytes(k, FALSE)
            /\ UNCHANGED <<modifiers, ring, out, reader>>

Release(k) == /\ Len(wire) + 2 <= Wire /\ k \in down
              /\ down' = down \ {k}
              /\ wire' = wire \o Bytes(k, TRUE)
              /\ UNCHANGED <<modifiers, ring, out, reader>>
-----------------------------------------------------------------------------
Successor(i) == IF i = KEYBOARD_BUFFER_SIZE - 1 THEN 0 ELSE i + 1

push_key_event(ev) ==
  IF Successor(kb_buf_head) # kb_buf_tail
  THEN /\ keyboardBuffer' = [keyboardBuffer EXCEPT ![kb_buf_head] = ev]
       /\ kb_buf_head' = Successor(kb_buf_head)
  ELSE UNCHANGED <<keyboardBuffer, kb_buf_head>>

get_terminal_key(code, sh, caps) ==
  IF code \in Printable THEN IF caps # sh THEN Upper[code] ELSE Lower[code]
                        ELSE IF sh THEN Upper[code] ELSE Lower[code]

ExtendedKey(code) == CASE code = "enter" -> "newline"
                       [] code = "up"    -> "UP"
                       [] code = "down"  -> "DOWN"
                       [] OTHER          -> "UNKNOWN"

\* Mutant: the prefix is not forgotten after the byte that follows it.
HandleByteKeepsPrefix(b) ==
  /\ is_extended
  /\ push_key_event([character |-> ExtendedKey(b.code), pressed |-> ~b.up])
  /\ UNCHANGED modifiers

\* The second byte of an extended key.
HandleExtended(b) ==
  /\ is_extended
  /\ push_key_event([character |-> ExtendedKey(b.code), pressed |-> ~b.up])
  /\ is_extended' = FALSE
  /\ UNCHANGED <<shift, capsLock>>

HandlePlain(b) ==
  /\ ~is_extended
  /\ \/ /\ b.code \in {"lshift", "rshift"}
        /\ shift' = ~b.up
        /\ UNCHANGED <<is_extended, capsLock, keyboardBuffer, kb_buf_head>>
     \/ /\ b.code = "caps"
        /\ capsLock' = IF b.up THEN capsLock ELSE ~capsLock
        /\ UNCHANGED <<is_extended, shift, keyboardBuffer, kb_buf_head>>
     \/ /\ b.code \notin {"lshift", "rshift", "caps"}
        /\ push_key_event([character |-> get_terminal_key(b.code, shift, capsLock),
                           pressed |-> ~b.up])
        /\ UNCHANGED modifiers

\* One interrupt: one byte is read and handled to its end.
keyboardHandler ==
  /\ wire # <<>>
  /\ wire' = Tail(wire)
  /\ LET b == Head(wire) IN
       \/ /\ b = Prefix
          /\ is_extended' = TRUE
          /\ UNCHANGED <<shift, capsLock, keyboardBuffer, kb_buf_head>>
       \/ b # Prefix /\ (HandleExtended(b) \/ HandlePlain(b))
  /\ UNCHANGED <<down, kb_buf_tail, out, reader>>
-----------------------------------------------------------------------------
\* pop_key_event: its test, its copy and its write of the tail are separate
\* steps, as interrupts are enabled.
PopTest == /\ reader = "test" /\ kb_buf_head # kb_buf_tail
           /\ reader' = "copy"
           /\ UNCHANGED <<hardware, modifiers, ring, out>>

\* Mutant: the copy comes after the slot was given back.
AdvanceFirst == /\ reader = "copy"
                /\ kb_buf_tail' = Successor(kb_buf_tail)
                /\ reader' = "advance"
                /\ UNCHANGED <<hardware, modifiers, keyboardBuffer, kb_buf_head, out>>

PopCopy == /\ reader = "copy"
           /\ out' = keyboardBuffer[kb_buf_tail]
           /\ reader' = "advance"
           /\ UNCHANGED <<hardware, modifiers, ring>>

PopAdvance == /\ reader = "advance"
              /\ kb_buf_tail' = Successor(kb_buf_tail)
              /\ reader' = "test"
              /\ UNCHANGED <<hardware, modifiers, keyboardBuffer, kb_buf_head, out>>

pop_key_event == PopTest \/ PopCopy \/ PopAdvance
-----------------------------------------------------------------------------
Next == \/ \E k \in Key : Press(k) \/ Release(k)
        \/ keyboardHandler
        \/ pop_key_event

Spec == Init /\ [][Next]_vars
=============================================================================
