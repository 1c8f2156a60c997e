------------------------------ MODULE Terminal ------------------------------
(***************************************************************************)
(* The line editor of the kernel terminal, apps/kterminal.cpp: the input   *)
(* line, the history of inputs that the arrow keys walk through, and what  *)
(* the screen shows of them.  Of a command only the output is here.        *)
(***************************************************************************)
EXTENDS Console

CONSTANTS INPUTS_TO_SAVE, INPUT_MAX_SIZE,
          Letter,  \* characters of the keyboard: not %, which insert would format
          Prompt,
          Unwritten, \* what kmalloc may leave in a place of the history
          Outputs, \* what a command may print
          Saves    \* bound: the inputs saved in a behaviour

ASSUME TerminalAssumption ==
  /\ INPUTS_TO_SAVE \in Nat /\ INPUTS_TO_SAVE > 1
  /\ INPUT_MAX_SIZE \in Nat /\ INPUT_MAX_SIZE > 1
  /\ Letter \subseteq Char /\ Prompt \in Seq(Char)
  /\ Outputs \subseteq Seq(Char) /\ Unwritten \subseteq Seq(Char)
  /\ \A s \in Unwritten : Len(s) <= INPUT_MAX_SIZE
  \* The prompt and the longest input fit on all rows but one.
  /\ Len(Prompt) + INPUT_MAX_SIZE <= (screen_row_num - 1) * (screen_col_num - 1)

VARIABLES currentInput, saved_inputs,
          input_write_index, input_read_index, saved_inputs_num,
          screen, input_col, input_row,
          entered,  \* history: the inputs that were saved, in their order
          prompted, \* the screen when the prompt was printed, and
          wrapped   \* whether the cursor has left its row since

indices == <<input_write_index, input_read_index, saved_inputs_num>>
line == <<input_col, input_row, prompted>>
terminalVars == <<currentInput, saved_inputs, indices, screen, line, entered, wrapped>>

Place == 0..(INPUTS_TO_SAVE - 1)

AtPrompt(s) == [kputs(s, <<Newline>> \o Prompt) EXCEPT !.up = 0]

TerminalInit ==
  /\ prompted = AtPrompt(BlankScreen) /\ screen = prompted /\ wrapped = FALSE
  /\ input_col = screen.col /\ input_row = screen.row
  /\ currentInput = <<>>
  /\ saved_inputs \in [Place -> Unwritten]
  /\ input_write_index = 0 /\ input_read_index = 0 /\ saved_inputs_num = 0
  /\ entered = <<>>
-----------------------------------------------------------------------------
\* The screen after a key that stays on the input line.
Shows(s) == /\ screen' = s
            /\ wrapped' = (wrapped \/ s.row # prompted.row \/ s.up > 0)
            /\ UNCHANGED line

\* A character; the test lets the line grow to INPUT_MAX_SIZE characters.
Type(c) == /\ Len(currentInput) < INPUT_MAX_SIZE
           /\ currentInput' = Append(currentInput, c)
           /\ Shows(kputchar(screen, c))
           /\ UNCHANGED <<saved_inputs, indices, entered>>

Backspace == /\ currentInput # <<>>
             /\ currentInput' = Front(currentInput)
             /\ Shows(backspace(screen))
             /\ UNCHANGED <<saved_inputs, indices, entered>>

\* get_first_word skips the blanks in front and finds nothing behind them.
Wordless(s) == \A i \in DOMAIN s : s[i] = Blank

Repeated == input_write_index > 0 /\ saved_inputs[input_write_index - 1] = currentInput

\* Mutant: the inputs before the last place stay where they are.
SaveOver ==
  /\ saved_inputs' = [saved_inputs EXCEPT ![input_write_index] = currentInput]
  /\ UNCHANGED <<input_write_index, saved_inputs_num>>

\* The list is filled: every input moves up one place.
SaveShifting ==
  /\ saved_inputs' = [i \in Place |-> IF i = input_write_index THEN currentInput
                                      ELSE saved_inputs[i + 1]]
  /\ UNCHANGED <<input_write_index, saved_inputs_num>>

SaveBehind ==
  /\ saved_inputs' = [saved_inputs EXCEPT ![input_write_index] = currentInput]
  /\ input_write_index' = input_write_index + 1
  /\ saved_inputs_num' = saved_inputs_num + 1

save_cmd == IF Wordless(currentInput) \/ Repeated
            THEN UNCHANGED <<saved_inputs, input_write_index, saved_inputs_num, entered>>
            ELSE /\ Len(entered) < Saves
                 /\ entered' = Append(entered, currentInput)
                 /\ IF input_write_index < INPUTS_TO_SAVE - 1 THEN SaveBehind
                                                              ELSE SaveShifting

\* What a command leaves on the screen; clear begins with a blank one.
Printed(s) == {kputs(t, text) : t \in {s, clear_screen(s)}, text \in Outputs}

\* A line without a word leaves the read index where it is and prints nothing.
run_cmd ==
  /\ input_read_index' = IF Wordless(currentInput) THEN input_read_index
                                                   ELSE saved_inputs_num'
  /\ \E s \in IF Wordless(currentInput) THEN {newline(screen)} ELSE Printed(newline(screen)) :
       prompted' = AtPrompt(s)
  /\ screen' = prompted' /\ wrapped' = FALSE
  /\ input_col' = screen'.col /\ input_row' = screen'.row
  /\ currentInput' = <<>>

Enter == save_cmd /\ run_cmd
-----------------------------------------------------------------------------
\* The input is replaced by s, and so is its text.
Recall(s) == /\ currentInput' = s
             /\ LET cleared == clear_text_region(screen, input_col, input_row,
                                                 Len(currentInput))
                IN Shows(insert(cleared, input_col, input_row, s))

cmd_up == /\ input_read_index > 0
          /\ input_read_index' = input_read_index - 1
          /\ Recall(saved_inputs[input_read_index'])
          /\ UNCHANGED <<saved_inputs, input_write_index, saved_inputs_num, entered>>

cmd_down ==
  \/ /\ input_read_index < saved_inputs_num
     /\ input_read_index' = input_read_index + 1
     /\ Recall(saved_inputs[input_read_index'])
     /\ UNCHANGED <<saved_inputs, input_write_index, saved_inputs_num, entered>>
  \/ /\ input_read_index = saved_inputs_num
     /\ Recall(<<>>)
     /\ UNCHANGED <<saved_inputs, indices, entered>>

\* kterminal_handle_input for one event.
TerminalNext == (\E c \in Letter : Type(c)) \/ Backspace \/ Enter \/ cmd_up \/ cmd_down

TerminalSpec == TerminalInit /\ [][TerminalNext]_terminalVars
-----------------------------------------------------------------------------
Line == LET chars == Letter \cup UNION {Range(s) : s \in Unwritten}
        IN UNION {[1..n -> chars] : n \in 0..INPUT_MAX_SIZE}

(***************************************************************************)
(* cmd_up and cmd_down stay inside what was saved, whatever the order of   *)
(* keys and saves, the counter follows the write index, and the cursor is  *)
(* on the screen: backspace takes one from row_num without a look at it.   *)
(***************************************************************************)
TerminalTypeOK ==
  /\ currentInput \in Line
  /\ saved_inputs \in [Place -> Line]
  /\ input_write_index \in Place
  /\ saved_inputs_num = input_write_index
  /\ input_read_index \in 0..saved_inputs_num
  /\ entered \in Seq(Line)
  /\ Cursor(screen) \in Cell /\ <<input_row, input_col>> \in Cell

(***************************************************************************)
(* The newest inputs are held, in their order.  Until save_cmd moves the   *)
(* inputs up they are all there; from then on the last place has the       *)
(* newest one and the places before it those saved since the first move.   *)
(* (That move takes up the last place unwritten, a gap that lies under     *)
(* them until it is moved out.)                                            *)
(***************************************************************************)
NewestInputsAreHeld ==
  TerminalTypeOK /\
  LET n == Len(entered)
      last == INPUTS_TO_SAVE - 1
  IN  IF n <= last
      THEN \A i \in 1..n : saved_inputs[i - 1] = entered[i]
      ELSE \A k \in 0..last : k < n - last => saved_inputs[last - k] = entered[n - k]

(***************************************************************************)
(* No key but enter changes what stands before the input: the prompt and   *)
(* the output above it only move up with the rest, though input_row stays  *)
(* (clear_text_region, insert, backspace).                                 *)
(***************************************************************************)
OutputIsKept ==
  \A p \in Cell : Offset(p) < Offset(Cursor(prompted)) /\ p[1] >= screen.up =>
    screen.cells[<<p[1] - screen.up, p[2]>>] = prompted.cells[p]

\* The screen s with nothing from the cursor on.
Clean(s) == [s EXCEPT !.cells = [p \in Cell |-> IF Offset(p) < Offset(Cursor(s)) THEN @[p]
                                                                             ELSE {}]]

(***************************************************************************)
(* While the cursor has not left the row of the prompt, it is where it     *)
(* were if the input had just been printed there, whatever was typed,      *)
(* deleted and recalled before, and every cell shows the input on top of   *)
(* nothing or of what stood there at the prompt.  (Something may: a recall *)
(* counts the columns that a line leaves out and so keeps the end of an    *)
(* input of three rows, which then lies under the prompts below.)          *)
(***************************************************************************)
InputIsShown ==
  ~wrapped =>
    LET shown == kputs(prompted, currentInput)
        clean == kputs(Clean(prompted), currentInput)
    IN  /\ Cursor(screen) = Cursor(shown) /\ screen.up = 0
        /\ \A p \in Cell : screen.cells[p] \in {shown.cells[p], clean.cells[p]}
==============================================================================
