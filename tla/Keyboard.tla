------------------------------ MODULE Keyboard ------------------------------
(***************************************************************************)
(* The keyboard driver (keyboard.c) with the cursor it shares with the     *)
(* output of processes, the keyboard cases of interrupt.c and system calls *)
(* 4, 5 and 7.                                                             *)
(*                                                                         *)
(* Processes run with interrupts disabled.  Interrupts are enabled inside  *)
(* system call 4 only, from its sti to its return, and disabled inside the *)
(* interrupt handler.  Scancodes arrive at the keyboard controller at any  *)
(* time, between the handler's two reads of the data port too.             *)
(***************************************************************************)
EXTENDS Integers, Sequences, FiniteSets

CONSTANTS
  KEYBOARD_BUFFER_SIZE,  \* 256
  COUNT,                 \* how many bytes the process asks for (26)
  LAST_COL, LAST_ROW,    \* 79 and 24
  BYTE,                  \* the cursor's variables are uint8_t (256)
  QUEUE,                 \* scancodes the controller keeps
  Codes,                 \* the scancodes that arrive, a subset of AllCodes
  Texts                  \* what processes print: "n" is a newline, "c" any
                         \* other character

\* A letter and a digit stand for the keys that have a shifted character and
\* for those that have none; release for the codes no table has an entry for.
AllCodes == {"letter", "digit", "enter", "backspace", "tab",
             "shift", "shift_release", "capslock", "release"}
None  == "none"                   \* 0 in the tables
NUL   == ""                       \* '\0' in the buffer
Chars == {"a", "A", "1", "!"}

ASSUME KeyboardAssumption ==
  /\ KEYBOARD_BUFFER_SIZE \in Nat \ {0} /\ COUNT \in Nat /\ QUEUE \in Nat \ {0}
  /\ LAST_COL \in Nat /\ LAST_ROW \in Nat /\ LAST_ROW + 1 < BYTE /\ LAST_COL + 1 < BYTE
  /\ BYTE \in Nat
  /\ Codes \subseteq AllCodes
  /\ \A t \in Texts : t \in Seq({"n", "c"}) /\ Len(t) \in 1 .. BYTE - 1

VARIABLES
  queue, last, irq,      \* keyboard controller: scancodes to read; with none
                         \* there, the last one read; interrupt requested
  inservice,             \* the interrupt controller waits for pic_ack
  is_shift, is_capslock,
  keyboard_input_on, buffer_index, keyboard_buffer,
  cursor_row, cursor_col, cursor_col_threshold,
  pc,      \* user, or in system call 4: wait, copy; wild: outside the buffer
  isr,     \* the handler is before its second read of the port
  got      \* the line the process got last

ports   == <<queue, last, irq>>
locks   == <<is_shift, is_capslock>>
input   == <<keyboard_input_on, buffer_index, keyboard_buffer>>
cursor  == <<cursor_row, cursor_col, cursor_col_threshold>>
control == <<pc, isr, got>>
vars    == <<ports, inservice, locks, input, cursor, control>>

Places == {"user", "wait", "copy", "wild"}
Index  == 0 .. KEYBOARD_BUFFER_SIZE - 1

Init ==
  /\ queue = <<>> /\ last = None /\ irq = FALSE /\ inservice = FALSE
  /\ is_shift = FALSE /\ is_capslock = FALSE
  /\ keyboard_input_on = FALSE /\ buffer_index = 0
  /\ keyboard_buffer = [i \in Index |-> NUL]
  /\ cursor_row = 0 /\ cursor_col = 0 /\ cursor_col_threshold = 0
  /\ pc = "user" /\ isr = FALSE /\ got = <<>>

-----------------------------------------------------------------------------
(* The controllers *)

Arrive(k) ==
  /\ Len(queue) < QUEUE
  /\ queue' = Append(queue, k) /\ last' = None
  /\ irq' = (irq \/ queue = <<>>)
  /\ UNCHANGED <<inservice, locks, input, cursor, control>>

\* in(KEYBOARD_DATA_PORT): the next scancode; with none there, the last one
\* again.  The controller requests an interrupt for the one behind it.
Port == IF queue = <<>> THEN last ELSE Head(queue)
TakeCode ==
  /\ last' = IF Len(queue) > 1 THEN None ELSE Port
  /\ queue' = IF queue = <<>> THEN queue ELSE Tail(queue)
In == TakeCode /\ irq' = (Len(queue) > 1)

\* The handler's second read may take the scancode of a request that is
\* pending by then; whether this withdraws the request is up to the controller.
InAgain ==
  TakeCode /\ irq' \in (IF Len(queue) > 1 THEN {TRUE} ELSE {FALSE, irq})

pic_ack == inservice' = FALSE

-----------------------------------------------------------------------------
(* keyboard_isr *)

Interrupted == pc \in {"wait", "copy"} /\ irq /\ ~inservice /\ ~isr

\* Mutant: the release of shift returns without an acknowledgement.
IsrShiftReleaseUnacked ==
  /\ Interrupted /\ Port = "shift_release"
  /\ In /\ inservice' = TRUE /\ is_shift' = FALSE
  /\ UNCHANGED <<is_capslock, input, cursor, control>>
IsrShiftRelease ==
  /\ Interrupted /\ Port = "shift_release"
  /\ In /\ pic_ack /\ is_shift' = FALSE
  /\ UNCHANGED <<is_capslock, input, cursor, control>>
IsrShift ==
  /\ Interrupted /\ Port = "shift"
  /\ In /\ pic_ack /\ is_shift' = TRUE
  /\ UNCHANGED <<is_capslock, input, cursor, control>>
IsrCapslock ==
  /\ Interrupted /\ Port = "capslock"
  /\ In /\ pic_ack /\ is_capslock' = ~is_capslock
  /\ UNCHANGED <<is_shift, input, cursor, control>>

OtherKey == Interrupted /\ Port \notin {"shift", "shift_release", "capslock"}

\* Nobody waits for a line.
IsrOff ==
  /\ OtherKey /\ ~keyboard_input_on
  /\ In /\ pic_ack /\ buffer_index' = 0
  /\ UNCHANGED <<locks, keyboard_input_on, keyboard_buffer, cursor, control>>

IsrOn ==
  /\ OtherKey /\ keyboard_input_on
  /\ In /\ inservice' = TRUE
  /\ isr' = TRUE
  /\ UNCHANGED <<locks, input, cursor, pc, got>>

\* get_scancode_to_ascii_map()[scancode]: letters have no shifted character.
Ascii(k) ==
  CASE k = "letter" -> IF is_shift THEN None ELSE IF is_capslock THEN "A" ELSE "a"
    [] k = "digit"  -> IF is_shift THEN "!" ELSE "1"
    [] k \in {"enter", "backspace", "tab"} -> k
    [] OTHER -> None

\* The cursor after a character or a blank: behind the last column it goes to
\* the next row first.
Advance(rc) ==
  IF rc[2] > LAST_COL THEN <<(rc[1] + 1) % BYTE, 1>> ELSE <<rc[1], rc[2] + 1>>
Here == <<cursor_row, cursor_col>>
MoveTo(rc) ==
  cursor_row' = rc[1] /\ cursor_col' = rc[2] /\ UNCHANGED cursor_col_threshold

\* The second read of the port starts all of these, an acknowledgement ends
\* them.
IsrEnds ==
  /\ isr /\ InAgain /\ pic_ack
  /\ isr' = FALSE /\ UNCHANGED <<locks, got>>

Wild == pc' = "wild" /\ UNCHANGED <<input, cursor>>

IsrNothing ==
  IsrEnds /\ Ascii(Port) = None /\ UNCHANGED <<input, cursor, pc>>

\* Mutant: the index is not reset.
IsrEnterIndexKept ==
  /\ IsrEnds /\ Ascii(Port) = "enter"
  /\ IF buffer_index \notin Index THEN Wild
     ELSE /\ MoveTo(IF cursor_row <= LAST_ROW THEN <<cursor_row + 1, 0>> ELSE Here)
          /\ keyboard_buffer' = [keyboard_buffer EXCEPT ![buffer_index] = NUL]
          /\ keyboard_input_on' = FALSE
          /\ UNCHANGED <<buffer_index, pc>>
\* The line is ended and keyboard_state_deactivate called.
IsrEnter ==
  /\ IsrEnds /\ Ascii(Port) = "enter"
  /\ IF buffer_index \notin Index THEN Wild
     ELSE /\ MoveTo(IF cursor_row <= LAST_ROW THEN <<cursor_row + 1, 0>> ELSE Here)
          /\ keyboard_buffer' = [keyboard_buffer EXCEPT ![buffer_index] = NUL]
          /\ buffer_index' = 0
          /\ keyboard_input_on' = FALSE
          /\ UNCHANGED pc

\* Mutant: the index is decremented at 0 too.
IsrBackspaceBelowZero ==
  /\ IsrEnds /\ Ascii(Port) = "backspace"
  /\ cursor_col > cursor_col_threshold
  /\ MoveTo(<<cursor_row, cursor_col - 1>>)
  /\ buffer_index' = buffer_index - 1
  /\ UNCHANGED <<keyboard_input_on, keyboard_buffer, pc>>
\* Right of the prompt a character is erased.  Elsewhere the cursor may go
\* to the row above, by a comparison of the row with the prompt's column, and
\* nothing is erased.
IsrBackspace ==
  /\ IsrEnds /\ Ascii(Port) = "backspace"
  /\ \/ /\ cursor_col > cursor_col_threshold
        /\ MoveTo(<<cursor_row, cursor_col - 1>>)
        /\ buffer_index' = IF buffer_index > 0 THEN buffer_index - 1 ELSE 0
     \/ /\ cursor_col <= cursor_col_threshold
        /\ MoveTo(IF cursor_row > cursor_col_threshold
                  THEN <<cursor_row - 1, LAST_COL>> ELSE Here)
        /\ UNCHANGED buffer_index
  /\ UNCHANGED <<keyboard_input_on, keyboard_buffer, pc>>

\* Four blanks on the screen, none in the buffer.
IsrTab ==
  /\ IsrEnds /\ Ascii(Port) = "tab"
  /\ MoveTo(Advance(Advance(Advance(Advance(Here)))))
  /\ UNCHANGED <<input, pc>>

IsrCharacter ==
  /\ IsrEnds /\ Ascii(Port) \in Chars
  /\ IF buffer_index \notin Index THEN Wild
     ELSE /\ MoveTo(Advance(Here))
          /\ keyboard_buffer' = [keyboard_buffer EXCEPT ![buffer_index] = Ascii(Port)]
          /\ buffer_index' = buffer_index + 1
          /\ UNCHANGED <<keyboard_input_on, pc>>

keyboard_isr ==
  \/ IsrShift \/ IsrShiftRelease \/ IsrCapslock \/ IsrOff \/ IsrOn
  \/ IsrNothing \/ IsrEnter \/ IsrBackspace \/ IsrTab \/ IsrCharacter

-----------------------------------------------------------------------------
(* System calls *)

\* System call 4: keyboard_state_activate and sti.
WaitForLine ==
  /\ pc = "user" /\ pc' = "wait"
  /\ keyboard_input_on' = TRUE
  /\ UNCHANGED <<ports, inservice, locks, buffer_index, keyboard_buffer, cursor,
                 isr, got>>

\* is_keyboard_blocking returns false.
LeaveLoop ==
  /\ pc = "wait" /\ ~isr /\ ~keyboard_input_on /\ pc' = "copy"
  /\ UNCHANGED <<ports, inservice, locks, input, cursor, isr, got>>

\* get_keyboard_buffer and the copy to the process, which reads up to '\0'.
LineOf(b, n) == [i \in 1 .. n |-> b[i - 1]]
TextLength(b) ==
  IF \A i \in Index : b[i] # NUL THEN KEYBOARD_BUFFER_SIZE
  ELSE CHOOSE i \in Index : b[i] = NUL /\ \A j \in 0 .. i - 1 : b[j] # NUL
CopyLine ==
  /\ pc = "copy" /\ ~isr /\ pc' = "user"
  /\ LET n == TextLength(keyboard_buffer)
     IN  got' = LineOf(keyboard_buffer, IF n < COUNT THEN n ELSE COUNT)
  /\ UNCHANGED <<ports, inservice, locks, input, cursor, isr>>

\* System call 5.  The column counts from where the text began, also behind a
\* newline in it.
NewLines(t) == Cardinality({i \in 1 .. Len(t) : t[i] = "n"})
EndColumn(t) ==
  IF t[Len(t)] = "n" THEN 0
  ELSE ((IF NewLines(t) > 0 THEN 0 ELSE cursor_col) + Len(t)) % BYTE
puts_char(t) ==
  /\ pc = "user"
  /\ cursor_row' = (cursor_row + NewLines(t)) % BYTE
  /\ cursor_col' = EndColumn(t)
  /\ cursor_col_threshold' = EndColumn(t)
  /\ UNCHANGED <<ports, inservice, locks, input, control>>

\* System call 7: framebuffer_clear and reset_keyboard_position.
ClearScreen ==
  /\ pc = "user"
  /\ cursor_row' = 0 /\ cursor_col' = 0
  /\ UNCHANGED <<ports, inservice, locks, input, cursor_col_threshold, control>>

\* Behind the end of the buffer anything may happen: nothing is said of it.
Undefined == pc = "wild" /\ UNCHANGED vars

Next ==
  \/ \E k \in Codes : Arrive(k)
  \/ keyboard_isr
  \/ WaitForLine \/ LeaveLoop \/ CopyLine
  \/ \E t \in Texts : puts_char(t)
  \/ ClearScreen
  \/ Undefined

Spec == Init /\ [][Next]_vars

-----------------------------------------------------------------------------
(* Properties *)

\* The values the variables take.
TypeOK ==
  /\ queue \in Seq(Codes) /\ Len(queue) <= QUEUE
  /\ irq \in BOOLEAN /\ inservice \in BOOLEAN /\ isr \in BOOLEAN
  /\ is_shift \in BOOLEAN /\ is_capslock \in BOOLEAN /\ keyboard_input_on \in BOOLEAN
  /\ buffer_index \in 0 .. KEYBOARD_BUFFER_SIZE
  /\ keyboard_buffer \in [Index -> Chars \union {NUL}]
  /\ cursor_row \in 0 .. BYTE - 1 /\ cursor_col \in 0 .. BYTE - 1
  /\ cursor_col_threshold \in 0 .. BYTE - 1
  /\ pc \in Places

\* Every path through the handler acknowledges its interrupt and leaves no
\* scancode behind without a request: the keyboard never falls silent.
KeyboardNeverStalls ==
  ~isr => ~inservice /\ (queue # <<>> => irq)

Phase ==
  IF pc = "user" THEN "off" ELSE IF keyboard_input_on THEN "typing" ELSE "ready"
TypedLine ==
  IF Phase = "off" THEN <<>>
  ELSE LineOf(keyboard_buffer,
              IF Phase = "typing" THEN buffer_index ELSE TextLength(keyboard_buffer))

Lines == INSTANCE LineInput WITH phase <- Phase, line <- TypedLine

\* The driver implements LineInput: whatever keys arrive, during the two
\* reads, between newline and copy, and while the process does not wait, a
\* process gets a line that was typed during its own call, in order.
DeliversLines == Lines!LineSpec

\* "process keyboard scancode if keyboard_input_on": the handler forgets what
\* its first read returned and reads again, which returns the same scancode
\* only while no other one waits at the port.
ScancodesProcessed == isr => queue = <<>>
=============================================================================
