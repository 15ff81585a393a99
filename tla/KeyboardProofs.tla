--------------------------- MODULE KeyboardProofs ---------------------------
(***************************************************************************)
(* Proofs about the keyboard driver, for every buffer, screen and text:    *)
(* the handler never leaves the keyboard without an interrupt to come, and *)
(* the driver implements LineInput.                                        *)
(***************************************************************************)
EXTENDS Keyboard, TLAPS, FiniteSetTheorems, SequenceTheorems

LEMMA NewLinesType ==
  ASSUME NEW t \in Texts PROVE NewLines(t) \in Nat
<1>1. t \in Seq({"n", "c"})
  BY KeyboardAssumption
<1>2. Len(t) \in Nat
  BY <1>1, LenProperties
<1>3. IsFiniteSet(1 .. Len(t))
  BY <1>2, FS_Interval
<1>4. {i \in 1 .. Len(t) : t[i] = "n"} \in SUBSET (1 .. Len(t))
  OBVIOUS
<1>5. IsFiniteSet({i \in 1 .. Len(t) : t[i] = "n"})
  BY <1>3, <1>4, FS_Subset
<1> QED
  BY <1>5, FS_CardinalityType DEF NewLines

\* The cursor stays in a byte, whatever moves it.
LEMMA AdvanceType ==
  ASSUME NEW rc \in (0 .. BYTE - 1) \X (0 .. BYTE - 1)
  PROVE  Advance(rc) \in (0 .. BYTE - 1) \X (0 .. BYTE - 1)
  BY KeyboardAssumption DEF Advance

LEMMA EndColumnType ==
  ASSUME TypeOK, NEW t \in Texts PROVE EndColumn(t) \in 0 .. BYTE - 1
<1>1. NewLines(t) \in Nat /\ Len(t) \in Nat
  BY NewLinesType, KeyboardAssumption, LenProperties
<1>2. BYTE \in Nat /\ BYTE > 1 /\ cursor_col \in Nat
  BY KeyboardAssumption DEF TypeOK
<1>3. \A n \in Nat : (n % BYTE) \in 0 .. BYTE - 1
  BY <1>2
<1>5. 0 \in 0 .. BYTE - 1
  BY <1>2
<1>4. ((IF NewLines(t) > 0 THEN 0 ELSE cursor_col) + Len(t)) \in Nat
  BY <1>1, <1>2
<1> QED
  BY <1>3, <1>4, <1>5 DEF EndColumn

-----------------------------------------------------------------------------
(* Taking a scancode *)

LEMMA TakeCodeQueue ==
  ASSUME queue \in Seq(Codes), Len(queue) <= QUEUE, TakeCode
  PROVE  /\ queue' \in Seq(Codes) /\ Len(queue') <= QUEUE
         /\ queue' # <<>> => Len(queue) > 1
<1>1. CASE queue = <<>>
  BY <1>1 DEF TakeCode
<1>2. CASE queue # <<>>
  <2>1. queue' = Tail(queue)
    BY <1>2 DEF TakeCode
  <2>2. Tail(queue) \in Seq(Codes) /\ Len(Tail(queue)) = Len(queue) - 1
    BY <1>2, HeadTailProperties
  <2>3. Len(queue) \in Nat /\ QUEUE \in Nat /\ Len(Tail(queue)) \in Nat
    BY <2>2, LenProperties, KeyboardAssumption
  <2>4. Tail(queue) # <<>> => Len(Tail(queue)) # 0
    BY <2>2, EmptySeq
  <2> QED
    BY <2>1, <2>2, <2>3, <2>4
<1> QED
  BY <1>1, <1>2

LEMMA InType ==
  ASSUME TypeOK, In \/ InAgain
  PROVE  /\ queue' \in Seq(Codes) /\ Len(queue') <= QUEUE /\ irq' \in BOOLEAN
         /\ queue' # <<>> => irq'
<1>1. TakeCode /\ queue \in Seq(Codes) /\ Len(queue) <= QUEUE /\ irq \in BOOLEAN
  BY DEF TypeOK, In, InAgain
<1>2. /\ queue' \in Seq(Codes) /\ Len(queue') <= QUEUE
      /\ queue' # <<>> => Len(queue) > 1
  BY <1>1, TakeCodeQueue
<1>3. irq' \in BOOLEAN /\ (Len(queue) > 1 => irq')
  <2>1. CASE In
    <3>1. irq' = (Len(queue) > 1)
      BY <2>1 DEF In
    <3>2. CASE Len(queue) > 1
      BY <3>1, <3>2
    <3>3. CASE ~(Len(queue) > 1)
      BY <3>1, <3>3
    <3> QED
      BY <3>2, <3>3
  <2>2. CASE InAgain
    BY <1>1, <2>2 DEF InAgain
  <2> QED
    BY <2>1, <2>2
<1> QED
  BY <1>2, <1>3

-----------------------------------------------------------------------------
(* Type correctness and the interrupt to come *)

Inv == TypeOK /\ KeyboardNeverStalls

LEMMA InitInv == Init => Inv
<1> SUFFICES ASSUME Init PROVE Inv
  OBVIOUS
<1>1. queue \in Seq(Codes) /\ Len(queue) <= QUEUE
  BY KeyboardAssumption, EmptySeq DEF Init
<1>2. buffer_index \in 0 .. KEYBOARD_BUFFER_SIZE /\ 0 \in 0 .. BYTE - 1
  BY KeyboardAssumption DEF Init
<1> QED
  BY <1>1, <1>2 DEF Init, Inv, TypeOK, KeyboardNeverStalls, Places

\* Every step keeps both: the arrivals, each case of the handler, the system
\* calls.
LEMMA NextInv == Inv /\ [Next]_vars => Inv'
<1> SUFFICES ASSUME Inv, [Next]_vars PROVE Inv'
  OBVIOUS
<1> USE DEF ports, locks, input, cursor, control
<1>0. TypeOK /\ KeyboardNeverStalls
  BY DEF Inv
<1>b. BYTE \in Nat /\ LAST_ROW \in Nat /\ LAST_COL \in Nat /\ LAST_ROW + 1 < BYTE
      /\ LAST_COL + 1 < BYTE /\ KEYBOARD_BUFFER_SIZE \in Nat \ {0}
  BY KeyboardAssumption
<1>h. Here \in (0 .. BYTE - 1) \X (0 .. BYTE - 1)
  BY <1>0 DEF TypeOK, Here
<1>a. \A rc \in (0 .. BYTE - 1) \X (0 .. BYTE - 1) :
        Advance(rc) \in (0 .. BYTE - 1) \X (0 .. BYTE - 1)
  BY AdvanceType
<1>m. \A rc \in (0 .. BYTE - 1) \X (0 .. BYTE - 1) : MoveTo(rc) =>
        /\ cursor_row' \in 0 .. BYTE - 1 /\ cursor_col' \in 0 .. BYTE - 1
        /\ cursor_col_threshold' \in 0 .. BYTE - 1
  BY <1>0 DEF TypeOK, MoveTo
<1>1. ASSUME NEW k \in Codes, Arrive(k) PROVE Inv'
  <2>1. queue' \in Seq(Codes) /\ Len(queue') = Len(queue) + 1
    BY <1>0, <1>1, AppendProperties DEF Arrive, TypeOK
  <2>2. Len(queue) \in Nat /\ QUEUE \in Nat
    BY <1>0, LenProperties, KeyboardAssumption DEF TypeOK
  <2>3. irq' = (irq \/ queue = <<>>) /\ UNCHANGED <<inservice, locks, input, cursor, control>>
    BY <1>1 DEF Arrive
  <2>4. irq' \in BOOLEAN
    BY <2>3, Zenon
  <2>5. KeyboardNeverStalls'
    <3>1. irq \/ queue = <<>> \/ isr
      BY <1>0 DEF KeyboardNeverStalls
    <3>2. irq' \/ isr
      BY <2>3, <3>1, Zenon
    <3> QED
      BY <1>0, <2>3, <3>2 DEF KeyboardNeverStalls
  <2>6. TypeOK'
    BY <1>0, <1>1, <2>1, <2>2, <2>3, <2>4 DEF Arrive, TypeOK
  <2> QED
    BY <2>5, <2>6 DEF Inv
<1>2. CASE IsrShiftRelease
  BY <1>0, <1>2, InType
     DEF IsrShiftRelease, pic_ack, Inv, TypeOK, KeyboardNeverStalls
<1>3. CASE IsrShift
  BY <1>0, <1>3, InType DEF IsrShift, pic_ack, Inv, TypeOK, KeyboardNeverStalls
<1>4. CASE IsrCapslock
  BY <1>0, <1>4, InType DEF IsrCapslock, pic_ack, Inv, TypeOK, KeyboardNeverStalls
<1>5. CASE IsrOff
  <2>1. /\ In /\ inservice' = FALSE /\ buffer_index' = 0
        /\ UNCHANGED <<locks, keyboard_input_on, keyboard_buffer, cursor, control>>
    BY <1>5 DEF IsrOff, pic_ack
  <2>2. /\ queue' \in Seq(Codes) /\ Len(queue') <= QUEUE /\ irq' \in BOOLEAN
        /\ queue' # <<>> => irq'
    BY <1>0, <2>1, InType
  <2>3. buffer_index' \in 0 .. KEYBOARD_BUFFER_SIZE
    BY <1>b, <2>1
  <2> QED
    BY <1>0, <2>1, <2>2, <2>3 DEF Inv, TypeOK, KeyboardNeverStalls
<1>6. CASE IsrOn
  BY <1>0, <1>6, InType DEF IsrOn, Inv, TypeOK, KeyboardNeverStalls
<1>7. CASE IsrEnds /\ (IsrNothing \/ IsrEnter \/ IsrBackspace \/ IsrTab \/ IsrCharacter)
  <2>1. /\ queue' \in Seq(Codes) /\ Len(queue') <= QUEUE /\ irq' \in BOOLEAN
        /\ queue' # <<>> => irq'
        /\ inservice' = FALSE /\ isr' = FALSE /\ UNCHANGED locks
    BY <1>0, <1>7, InType DEF IsrEnds, pic_ack
  <2> DEFINE Rest == /\ keyboard_input_on' \in BOOLEAN
                     /\ buffer_index' \in 0 .. KEYBOARD_BUFFER_SIZE
                     /\ keyboard_buffer' \in [Index -> Chars \union {NUL}]
                     /\ cursor_row' \in 0 .. BYTE - 1 /\ cursor_col' \in 0 .. BYTE - 1
                     /\ cursor_col_threshold' \in 0 .. BYTE - 1
                     /\ pc' \in Places
  <2>2. ASSUME IsrNothing \/ UNCHANGED <<input, cursor, pc>> PROVE Rest
    BY <1>0, <2>2 DEF IsrNothing, TypeOK
  <2>3. ASSUME Wild PROVE Rest
    BY <1>0, <2>3 DEF Wild, TypeOK, Places
  <2>4. ASSUME IsrEnter /\ ~Wild PROVE Rest
    <3> DEFINE rc == IF cursor_row <= LAST_ROW THEN <<cursor_row + 1, 0>> ELSE Here
    <3>1. rc \in (0 .. BYTE - 1) \X (0 .. BYTE - 1)
      BY <1>0, <1>b, <1>h DEF TypeOK
    <3>2. MoveTo(rc) /\ buffer_index \in Index
      BY <2>4 DEF IsrEnter
    <3> HIDE DEF rc
    <3>3. /\ cursor_row' \in 0 .. BYTE - 1 /\ cursor_col' \in 0 .. BYTE - 1
          /\ cursor_col_threshold' \in 0 .. BYTE - 1
      BY <1>m, <3>1, <3>2
    <3> QED
      <4>1. /\ keyboard_buffer' = [keyboard_buffer EXCEPT ![buffer_index] = NUL]
            /\ buffer_index' = 0 /\ keyboard_input_on' = FALSE /\ UNCHANGED pc
        BY <2>4, <3>2 DEF IsrEnter
      <4>2. keyboard_buffer' \in [Index -> Chars \union {NUL}]
        BY <1>0, <4>1 DEF TypeOK
      <4>3. buffer_index' \in 0 .. KEYBOARD_BUFFER_SIZE
        BY <1>b, <4>1
      <4> QED
        BY <1>0, <3>3, <4>1, <4>2, <4>3 DEF TypeOK
  <2>5. ASSUME IsrBackspace PROVE Rest
    <3>1. CASE cursor_col > cursor_col_threshold
      <4>1. <<cursor_row, cursor_col - 1>> \in (0 .. BYTE - 1) \X (0 .. BYTE - 1)
        BY <1>0, <1>b, <3>1 DEF TypeOK
      <4>2. MoveTo(<<cursor_row, cursor_col - 1>>)
            /\ buffer_index' = IF buffer_index > 0 THEN buffer_index - 1 ELSE 0
        BY <1>0, <2>5, <3>1 DEF IsrBackspace, TypeOK
      <4>3. /\ cursor_row' \in 0 .. BYTE - 1 /\ cursor_col' \in 0 .. BYTE - 1
            /\ cursor_col_threshold' \in 0 .. BYTE - 1
        BY <1>m, <4>1, <4>2
      <4> QED
        BY <1>0, <1>b, <2>5, <4>2, <4>3 DEF IsrBackspace, TypeOK
    <3>2. CASE ~(cursor_col > cursor_col_threshold)
      <4> DEFINE rc == IF cursor_row > cursor_col_threshold
                       THEN <<cursor_row - 1, LAST_COL>> ELSE Here
      <4>1. rc \in (0 .. BYTE - 1) \X (0 .. BYTE - 1)
        BY <1>0, <1>b, <1>h DEF TypeOK
      <4>2. MoveTo(rc) /\ UNCHANGED buffer_index
        BY <1>0, <2>5, <3>2 DEF IsrBackspace, TypeOK
      <4> HIDE DEF rc
      <4>3. /\ cursor_row' \in 0 .. BYTE - 1 /\ cursor_col' \in 0 .. BYTE - 1
            /\ cursor_col_threshold' \in 0 .. BYTE - 1
        BY <1>m, <4>1, <4>2
      <4> QED
        BY <1>0, <1>b, <2>5, <4>2, <4>3 DEF IsrBackspace, TypeOK
    <3> QED
      BY <3>1, <3>2
  <2>6. ASSUME IsrTab PROVE Rest
    <3> DEFINE rc == Advance(Advance(Advance(Advance(Here))))
    <3>1. rc \in (0 .. BYTE - 1) \X (0 .. BYTE - 1)
      BY <1>a, <1>h
    <3>2. MoveTo(rc) /\ UNCHANGED <<input, pc>>
      BY <2>6 DEF IsrTab
    <3> HIDE DEF rc
    <3>3. /\ cursor_row' \in 0 .. BYTE - 1 /\ cursor_col' \in 0 .. BYTE - 1
          /\ cursor_col_threshold' \in 0 .. BYTE - 1
      BY <1>m, <3>1, <3>2
    <3> QED
      BY <1>0, <3>2, <3>3 DEF TypeOK
  <2>7. ASSUME IsrCharacter /\ ~Wild PROVE Rest
    <3>1. /\ buffer_index \in Index /\ MoveTo(Advance(Here)) /\ Ascii(Port) \in Chars
          /\ keyboard_buffer' = [keyboard_buffer EXCEPT ![buffer_index] = Ascii(Port)]
          /\ buffer_index' = buffer_index + 1
          /\ UNCHANGED <<keyboard_input_on, pc>>
      BY <2>7 DEF IsrCharacter
    <3>2. /\ cursor_row' \in 0 .. BYTE - 1 /\ cursor_col' \in 0 .. BYTE - 1
          /\ cursor_col_threshold' \in 0 .. BYTE - 1
      BY <1>a, <1>h, <1>m, <3>1
    <3>3. buffer_index' \in 0 .. KEYBOARD_BUFFER_SIZE
      BY <1>b, <3>1 DEF Index
    <3>4. keyboard_buffer' \in [Index -> Chars \union {NUL}]
      BY <1>0, <3>1 DEF TypeOK
    <3> QED
      BY <1>0, <3>1, <3>2, <3>3, <3>4 DEF TypeOK
  <2>8. Rest
    BY <1>7, <2>2, <2>3, <2>4, <2>5, <2>6, <2>7
  <2> QED
    BY <1>0, <2>1, <2>8 DEF Inv, TypeOK, KeyboardNeverStalls
<1>8. CASE WaitForLine
  BY <1>0, <1>8 DEF WaitForLine, Inv, TypeOK, KeyboardNeverStalls, Places
<1>9. CASE LeaveLoop
  BY <1>0, <1>9 DEF LeaveLoop, Inv, TypeOK, KeyboardNeverStalls, Places
<1>10. CASE CopyLine
  BY <1>0, <1>10 DEF CopyLine, Inv, TypeOK, KeyboardNeverStalls, Places
<1>11. ASSUME NEW t \in Texts, puts_char(t) PROVE Inv'
  <2>1. EndColumn(t) \in 0 .. BYTE - 1 /\ NewLines(t) \in Nat
    BY <1>0, EndColumnType, NewLinesType
  <2>2. cursor_row + NewLines(t) \in Nat
    BY <1>0, <1>b, <2>1 DEF TypeOK
  <2>3. cursor_row' \in 0 .. BYTE - 1
    BY <1>b, <1>11, <2>2 DEF puts_char
  <2> QED
    BY <1>0, <1>11, <2>1, <2>3 DEF puts_char, Inv, TypeOK, KeyboardNeverStalls
<1>12. CASE ClearScreen
  BY <1>0, <1>12, <1>b DEF ClearScreen, Inv, TypeOK, KeyboardNeverStalls
<1>13. CASE Undefined \/ UNCHANGED vars
  BY <1>0, <1>13 DEF Undefined, vars, Inv, TypeOK, KeyboardNeverStalls
<1> QED
  BY <1>1, <1>2, <1>3, <1>4, <1>5, <1>6, <1>7, <1>8, <1>9, <1>10, <1>11, <1>12, <1>13
     DEF Next, keyboard_isr, IsrNothing, IsrEnter, IsrBackspace, IsrTab, IsrCharacter

LEMMA Invariance == Spec => []Inv
<1> QED
  BY InitInv, NextInv, PTL DEF Spec

\* The cursor stays in its bytes and the index of the next character inside
\* the buffer or one behind it, whatever keys arrive and texts are printed.
THEOREM TypeCorrect == Spec => []TypeOK
<1>1. Inv => TypeOK
  BY DEF Inv
<1> QED
  BY <1>1, Invariance, PTL

\* After every path through keyboard_isr the interrupt is acknowledged, and a
\* scancode that waits at the port has its request: no key that arrives
\* between the handler's two reads is left behind for good.
THEOREM NeverStalls == Spec => []KeyboardNeverStalls
<1>1. Inv => KeyboardNeverStalls
  BY DEF Inv
<1> QED
  BY <1>1, Invariance, PTL

-----------------------------------------------------------------------------
(* Lines *)

Buffers == [Index -> Chars \union {NUL}]
Size == KEYBOARD_BUFFER_SIZE

LEMMA LineType ==
  ASSUME NEW b \in Buffers, NEW n \in 0 .. Size
  PROVE  /\ LineOf(b, n) \in Seq(Chars \union {NUL}) /\ Len(LineOf(b, n)) = n
         /\ \A i \in 1 .. n : LineOf(b, n)[i] = b[i - 1]
<1>1. n \in Nat /\ \A i \in 1 .. n : i - 1 \in Index
  BY KeyboardAssumption DEF Size, Index
<1>2. \A i \in 1 .. n : b[i - 1] \in Chars \union {NUL}
  BY <1>1 DEF Buffers
<1> QED
  BY <1>1, <1>2 DEF LineOf

\* The first m characters of a line.
LEMMA LineShorter ==
  ASSUME NEW b \in Buffers, NEW n \in 0 .. Size, NEW m \in Nat
  PROVE  Lines!Shorter(LineOf(b, n), m) = LineOf(b, IF n < m THEN n ELSE m)
<1> DEFINE k == IF n < m THEN n ELSE m
<1>1. k \in 0 .. Size /\ k <= n /\ n \in Nat /\ k \in Nat
  BY KeyboardAssumption DEF Size
<1> HIDE DEF k
<1>2. LineOf(b, n) \in Seq(Chars \union {NUL}) /\ Len(LineOf(b, n)) = n
  BY LineType
<1>3. /\ SubSeq(LineOf(b, n), 1, k) \in Seq(Chars \union {NUL})
      /\ Len(SubSeq(LineOf(b, n), 1, k)) = k
      /\ \A i \in 1 .. k : SubSeq(LineOf(b, n), 1, k)[i] = LineOf(b, n)[i]
  BY <1>1, <1>2
<1>4. /\ LineOf(b, k) \in Seq(Chars \union {NUL}) /\ Len(LineOf(b, k)) = k
      /\ \A i \in 1 .. k : LineOf(b, k)[i] = b[i - 1]
  BY <1>1, LineType
<1>5. \A i \in 1 .. n : LineOf(b, n)[i] = b[i - 1]
  BY LineType
<1>6. SubSeq(LineOf(b, n), 1, k) = LineOf(b, k)
  BY <1>1, <1>3, <1>4, <1>5, SeqEqual
<1> QED
  BY <1>2, <1>6 DEF Lines!Shorter, k

\* A character stored behind a line lengthens it, a NUL there leaves it.
LEMMA LineStored ==
  ASSUME NEW b \in Buffers, NEW n \in Index, NEW c \in Chars
  PROVE  /\ LineOf([b EXCEPT ![n] = c], n + 1) = Append(LineOf(b, n), c)
         /\ LineOf([b EXCEPT ![n] = NUL], n) = LineOf(b, n)
<1>1. n \in 0 .. Size /\ n + 1 \in 0 .. Size /\ n \in Nat
  BY KeyboardAssumption DEF Size, Index
<1>2. \A i \in 1 .. n : i - 1 \in Index /\ i - 1 # n
  BY KeyboardAssumption DEF Index
<1>3. [b EXCEPT ![n] = NUL] \in Buffers /\ [b EXCEPT ![n] = c] \in Buffers
  BY DEF Buffers
<1>4. LineOf([b EXCEPT ![n] = NUL], n) = LineOf(b, n)
  BY <1>2 DEF LineOf, Buffers
<1> DEFINE d == [b EXCEPT ![n] = c]
<1>5. \A i \in 1 .. n : d[i - 1] = b[i - 1]
  BY <1>2 DEF Buffers
<1>6. d[n] = c /\ d \in Buffers
  BY <1>3 DEF Buffers
<1> HIDE DEF d
<1>7. /\ LineOf(d, n + 1) \in Seq(Chars \union {NUL}) /\ Len(LineOf(d, n + 1)) = n + 1
      /\ \A i \in 1 .. (n + 1) : LineOf(d, n + 1)[i] = d[i - 1]
  BY <1>1, <1>6, LineType
<1>8. /\ LineOf(b, n) \in Seq(Chars \union {NUL}) /\ Len(LineOf(b, n)) = n
      /\ \A i \in 1 .. n : LineOf(b, n)[i] = b[i - 1]
  BY <1>1, LineType
<1>9. /\ Append(LineOf(b, n), c) \in Seq(Chars \union {NUL})
      /\ Len(Append(LineOf(b, n), c)) = n + 1
      /\ \A i \in 1 .. n : Append(LineOf(b, n), c)[i] = LineOf(b, n)[i]
      /\ Append(LineOf(b, n), c)[n + 1] = c
  BY <1>1, <1>8, AppendProperties
<1>10. ASSUME NEW i \in 1 .. (n + 1)
       PROVE  LineOf(d, n + 1)[i] = Append(LineOf(b, n), c)[i]
  <2>1. CASE i \in 1 .. n
    BY <1>5, <1>7, <1>8, <1>9, <2>1
  <2>2. CASE i = n + 1
    BY <1>1, <1>6, <1>7, <1>9, <2>2
  <2>3. i \in 1 .. n \/ i = n + 1
    BY <1>1
  <2> QED
    BY <2>1, <2>2, <2>3
<1>11. LineOf(d, n + 1) = Append(LineOf(b, n), c)
  BY <1>7, <1>9, <1>10, SeqEqual
<1> QED
  BY <1>4, <1>11 DEF d

\* i is where the text of b ends.
EndsAt(b, i) == i \in Index /\ b[i] = NUL /\ \A j \in 0 .. i - 1 : b[j] # NUL

LEMMA EndIsLength ==
  ASSUME NEW b, NEW i \in Index, EndsAt(b, i) PROVE TextLength(b) = i
<1> DEFINE P(k) == b[k] = NUL /\ \A j \in 0 .. k - 1 : b[j] # NUL
<1>1. TextLength(b) = CHOOSE k \in Index : P(k)
  BY DEF TextLength, EndsAt
<1>2. \E k \in Index : P(k)
  BY DEF EndsAt
<1>3. (CHOOSE k \in Index : P(k)) \in Index /\ P(CHOOSE k \in Index : P(k))
  BY <1>2
<1>4. \A k \in Index : P(k) => k = i
  BY KeyboardAssumption DEF EndsAt, Index
<1> QED
  BY <1>1, <1>3, <1>4

-----------------------------------------------------------------------------
(* The driver implements LineInput *)

\* What the handler and system call 4 leave each other: a line is being typed
\* from the call's beginning to the newline, its characters fill the buffer
\* up to the index, and the newline puts the end behind them.
LineInv ==
  /\ isr => pc = "wait" /\ keyboard_input_on
  /\ pc \in {"user", "copy"} => ~keyboard_input_on
  /\ pc = "wild" => keyboard_input_on
  /\ ~keyboard_input_on => buffer_index = 0
  /\ keyboard_input_on => \A j \in 0 .. buffer_index - 1 : keyboard_buffer[j] # NUL
  /\ pc \in {"wait", "copy"} /\ ~keyboard_input_on
       => \E i \in Index : EndsAt(keyboard_buffer, i)

LEMMA InitLineInv == Init => LineInv /\ Lines!LineInit
  BY DEF Init, LineInv, Lines!LineInit, Phase, TypedLine

Abstract == <<Phase, TypedLine, got>>

\* Every step is one of LineInput or changes nothing of it, and keeps LineInv.
LEMMA NextLine ==
  Inv /\ LineInv /\ [Next]_vars => LineInv' /\ [Lines!LineNext]_Abstract
<1> SUFFICES ASSUME Inv, LineInv, [Next]_vars
             PROVE  LineInv' /\ (Lines!LineNext \/ UNCHANGED Abstract)
  BY DEF Abstract
<1> USE DEF ports, locks, input, cursor, control
<1>0. /\ keyboard_buffer \in Buffers /\ buffer_index \in 0 .. Size
      /\ Size \in Nat \ {0} /\ COUNT \in Nat /\ pc \in Places
      /\ keyboard_input_on \in BOOLEAN
  BY KeyboardAssumption DEF Inv, TypeOK, Buffers, Size
<1>1. CASE UNCHANGED <<input, pc, got>> /\ (isr' => isr \/ (pc = "wait" /\ keyboard_input_on))
  BY <1>1 DEF LineInv, Abstract, Phase, TypedLine
<1>2. CASE IsrOff
  BY <1>2 DEF IsrOff, OtherKey, LineInv, Abstract, Phase, TypedLine
<1>3. CASE IsrEnds /\ Wild
  BY <1>0, <1>3 DEF IsrEnds, Wild, LineInv, Abstract, Phase, TypedLine
<1>4. CASE IsrEnter /\ ~Wild
  <2>1. /\ buffer_index \in Index /\ buffer_index' = 0
        /\ keyboard_buffer' = [keyboard_buffer EXCEPT ![buffer_index] = NUL]
        /\ keyboard_input_on' = FALSE /\ UNCHANGED <<pc, got>> /\ isr /\ isr' = FALSE
    BY <1>4 DEF IsrEnter, IsrEnds
  <2>2. pc = "wait" /\ keyboard_input_on
    BY <2>1 DEF LineInv
  <2>3. EndsAt(keyboard_buffer', buffer_index)
    BY <1>0, <2>1, <2>2 DEF EndsAt, LineInv, Buffers, Index
  <2>4. TextLength(keyboard_buffer') = buffer_index
    BY <2>1, <2>3, EndIsLength
  <2>5. LineOf(keyboard_buffer', buffer_index) = LineOf(keyboard_buffer, buffer_index)
    BY <1>0, <2>1, LineStored DEF Chars
  <2>6. Phase = "typing" /\ Phase' = "ready" /\ TypedLine' = TypedLine
    BY <2>1, <2>2, <2>4, <2>5 DEF Phase, TypedLine
  <2>7. Lines!LineNext
    BY <2>1, <2>6 DEF Lines!LineNext, Lines!Enter
  <2> QED
    BY <2>1, <2>2, <2>3, <2>7 DEF LineInv
<1>5. CASE IsrBackspace
  <2>1. /\ UNCHANGED <<keyboard_input_on, keyboard_buffer, pc, got>> /\ isr /\ isr' = FALSE
        /\ \/ UNCHANGED buffer_index
           \/ buffer_index' = IF buffer_index > 0 THEN buffer_index - 1 ELSE 0
    BY <1>5 DEF IsrBackspace, IsrEnds
  <2>2. pc = "wait" /\ keyboard_input_on
    BY <2>1 DEF LineInv
  <2>3. buffer_index' = buffer_index \/ (buffer_index > 0 /\ buffer_index' = buffer_index - 1)
    BY <1>0, <2>1
  <2>4. LineInv'
    BY <1>0, <2>1, <2>2, <2>3 DEF LineInv
  <2>5. /\ Phase = "typing" /\ Phase' = "typing"
        /\ TypedLine = LineOf(keyboard_buffer, buffer_index)
        /\ TypedLine' = LineOf(keyboard_buffer, buffer_index')
    BY <2>1, <2>2 DEF Phase, TypedLine
  <2>6. CASE buffer_index' = buffer_index
    BY <2>1, <2>4, <2>5, <2>6 DEF Abstract
  <2>7. CASE buffer_index > 0 /\ buffer_index' = buffer_index - 1
    <3>1. buffer_index - 1 \in Nat /\ buffer_index - 1 < buffer_index
      BY <1>0, <2>7
    <3>2. Lines!Shorter(TypedLine, buffer_index - 1)
            = LineOf(keyboard_buffer, buffer_index - 1)
      BY <1>0, <2>5, <3>1, LineShorter
    <3>3. Len(TypedLine) = buffer_index /\ TypedLine # <<>>
      <4>1. TypedLine \in Seq(Chars \union {NUL}) /\ Len(TypedLine) = buffer_index
        BY <1>0, <2>5, LineType
      <4> QED
        BY <2>7, <4>1, EmptySeq
    <3>4. Lines!Erase
      BY <2>1, <2>5, <2>7, <3>2, <3>3 DEF Lines!Erase
    <3> QED
      BY <2>4, <3>4 DEF Lines!LineNext
  <2> QED
    BY <2>3, <2>6, <2>7
<1>6. CASE IsrCharacter /\ ~Wild
  <2> DEFINE c == Ascii(Port)
  <2>1. /\ buffer_index \in Index /\ buffer_index' = buffer_index + 1 /\ c \in Chars
        /\ keyboard_buffer' = [keyboard_buffer EXCEPT ![buffer_index] = c]
        /\ UNCHANGED <<keyboard_input_on, pc, got>> /\ isr /\ isr' = FALSE
    BY <1>6 DEF IsrCharacter, IsrEnds
  <2> HIDE DEF c
  <2>2. pc = "wait" /\ keyboard_input_on
    BY <2>1 DEF LineInv
  <2>3. c # NUL
    BY <2>1 DEF Chars, NUL
  <2>4. \A j \in 0 .. buffer_index' - 1 : keyboard_buffer'[j] # NUL
    BY <1>0, <2>1, <2>2, <2>3 DEF LineInv, Buffers, Index
  <2>5. LineInv'
    BY <2>1, <2>2, <2>4 DEF LineInv
  <2>6. LineOf(keyboard_buffer', buffer_index') = Append(LineOf(keyboard_buffer, buffer_index), c)
    BY <1>0, <2>1, LineStored
  <2>7. /\ Phase = "typing" /\ Phase' = "typing"
        /\ TypedLine = LineOf(keyboard_buffer, buffer_index)
        /\ TypedLine' = LineOf(keyboard_buffer', buffer_index')
    BY <2>1, <2>2 DEF Phase, TypedLine
  <2>8. Lines!Type(c)
    BY <2>1, <2>6, <2>7 DEF Lines!Type
  <2> QED
    BY <2>1, <2>5, <2>8 DEF Lines!LineNext
<1>7. CASE WaitForLine
  <2>1. /\ pc = "user" /\ pc' = "wait" /\ keyboard_input_on' = TRUE
        /\ UNCHANGED <<buffer_index, keyboard_buffer, isr, got>>
    BY <1>7 DEF WaitForLine
  <2>2. buffer_index = 0 /\ ~isr
    BY <2>1 DEF LineInv
  <2>3. LineInv'
    BY <2>1, <2>2 DEF LineInv
  <2>4. LineOf(keyboard_buffer', 0) = <<>>
    BY DEF LineOf
  <2>5. Phase = "off" /\ Phase' = "typing" /\ TypedLine = <<>> /\ TypedLine' = <<>>
    BY <2>1, <2>2, <2>4 DEF Phase, TypedLine
  <2> QED
    BY <2>1, <2>3, <2>5 DEF Lines!LineNext, Lines!Ask
<1>8. CASE LeaveLoop
  BY <1>8 DEF LeaveLoop, LineInv, Abstract, Phase, TypedLine
<1>9. CASE CopyLine
  <2> DEFINE n == TextLength(keyboard_buffer)
  <2>1. /\ pc = "copy" /\ pc' = "user" /\ ~isr /\ UNCHANGED <<input, isr>>
        /\ got' = LineOf(keyboard_buffer, IF n < COUNT THEN n ELSE COUNT)
    BY <1>9 DEF CopyLine
  <2>2. ~keyboard_input_on
    BY <2>1 DEF LineInv
  <2>3. PICK i \in Index : EndsAt(keyboard_buffer, i)
    BY <2>1, <2>2 DEF LineInv
  <2>4. n = i /\ i \in 0 .. Size
    BY <1>0, <2>3, EndIsLength DEF Index, Size
  <2>5. Lines!Shorter(LineOf(keyboard_buffer, n), COUNT) = got'
    BY <1>0, <2>1, <2>4, LineShorter
  <2>6. /\ Phase = "ready" /\ Phase' = "off"
        /\ TypedLine = LineOf(keyboard_buffer, n) /\ TypedLine' = <<>>
    BY <2>1, <2>2 DEF Phase, TypedLine
  <2>7. LineInv'
    BY <2>1, <2>2 DEF LineInv
  <2> QED
    BY <2>5, <2>6, <2>7 DEF Lines!LineNext, Lines!Deliver
<1>10. CASE (\E k \in Codes : Arrive(k)) \/ IsrShift \/ IsrShiftRelease \/ IsrCapslock
            \/ IsrOn \/ IsrNothing \/ IsrTab \/ (\E t \in Texts : puts_char(t))
            \/ ClearScreen \/ Undefined \/ UNCHANGED vars
  <2>1. CASE IsrOn
    <3>1. pc \in {"wait", "copy"} /\ keyboard_input_on
      BY <2>1 DEF IsrOn, OtherKey, Interrupted
    <3>2. pc = "wait"
      BY <3>1 DEF LineInv
    <3> QED
      BY <1>1, <2>1, <3>1, <3>2 DEF IsrOn
  <2>2. CASE ~IsrOn
    <3>1. UNCHANGED <<input, pc, got>> /\ (isr' => isr)
      BY <1>10, <2>2
         DEF Arrive, IsrShift, IsrShiftRelease, IsrCapslock, IsrNothing, IsrTab, IsrEnds,
             puts_char, ClearScreen, Undefined, vars
    <3> QED
      BY <1>1, <3>1
  <2> QED
    BY <2>1, <2>2
<1> QED
  BY <1>2, <1>3, <1>4, <1>5, <1>6, <1>7, <1>8, <1>9, <1>10
     DEF Next, keyboard_isr, IsrEnter, IsrCharacter

\* The driver implements LineInput: for every buffer size, every count a
\* process asks for and every order of keys and interrupts, system call 4
\* returns a line that was typed during that call, in order.
THEOREM LinesDelivered == Spec => DeliversLines
<1>1. Lines!LineInit /\ [][Lines!LineNext]_Abstract => Lines!LineSpec
  BY DEF Lines!LineSpec, Lines!lvars, Abstract
<1> QED
  BY <1>1, Invariance, InitLineInv, NextLine, PTL DEF Spec, DeliversLines
=============================================================================
