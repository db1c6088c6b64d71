------------------------------ MODULE TuiProofs ------------------------------
(***************************************************************************)
(* Theorems about Tui, for every terminal, every program and whatever is   *)
(* typed: the types, the selections and the scroll positions, the picker   *)
(* and its focus, the agreement of the windows, and how alone keys can end *)
(* the debugger once a program is shown.                                   *)
(***************************************************************************)
EXTENDS Tui, NumberLemmas, SequenceTheorems, TLAPS

-----------------------------------------------------------------------------
(* Numbers typed before a key.                                               *)

(* The number of the digits typed last is a natural number: strtoul's value, *)
(* defined digit after digit, exists and is one.                             *)
LEMMA NumberIsNatural ==
  ASSUME NEW typed, Len(typed) \in Nat, NEW default
  PROVE  Number(typed, default) \in Nat \cup {default}
<1> DEFINE last == Len(typed)
           Begins == {i \in 1..last : \A j \in i..last : typed[j] \in Digits}
           Step(f, i) == IF i \in Begins THEN 10 * f[i - 1] + DigitValue[typed[i]] ELSE 0
           IsValue(f, n) == f = [i \in 0..n |-> Step(f, i)]
           value == CHOOSE value : value = [i \in 0..last |->
                      IF i \in Begins THEN 10 * value[i - 1] + DigitValue[typed[i]] ELSE 0]
<1>1. Number(typed, default) = IF Begins = {} THEN default ELSE value[last]
  BY DEF Number
<1>2. \A i \in Begins : i \in 1..last /\ DigitValue[typed[i]] \in Nat
  BY DEF DigitValue, Digits
<1>3. last \in Nat
  OBVIOUS
<1> HIDE DEF last, Begins
<1>4. \E f : IsValue(f, last)
  <2> DEFINE T == {n \in 0..last : ~ \E f : IsValue(f, n)}
  <2> SUFFICES ASSUME T # {} PROVE FALSE
    BY <1>3
  <2>0. T \in SUBSET Nat /\ T # {}
    BY <1>3
  <2> HIDE DEF T
  <2>1. PICK m \in T : \A n \in T : m <= n
    BY <2>0, LeastNatural
  <2>2. m \in 0..last /\ ~ \E f : IsValue(f, m)
    BY DEF T
  <2>3. CASE m = 0
    <3> DEFINE f == [i \in 0..0 |-> 0]
    <3>1. IsValue(f, 0)
      BY <1>2
    <3> QED
      BY <2>2, <2>3, <3>1
  <2>4. CASE m # 0
    <3>1. m - 1 \in 0..last
      BY <1>3, <2>2, <2>4
    <3>2. m - 1 \notin T
      BY <1>3, <2>1, <2>2, <2>4
    <3>3. PICK f : IsValue(f, m - 1)
      BY <3>1, <3>2 DEF T
    <3> DEFINE g == [i \in 0..m |-> IF i < m THEN f[i] ELSE Step(f, m)]
    <3>4. \A i \in 0..m : g[i] = Step(g, i)
      <4> TAKE i \in 0..m
      <4>1. CASE i < m
        <5>1. i \in 0..(m - 1) /\ g[i] = f[i]
          BY <2>2, <4>1
        <5>2. f[i] = Step(f, i)
          BY <3>3, <5>1
        <5>3. i \in Begins => g[i - 1] = f[i - 1]
          BY <1>2, <2>2, <4>1
        <5> QED
          BY <5>1, <5>2, <5>3
      <4>2. CASE i = m
        <5>1. g[m] = Step(f, m) /\ g[m - 1] = f[m - 1]
          BY <2>2, <2>4
        <5> QED
          BY <4>2, <5>1
      <4> QED
        BY <2>2, <4>1, <4>2
    <3>5. IsValue(g, m)
      BY <3>4
    <3> QED
      BY <2>2, <3>5
  <2> QED
    BY <2>3, <2>4
<1>5. IsValue(value, last)
  BY <1>4
<1> HIDE DEF value
<1>6. \A i \in 0..last : value[i] \in Nat
  <2> DEFINE T == {i \in 0..last : value[i] \notin Nat}
  <2> SUFFICES ASSUME T # {} PROVE FALSE
    OBVIOUS
  <2>0. T \in SUBSET Nat /\ T # {}
    BY <1>3
  <2> HIDE DEF T
  <2>1. PICK m \in T : \A n \in T : m <= n
    BY <2>0, LeastNatural
  <2>2. m \in 0..last /\ value[m] \notin Nat
    BY DEF T
  <2>3. value[m] = Step(value, m)
    BY <1>5, <2>2
  <2>4. ASSUME m \in Begins
        PROVE  value[m - 1] \in Nat
    <3>1. m - 1 \in 0..last /\ ~(m <= m - 1)
      BY <1>2, <1>3, <2>4
    <3> QED
      BY <2>1, <3>1 DEF T
  <2>5. m \in Begins => 10 * value[m - 1] + DigitValue[typed[m]] \in Nat
    BY <1>2, <2>4
  <2> QED
    BY <2>2, <2>3, <2>5
<1> QED
  BY <1>1, <1>3, <1>6


-----------------------------------------------------------------------------
(* Arithmetic that wraps.                                                    *)

(* The sizes, as numbers.                                                    *)
LEMMA Sizes ==
  /\ SIZE_MODULUS \in Nat /\ UINT_MODULUS \in Nat /\ MAX_INPUT_BUFFER \in Nat
  /\ SIZE_MODULUS > UINT_MODULUS /\ UINT_MODULUS > 8 /\ MAX_INPUT_BUFFER > 1
  /\ MIN_TERM_ROWS \in Nat /\ MIN_TERM_ROWS >= 8
  /\ \A r \in Terminals : r \in Nat /\ 2 * r < UINT_MODULUS
  /\ Len(Units) \in 0..(SIZE_MODULUS - 1)
<1>1. /\ SIZE_MODULUS \in Nat /\ UINT_MODULUS \in Nat /\ MAX_INPUT_BUFFER \in Nat
      /\ SIZE_MODULUS > UINT_MODULUS /\ UINT_MODULUS > 8 /\ MAX_INPUT_BUFFER > 1
      /\ MIN_TERM_ROWS \in Nat /\ MIN_TERM_ROWS >= 8
      /\ Len(Units) \in 0..(SIZE_MODULUS - 1)
  BY TuiAssumption
<1>2. \A r \in Terminals : r \in Nat /\ r <= UINT_MODULUS \div 2 - 1
  BY TuiAssumption
<1>3. 2 * (UINT_MODULUS \div 2 - 1) < UINT_MODULUS
  BY <1>1
<1> QED
  BY <1>1, <1>2, <1>3

(* A size_t keeps what it can hold.                                          *)
LEMMA SizeFacts ==
  ASSUME NEW n \in Int
  PROVE  /\ SizeT(n) \in Line
         /\ n \in Line => SizeT(n) = n
         /\ n = SIZE_MODULUS => SizeT(n) = 0
         /\ n \in Nat => SizeT(n) <= n
<1> DEFINE m == SIZE_MODULUS
<1>1. m \in Nat /\ m > 0
  BY Sizes
<1> HIDE DEF m
<1>2. n % m \in 0..(m - 1)
  BY <1>1
<1>3. n \in 0..(m - 1) => n % m = n
  BY <1>1
<1>4. n = m => n % m = 0
  BY <1>1
<1>5. n \in Nat => n % m <= n
  BY <1>1, <1>2, <1>3
<1> QED
  BY <1>2, <1>3, <1>4, <1>5 DEF SizeT, Line, m

(* The windows are as the last terminal that was large enough.               *)
RowsInv == window_rows \in {0} \cup {r \in Terminals : r >= MIN_TERM_ROWS}

(* A window shows at least one line, and rows are an unsigned.               *)
LEMMA RowsFacts ==
  ASSUME RowsInv, NEW w
  PROVE  BufferRows(w) \in 1..(UINT_MODULUS - 1)
<1> DEFINE u == UINT_MODULUS
           getmaxy == CASE window_rows = 0 -> -1
                        [] window_rows # 0 /\ w = WIN_PICKER -> window_rows \div 2
                        [] OTHER -> (2 * window_rows) \div 3
<1>1. u \in Nat /\ u > 8
  BY Sizes
<1>2. BufferRows(w) = (getmaxy - 3) % u
  BY DEF BufferRows, SECTION_ROW_MARGIN
<1>3. window_rows = 0 \/ (window_rows \in Nat /\ window_rows >= 8 /\ 2 * window_rows < u)
  BY Sizes DEF RowsInv
<1>4. getmaxy = -1 \/ getmaxy \in 4..(u - 1)
  BY <1>1, <1>3
<1> HIDE DEF getmaxy, u
<1>5. CASE getmaxy = -1
  <2>1. (-4) % u = u - 4
    BY <1>1
  <2> QED
    BY <1>1, <1>2, <1>5, <2>1 DEF u
<1>6. CASE getmaxy \in 4..(u - 1)
  <2>1. getmaxy - 3 \in 1..(u - 1)
    BY <1>1, <1>6
  <2>2. \A n \in 1..(u - 1) : n % u = n
    BY <1>1
  <2> QED
    BY <1>2, <2>1, <2>2 DEF u
<1> QED
  BY <1>4, <1>5, <1>6


-----------------------------------------------------------------------------
(* Moving in a buffer.                                                       *)

Buffer == [selected_line : Line, line_count : Line, line_pos : Line]

InBuffer(b, line) == b.line_count > 0 => line < b.line_count

(* A motion stays among the lines, whatever number is typed before it.       *)
LEMMA MovedLine ==
  ASSUME NEW b \in Buffer, InBuffer(b, b.selected_line), NEW direction, NEW distance \in Nat
  PROVE  Moved(b, direction, distance) \in Line /\ InBuffer(b, Moved(b, direction, distance))
<1> DEFINE sel == b.selected_line
           count == b.line_count
           line == Moved(b, direction, distance)
<1>1. /\ sel \in Int /\ sel >= 0 /\ sel < SIZE_MODULUS
      /\ count \in Int /\ count >= 0 /\ count < SIZE_MODULUS
      /\ SIZE_MODULUS \in Nat
      /\ count > 0 => sel < count
  BY Sizes DEF Buffer, Line, InBuffer
<1> HIDE DEF sel, count
<1>2. /\ SizeT(sel + distance) \in Line /\ SizeT(count - 1) \in Line
      /\ SizeT(sel + distance) <= sel + distance
      /\ count > 0 => SizeT(count - 1) = count - 1 /\ SizeT(count - 1 - sel) = count - 1 - sel
  BY <1>1, SizeFacts DEF Line
<1>3. CASE direction = "DIR_DOWN"
  <2>1. line = IF SizeT(count - 1 - sel) >= distance THEN SizeT(sel + distance)
                                                     ELSE SizeT(count - 1)
    BY <1>3 DEF Moved, sel, count
  <2>2. line \in Line
    BY <1>2, <2>1
  <2>3. count > 0 => line < count
    BY <1>1, <1>2, <2>1, <2>2 DEF Line
  <2> QED
    BY <2>2, <2>3 DEF InBuffer, count
<1>4. CASE direction = "DIR_UP"
  <2>1. line = IF sel >= distance THEN sel - distance ELSE 0
    BY <1>4 DEF Moved, sel, count
  <2> QED
    BY <1>1, <2>1 DEF InBuffer, count, Line
<1>5. CASE direction \notin {"DIR_UP", "DIR_DOWN"}
  <2>1. line = sel
    BY <1>5 DEF Moved, sel, count
  <2> QED
    BY <1>1, <2>1 DEF InBuffer, count, Line
<1> QED
  BY <1>3, <1>4, <1>5

(* So does going to a line.                                                  *)
LEMMA GoneToLine ==
  ASSUME NEW b \in Buffer, NEW amount \in Nat \cup {BUFFER_START}
  PROVE  GoneTo(b, amount) \in Line /\ InBuffer(b, GoneTo(b, amount))
<1> DEFINE count == b.line_count
           line == GoneTo(b, amount)
<1>1. /\ count \in Int /\ count >= 0 /\ count < SIZE_MODULUS /\ SIZE_MODULUS \in Nat
      /\ SIZE_MODULUS > 0
  BY Sizes DEF Buffer, Line
<1> HIDE DEF count
<1>2. amount \in Int
  BY DEF BUFFER_START
<1>3. /\ SizeT(count - 1) \in Line /\ SizeT(amount - 1) \in Line
      /\ count > 0 => SizeT(count - 1) = count - 1
  BY <1>1, <1>2, SizeFacts DEF Line
<1>4. line \in {SizeT(count - 1), 0}
        \/ (line = SizeT(amount - 1) /\ SizeT(amount - 1) < SizeT(count - 1))
  BY DEF GoneTo, count
<1>5. line \in Line
  BY <1>1, <1>3, <1>4 DEF Line
<1>6. count > 0 => line < count
  BY <1>1, <1>3, <1>4, <1>5 DEF Line
<1> QED
  BY <1>5, <1>6 DEF InBuffer, count

(* A buffer that follows its selection has it in the window.                 *)
LEMMA Followed ==
  ASSUME NEW b \in Buffer, NEW line \in Line, InBuffer(b, line),
         NEW rows \in 1..(UINT_MODULUS - 1)
  PROVE  LET f == Follow(b, line, rows)
         IN  /\ f \in Buffer
             /\ f.line_count = b.line_count
             /\ f.selected_line = line
             /\ b.line_count > 0 => f.line_pos <= line /\ line < f.line_pos + rows
<1> DEFINE pos == b.line_pos
           count == b.line_count
           scrolls == SizeT(line + 1) > rows /\ SizeT(line + 1) > SizeT(pos + rows)
           new == CASE line < pos -> line
                    [] line >= pos /\ scrolls -> SizeT(line + 1 - rows)
                    [] OTHER -> pos
           f == Follow(b, line, rows)
<1>1. /\ SIZE_MODULUS \in Nat /\ UINT_MODULUS \in Nat /\ UINT_MODULUS > 8
      /\ SIZE_MODULUS > UINT_MODULUS
  BY Sizes
<1>2. /\ pos \in Line /\ count \in Line /\ pos \in Nat /\ count \in Nat /\ line \in Nat
      /\ count < SIZE_MODULUS /\ pos < SIZE_MODULUS /\ rows \in Nat /\ rows >= 1
      /\ count > 0 => line < count
  BY <1>1 DEF Buffer, Line, InBuffer
<1>3. f = [b EXCEPT !.selected_line = line, !.line_pos = new]
  BY DEF Follow
<1> HIDE DEF pos, count
<1>4. /\ SizeT(line + 1 - rows) \in Line
      /\ SizeT(pos + rows) <= pos + rows /\ SizeT(pos + rows) \in Nat
      /\ SizeT(line + 1) \in Nat
  BY <1>1, <1>2, SizeFacts DEF Line
<1>5. count > 0 => SizeT(line + 1) = line + 1
  <2> SUFFICES ASSUME count > 0 PROVE SizeT(line + 1) = line + 1
    OBVIOUS
  <2>1. line + 1 \in Line
    BY <1>1, <1>2 DEF Line
  <2> QED
    BY <2>1, SizeFacts DEF Line
<1>6. count > 0 /\ scrolls => SizeT(line + 1 - rows) = line + 1 - rows
  <2> SUFFICES ASSUME count > 0, scrolls PROVE SizeT(line + 1 - rows) = line + 1 - rows
    OBVIOUS
  <2>1. line + 1 - rows \in Line
    BY <1>1, <1>2, <1>5 DEF Line
  <2> QED
    BY <2>1, SizeFacts DEF Line
<1>7. new \in Line
  BY <1>2, <1>4
<1>8. count > 0 => new <= line /\ line < new + rows
  BY <1>1, <1>2, <1>4, <1>5, <1>6
<1> HIDE DEF new, f
<1>9. /\ f \in Buffer /\ f.line_count = b.line_count /\ f.selected_line = line
      /\ f.line_pos = new
  BY <1>3, <1>7 DEF Buffer
<1> QED
  BY <1>8, <1>9 DEF count, f


-----------------------------------------------------------------------------
(* The inductive invariant.                                                  *)

(* What is known of the message of a key: amounts that are not relative are  *)
(* numbers, and a motion is never by the amount update_tui asserts against.  *)
IsKeyMessage(m) ==
  /\ m.type \in {"MSG_NONE", "MSG_QUIT", "MSG_CONFIRM", "MSG_TOGGLE_BREAKPOINT",
                 "MSG_RUN_DEBUGGEE", "MSG_SHOW_PICKER", "MSG_CHANGE_SECTION",
                 "MSG_BUFFER_MOTION", "MSG_GO_TO_BUFFER_LINE"}
  /\ m.type = "MSG_SHOW_PICKER" => m.is_open \in BOOLEAN
  /\ m.type = "MSG_BUFFER_MOTION" => m.amount \in Nat \cup {BUFFER_HALF}
  /\ m.type = "MSG_GO_TO_BUFFER_LINE" => m.amount \in Nat \cup {BUFFER_START}

(* The messages of a confirm once the source has been set.                   *)
LaterBuffers(unit) ==
  << [type |-> "MSG_SET_ASSEMBLY_BUFFER", unit |-> unit],
     [type |-> "MSG_SHOW_PICKER", is_open |-> FALSE] >>

Agreed ==
  source_unit # None => selected_comp_unit_index = source_unit /\ assembly_unit = source_unit

(* Between the messages of a key: none or one is left, and the windows agree *)
(* with the unit, or a unit is being opened.                                 *)
QueueInv ==
  \/ msg_queue = << >> /\ (outcome = "ok" => Agreed)
  \/ /\ msg_queue = <<msg>> /\ IsKeyMessage(msg)
     /\ outcome = "ok" => Agreed
  \/ /\ msg_queue = NewBuffers(None)
     /\ Units = << >>
  \/ /\ msg_queue = NewBuffers(selected_comp_unit_index)
     /\ selected_comp_unit_index < Len(Units)
  \/ /\ msg_queue = LaterBuffers(selected_comp_unit_index)
     /\ selected_comp_unit_index < Len(Units)
     /\ source_unit = selected_comp_unit_index
  \/ Units = << >> /\ msg_queue = LaterBuffers(None) /\ outcome # "ok"

(* The buffers are as long as what they show, and empty while that is none.  *)
CountsInv ==
  /\ buffers[WIN_PICKER].line_count = Len(Units)
  /\ source_unit = None => buffers[WIN_SOURCE].line_count = 0
  /\ assembly_unit = None => buffers[WIN_ASSEMBLY].line_count = 0
  /\ source_unit # None => buffers[WIN_SOURCE].line_count = Units[source_unit + 1].lines
  /\ assembly_unit # None =>
       buffers[WIN_ASSEMBLY].line_count = Units[assembly_unit + 1].instructions

TuiInv ==
  TypeOK /\ RowsInv /\ QueueInv /\ CountsInv /\ SelectionInBuffer /\ PickerHasFocus

Windows == {WIN_SOURCE, WIN_ASSEMBLY, WIN_PICKER}

Typed == Digits \cup {"^W", "g", "other"}

(* The keys before the one being typed leave room for it, and for a byte     *)
(* that is never written.                                                    *)
LEMMA InputFits ==
  ASSUME TypeOK
  PROVE  /\ get_input_key \in Seq(Typed)
         /\ Len(get_input_key) \in Nat /\ Len(get_input_key) + 1 < MAX_INPUT_BUFFER
<1>1. input \in Seq(Typed) /\ Len(input) \in Nat /\ Len(input) < MAX_INPUT_BUFFER
  BY DEF TypeOK, Typed
<1>2. << >> \in Seq(Typed) /\ Len(<< >>) = 0
  OBVIOUS
<1> QED
  BY <1>1, <1>2, Sizes DEF get_input_key

(* A key adds one to the keys that are remembered.                           *)
LEMMA InputRemembered ==
  ASSUME TypeOK, NEW key
  PROVE  /\ Remembered(get_input_key, key) \in Seq(Typed)
         /\ Len(Remembered(get_input_key, key)) < MAX_INPUT_BUFFER
<1> DEFINE t == get_input_key
           old == [i \in DOMAIN t |->
                     IF {t[i], key} \subseteq Digits THEN t[i] ELSE "other"]
           new == IF key \in Digits \cup {"^W", "g"} THEN key ELSE "other"
<1>1. t \in Seq(Typed) /\ Len(t) \in Nat /\ Len(t) + 1 < MAX_INPUT_BUFFER
  BY InputFits
<1>2. DOMAIN t = 1..Len(t)
  BY <1>1
<1>3. \A i \in 1..Len(t) : old[i] \in Typed
  BY <1>2 DEF Typed
<1>4. old \in [1..Len(t) -> Typed]
  BY <1>2, <1>3
<1>5. old \in Seq(Typed) /\ Len(old) = Len(t)
  BY <1>1, <1>4, SeqDef
<1>6. new \in Typed
  BY DEF Typed
<1>7. Remembered(t, key) = Append(old, new)
  BY DEF Remembered
<1> HIDE DEF t, old, new
<1>8. Append(old, new) \in Seq(Typed) /\ Len(Append(old, new)) = Len(old) + 1
  BY <1>5, <1>6
<1> QED
  BY <1>1, <1>5, <1>7, <1>8 DEF t

(* Every key becomes a message update_tui handles.                           *)
LEMMA KeyMessage ==
  ASSUME TypeOK, NEW key
  PROVE  IsKeyMessage(MessageOf(get_input_key, key))
<1> DEFINE t == get_input_key
           m == MessageOf(t, key)
           d == Direction(key)
<1>1. Len(t) \in Nat /\ is_picker_open \in BOOLEAN
  BY InputFits DEF TypeOK
<1> HIDE DEF t
<1>2. Number(t, 1) \in Nat /\ Number(t, BUFFER_END) \in Nat
  <2>1. Number(t, 1) \in Nat
    BY <1>1, NumberIsNatural
  <2>2. Number(t, BUFFER_END) \in Nat
    BY <1>1, NumberIsNatural DEF BUFFER_END
  <2> QED
    BY <2>1, <2>2
<1>3. \/ m \in {[type |-> "MSG_QUIT"], [type |-> "MSG_CONFIRM"],
                [type |-> "MSG_TOGGLE_BREAKPOINT"], [type |-> "MSG_RUN_DEBUGGEE"], MSG_NONE}
      \/ m = [type |-> "MSG_SHOW_PICKER", is_open |-> ~is_picker_open]
      \/ m = on_motion_input(t, key)
  BY DEF MessageOf
<1>4. on_motion_input(t, key) \in
        {Motion("MSG_CHANGE_SECTION", d, 1), Motion("MSG_BUFFER_MOTION", "DIR_UP", BUFFER_HALF),
         Motion("MSG_BUFFER_MOTION", "DIR_DOWN", BUFFER_HALF), MSG_NONE,
         Motion("MSG_GO_TO_BUFFER_LINE", "DIR_UP", BUFFER_START),
         Motion("MSG_GO_TO_BUFFER_LINE", "DIR_UP", Number(t, BUFFER_END)),
         Motion("MSG_BUFFER_MOTION", d, Number(t, 1))}
  BY DEF on_motion_input, StartOfFile
<1> HIDE DEF m, d
<1>5. ASSUME NEW type \in {"MSG_QUIT", "MSG_CONFIRM", "MSG_TOGGLE_BREAKPOINT",
                           "MSG_RUN_DEBUGGEE", "MSG_NONE"}
      PROVE  IsKeyMessage([type |-> type])
  BY DEF IsKeyMessage
<1>6. IsKeyMessage([type |-> "MSG_SHOW_PICKER", is_open |-> ~is_picker_open])
  BY <1>1 DEF IsKeyMessage
<1>7. \A x : IsKeyMessage(Motion("MSG_CHANGE_SECTION", d, x))
  BY DEF IsKeyMessage, Motion
<1>8. \A y : \A x \in Nat \cup {BUFFER_HALF} : IsKeyMessage(Motion("MSG_BUFFER_MOTION", y, x))
  BY DEF IsKeyMessage, Motion
<1>9. \A y : \A x \in Nat \cup {BUFFER_START} : IsKeyMessage(Motion("MSG_GO_TO_BUFFER_LINE", y, x))
  BY DEF IsKeyMessage, Motion
<1> QED
  BY <1>2, <1>3, <1>4, <1>5, <1>6, <1>7, <1>8, <1>9 DEF MSG_NONE, m, t


(* Each window's buffer, and the one that has the focus.                     *)
LEMMA BufferFacts ==
  ASSUME TypeOK, SelectionInBuffer
  PROVE  /\ DOMAIN buffers = Windows /\ buffers \in [Windows -> Buffer]
         /\ \A w \in Windows : buffers[w] \in Buffer
                                /\ InBuffer(buffers[w], buffers[w].selected_line)
<1>1. DOMAIN buffers = Windows /\ buffers \in [Windows -> Buffer]
  BY DEF TypeOK, Windows, Buffer
<1>2. \A w \in Windows : InBuffer(buffers[w], buffers[w].selected_line)
  BY <1>1 DEF SelectionInBuffer, InBuffer
<1> QED
  BY <1>1, <1>2

(* Selecting a line keeps the buffers, scrolls to the line, and looks its    *)
(* instructions up if it is another line of the source.                      *)
LEMMA Selects ==
  ASSUME TypeOK, RowsInv, SelectionInBuffer, focused_win \in Windows,
         NEW line \in Line, InBuffer(buffers[focused_win], line), SelectLine(line)
  PROVE  /\ buffers' \in [Windows -> Buffer]
         /\ \A w \in Windows : buffers'[w].line_count = buffers[w].line_count
         /\ \A w \in Windows \ {focused_win} : buffers'[w] = buffers[w]
         /\ SelectionInBuffer'
         /\ LET b == buffers'[focused_win]
            IN  b.line_count > 0 => /\ b.line_pos <= b.selected_line
                                    /\ b.selected_line < b.line_pos + BufferRows(focused_win)
<1> DEFINE win == focused_win
           rows == BufferRows(win)
           f == Follow(buffers[win], line, rows)
<1>1. /\ buffers \in [Windows -> Buffer] /\ win \in Windows
      /\ buffers[win] \in Buffer /\ InBuffer(buffers[win], line)
  BY BufferFacts
<1>2. rows \in 1..(UINT_MODULUS - 1)
  BY RowsFacts
<1>3. buffers' = [buffers EXCEPT ![win] = f]
  BY DEF SelectLine
<1> HIDE DEF win, rows
<1>4. /\ f \in Buffer
      /\ f.line_count = buffers[win].line_count
      /\ f.selected_line = line
      /\ buffers[win].line_count > 0 => f.line_pos <= line /\ line < f.line_pos + rows
  BY <1>1, <1>2, Followed
<1> HIDE DEF f
<1>5. buffers' \in [Windows -> Buffer]
  BY <1>1, <1>3, <1>4
<1>6. buffers'[win] = f /\ \A w \in Windows \ {win} : buffers'[w] = buffers[w]
  BY <1>1, <1>3
<1>7. \A w \in Windows : buffers'[w].line_count = buffers[w].line_count
  BY <1>4, <1>6
<1>8. SelectionInBuffer'
  <2>1. DOMAIN buffers' = Windows /\ DOMAIN buffers = Windows
    BY <1>1, <1>5
  <2>2. f.line_count > 0 => f.line_pos <= f.selected_line /\ f.selected_line < f.line_count
    BY <1>1, <1>4 DEF InBuffer
  <2> QED
    BY <1>6, <2>1, <2>2 DEF SelectionInBuffer
<1>9. f.line_count > 0 => f.line_pos <= f.selected_line /\ f.selected_line < f.line_pos + rows
  BY <1>4
<1> QED
  BY <1>5, <1>6, <1>7, <1>8, <1>9 DEF win, rows

(* What is looked up when a line is selected.                                *)
LEMMA LooksUp ==
  ASSUME TypeOK, outcome = "ok", NEW line \in Line, SelectLine(line)
  PROVE  /\ selected_line_instructions' \in {<< >>} \cup (Line \X Line)
         /\ outcome' \in {"ok", "assert", "segv"}
         /\ outcome' # "ok" =>
              /\ focused_win = WIN_SOURCE
              /\ SizeT(line + 1) = 0 \/ selected_comp_unit_index >= Len(Units)
<1>1. selected_comp_unit_index \in Line /\ SizeT(line + 1) \in Line
  <2>1. line + 1 \in Int
    BY Sizes DEF Line
  <2> QED
    BY <2>1, SizeFacts DEF TypeOK
<1>2. LineInstructions(line) \in Line \X Line
  BY <1>1 DEF LineInstructions
<1>3. selected_line_instructions' \in {<< >>} \cup (Line \X Line)
  <2>1. selected_line_instructions' \in {selected_line_instructions, LineInstructions(line)}
    BY DEF SelectLine
  <2>2. selected_line_instructions \in {<< >>} \cup (Line \X Line)
    BY DEF TypeOK
  <2> QED
    BY <1>2, <2>1, <2>2
<1>4. \/ outcome' = outcome
      \/ focused_win = WIN_SOURCE
           /\ outcome' = LookupOutcome(selected_comp_unit_index, SizeT(line + 1))
  BY DEF SelectLine
<1> QED
  BY <1>3, <1>4 DEF LookupOutcome


-----------------------------------------------------------------------------
(* The messages of a round.                                                  *)

(* What is left of two messages when the first is taken.                     *)
LEMMA TailOfTwo ==
  ASSUME NEW a, NEW b
  PROVE  Tail(<<a, b>>) = <<b>>
<1> DEFINE t == Tail(<<a, b>>)
<1>1. <<a, b>> \in Seq({a, b}) /\ <<a, b>> # << >> /\ Len(<<a, b>>) = 2
  OBVIOUS
<1>2. t \in Seq({a, b}) /\ Len(t) = 1 /\ t[1] = b
  BY <1>1, HeadTailProperties
<1> HIDE DEF t
<1>3. t = <<b>>
  BY <1>2
<1> QED
  BY <1>3 DEF t

(* What is left of three messages when the first is taken.                   *)
LEMMA TailOfThree ==
  ASSUME NEW a, NEW b, NEW c
  PROVE  Tail(<<a, b, c>>) = <<b, c>>
<1> DEFINE t == Tail(<<a, b, c>>)
<1>1. <<a, b, c>> \in Seq({a, b, c}) /\ <<a, b, c>> # << >> /\ Len(<<a, b, c>>) = 3
  OBVIOUS
<1>2. t \in Seq({a, b, c}) /\ Len(t) = 2 /\ t[1] = b /\ t[2] = c
  BY <1>1, HeadTailProperties
<1> HIDE DEF t
<1>3. t = <<b, c>>
  BY <1>2
<1> QED
  BY <1>3 DEF t

(* A message that sets no buffer is the one of the key, and the last.        *)
LEMMA KeyHandled ==
  ASSUME QueueInv, outcome = "ok", msg_queue # << >>,
         msg.type \notin {"MSG_SET_SOURCE_BUFFER", "MSG_SET_ASSEMBLY_BUFFER"}
  PROVE  IsKeyMessage(msg) /\ Agreed /\ Tail(msg_queue) = << >>
<1>1. \A unit : Head(NewBuffers(unit)).type = "MSG_SET_SOURCE_BUFFER"
  BY DEF NewBuffers
<1>2. \A unit : Head(LaterBuffers(unit)).type = "MSG_SET_ASSEMBLY_BUFFER"
  BY DEF LaterBuffers
<1>3. msg_queue = <<msg>> /\ IsKeyMessage(msg) /\ Agreed
  BY <1>1, <1>2 DEF QueueInv, msg
<1>4. \A m : Tail(<<m>>) = << >>
  OBVIOUS
<1> QED
  BY <1>3, <1>4

(* The source is set first, to that of the unit that was selected.           *)
LEMMA SourceHandled ==
  ASSUME QueueInv, outcome = "ok", msg_queue # << >>, msg.type = "MSG_SET_SOURCE_BUFFER"
  PROVE  \/ Units = << >> /\ msg.unit = None /\ Tail(msg_queue) = LaterBuffers(None)
         \/ /\ selected_comp_unit_index < Len(Units) /\ msg.unit = selected_comp_unit_index
            /\ Tail(msg_queue) = LaterBuffers(selected_comp_unit_index)
<1>1. \A unit : Head(NewBuffers(unit)).unit = unit /\ Tail(NewBuffers(unit)) = LaterBuffers(unit)
  <2>1. \A unit : Head(NewBuffers(unit)).unit = unit
    BY DEF NewBuffers
  <2>2. \A unit : Tail(NewBuffers(unit)) = LaterBuffers(unit)
    BY TailOfThree, Zenon DEF NewBuffers, LaterBuffers
  <2> QED
    BY <2>1, <2>2
<1>2. \A unit : Head(LaterBuffers(unit)).type = "MSG_SET_ASSEMBLY_BUFFER"
  BY DEF LaterBuffers
<1>3. ~IsKeyMessage(msg)
  BY DEF IsKeyMessage
<1> QED
  BY <1>1, <1>2, <1>3 DEF QueueInv, msg

(* The disassembly is set next, and the message that closes the picker is    *)
(* one that a key could have caused.                                         *)
LEMMA AssemblyHandled ==
  ASSUME QueueInv, outcome = "ok", msg_queue # << >>, msg.type = "MSG_SET_ASSEMBLY_BUFFER"
  PROVE  /\ selected_comp_unit_index < Len(Units) /\ msg.unit = selected_comp_unit_index
         /\ source_unit = selected_comp_unit_index
         /\ Tail(msg_queue) = << [type |-> "MSG_SHOW_PICKER", is_open |-> FALSE] >>
<1>1. \A unit : Head(LaterBuffers(unit)).unit = unit
  BY DEF LaterBuffers
<1>2. \A unit :
        Tail(LaterBuffers(unit)) = << [type |-> "MSG_SHOW_PICKER", is_open |-> FALSE] >>
  BY TailOfTwo DEF LaterBuffers
<1>3. \A unit : Head(NewBuffers(unit)).type = "MSG_SET_SOURCE_BUFFER"
  BY DEF NewBuffers
<1>4. ~IsKeyMessage(msg)
  BY DEF IsKeyMessage
<1>5. msg_queue = LaterBuffers(selected_comp_unit_index) /\
        selected_comp_unit_index < Len(Units) /\ source_unit = selected_comp_unit_index
  BY <1>3, <1>4 DEF QueueInv, msg
<1> QED
  BY <1>1, <1>2, <1>5 DEF msg

(* The ways in which the debugger ends, as OpenedNeverCrashes has them.      *)
Lacking ==
  source_unit # None /\ assembly_unit # None /\ outcome' # "ok" =>
    \/ Handling("MSG_RUN_DEBUGGEE")
    \/ /\ Handling("MSG_CONFIRM")
       /\ buffers[WIN_PICKER].selected_line < Len(Units)
       /\ LET unit == Units[buffers[WIN_PICKER].selected_line + 1]
          IN  ~unit.readable \/ ~unit.in_text
    \/ Handling("MSG_TOGGLE_BREAKPOINT") /\ ~Units[source_unit + 1].in_text
    \/ focused_win = WIN_SOURCE /\ Units[source_unit + 1].lines = 0
    \/ focused_win = WIN_ASSEMBLY /\ Units[assembly_unit + 1].instructions = 0

(* A selection that moved, as MotionShowsSelection has it.                   *)
Shown ==
  \A w \in {WIN_SOURCE, WIN_ASSEMBLY} :
    LET b == buffers'[w]
    IN  b.line_count > 0 /\ b.selected_line # buffers[w].selected_line =>
          /\ b.line_pos <= b.selected_line
          /\ b.selected_line < b.line_pos + BufferRows(w)

(* A key that is read, or a change of the terminal's size, puts one message  *)
(* on the queue, and the windows stay as they are.                           *)
LEMMA KeyStep ==
  ASSUME TuiInv, PressKey \/ ResizeKey
  PROVE  TuiInv' /\ Lacking /\ Shown
<1>1. PICK key : on_stdin_input(key)
  BY DEF PressKey, ResizeKey
<1>2. PICK m : IsKeyMessage(m) /\ msg_queue' = <<m>>
  BY <1>1, KeyMessage DEF on_stdin_input, TuiInv
<1>3. UNCHANGED <<model_vars, outcome>> /\ outcome = "ok" /\ msg_queue = << >>
  BY DEF PressKey, ResizeKey
<1>4. input' \in Seq(Typed) /\ Len(input') < MAX_INPUT_BUFFER
  <2>1. << >> \in Seq(Typed) /\ Len(<< >>) < MAX_INPUT_BUFFER
    BY Sizes
  <2> QED
    BY <1>1, <2>1, InputRemembered DEF on_stdin_input, TuiInv
<1>5. RowsInv'
  <2>1. window_rows' = window_rows
          \/ \E rows \in Terminals : rows >= MIN_TERM_ROWS /\ window_rows' = rows
    <3>1. \A rows \in Terminals : rows < MIN_TERM_ROWS \/ rows >= MIN_TERM_ROWS
      BY Sizes
    <3> QED
      BY <3>1 DEF PressKey, ResizeKey
  <2> QED
    BY <2>1 DEF TuiInv, RowsInv
<1>6. QueueInv'
  <2>1. msg' = m
    BY <1>2 DEF msg
  <2>2. Agreed
    <3>1. \A unit : NewBuffers(unit) # << >> /\ LaterBuffers(unit) # << >> /\ <<unit>> # << >>
      BY DEF NewBuffers, LaterBuffers
    <3> QED
      BY <1>3, <3>1 DEF TuiInv, QueueInv
  <2>3. Agreed'
    BY <1>3, <2>2 DEF Agreed, model_vars
  <2> QED
    BY <1>2, <2>1, <2>3 DEF QueueInv
<1>7. TypeOK'
  <2>1. Len(msg_queue') <= 3
    BY <1>2
  <2>2. window_rows' \in {0} \cup Terminals
    BY <1>5 DEF RowsInv
  <2> QED
    BY <1>3, <1>4, <2>1, <2>2 DEF TuiInv, TypeOK, model_vars, Typed
<1>8. (CountsInv /\ SelectionInBuffer /\ PickerHasFocus)'
  BY <1>3 DEF TuiInv, CountsInv, SelectionInBuffer, PickerHasFocus, model_vars
<1>9. Lacking /\ Shown
  BY <1>3 DEF Lacking, Shown, model_vars
<1> QED
  BY <1>5, <1>6, <1>7, <1>8, <1>9 DEF TuiInv


(* What a motion does: it selects a line of the window that has the focus, or*)
(* leaves the windows alone.                                                 *)
LEMMA MotionSelects ==
  ASSUME TuiInv, BufferMotion \/ GoToBufferLine
  PROVE  \/ UNCHANGED <<buffers, selected_line_instructions, outcome>>
         \/ /\ focused_win \in Windows
            /\ \E line \in Line : InBuffer(buffers[focused_win], line) /\ SelectLine(line)
<1> DEFINE b == buffers[focused_win]
           rows == BufferRows(focused_win)
<1>1. DOMAIN buffers = Windows /\ rows \in 1..(UINT_MODULUS - 1)
  BY BufferFacts, RowsFacts DEF TuiInv
<1>2. IsKeyMessage(msg)
  BY KeyHandled DEF TuiInv, Handling, msg, BufferMotion, GoToBufferLine
<1>3. HasBuffer => /\ focused_win \in Windows /\ b \in Buffer
                   /\ InBuffer(b, b.selected_line)
  BY <1>1, BufferFacts DEF TuiInv, HasBuffer
<1>4. CASE BufferMotion
  <2> DEFINE distance == Distance(msg.amount, rows)
             line == Moved(b, msg.direction, distance)
             moves == HasBuffer /\ b.line_count # 0
  <2>1. msg.amount \in Nat \cup {BUFFER_HALF}
    BY <1>2, <1>4 DEF IsKeyMessage, BufferMotion, Handling, msg
  <2>2. msg.amount # BUFFER_START
    BY <2>1 DEF BUFFER_HALF, BUFFER_START
  <2>3. \/ moves /\ SelectLine(line)
        \/ UNCHANGED <<buffers, selected_line_instructions, outcome>>
    BY <1>4, <2>2 DEF BufferMotion
  <2>4. distance \in Nat
    <3>1. rows \in Nat /\ rows \div 2 \in Nat
      BY <1>1, Sizes
    <3>2. msg.amount # BUFFER_FULL
      BY <2>1 DEF BUFFER_HALF, BUFFER_FULL
    <3> QED
      BY <2>1, <3>1, <3>2 DEF Distance
  <2> HIDE DEF distance
  <2>5. moves => line \in Line /\ InBuffer(b, line)
    BY <1>3, <2>4, MovedLine
  <2> HIDE DEF line
  <2> QED
    BY <1>3, <2>3, <2>5
<1>5. CASE GoToBufferLine
  <2> DEFINE line == GoneTo(b, msg.amount)
  <2>1. msg.amount \in Nat \cup {BUFFER_START}
    BY <1>2, <1>5 DEF IsKeyMessage, GoToBufferLine, Handling, msg
  <2>2. \/ HasBuffer /\ SelectLine(line)
        \/ UNCHANGED <<buffers, selected_line_instructions, outcome>>
    BY <1>5 DEF GoToBufferLine
  <2>3. HasBuffer => line \in Line /\ InBuffer(b, line)
    BY <1>3, <2>1, GoneToLine
  <2> HIDE DEF line
  <2> QED
    BY <1>3, <2>2, <2>3
<1> QED
  BY <1>4, <1>5

(* A motion keeps the invariant, brings the selection into the window, and   *)
(* crashes only where the source has no lines.                               *)
LEMMA MotionStep ==
  ASSUME TuiInv, BufferMotion \/ GoToBufferLine
  PROVE  TuiInv' /\ Lacking /\ Shown
<1>1. /\ Agreed /\ Tail(msg_queue) = << >>
  BY KeyHandled DEF TuiInv, Handling, msg, BufferMotion, GoToBufferLine
<1>2. /\ msg_queue' = << >>
      /\ UNCHANGED <<input, source_unit, assembly_unit, selected_comp_unit_index,
                     focused_win, is_picker_open, window_rows>>
      /\ outcome = "ok"
  BY <1>1 DEF BufferMotion, GoToBufferLine, Handling
<1>3. (RowsInv /\ QueueInv /\ PickerHasFocus)' /\ Len(msg_queue') <= 3
  <2>1. Agreed'
    BY <1>1, <1>2 DEF Agreed
  <2>2. RowsInv' /\ PickerHasFocus'
    BY <1>2 DEF TuiInv, RowsInv, PickerHasFocus
  <2>3. QueueInv' /\ Len(msg_queue') <= 3
    BY <1>2, <2>1 DEF QueueInv
  <2> QED
    BY <2>2, <2>3
<1>4. CASE UNCHANGED <<buffers, selected_line_instructions, outcome>>
  <2>1. TypeOK'
    BY <1>2, <1>3, <1>4 DEF TuiInv, TypeOK
  <2>2. (CountsInv /\ SelectionInBuffer)'
    BY <1>2, <1>4 DEF TuiInv, CountsInv, SelectionInBuffer
  <2>3. Lacking /\ Shown
    BY <1>2, <1>4 DEF Lacking, Shown
  <2> QED
    BY <1>3, <2>1, <2>2, <2>3 DEF TuiInv
<1>5. CASE /\ focused_win \in Windows
           /\ \E line \in Line : InBuffer(buffers[focused_win], line) /\ SelectLine(line)
  <2>1. PICK line \in Line : InBuffer(buffers[focused_win], line) /\ SelectLine(line)
    BY <1>5
  <2>2. /\ buffers' \in [Windows -> Buffer]
        /\ \A w \in Windows : buffers'[w].line_count = buffers[w].line_count
        /\ \A w \in Windows \ {focused_win} : buffers'[w] = buffers[w]
        /\ SelectionInBuffer'
        /\ LET b == buffers'[focused_win]
           IN  b.line_count > 0 => /\ b.line_pos <= b.selected_line
                                   /\ b.selected_line < b.line_pos + BufferRows(focused_win)
    BY <1>5, <2>1, Selects DEF TuiInv
  <2>3. /\ selected_line_instructions' \in {<< >>} \cup (Line \X Line)
        /\ outcome' \in {"ok", "assert", "segv"}
        /\ outcome' # "ok" =>
             /\ focused_win = WIN_SOURCE
             /\ SizeT(line + 1) = 0 \/ selected_comp_unit_index >= Len(Units)
    BY <1>2, <2>1, LooksUp DEF TuiInv
  <2>4. TypeOK'
    BY <1>2, <1>3, <2>2, <2>3 DEF TuiInv, TypeOK, Windows, Buffer
  <2>5. CountsInv'
    BY <1>2, <2>2 DEF TuiInv, CountsInv, Windows
  <2>6. Shown
    BY <2>2 DEF Shown, Windows
  <2>7. Lacking
    <3> SUFFICES ASSUME source_unit # None, outcome' # "ok"
                 PROVE  focused_win = WIN_SOURCE /\ Units[source_unit + 1].lines = 0
      BY DEF Lacking
    <3>1. focused_win = WIN_SOURCE
      BY <2>3
    <3>2. selected_comp_unit_index < Len(Units)
      BY <1>1, Sizes DEF Agreed, TuiInv, TypeOK
    <3>3. selected_comp_unit_index \in Int /\ Len(Units) \in Int
      BY Sizes DEF TuiInv, TypeOK, Line
    <3>4. SizeT(line + 1) = 0
      BY <2>3, <3>2, <3>3
    <3>5. buffers[WIN_SOURCE].line_count \in Line
      BY BufferFacts DEF TuiInv, Windows, Buffer
    <3>6. buffers[WIN_SOURCE].line_count = 0
      <4> SUFFICES ASSUME buffers[WIN_SOURCE].line_count > 0 PROVE FALSE
        BY <3>5, Sizes DEF Line
      <4>1. line + 1 \in Line /\ line + 1 > 0
        BY <2>1, <3>1, <3>5, Sizes DEF InBuffer, Line
      <4>2. SizeT(line + 1) = line + 1
        BY <4>1, SizeFacts DEF Line
      <4> QED
        BY <3>4, <4>1, <4>2
    <3> QED
      BY <3>1, <3>6 DEF TuiInv, CountsInv
  <2> QED
    BY <1>3, <2>2, <2>4, <2>5, <2>6, <2>7 DEF TuiInv
<1> QED
  BY <1>4, <1>5, MotionSelects


(* Another section may take the focus, but not from the picker, and the      *)
(* picker gets it only by being shown.                                       *)
LEMMA ChangeSectionStep ==
  ASSUME TuiInv, ChangeSection
  PROVE  TuiInv' /\ Lacking /\ Shown
<1>1. Agreed /\ Tail(msg_queue) = << >>
  BY KeyHandled DEF TuiInv, Handling, msg, ChangeSection
<1>2. /\ msg_queue' = << >>
      /\ UNCHANGED <<input, buffers, source_unit, assembly_unit, selected_comp_unit_index,
                     selected_line_instructions, is_picker_open, window_rows, outcome>>
      /\ outcome = "ok"
  BY <1>1 DEF ChangeSection, Handling
<1>3. focused_win' \in 0..WIN_PICKER /\ (focused_win' = WIN_PICKER <=> focused_win = WIN_PICKER)
  <2>1. focused_win \in 0..4
    BY DEF TuiInv, TypeOK, WIN_PICKER
  <2>2. CASE focused_win = WIN_PICKER
    BY <2>1, <2>2 DEF ChangeSection, WIN_PICKER
  <2>3. CASE focused_win # WIN_PICKER
    <3>1. focused_win' = NextSection(msg.direction)
      BY <2>3 DEF ChangeSection
    <3>2. focused_win \in 0..3
      BY <2>1, <2>3 DEF WIN_PICKER
    <3>3. NextSection(msg.direction) \in 0..3
      BY <3>2 DEF NextSection, SECTION_COLS, SECTION_COUNT
    <3> QED
      BY <2>3, <3>1, <3>3 DEF WIN_PICKER
  <2> QED
    BY <2>2, <2>3
<1>4. Agreed' /\ msg_queue' = << >>
  BY <1>1, <1>2 DEF Agreed
<1>5. QueueInv' /\ Len(msg_queue') <= 3
  BY <1>4 DEF QueueInv
<1>6. TypeOK'
  BY <1>2, <1>3, <1>5 DEF TuiInv, TypeOK
<1>7. (RowsInv /\ CountsInv /\ SelectionInBuffer)'
  BY <1>2 DEF TuiInv, RowsInv, CountsInv, SelectionInBuffer
<1>8. PickerHasFocus'
  BY <1>2, <1>3 DEF TuiInv, PickerHasFocus
<1>9. Lacking /\ Shown
  BY <1>2 DEF Lacking, Shown
<1> QED
  BY <1>5, <1>6, <1>7, <1>8, <1>9 DEF TuiInv

(* Confirming asks for the buffers of a unit, and fails to get them only if  *)
(* there are no units at all: the picker's selection is among its lines.     *)
LEMMA ConfirmStep ==
  ASSUME TuiInv, Confirm
  PROVE  TuiInv' /\ Lacking /\ Shown
<1> DEFINE unit == buffers[WIN_PICKER].selected_line
           exists == unit < Len(Units)
<1>1. Tail(msg_queue) = << >>
  BY KeyHandled DEF TuiInv, Handling, msg, Confirm
<1>2. /\ selected_comp_unit_index' = unit
      /\ msg_queue' = Tail(msg_queue) \o NewBuffers(IF exists THEN unit ELSE None)
      /\ outcome' \in {"ok", "segv"}
      /\ outcome' # "ok" => exists /\ (~Units[unit + 1].readable \/ ~Units[unit + 1].in_text)
      /\ UNCHANGED <<input, buffers, source_unit, assembly_unit,
                     selected_line_instructions, focused_win, is_picker_open, window_rows>>
  BY DEF Confirm
<1>3. unit \in Line
  BY BufferFacts DEF TuiInv, Windows, Buffer
<1>4. ~exists => Units = << >>
  <2>1. buffers[WIN_PICKER].line_count > 0 => unit < buffers[WIN_PICKER].line_count
    BY BufferFacts DEF TuiInv, Windows, InBuffer
  <2>2. ~exists => ~(Len(Units) > 0)
    BY <2>1 DEF TuiInv, CountsInv
  <2>3. Len(Units) = 0 => Units = << >>
    BY EmptySeq, TuiAssumption
  <2> QED
    BY <2>2, <2>3, Sizes
<1> HIDE DEF unit
<1>5. msg_queue' = NewBuffers(IF exists THEN unit ELSE None)
  <2>1. \A u : \E S : NewBuffers(u) \in Seq(S)
    <3>1. \A a, b, c : <<a, b, c>> \in Seq({a, b, c})
      OBVIOUS
    <3> QED
      BY <3>1, Zenon DEF NewBuffers
  <2>2. \A u : << >> \o NewBuffers(u) = NewBuffers(u)
    BY <2>1, ConcatEmptySeq
  <2> QED
    BY <1>1, <1>2, <2>2
<1>6. QueueInv'
  <2>1. CASE exists
    BY <1>2, <1>5, <2>1 DEF QueueInv
  <2>2. CASE ~exists
    BY <1>4, <1>5, <2>2 DEF QueueInv
  <2> QED
    BY <2>1, <2>2
<1>7. Len(msg_queue') <= 3
  <2>1. \A u : Len(NewBuffers(u)) = 3
    BY DEF NewBuffers
  <2> DEFINE u == IF exists THEN unit ELSE None
  <2>2. Len(NewBuffers(u)) <= 3
    BY <2>1
  <2> QED
    BY <1>5, <2>2
<1>8. TypeOK'
  <2>1. outcome' \in {"ok", "assert", "segv"}
    BY <1>2
  <2> QED
    BY <1>2, <1>3, <1>7, <2>1 DEF TuiInv, TypeOK
<1>9. (RowsInv /\ CountsInv /\ SelectionInBuffer /\ PickerHasFocus)'
  BY <1>2 DEF TuiInv, RowsInv, CountsInv, SelectionInBuffer, PickerHasFocus
<1>10. Lacking /\ Shown
  <2>1. Handling("MSG_CONFIRM")
    BY DEF Confirm
  <2> QED
    BY <1>2, <2>1 DEF Lacking, Shown, unit
<1> QED
  BY <1>6, <1>8, <1>9, <1>10 DEF TuiInv

(* The picker takes the focus when it opens, and gives it up when it closes. *)
LEMMA ShowPickerStep ==
  ASSUME TuiInv, ShowPicker
  PROVE  TuiInv' /\ Lacking /\ Shown
<1>1. Agreed /\ Tail(msg_queue) = << >> /\ msg.is_open \in BOOLEAN
  BY KeyHandled DEF TuiInv, Handling, msg, ShowPicker, IsKeyMessage
<1>2. /\ msg_queue' = << >>
      /\ is_picker_open' = msg.is_open /\ focused_win' = FocusAfter(msg.is_open)
      /\ UNCHANGED <<input, buffers, source_unit, assembly_unit, selected_comp_unit_index,
                     selected_line_instructions, window_rows, outcome>>
  BY <1>1 DEF ShowPicker
<1>3. focused_win' \in 0..WIN_PICKER /\ PickerHasFocus'
  BY <1>1, <1>2 DEF TuiInv, TypeOK, PickerHasFocus, FocusAfter, WIN_PICKER, WIN_SOURCE
<1>4. Agreed'
  BY <1>1, <1>2 DEF Agreed
<1>5. QueueInv' /\ Len(msg_queue') <= 3
  BY <1>2, <1>4 DEF QueueInv
<1>6. TypeOK'
  BY <1>1, <1>2, <1>3, <1>5 DEF TuiInv, TypeOK
<1>7. (RowsInv /\ CountsInv /\ SelectionInBuffer)'
  BY <1>2 DEF TuiInv, RowsInv, CountsInv, SelectionInBuffer
<1>8. outcome = "ok" /\ outcome' = "ok"
  BY <1>2 DEF ShowPicker, Handling
<1>9. Lacking /\ Shown
  BY <1>2, <1>8 DEF Lacking, Shown
<1> QED
  BY <1>3, <1>5, <1>6, <1>7, <1>9 DEF TuiInv

(* A window whose lines are replaced shows them from the first one.          *)
LEMMA RefilledFacts ==
  ASSUME TypeOK, RowsInv, SelectionInBuffer, NEW win \in {WIN_SOURCE, WIN_ASSEMBLY}, NEW count \in Line,
         buffers' = [buffers EXCEPT ![win] = Refilled(@, count)]
  PROVE  /\ buffers' \in [Windows -> Buffer] /\ SelectionInBuffer' /\ Shown
         /\ buffers'[win].line_count = count
         /\ \A w \in Windows \ {win} : buffers'[w] = buffers[w]
<1> DEFINE f == Refilled(buffers[win], count)
<1>1. buffers \in [Windows -> Buffer] /\ win \in Windows /\ buffers[win] \in Buffer
  BY BufferFacts DEF Windows
<1>2. 0 \in Line /\ count >= 0
  BY Sizes DEF Line
<1>3. f \in Buffer /\ f.line_count = count /\ f.line_pos = 0 /\ f.selected_line = 0
  BY <1>1, <1>2 DEF Refilled, Buffer
<1>4. buffers' = [buffers EXCEPT ![win] = f]
  OBVIOUS
<1> HIDE DEF f
<1>5. buffers' \in [Windows -> Buffer]
  BY <1>1, <1>3, <1>4
<1>6. buffers'[win] = f /\ \A w \in Windows \ {win} : buffers'[w] = buffers[w]
  BY <1>1, <1>4
<1>7. SelectionInBuffer'
  <2>1. DOMAIN buffers' = Windows /\ DOMAIN buffers = Windows
    BY <1>1, <1>5
  <2> QED
    BY <1>3, <1>6, <2>1 DEF SelectionInBuffer
<1>8. Shown
  <2>1. BufferRows(win) \in 1..(UINT_MODULUS - 1)
    BY RowsFacts
  <2>2. 0 < 0 + BufferRows(win)
    BY <2>1, Sizes
  <2> QED
    BY <1>3, <1>6, <2>2 DEF Shown, Windows
<1> QED
  BY <1>3, <1>5, <1>6, <1>7, <1>8


(* A unit that exists has lines and code that can be counted.                *)
LEMMA UnitCounts ==
  ASSUME NEW unit \in 0..(Len(Units) - 1)
  PROVE  Units[unit + 1].lines \in Line /\ Units[unit + 1].instructions \in Line
<1> DEFINE Unit == [lines : 0..(UINT_MODULUS - 1), instructions : 0..(UINT_MODULUS - 1),
                    readable : BOOLEAN, in_text : BOOLEAN]
<1>1. Units \in Seq(Unit)
  BY TuiAssumption
<1>2. unit + 1 \in 1..Len(Units)
  BY Sizes
<1> HIDE DEF Unit
<1>3. Units[unit + 1] \in Unit
  BY <1>1, <1>2
<1> QED
  BY <1>3, Sizes DEF Unit, Line

(* The source shown is that of the unit selected; there is none to show, and *)
(* none was shown before, only when there are no units.                      *)
LEMMA SetSourceStep ==
  ASSUME TuiInv, SetSourceBuffer
  PROVE  TuiInv' /\ Lacking /\ Shown
<1>1. /\ msg_queue' = Tail(msg_queue)
      /\ UNCHANGED <<input, assembly_unit, selected_comp_unit_index,
                     selected_line_instructions, focused_win, is_picker_open, window_rows>>
  BY DEF SetSourceBuffer
<1>2. \A unit : Len(LaterBuffers(unit)) <= 3
  BY DEF LaterBuffers
<1>3. CASE Units = << >> /\ msg.unit = None /\ Tail(msg_queue) = LaterBuffers(None)
  <2>1. outcome' = "segv" /\ UNCHANGED <<buffers, source_unit>>
    BY <1>3 DEF SetSourceBuffer
  <2>2. QueueInv'
    BY <1>1, <1>3, <2>1 DEF QueueInv
  <2>3. Len(msg_queue') <= 3
    BY <1>1, <1>2, <1>3
  <2>4. TypeOK'
    BY <1>1, <2>1, <2>3 DEF TuiInv, TypeOK
  <2>5. (RowsInv /\ CountsInv /\ SelectionInBuffer /\ PickerHasFocus)'
    BY <1>1, <2>1 DEF TuiInv, RowsInv, CountsInv, SelectionInBuffer, PickerHasFocus
  <2>6. source_unit = None
    <3>1. Len(Units) = 0
      BY <1>3
    <3> QED
      BY <3>1 DEF TuiInv, TypeOK, None
  <2>7. Lacking /\ Shown
    BY <2>1, <2>6 DEF Lacking, Shown
  <2> QED
    BY <2>2, <2>4, <2>5, <2>7 DEF TuiInv
<1>4. CASE /\ selected_comp_unit_index < Len(Units) /\ msg.unit = selected_comp_unit_index
           /\ Tail(msg_queue) = LaterBuffers(selected_comp_unit_index)
  <2> DEFINE unit == selected_comp_unit_index
             count == Units[unit + 1].lines
  <2>1. unit \in 0..(Len(Units) - 1) /\ unit # None
    <3>1. unit \in Line
      BY DEF TuiInv, TypeOK
    <3>2. unit \in Nat /\ unit < Len(Units)
      BY <1>4, <3>1, Sizes DEF Line
    <3>3. Len(Units) \in Nat
      BY Sizes
    <3> HIDE DEF unit
    <3> QED
      BY <3>2, <3>3 DEF None
  <2>2. /\ buffers' = [buffers EXCEPT ![WIN_SOURCE] = Refilled(@, count)]
        /\ source_unit' = unit /\ outcome' = "ok"
    BY <1>4, <2>1 DEF SetSourceBuffer
  <2>3. count \in Line
    BY <2>1, UnitCounts
  <2> HIDE DEF count
  <2>4. /\ buffers' \in [Windows -> Buffer] /\ SelectionInBuffer' /\ Shown
        /\ buffers'[WIN_SOURCE].line_count = count
        /\ \A w \in Windows \ {WIN_SOURCE} : buffers'[w] = buffers[w]
    BY <2>2, <2>3, RefilledFacts DEF TuiInv
  <2>5. QueueInv'
    BY <1>1, <1>4, <2>2 DEF QueueInv
  <2>6. Len(msg_queue') <= 3
    BY <1>1, <1>2, <1>4
  <2>7. TypeOK'
    BY <1>1, <2>1, <2>2, <2>4, <2>6 DEF TuiInv, TypeOK, Windows, Buffer
  <2>8. CountsInv'
    BY <1>1, <2>1, <2>2, <2>4
       DEF TuiInv, CountsInv, Windows, WIN_SOURCE, WIN_ASSEMBLY, WIN_PICKER, count
  <2>9. (RowsInv /\ PickerHasFocus)' /\ Lacking
    BY <1>1, <2>2 DEF TuiInv, RowsInv, PickerHasFocus, Lacking
  <2> QED
    BY <2>4, <2>5, <2>7, <2>8, <2>9 DEF TuiInv
<1> QED
  BY <1>3, <1>4, SourceHandled DEF TuiInv, SetSourceBuffer, Handling, msg

(* The disassembly shown is then that of the same unit, and all agree.       *)
LEMMA SetAssemblyStep ==
  ASSUME TuiInv, SetAssemblyBuffer
  PROVE  TuiInv' /\ Lacking /\ Shown
<1> DEFINE unit == selected_comp_unit_index
           count == Units[unit + 1].instructions
           close == [type |-> "MSG_SHOW_PICKER", is_open |-> FALSE]
<1>1. unit < Len(Units) /\ msg.unit = unit /\ source_unit = unit /\ Tail(msg_queue) = <<close>>
  BY AssemblyHandled DEF TuiInv, SetAssemblyBuffer, Handling, msg
<1>2. /\ buffers' = [buffers EXCEPT ![WIN_ASSEMBLY] = Refilled(@, count)]
      /\ assembly_unit' = unit /\ msg_queue' = <<close>>
      /\ outcome = "ok" /\ outcome' = "ok"
      /\ UNCHANGED <<input, source_unit, selected_comp_unit_index, selected_line_instructions,
                     focused_win, is_picker_open, window_rows>>
  BY <1>1 DEF SetAssemblyBuffer, Handling
<1>3. unit \in 0..(Len(Units) - 1)
  BY <1>1, Sizes DEF TuiInv, TypeOK, Line
<1>4. count \in Line
  BY <1>3, UnitCounts
<1> HIDE DEF count
<1>5. /\ buffers' \in [Windows -> Buffer] /\ SelectionInBuffer' /\ Shown
      /\ buffers'[WIN_ASSEMBLY].line_count = count
      /\ \A w \in Windows \ {WIN_ASSEMBLY} : buffers'[w] = buffers[w]
  BY <1>2, <1>4, RefilledFacts DEF TuiInv
<1>6. QueueInv' /\ Len(msg_queue') <= 3
  <2>1. IsKeyMessage(close)
    BY DEF IsKeyMessage
  <2> HIDE DEF close
  <2>2. msg' = close /\ msg_queue' = <<close>> /\ Len(msg_queue') <= 3
    BY <1>2 DEF msg
  <2>3. Agreed'
    BY <1>1, <1>2 DEF Agreed
  <2> QED
    BY <2>1, <2>2, <2>3 DEF QueueInv
<1>7. TypeOK'
  BY <1>2, <1>3, <1>5, <1>6 DEF TuiInv, TypeOK, Windows, Buffer
<1>8. CountsInv'
  <2>1. assembly_unit' # None
    BY <1>2, <1>3, Sizes DEF None
  <2> QED
    BY <1>2, <1>5, <2>1
       DEF TuiInv, CountsInv, Windows, WIN_SOURCE, WIN_ASSEMBLY, WIN_PICKER, count
<1>9. (RowsInv /\ PickerHasFocus)' /\ Lacking
  BY <1>2 DEF TuiInv, RowsInv, PickerHasFocus, Lacking
<1> QED
  BY <1>5, <1>6, <1>7, <1>8, <1>9 DEF TuiInv

(* A breakpoint is asked for by the line or the instruction that is selected:*)
(* there is none only where the window has no lines, and it lies outside     *)
(* .text only in a unit with code there.                                     *)
LEMMA ToggleStep ==
  ASSUME TuiInv, ToggleBreakpoint
  PROVE  TuiInv' /\ Lacking /\ Shown
<1>0. Handling("MSG_TOGGLE_BREAKPOINT")
  BY DEF ToggleBreakpoint
<1>1. Agreed /\ Tail(msg_queue) = << >>
  BY KeyHandled DEF TuiInv, Handling, msg, ToggleBreakpoint
<1>2. msg_queue' = << >> /\ outcome = "ok" /\ UNCHANGED <<input, model_vars, window_rows>>
  BY <1>1 DEF ToggleBreakpoint, Handling
<1>3. \A w \in Windows : /\ buffers[w].selected_line \in Line /\ buffers[w].line_count \in Line
                         /\ InBuffer(buffers[w], buffers[w].selected_line)
  BY BufferFacts DEF TuiInv, Buffer
<1>4. outcome' \in {"ok", "assert", "segv"} /\ Lacking
  <2>1. CASE focused_win = WIN_SOURCE
    <3> DEFINE sel == buffers[WIN_SOURCE].selected_line
           found == LookupOutcome(selected_comp_unit_index, SizeT(sel + 1))
    <3>1. outcome' \in IF found = "ok" THEN ToggleOutcomes(selected_comp_unit_index) ELSE {found}
      <4> HIDE DEF LookupOutcome, ToggleOutcomes
      <4> QED
        BY <2>1 DEF ToggleBreakpoint, WIN_SOURCE, WIN_ASSEMBLY
    <3>2. source_unit # None => selected_comp_unit_index < Len(Units)
      BY <1>1, Sizes DEF Agreed, TuiInv, TypeOK
    <3>3. selected_comp_unit_index \in Int /\ Len(Units) \in Int
      BY Sizes DEF TuiInv, TypeOK, Line
    <3>4. SizeT(sel + 1) = 0 => buffers[WIN_SOURCE].line_count = 0
      <4> SUFFICES ASSUME buffers[WIN_SOURCE].line_count # 0 PROVE SizeT(sel + 1) # 0
        OBVIOUS
      <4>1. sel + 1 \in Line /\ sel + 1 > 0
        BY <1>3, Sizes DEF InBuffer, Line, Windows
      <4>2. SizeT(sel + 1) = sel + 1
        BY <4>1, SizeFacts DEF Line
      <4> QED
        BY <4>1, <4>2
    <3> HIDE DEF sel
    <3>5. found \in {"ok", "assert", "segv"} /\ outcome' \in {"ok", "assert", "segv"}
      BY <3>1 DEF LookupOutcome, ToggleOutcomes
    <3>6. source_unit # None /\ found # "ok" => Units[source_unit + 1].lines = 0
      BY <3>2, <3>3, <3>4 DEF LookupOutcome, TuiInv, CountsInv
    <3>7. source_unit # None /\ found = "ok" /\ outcome' # "ok" => ~Units[source_unit + 1].in_text
      BY <1>1, <3>1 DEF ToggleOutcomes, Agreed
    <3> HIDE DEF found
    <3> QED
      BY <1>0, <2>1, <3>5, <3>6, <3>7 DEF Lacking
  <2>2. CASE focused_win = WIN_ASSEMBLY
    <3> DEFINE b == buffers[WIN_ASSEMBLY]
    <3>1. IF b.selected_line < b.line_count THEN outcome' \in ToggleOutcomes(assembly_unit)
                                            ELSE outcome' = "segv"
      BY <2>2 DEF ToggleBreakpoint, WIN_SOURCE, WIN_ASSEMBLY
    <3>2. ~(b.selected_line < b.line_count) => b.line_count = 0
      BY <1>3, Sizes DEF InBuffer, Line, Windows
    <3>3. assembly_unit # None /\ b.line_count = 0 => Units[assembly_unit + 1].instructions = 0
      BY DEF TuiInv, CountsInv
    <3>4. /\ outcome' \in {"ok", "assert", "segv"}
          /\ source_unit # None /\ b.selected_line < b.line_count /\ outcome' # "ok" =>
               ~Units[source_unit + 1].in_text
      BY <1>1, <3>1 DEF ToggleOutcomes, Agreed
    <3> HIDE DEF b
    <3> QED
      BY <1>0, <2>2, <3>2, <3>3, <3>4 DEF Lacking
  <2>3. CASE focused_win \notin {WIN_SOURCE, WIN_ASSEMBLY}
    <3>1. outcome' = "ok"
      BY <2>3 DEF ToggleBreakpoint
    <3> QED
      BY <3>1 DEF Lacking
  <2> QED
    BY <2>1, <2>2, <2>3
<1>5. Agreed'
  BY <1>1, <1>2 DEF Agreed, model_vars
<1>6. QueueInv' /\ Len(msg_queue') <= 3
  BY <1>2, <1>5 DEF QueueInv
<1>7. TypeOK'
  BY <1>2, <1>4, <1>6 DEF TuiInv, TypeOK, model_vars
<1>8. (RowsInv /\ CountsInv /\ SelectionInBuffer /\ PickerHasFocus)' /\ Shown
  BY <1>2 DEF TuiInv, RowsInv, CountsInv, SelectionInBuffer, PickerHasFocus, Shown, model_vars
<1> QED
  BY <1>4, <1>6, <1>7, <1>8 DEF TuiInv

(* The other messages leave the windows alone, and only running the debuggee *)
(* may end the debugger.                                                     *)
LEMMA OtherMessageStep ==
  ASSUME TuiInv, RunDebuggee \/ OtherMessage
  PROVE  TuiInv' /\ Lacking /\ Shown
<1>1. Agreed /\ Tail(msg_queue) = << >>
  BY KeyHandled DEF TuiInv, Handling, msg, RunDebuggee, OtherMessage
<1>2. /\ msg_queue' = << >> /\ outcome' \in {"ok", "segv"}
      /\ UNCHANGED <<input, model_vars, window_rows>>
      /\ outcome' # "ok" => Handling("MSG_RUN_DEBUGGEE")
  BY <1>1 DEF RunDebuggee, OtherMessage, Handling
<1>3. Agreed'
  BY <1>1, <1>2 DEF Agreed, model_vars
<1>4. QueueInv' /\ Len(msg_queue') <= 3
  BY <1>2, <1>3 DEF QueueInv
<1>5. TypeOK'
  BY <1>2, <1>4 DEF TuiInv, TypeOK, model_vars
<1>6. (RowsInv /\ CountsInv /\ SelectionInBuffer /\ PickerHasFocus)'
  BY <1>2 DEF TuiInv, RowsInv, CountsInv, SelectionInBuffer, PickerHasFocus, model_vars
<1>7. Lacking /\ Shown
  BY <1>2 DEF Lacking, Shown, model_vars
<1> QED
  BY <1>4, <1>5, <1>6, <1>7 DEF TuiInv

(* The first round: nothing is shown but the units to pick from.             *)
LEMMA TuiInit ==
  ASSUME Init
  PROVE  TuiInv
<1> DEFINE Count(w) == IF w = WIN_PICKER THEN Len(Units) ELSE 0
<1>1. 0 \in Line /\ Len(Units) \in Line /\ Len(Units) \in Nat
  BY Sizes DEF Line
<1>2. buffers = [w \in Windows |-> TuiBuffer(Count(w))]
  BY DEF Init, Windows
<1>3. \A w \in Windows : TuiBuffer(Count(w)) \in Buffer
  BY <1>1 DEF TuiBuffer, Buffer
<1>4. buffers \in [Windows -> Buffer] /\ DOMAIN buffers = Windows
  BY <1>2, <1>3
<1>5. SelectionInBuffer
  BY <1>1, <1>2, <1>4 DEF SelectionInBuffer, TuiBuffer
<1>6. TypeOK
  <2>1. << >> \in Seq(Typed) /\ Len(<< >>) < MAX_INPUT_BUFFER /\ Len(<< >>) <= 3
    BY Sizes
  <2>2. input \in Seq(Typed) /\ Len(input) < MAX_INPUT_BUFFER /\ Len(msg_queue) <= 3
    BY <2>1 DEF Init
  <2>3. focused_win \in 0..WIN_PICKER /\ is_picker_open \in BOOLEAN
    <3>1. is_picker_open = FALSE
      BY DEF Init
    <3>2. focused_win \in 0..WIN_PICKER
      BY DEF Init, WIN_SOURCE, WIN_PICKER
    <3> QED
      BY <3>1, <3>2
  <2>4. window_rows \in {0} \cup Terminals
    BY DEF Init
  <2>5. /\ source_unit = None /\ assembly_unit = None /\ selected_comp_unit_index \in Line
        /\ selected_line_instructions = << >> /\ outcome = "ok"
    BY <1>1 DEF Init
  <2> QED
    BY <1>4, <2>2, <2>3, <2>4, <2>5 DEF TypeOK, Windows, Buffer, Typed
<1>7. CountsInv
  <2>1. buffers[WIN_PICKER].line_count = Len(Units)
    BY <1>2 DEF Windows, TuiBuffer
  <2>2. buffers[WIN_SOURCE].line_count = 0 /\ buffers[WIN_ASSEMBLY].line_count = 0
    BY <1>2 DEF Windows, TuiBuffer, WIN_SOURCE, WIN_ASSEMBLY, WIN_PICKER
  <2>3. source_unit = None /\ assembly_unit = None
    BY DEF Init
  <2> QED
    BY <2>1, <2>2, <2>3 DEF CountsInv
<1>8. RowsInv /\ QueueInv /\ PickerHasFocus
  BY DEF Init, RowsInv, QueueInv, Agreed, PickerHasFocus, WIN_SOURCE, WIN_PICKER
<1> QED
  BY <1>5, <1>6, <1>7, <1>8 DEF TuiInv

(* Every step keeps the invariant, shows the selection it moves, and ends the*)
(* debugger in no way but the named ones.                                    *)
LEMMA TuiStep ==
  ASSUME TuiInv, Next
  PROVE  TuiInv' /\ (vars' = vars \/ (Lacking /\ Shown))
<1>1. CASE Ended
  <2>1. UNCHANGED vars
    BY <1>1 DEF Ended
  <2>2. (TypeOK /\ RowsInv /\ CountsInv /\ SelectionInBuffer /\ PickerHasFocus)'
    BY <2>1 DEF TuiInv, TypeOK, RowsInv, CountsInv, SelectionInBuffer, PickerHasFocus,
                vars, model_vars
  <2>3. QueueInv'
    BY <2>1 DEF TuiInv, QueueInv, Agreed, msg, vars, model_vars
  <2> QED
    BY <2>1, <2>2, <2>3 DEF TuiInv
<1>2. CASE PressKey \/ ResizeKey
  BY <1>2, KeyStep
<1>3. CASE BufferMotion \/ GoToBufferLine
  BY <1>3, MotionStep
<1>4. CASE ChangeSection
  BY <1>4, ChangeSectionStep
<1>5. CASE Confirm
  BY <1>5, ConfirmStep
<1>6. CASE ShowPicker
  BY <1>6, ShowPickerStep
<1>7. CASE SetSourceBuffer
  BY <1>7, SetSourceStep
<1>8. CASE SetAssemblyBuffer
  BY <1>8, SetAssemblyStep
<1>9. CASE ToggleBreakpoint
  BY <1>9, ToggleStep
<1>10. CASE RunDebuggee \/ OtherMessage
  BY <1>10, OtherMessageStep
<1> QED
  BY <1>1, <1>2, <1>3, <1>4, <1>5, <1>6, <1>7, <1>8, <1>9, <1>10 DEF Next

(* A step that changes nothing keeps the invariant.                          *)
LEMMA TuiStutter ==
  ASSUME TuiInv, UNCHANGED vars
  PROVE  TuiInv'
<1>1. (TypeOK /\ RowsInv /\ CountsInv /\ SelectionInBuffer /\ PickerHasFocus)'
  BY DEF TuiInv, TypeOK, RowsInv, CountsInv, SelectionInBuffer, PickerHasFocus,
         vars, model_vars
<1>2. QueueInv'
  BY DEF TuiInv, QueueInv, Agreed, msg, vars, model_vars
<1> QED
  BY <1>1, <1>2 DEF TuiInv

(* The invariant holds in every state.                                       *)
THEOREM TuiInvariant == Spec => []TuiInv
<1>1. TuiInv /\ [Next]_vars => TuiInv'
  BY TuiStep, TuiStutter
<1> QED
  BY <1>1, TuiInit, PTL DEF Spec

-----------------------------------------------------------------------------
(* What follows from it.                                                     *)

(* Every variable of the interface has its type: lines and scroll positions  *)
(* are sizes, the last byte of the input buffer is never written, and the    *)
(* focus is on a window.                                                     *)
THEOREM TuiTypeCorrect == Spec => []TypeOK
<1>1. TuiInv => TypeOK
  BY DEF TuiInv
<1> QED
  BY <1>1, TuiInvariant, PTL

(* The selection of a window with lines is one of them, and the window never *)
(* starts below it, whatever is typed and however the terminal is resized.   *)
THEOREM SelectionsInBuffers == Spec => []SelectionInBuffer
<1>1. TuiInv => SelectionInBuffer
  BY DEF TuiInv
<1> QED
  BY <1>1, TuiInvariant, PTL

(* The picker has the focus exactly while it is open.                        *)
THEOREM PickerIsFocused == Spec => []PickerHasFocus
<1>1. TuiInv => PickerHasFocus
  BY DEF TuiInv
<1> QED
  BY <1>1, TuiInvariant, PTL

(* Between keys, the source, the disassembly and the unit breakpoints are    *)
(* toggled in are of the same unit.                                          *)
THEOREM WindowsShowOneUnit == Spec => []UnitsAgree
<1>1. \A unit : NewBuffers(unit) # << >> /\ LaterBuffers(unit) # << >> /\ <<unit>> # << >>
  BY DEF NewBuffers, LaterBuffers
<1>2. TuiInv => UnitsAgree
  BY <1>1 DEF TuiInv, QueueInv, Agreed, UnitsAgree
<1> QED
  BY <1>2, TuiInvariant, PTL

(* A selection that moves is on the screen afterwards.                       *)
THEOREM MotionsShowSelections == Spec => MotionShowsSelection
<1>1. TuiInv /\ [Next]_vars => [Shown]_vars
  BY TuiStep
<1> QED
  BY <1>1, TuiInvariant, PTL DEF Spec, MotionShowsSelection, Shown

(* Once a unit has been opened, a key ends the debugger only by a start that *)
(* fails, by opening a unit whose source or code cannot be read, by asking   *)
(* for a breakpoint in a unit with code outside .text, or by what needs a    *)
(* line or an instruction of a unit that has none.                           *)
THEOREM OpenedUnitsNeverCrash == Spec => OpenedNeverCrashes
<1>1. TuiInv /\ [Next]_vars => [Lacking]_vars
  BY TuiStep
<1> QED
  BY <1>1, TuiInvariant, PTL DEF Spec, OpenedNeverCrashes, Lacking
===============================================================================
