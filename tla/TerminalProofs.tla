--------------------------- MODULE TerminalProofs ---------------------------
(***************************************************************************)
(* The command line and the cursor, for every size of the screen, every    *)
(* length of a line that it can hold, and every text that commands print.  *)
(***************************************************************************)
EXTENDS Terminal, SequenceTheorems, WellFoundedInduction, TLAPS

-----------------------------------------------------------------------------
\* A set of naturals that is not empty has a least element: the first NUL of a
\* line, and the first character of a text that would go wrong.
LEMMA NatMin ==
  ASSUME NEW T, T \subseteq Nat, T # {}
  PROVE  \E x \in T : \A y \in T : x <= y
<1> DEFINE R == OpToRel(<, Nat)
<1>1. IsWellFoundedOn(R, Nat)
  BY NatLessThanWellFounded
<1>2. \A i, j \in Nat : j < i => <<j, i>> \in R
  BY DEF OpToRel
<1> HIDE DEF R
<1>3. PICK x \in T : \A y \in T : ~ (<<y, x>> \in R)
  BY <1>1, WFMin
<1>4. ASSUME NEW y \in T PROVE x <= y
  <2>1. x \in Nat /\ y \in Nat
    OBVIOUS
  <2>2. ~ (y < x)
    BY <1>2, <1>3, <2>1
  <2> QED
    BY <2>1, <2>2
<1> QED
  BY <1>4

LEMMA SetInduction ==
  ASSUME NEW S, 0 \in S, \A n \in Nat : n \in S => n + 1 \in S
  PROVE  Nat \subseteq S
<1> SUFFICES ASSUME Nat \ S # {} PROVE FALSE
  OBVIOUS
<1>1. PICK x \in Nat \ S : \A y \in Nat \ S : x <= y
  BY NatMin
<1>2. x - 1 \in Nat /\ x - 1 \notin Nat \ S
  BY <1>1
<1> QED
  BY <1>1, <1>2

-----------------------------------------------------------------------------
(***************************************************************************)
(* The line.  What Enter runs does not depend on kernel_main.              *)
(***************************************************************************)
Chars == Letters \cup {TAB, NUL}

\* A byte of command[] is the key typed there or was cleared; behind
\* cmd_index there is nothing.
Line ==
  /\ typed \in Seq(Chars) /\ cmd_index \in 0 .. CMD /\ Len(typed) = cmd_index
  /\ command \in [0 .. (CMD - 1) -> Chars]
  /\ \A k \in 0 .. (CMD - 1) :
       command[k] = NUL \/ (k < cmd_index /\ command[k] = typed[k + 1])

LEMMA LineInit == Init => Line
<1> SUFFICES ASSUME Init PROVE Line
  OBVIOUS
<1>1. typed = << >> /\ cmd_index = 0 /\ command = [n \in 0 .. (CMD - 1) |-> NUL]
  BY DEF Init, cleared
<1>2. NUL \in Chars /\ CMD \in Nat
  BY TerminalAssumption DEF Chars
<1> HIDE DEF Chars
<1>3. typed \in Seq(Chars) /\ Len(typed) = 0
  BY <1>1
<1> QED
  BY <1>1, <1>2, <1>3 DEF Line

\* Backspace and Enter clear the whole line, every other key extends it by
\* one byte.
LEMMA LineStep == Line /\ [Next]_vars => Line'
<1> SUFFICES ASSUME Line, [Next]_vars PROVE Line'
  OBVIOUS
<1>1. CMD \in Nat /\ NUL \in Chars
  BY TerminalAssumption DEF Chars
<1>2. cleared \in [0 .. (CMD - 1) -> Chars] /\ \A k \in 0 .. (CMD - 1) : cleared[k] = NUL
  BY <1>1 DEF cleared
<1>3. ASSUME UNCHANGED <<command, cmd_index, typed>> PROVE Line'
  BY <1>3 DEF Line
<1>4. CASE KeyBackspace
  <2>1. /\ cmd_index > 0 /\ cmd_index' = cmd_index - 1
        /\ typed' = Front(typed) /\ command' = cleared
    BY <1>4 DEF KeyBackspace
  <2> HIDE DEF Chars
  <2>2. typed \in Seq(Chars) /\ cmd_index \in 0 .. CMD /\ Len(typed) = cmd_index
    BY DEF Line
  <2>3. typed' = SubSeq(typed, 1, cmd_index - 1)
    BY <2>1, <2>2 DEF Front
  <2>4. typed' \in Seq(Chars) /\ Len(typed') = cmd_index - 1
    <3> DEFINE m == cmd_index - 1
    <3>1. m \in Nat /\ \A i \in 1 .. m : typed[i] \in Chars
      BY <1>1, <2>1, <2>2
    <3> HIDE DEF m
    <3>2. /\ SubSeq(typed, 1, m) \in Seq(Chars)
          /\ Len(SubSeq(typed, 1, m)) = IF 1 <= m THEN m - 1 + 1 ELSE 0
      BY <3>1, SubSeqProperties
    <3>3. typed' = SubSeq(typed, 1, m)
      BY <2>3 DEF m
    <3>4. Len(typed') = m
      BY <3>1, <3>2, <3>3
    <3> QED
      BY <3>2, <3>3, <3>4 DEF m
  <2>5. cmd_index' \in 0 .. CMD
    BY <1>1, <2>1, <2>2
  <2> QED
    BY <1>2, <2>1, <2>4, <2>5 DEF Line
<1>5. CASE KeyEnter
  <2>1. cmd_index' = 0 /\ typed' = << >> /\ command' = cleared
    BY <1>5 DEF KeyEnter
  <2> HIDE DEF Chars
  <2>2. typed' \in Seq(Chars) /\ Len(typed') = 0
    BY <2>1
  <2> QED
    BY <1>1, <1>2, <2>1, <2>2 DEF Line
<1>6. ASSUME NEW c \in Chars, KeyOther(c) PROVE Line'
  <2>1. /\ cmd_index < CMD /\ command' = [command EXCEPT ![cmd_index] = c]
        /\ cmd_index' = cmd_index + 1 /\ typed' = Append(typed, c)
    BY <1>6 DEF KeyOther
  <2> HIDE DEF Chars
  <2>2. /\ typed \in Seq(Chars) /\ cmd_index \in 0 .. CMD /\ Len(typed) = cmd_index
        /\ command \in [0 .. (CMD - 1) -> Chars]
    BY DEF Line
  <2>3. /\ typed' \in Seq(Chars) /\ Len(typed') = cmd_index + 1
        /\ typed'[cmd_index + 1] = c
        /\ \A i \in 1 .. cmd_index : typed'[i] = typed[i]
    BY <1>6, <2>1, <2>2
  <2>4. ASSUME NEW k \in 0 .. (CMD - 1)
        PROVE  command'[k] = NUL \/ (k < cmd_index' /\ command'[k] = typed'[k + 1])
    <3>1. CASE k = cmd_index
      BY <1>1, <2>1, <2>2, <2>3, <3>1
    <3>2. CASE k # cmd_index
      <4>1. command'[k] = command[k]
        BY <2>1, <2>2, <3>2
      <4>2. command[k] = NUL \/ (k < cmd_index /\ command[k] = typed[k + 1])
        BY DEF Line
      <4>3. k < cmd_index => k + 1 \in 1 .. cmd_index /\ k < cmd_index'
        BY <1>1, <2>1, <2>2
      <4> QED
        BY <2>3, <4>1, <4>2, <4>3
    <3> QED
      BY <3>1, <3>2
  <2>5. command' \in [0 .. (CMD - 1) -> Chars] /\ cmd_index' \in 0 .. CMD
    BY <1>1, <1>6, <2>1, <2>2
  <2> QED
    BY <2>1, <2>3, <2>4, <2>5 DEF Line
<1>7. CASE Main
  <2>1. UNCHANGED <<command, cmd_index, typed>>
    BY <1>7 DEF Main, main_newline, main_load_row, main_store_row, main_scroll,
         main_col_1, main_char, main_add_col, main_write, main_adv, main_tab,
         main_load_col, main_store_col, line
  <2> QED
    BY <1>3, <2>1
<1>8. CASE UNCHANGED vars
  BY <1>3, <1>8 DEF vars
<1> QED
  BY <1>4, <1>5, <1>6, <1>7, <1>8 DEF Next, Key, Chars

\* The line as a C string ends with the first NUL, before which every byte is
\* a typed key.
LEMMA LineIsPrefix == Line => OnlyTypedKeysRun
<1> SUFFICES ASSUME Line PROVE OnlyTypedKeysRun
  OBVIOUS
<1> HIDE DEF Chars
<1>1. /\ typed \in Seq(Chars) /\ cmd_index \in 0 .. CMD /\ Len(typed) = cmd_index
      /\ command \in [0 .. (CMD - 1) -> Chars] /\ CMD \in Nat
      /\ \A k \in 0 .. (CMD - 1) :
           command[k] = NUL \/ (k < cmd_index /\ command[k] = typed[k + 1])
  BY TerminalAssumption DEF Line
<1> DEFINE s == c_string(command)
<1>2. ASSUME NEW n \in 0 .. CMD, s = [k \in 1 .. n |-> command[k - 1]],
             \A k \in 0 .. (n - 1) : command[k] # NUL
      PROVE  IsPrefix(s, typed)
  <2> HIDE DEF s
  <2>1. n \in Nat /\ n <= cmd_index
    <3>1. CASE n = 0
      BY <1>1, <3>1
    <3>2. CASE n # 0
      <4>1. n - 1 \in 0 .. (CMD - 1) /\ n - 1 \in 0 .. (n - 1)
        BY <1>1, <3>2
      <4>2. n - 1 < cmd_index
        BY <1>1, <1>2, <4>1
      <4> QED
        BY <1>1, <4>2
    <3> QED
      BY <3>1, <3>2
  <2>2. \A k \in 1 .. n : s[k] = typed[k] /\ s[k] \in Chars
    <3> SUFFICES ASSUME NEW k \in 1 .. n PROVE s[k] = typed[k] /\ s[k] \in Chars
      OBVIOUS
    <3>1. k - 1 \in 0 .. (n - 1) /\ k - 1 \in 0 .. (CMD - 1) /\ (k - 1) + 1 = k
      BY <1>1, <2>1
    <3>2. s[k] = command[k - 1] /\ command[k - 1] # NUL
      BY <1>2, <3>1
    <3> QED
      BY <1>1, <3>1, <3>2
  <2>3. s \in [1 .. n -> Chars]
    BY <1>2, <2>2
  <2>4. Len(s) = n /\ s \in Seq(Chars)
    BY <2>1, <2>3
  <2> DEFINE a == SubSeq(s, 1, n)
             b == SubSeq(typed, 1, n)
  <2>5. \A k \in 1 .. n : typed[k] \in Chars
    BY <2>2
  <2>6. /\ a \in Seq(Chars) /\ Len(a) = (IF 1 <= n THEN n - 1 + 1 ELSE 0)
        /\ \A k \in 1 .. n - 1 + 1 : a[k] = s[1 + k - 1]
    BY <2>1, <2>2, SubSeqProperties
  <2>7. /\ b \in Seq(Chars) /\ Len(b) = (IF 1 <= n THEN n - 1 + 1 ELSE 0)
        /\ \A k \in 1 .. n - 1 + 1 : b[k] = typed[1 + k - 1]
    BY <2>1, <2>5, SubSeqProperties
  <2> HIDE DEF a, b
  <2>8. Len(a) = Len(b) /\ \A k \in 1 .. Len(a) : a[k] = b[k]
    BY <2>1, <2>2, <2>6, <2>7
  <2>9. a = b
    BY <2>6, <2>7, <2>8, SeqEqual
  <2> QED
    BY <1>1, <2>1, <2>4, <2>9 DEF IsPrefix, a, b
<1>3. CASE \E n \in 0 .. (CMD - 1) : command[n] = NUL
  <2> DEFINE Z == { n \in 0 .. (CMD - 1) : command[n] = NUL }
             m == CHOOSE n \in 0 .. (CMD - 1) :
                    command[n] = NUL /\ \A k \in 0 .. (n - 1) : command[k] # NUL
  <2>1. Z \subseteq Nat /\ Z # {}
    BY <1>3
  <2>2. PICK x \in Z : \A y \in Z : x <= y
    <3> HIDE DEF Z
    <3> QED
      BY <2>1, NatMin
  <2>3. x \in 0 .. (CMD - 1) /\ command[x] = NUL /\ \A k \in 0 .. (x - 1) : command[k] # NUL
    BY <1>1, <2>2
  <2>4. m \in 0 .. (CMD - 1) /\ \A k \in 0 .. (m - 1) : command[k] # NUL
    BY <2>3
  <2>5. s = [k \in 1 .. m |-> command[k - 1]]
    BY <1>3 DEF c_string
  <2> HIDE DEF m
  <2>6. m \in 0 .. CMD
    BY <1>1, <2>4
  <2> QED
    BY <1>2, <2>4, <2>5, <2>6 DEF OnlyTypedKeysRun
<1>4. CASE ~ \E n \in 0 .. (CMD - 1) : command[n] = NUL
  <2>1. s = [k \in 1 .. CMD |-> command[k - 1]]
    BY <1>4 DEF c_string
  <2>2. CMD \in 0 .. CMD /\ \A k \in 0 .. (CMD - 1) : command[k] # NUL
    BY <1>1, <1>4
  <2> QED
    BY <1>2, <2>1, <2>2 DEF OnlyTypedKeysRun
<1> QED
  BY <1>3, <1>4

\* Enter runs a prefix of the keys typed since the last prompt, whatever was
\* erased, on a line of any length and even while kernel_main still prints
\* (each step of NextQuiet is one of Next).
THEOREM OnlyTypedRun == Spec => []OnlyTypedKeysRun
<1>1. Line => OnlyTypedKeysRun
  BY LineIsPrefix
<1> QED
  BY <1>1, LineInit, LineStep, PTL DEF Spec

-----------------------------------------------------------------------------
(***************************************************************************)
(* The cursor.  backspace may take fb_col below 0, where it wraps; signed  *)
(* undoes that, and cell is the position as a number without a width.      *)
(***************************************************************************)
Shade == {BLANK, TEXT, PROMPT, KEY}

TTY == [col : 0 .. (U32 - 1), row : 0 .. (VGA_HEIGHT - 1), screen : [Cells -> Shade]]

signed(c) == IF c < VGA_WIDTH THEN c ELSE c - U32

cell(t) == signed(t.col) + t.row * VGA_WIDTH

last_row == (VGA_HEIGHT - 1) * VGA_WIDTH

\* At least n keys can be erased
Place(t, n) == t \in TTY /\ cell(t) >= n

\* The prompts on the screen are before b
Above(scr, b) == \A i \in Cells : scr[i] = PROMPT => i < b

Good(t, n) == Place(t, n) /\ Above(t.screen, cell(t) - n)

LEMMA ScreenFacts ==
  /\ VGA_WIDTH \in Nat /\ VGA_WIDTH >= 2 /\ VGA_HEIGHT \in Nat /\ VGA_HEIGHT >= 2
  /\ U16 \in Nat /\ U32 \in Nat /\ U16 <= U32 /\ U16 > 0
  /\ last_row \in Nat /\ last_row + VGA_WIDTH < U16
  /\ VGA_WIDTH * VGA_HEIGHT = last_row + VGA_WIDTH
  /\ CMD \in Nat /\ CMD <= last_row
<1>1. /\ VGA_WIDTH \in Nat /\ VGA_WIDTH >= 2 /\ VGA_HEIGHT \in Nat /\ VGA_HEIGHT >= 2
      /\ U16 \in Nat /\ U32 \in Nat \ {0} /\ U32 % U16 = 0
      /\ (VGA_HEIGHT + 1) * VGA_WIDTH < U16
      /\ CMD \in Nat /\ CMD <= last_row
  BY TerminalAssumption DEF last_row
<1>2. last_row \in Nat
  BY <1>1 DEF last_row
<1>3. VGA_WIDTH * VGA_HEIGHT = last_row + VGA_WIDTH
  BY <1>1 DEF last_row
<1>4. (VGA_HEIGHT + 1) * VGA_WIDTH = last_row + VGA_WIDTH + VGA_WIDTH
  BY <1>1 DEF last_row
<1>5. last_row + VGA_WIDTH < U16
  BY <1>1, <1>2, <1>4
<1>6. U16 > 0
  BY <1>1, <1>2, <1>5
<1>7. ASSUME U32 < U16 PROVE FALSE
  BY <1>1, <1>6, <1>7
<1>8. U16 <= U32
  BY <1>1, <1>7
<1> QED
  BY <1>1, <1>2, <1>3, <1>5, <1>6, <1>8

LEMMA RowFacts ==
  ASSUME NEW r \in 0 .. (VGA_HEIGHT - 1)
  PROVE  /\ r * VGA_WIDTH \in Nat /\ r * VGA_WIDTH <= last_row
         /\ r < VGA_HEIGHT - 1 => /\ (r + 1) * VGA_WIDTH = r * VGA_WIDTH + VGA_WIDTH
                                  /\ r * VGA_WIDTH + VGA_WIDTH <= last_row
         /\ ~ (r < VGA_HEIGHT - 1) => r * VGA_WIDTH = last_row
<1>1. VGA_WIDTH \in Nat /\ VGA_HEIGHT \in Nat
  BY ScreenFacts
<1>2. r * VGA_WIDTH \in Nat
  BY <1>1
<1>3. ASSUME NEW a \in Nat, NEW b \in Nat, a <= b PROVE a * VGA_WIDTH <= b * VGA_WIDTH
  <2>1. PICK d \in Nat : b = a + d
    BY <1>3
  <2>2. b * VGA_WIDTH = a * VGA_WIDTH + d * VGA_WIDTH
    BY <1>1, <2>1
  <2>3. d * VGA_WIDTH \in Nat /\ a * VGA_WIDTH \in Nat
    BY <1>1
  <2> QED
    BY <2>2, <2>3
<1>4. (r + 1) * VGA_WIDTH = r * VGA_WIDTH + VGA_WIDTH
  BY <1>1
<1>5. r * VGA_WIDTH <= last_row
  BY <1>1, <1>3 DEF last_row
<1>6. ASSUME r < VGA_HEIGHT - 1 PROVE r * VGA_WIDTH + VGA_WIDTH <= last_row
  <2>1. r + 1 \in Nat /\ VGA_HEIGHT - 1 \in Nat /\ r + 1 <= VGA_HEIGHT - 1
    BY <1>1, <1>6
  <2>2. (r + 1) * VGA_WIDTH <= (VGA_HEIGHT - 1) * VGA_WIDTH
    BY <1>3, <2>1
  <2> QED
    BY <1>4, <2>2 DEF last_row
<1>7. ASSUME ~ (r < VGA_HEIGHT - 1) PROVE r * VGA_WIDTH = last_row
  <2>1. r = VGA_HEIGHT - 1
    BY <1>1, <1>7
  <2> QED
    BY <2>1 DEF last_row
<1> QED
  BY <1>2, <1>4, <1>5, <1>6, <1>7

\* U16 divides U32, so a column that wrapped gives the right position.
LEMMA WrapsTogether ==
  ASSUME NEW a \in Nat, a < U16
  PROVE  a % U16 = a /\ (a + U32) % U16 = a
<1>1. U16 \in Nat /\ U16 > 0 /\ U32 \in Nat /\ U32 % U16 = 0
  BY ScreenFacts, TerminalAssumption
<1>2. a % U16 = a
  BY <1>1
<1> DEFINE k == U32 \div U16
           x == a + U32
           q == x \div U16
           r == x % U16
<1>3. k \in Nat /\ U32 = U16 * k
  BY <1>1
<1>4. q \in Nat /\ r \in 0 .. (U16 - 1) /\ x = U16 * q + r
  BY <1>1
<1>5. x = a + U16 * k
  BY <1>3
<1> HIDE DEF k, x, q, r
<1>6. \A m, n \in Nat : m < n => U16 * m + U16 <= U16 * n
  <2> SUFFICES ASSUME NEW m \in Nat, NEW n \in Nat, m < n PROVE U16 * m + U16 <= U16 * n
    OBVIOUS
  <2>1. PICK d \in Nat : n = m + 1 + d
    <3>1. n - m - 1 \in Nat /\ n = m + 1 + (n - m - 1)
      OBVIOUS
    <3> QED
      BY <3>1
  <2>2. U16 * n = U16 * m + U16 + U16 * d
    BY <1>1, <2>1
  <2>3. U16 * d \in Nat /\ U16 * m \in Nat
    BY <1>1
  <2> QED
    BY <1>1, <2>2, <2>3
<1>7. U16 * q \in Nat /\ U16 * k \in Nat
  BY <1>1, <1>3, <1>4
<1>8. q = k
  <2>1. ~ (q < k) /\ ~ (k < q)
    BY <1>1, <1>3, <1>4, <1>5, <1>6, <1>7
  <2> QED
    BY <1>3, <1>4, <2>1
<1>9. r = a
  BY <1>4, <1>5, <1>7, <1>8
<1> QED
  BY <1>2, <1>9 DEF r, x

\* The position that print_char computes modulo 2^16 is the cell, and that is
\* one of the screen's.
LEMMA PosIsCell ==
  ASSUME NEW t \in TTY, cell(t) >= 0
  PROVE  pos(t) = cell(t) /\ cell(t) \in Cells /\ cell(t) < U16
         /\ signed(t.col) < VGA_WIDTH
<1> DEFINE b == t.row * VGA_WIDTH
<1>1. t.col \in 0 .. (U32 - 1) /\ t.row \in 0 .. (VGA_HEIGHT - 1)
  BY DEF TTY
<1>2. b \in Nat /\ b <= last_row
  BY <1>1, RowFacts
<1>3. cell(t) = signed(t.col) + b /\ pos(t) = (t.col + b) % U16
  BY DEF cell, pos
<1> HIDE DEF b
<1>4. Cells = 0 .. (last_row + VGA_WIDTH - 1)
  BY ScreenFacts DEF Cells
<1>5. signed(t.col) \in Int /\ signed(t.col) < VGA_WIDTH
      /\ t.col = (IF t.col < VGA_WIDTH THEN signed(t.col) ELSE signed(t.col) + U32)
  BY <1>1, ScreenFacts DEF signed
<1>6. cell(t) \in Nat /\ cell(t) < last_row + VGA_WIDTH
  BY <1>2, <1>3, <1>5, ScreenFacts
<1>7. cell(t) \in Cells /\ cell(t) < U16
  BY <1>4, <1>6, ScreenFacts
<1>8. pos(t) = cell(t) % U16 \/ pos(t) = (cell(t) + U32) % U16
  <2>1. t.col + b = cell(t) \/ t.col + b = cell(t) + U32
    BY <1>1, <1>2, <1>3, <1>5, ScreenFacts
  <2> QED
    BY <1>3, <2>1
<1> QED
  BY <1>5, <1>6, <1>7, <1>8, WrapsTogether

\* Moving up the rows moves up the prompts.
LEMMA ScrollFacts ==
  ASSUME NEW scr \in [Cells -> Shade]
  PROVE  /\ scroll(scr) \in [Cells -> Shade]
         /\ \A b \in Int : Above(scr, b) => Above(scroll(scr), b - VGA_WIDTH)
<1>1. \A i \in Cells : i \in Int
  BY ScreenFacts DEF Cells
<1>2. BLANK \in Shade /\ BLANK # PROMPT
  BY DEF Shade, BLANK, PROMPT
<1> HIDE DEF Shade, Cells
<1>3. scroll(scr) \in [Cells -> Shade]
  BY <1>2 DEF scroll
<1>4. ASSUME NEW b \in Int, Above(scr, b), NEW i \in Cells, scroll(scr)[i] = PROMPT
      PROVE  i < b - VGA_WIDTH
  <2>1. i + VGA_WIDTH \in Cells /\ scr[i + VGA_WIDTH] = PROMPT
    BY <1>2, <1>4 DEF scroll
  <2>2. i + VGA_WIDTH < b
    BY <1>4, <2>1 DEF Above
  <2> QED
    BY <1>1, <2>2, ScreenFacts
<1> QED
  BY <1>3, <1>4 DEF Above

\* A line end moves the cursor on by at least one cell with respect to the
\* prompts above it; m keys of the line, or one character being printed when
\* m is -1, lie between them and the cursor.
LEMMA NewlineMoves ==
  ASSUME NEW t \in TTY, NEW m \in Int, -1 <= m, m <= CMD,
         cell(t) >= m, Above(t.screen, cell(t) - m)
  PROVE  /\ newline(t) \in TTY /\ newline(t).col = 1
         /\ cell(newline(t)) >= m + 1 /\ cell(newline(t)) >= 1
         /\ Above(newline(t).screen, cell(newline(t)) - (m + 1))
<1> DEFINE b == t.row * VGA_WIDTH
           u == newline(t)
<1>1. /\ t.col \in 0 .. (U32 - 1) /\ t.row \in 0 .. (VGA_HEIGHT - 1)
      /\ t.screen \in [Cells -> Shade]
  BY DEF TTY
<1>2. /\ b \in Nat /\ b <= last_row
      /\ t.row < VGA_HEIGHT - 1 => /\ (t.row + 1) * VGA_WIDTH = b + VGA_WIDTH
                                   /\ b + VGA_WIDTH <= last_row
      /\ ~ (t.row < VGA_HEIGHT - 1) => b = last_row
  BY <1>1, RowFacts
<1>3. cell(t) = signed(t.col) + b
  BY DEF cell
<1>4. signed(t.col) \in Int /\ signed(t.col) < VGA_WIDTH
  BY <1>1, ScreenFacts DEF signed
<1>5. signed(1) = 1 /\ 1 \in 0 .. (U32 - 1)
  BY ScreenFacts DEF signed
<1> HIDE DEF b
<1>6. \A i \in Cells : i \in Int
  BY ScreenFacts DEF Cells
<1>7. CASE t.row < VGA_HEIGHT - 1
  <2>1. u = [col |-> 1, row |-> t.row + 1, screen |-> t.screen]
    BY <1>7 DEF newline
  <2>2. t.row + 1 \in 0 .. (VGA_HEIGHT - 1)
    BY <1>1, <1>7, ScreenFacts
  <2>3. u \in TTY /\ u.col = 1 /\ u.row = t.row + 1 /\ u.screen = t.screen
    BY <1>1, <1>5, <2>1, <2>2 DEF TTY
  <2>4. cell(u) = 1 + b + VGA_WIDTH
    BY <1>2, <1>5, <1>7, <2>3, ScreenFacts DEF cell
  <2> HIDE DEF u
  <2>5. cell(t) - m < cell(u) - (m + 1) /\ cell(u) >= m + 1 /\ cell(u) >= 1
    BY <1>2, <1>3, <1>4, <2>4, ScreenFacts
  <2>6. Above(u.screen, cell(u) - (m + 1))
    BY <1>2, <1>3, <1>4, <1>6, <2>3, <2>4, <2>5, ScreenFacts DEF Above
  <2> QED
    BY <2>3, <2>5, <2>6 DEF u
<1>8. CASE ~ (t.row < VGA_HEIGHT - 1)
  <2>1. u = [col |-> 1, row |-> t.row, screen |-> scroll(t.screen)]
    BY <1>8 DEF newline
  <2>2. u \in TTY /\ u.col = 1 /\ u.row = t.row /\ u.screen = scroll(t.screen)
    BY <1>1, <1>5, <2>1, ScrollFacts DEF TTY
  <2>3. cell(u) = 1 + last_row
    BY <1>2, <1>5, <1>8, <2>2 DEF cell, b
  <2> HIDE DEF u
  <2> DEFINE d == cell(t) - m
  <2>4. d \in Int /\ d - VGA_WIDTH <= cell(u) - (m + 1)
    BY <1>2, <1>3, <1>4, <1>8, <2>3, ScreenFacts
  <2>5. Above(u.screen, d - VGA_WIDTH)
    BY <1>1, <2>2, <2>4, ScrollFacts
  <2> HIDE DEF d
  <2>6. Above(u.screen, cell(u) - (m + 1))
    BY <1>6, <2>3, <2>4, <2>5, ScreenFacts DEF Above
  <2>7. cell(u) >= m + 1 /\ cell(u) >= 1
    BY <2>3, ScreenFacts
  <2> QED
    BY <2>2, <2>6, <2>7 DEF u
<1> QED
  BY <1>7, <1>8

\* So does cursor_adv, in the row or through a line end; a column that wrapped
\* counts as the end of the row.
LEMMA AdvMoves ==
  ASSUME NEW t \in TTY, NEW m \in Int, -1 <= m, m <= CMD,
         cell(t) >= m, Above(t.screen, cell(t) - m)
  PROVE  /\ cursor_adv(t) \in TTY
         /\ cell(cursor_adv(t)) >= m + 1
         /\ Above(cursor_adv(t).screen, cell(cursor_adv(t)) - (m + 1))
<1> DEFINE b == t.row * VGA_WIDTH
           u == cursor_adv(t)
<1>1. t.col \in 0 .. (U32 - 1) /\ t.row \in 0 .. (VGA_HEIGHT - 1)
  BY DEF TTY
<1>2. CASE t.col < VGA_WIDTH - 1
  <2>1. u = [t EXCEPT !.col = t.col + 1]
    BY <1>2 DEF cursor_adv
  <2>2. t.col + 1 \in 0 .. (U32 - 1) /\ t.col + 1 < VGA_WIDTH /\ t.col < VGA_WIDTH
    BY <1>1, <1>2, ScreenFacts
  <2>3. u \in TTY /\ u.col = t.col + 1 /\ u.row = t.row /\ u.screen = t.screen
    BY <2>1, <2>2 DEF TTY
  <2>4. b \in Nat
    BY <1>1, RowFacts
  <2>5. cell(t) = t.col + b /\ cell(u) = t.col + 1 + b
    BY <2>2, <2>3 DEF cell, signed
  <2> HIDE DEF b, u
  <2>6. cell(u) - (m + 1) = cell(t) - m /\ cell(u) >= m + 1
    BY <1>1, <2>4, <2>5
  <2> QED
    BY <2>3, <2>6 DEF u
<1>3. CASE ~ (t.col < VGA_WIDTH - 1)
  <2>1. u = newline(t)
    BY <1>3 DEF cursor_adv
  <2> QED
    BY <2>1, NewlineMoves
<1> QED
  BY <1>2, <1>3

\* Where one more key could be erased, one less can.
LEMMA Weaken ==
  ASSUME NEW u \in TTY, NEW m \in Int, cell(u) >= m + 1,
         Above(u.screen, cell(u) - (m + 1))
  PROVE  cell(u) >= m /\ Above(u.screen, cell(u) - m)
<1>1. cell(u) \in Int
  <2>1. u.col \in 0 .. (U32 - 1) /\ u.row \in 0 .. (VGA_HEIGHT - 1)
    BY DEF TTY
  <2>2. u.row * VGA_WIDTH \in Nat
    BY <2>1, RowFacts
  <2> QED
    BY <2>1, <2>2, ScreenFacts DEF cell, signed
<1>2. \A i \in Cells : i \in Int
  BY ScreenFacts DEF Cells
<1> QED
  BY <1>1, <1>2 DEF Above

-----------------------------------------------------------------------------
(***************************************************************************)
(* kprint_c.  Its recursion is the function that its definition asks for:  *)
(* for every length of the text there is one, by induction on the length.  *)
(***************************************************************************)
LEMMA PrintUnfolds ==
  ASSUME NEW t, NEW buf, Len(buf) \in Nat
  PROVE  \E f : /\ kprint_c(t, buf) = f[Len(buf)]
                /\ f[0] = t
                /\ \A n \in 1 .. Len(buf) : f[n] = kprint_char(f[n - 1], buf[n])
<1> DEFINE N == Len(buf)
           Def(f, m) == f = [n \in 0 .. m |->
                              IF n = 0 THEN t ELSE kprint_char(f[n - 1], buf[n])]
           S == { m \in Nat : \E f : Def(f, m) }
           printed == CHOOSE f : Def(f, N)
<1>1. 0 \in S
  <2> DEFINE g == [n \in 0 .. 0 |-> t]
  <2>1. g = [n \in 0 .. 0 |-> IF n = 0 THEN t ELSE kprint_char(g[n - 1], buf[n])]
    OBVIOUS
  <2> QED
    BY <2>1
<1>2. ASSUME NEW m \in Nat, m \in S PROVE m + 1 \in S
  <2>1. PICK f : Def(f, m)
    BY <1>2
  <2> DEFINE g == [n \in 0 .. m + 1 |->
                     IF n = m + 1 THEN kprint_char(f[m], buf[m + 1]) ELSE f[n]]
  <2>2. \A n \in 0 .. m : g[n] = f[n]
    OBVIOUS
  <2>3. \A n \in 0 .. m + 1 :
          g[n] = IF n = 0 THEN t ELSE kprint_char(g[n - 1], buf[n])
    <3> SUFFICES ASSUME NEW n \in 0 .. m + 1
                 PROVE  g[n] = IF n = 0 THEN t ELSE kprint_char(g[n - 1], buf[n])
      OBVIOUS
    <3>1. CASE n = m + 1
      <4>1. n - 1 = m /\ n # 0
        BY <3>1
      <4>2. g[n - 1] = f[m]
        BY <2>2, <4>1
      <4>3. g[n] = kprint_char(f[m], buf[n])
        BY <3>1
      <4> QED
        BY <4>1, <4>2, <4>3
    <3>2. CASE n # m + 1
      <4>1. n \in 0 .. m
        BY <3>2
      <4>2. f[n] = IF n = 0 THEN t ELSE kprint_char(f[n - 1], buf[n])
        BY <2>1, <4>1
      <4>3. n # 0 => g[n - 1] = f[n - 1]
        BY <2>2, <4>1
      <4> QED
        BY <2>2, <4>1, <4>2, <4>3
    <3> QED
      BY <3>1, <3>2
  <2>4. Def(g, m + 1)
    <3>1. g = [n \in 0 .. m + 1 |-> g[n]]
      OBVIOUS
    <3> HIDE DEF g
    <3> QED
      BY <2>3, <3>1
  <2>5. m + 1 \in Nat
    OBVIOUS
  <2> HIDE DEF g, Def
  <2> QED
    BY <2>4, <2>5
<1>3. Nat \subseteq S
  <2> HIDE DEF S
  <2> QED
    BY <1>1, <1>2, SetInduction
<1>4. Def(printed, N)
  <2>1. \E f : Def(f, N)
    BY <1>3
  <2> QED
    BY <2>1, Zenon
<1>5. kprint_c(t, buf) = printed[N]
  BY Zenon DEF kprint_c
<1> HIDE DEF printed
<1>6. printed[0] = t
  BY <1>4
<1>7. \A n \in 1 .. N : printed[n] = kprint_char(printed[n - 1], buf[n])
  BY <1>4
<1> QED
  BY <1>5, <1>6, <1>7

\* A cell written at the cursor keeps the screen's type; it is a prompt's only
\* if the character is.
LEMMA WriteFacts ==
  ASSUME NEW t \in TTY, NEW c \in Shade, cell(t) >= 0
  PROVE  LET u == [t EXCEPT !.screen = write_cell(@, pos(t), c)]
         IN /\ u \in TTY /\ cell(u) = cell(t)
            /\ \A i \in Cells : u.screen[i] = IF i = cell(t) THEN c ELSE t.screen[i]
<1> DEFINE u == [t EXCEPT !.screen = write_cell(@, pos(t), c)]
           s == write_cell(t.screen, pos(t), c)
<1>1. pos(t) = cell(t) /\ cell(t) \in Cells
  BY PosIsCell
<1>2. t.screen \in [Cells -> Shade]
  BY DEF TTY
<1>3. s = [t.screen EXCEPT ![cell(t)] = c]
  BY <1>1 DEF write_cell
<1>4. s \in [Cells -> Shade] /\ \A i \in Cells : s[i] = IF i = cell(t) THEN c ELSE t.screen[i]
  <2> HIDE DEF Cells, Shade, s
  <2> QED
    BY <1>1, <1>2, <1>3
<1>5. u = [t EXCEPT !.screen = s]
  OBVIOUS
<1> HIDE DEF s
<1>6. u \in TTY /\ u.screen = s /\ u.col = t.col /\ u.row = t.row
  BY <1>4, <1>5 DEF TTY
<1>7. cell(u) = cell(t)
  BY <1>6 DEF cell
<1> QED
  BY <1>4, <1>6, <1>7

LEMMA CellInt ==
  ASSUME NEW u \in TTY
  PROVE  cell(u) \in Int
<1>1. u.col \in 0 .. (U32 - 1) /\ u.row \in 0 .. (VGA_HEIGHT - 1)
  BY DEF TTY
<1>2. u.row * VGA_WIDTH \in Nat
  BY <1>1, RowFacts
<1> QED
  BY <1>1, <1>2, ScreenFacts DEF cell, signed

LEMMA AdvKeeps ==
  ASSUME NEW t, NEW n \in 0 .. CMD, Good(t, n)
  PROVE  Good(cursor_adv(t), n)
<1>1. t \in TTY /\ cell(t) >= n /\ Above(t.screen, cell(t) - n)
  BY DEF Good, Place
<1>2. n \in Int /\ -1 <= n /\ n <= CMD
  BY ScreenFacts
<1> DEFINE u == cursor_adv(t)
<1>3. u \in TTY /\ cell(u) >= n + 1 /\ Above(u.screen, cell(u) - (n + 1))
  BY <1>1, <1>2, AdvMoves
<1> HIDE DEF u
<1>4. cell(u) >= n /\ Above(u.screen, cell(u) - n)
  BY <1>2, <1>3, Weaken
<1> QED
  BY <1>3, <1>4 DEF Good, Place, u

\* A key or a tab takes the cursor at least as far as the backspace that
\* erases it will take it back.
LEMMA KeyMoves ==
  ASSUME NEW t, NEW n \in 0 .. (CMD - 1), Good(t, n), NEW c \in {TAB, KEY}
  PROVE  Good(kprint_char(t, c), n + 1)
<1>1. t \in TTY /\ cell(t) >= n /\ Above(t.screen, cell(t) - n)
  BY DEF Good, Place
<1>2. n \in Int /\ -1 <= n /\ n <= CMD /\ n + 1 \in 0 .. CMD
  BY ScreenFacts
<1>3. ASSUME NEW u \in TTY, cell(u) >= n, Above(u.screen, cell(u) - n)
      PROVE  Good(cursor_adv(u), n + 1)
  BY <1>2, <1>3, AdvMoves DEF Good, Place
<1>4. CASE c = TAB
  <2>1. kprint_char(t, c) = cursor_adv(cursor_adv(cursor_adv(cursor_adv(t))))
    BY <1>4 DEF kprint_char, tab, TAB, NL
  <2>2. Good(cursor_adv(t), n + 1)
    BY <1>1, <1>3
  <2>3. Good(cursor_adv(cursor_adv(t)), n + 1)
    BY <1>2, <2>2, AdvKeeps
  <2>4. Good(cursor_adv(cursor_adv(cursor_adv(t))), n + 1)
    BY <1>2, <2>3, AdvKeeps
  <2> QED
    BY <1>2, <2>1, <2>4, AdvKeeps
<1>5. CASE c = KEY
  <2> DEFINE u == [t EXCEPT !.screen = write_cell(@, pos(t), c)]
  <2>1. kprint_char(t, c) = cursor_adv(u)
    BY <1>5 DEF kprint_char, TAB, NL, KEY
  <2>2. cell(t) >= 0 /\ KEY \in Shade /\ KEY # PROMPT
    BY <1>1, CellInt, ScreenFacts DEF Shade, KEY, PROMPT
  <2>3. /\ u \in TTY /\ cell(u) = cell(t)
        /\ \A i \in Cells : u.screen[i] = IF i = cell(t) THEN c ELSE t.screen[i]
    BY <1>1, <1>5, <2>2, WriteFacts
  <2> HIDE DEF u
  <2>4. Above(u.screen, cell(u) - n)
    BY <1>1, <1>5, <2>2, <2>3 DEF Above
  <2> QED
    BY <1>1, <1>3, <2>1, <2>3, <2>4
<1> QED
  BY <1>4, <1>5

\* Any character that the kernel prints leaves the cursor on the screen and
\* behind every prompt.
LEMMA CharKeeps ==
  ASSUME NEW t, Good(t, 0), NEW c \in {NL, TAB, TEXT, PROMPT}
  PROVE  Good(kprint_char(t, c), 0)
<1>1. t \in TTY /\ cell(t) >= 0 /\ Above(t.screen, cell(t) - 0) /\ cell(t) \in Int
  BY CellInt DEF Good, Place
<1>2. 0 \in 0 .. CMD /\ CMD \in Nat
  BY ScreenFacts
<1>3. CASE c = NL
  <2> DEFINE u == newline(t)
  <2>1. kprint_char(t, c) = u
    BY <1>3 DEF kprint_char
  <2>2. u \in TTY /\ cell(u) >= 0 + 1 /\ Above(u.screen, cell(u) - (0 + 1))
    BY <1>1, <1>2, NewlineMoves
  <2> HIDE DEF u
  <2>3. cell(u) >= 0 /\ Above(u.screen, cell(u) - 0)
    BY <2>2, Weaken
  <2> QED
    BY <2>1, <2>2, <2>3 DEF Good, Place
<1>4. CASE c = TAB
  <2>1. kprint_char(t, c) = cursor_adv(cursor_adv(cursor_adv(cursor_adv(t))))
    BY <1>4 DEF kprint_char, tab, TAB, NL
  <2>2. Good(cursor_adv(t), 0)
    BY <1>2, AdvKeeps
  <2>3. Good(cursor_adv(cursor_adv(t)), 0)
    BY <1>2, <2>2, AdvKeeps
  <2>4. Good(cursor_adv(cursor_adv(cursor_adv(t))), 0)
    BY <1>2, <2>3, AdvKeeps
  <2> QED
    BY <1>2, <2>1, <2>4, AdvKeeps
<1>5. CASE c \in {TEXT, PROMPT}
  <2> DEFINE u == [t EXCEPT !.screen = write_cell(@, pos(t), c)]
             v == cursor_adv(u)
  <2>1. kprint_char(t, c) = v
    BY <1>5 DEF kprint_char, TAB, NL, TEXT, PROMPT
  <2>2. c \in Shade
    BY <1>5 DEF Shade
  <2>3. /\ u \in TTY /\ cell(u) = cell(t)
        /\ \A i \in Cells : u.screen[i] = IF i = cell(t) THEN c ELSE t.screen[i]
    BY <1>1, <2>2, WriteFacts
  <2> HIDE DEF u
  <2>4. \A i \in Cells : i \in Int
    BY ScreenFacts DEF Cells
  <2>5. Above(u.screen, cell(u) - (-1)) /\ cell(u) >= -1
    BY <1>1, <2>3, <2>4 DEF Above
  <2>6. v \in TTY /\ cell(v) >= -1 + 1 /\ Above(v.screen, cell(v) - (-1 + 1))
    BY <1>2, <2>3, <2>5, AdvMoves
  <2> HIDE DEF v
  <2>7. -1 + 1 = 0
    OBVIOUS
  <2> QED
    BY <2>1, <2>6, <2>7 DEF Good, Place
<1> QED
  BY <1>3, <1>4, <1>5

\* The same for a text of any length.
LEMMA TextKeeps ==
  ASSUME NEW t, Good(t, 0), NEW buf \in Seq({NL, TAB, TEXT, PROMPT})
  PROVE  Good(kprint_c(t, buf), 0)
<1> DEFINE N == Len(buf)
<1>1. N \in Nat
  OBVIOUS
<1>2. PICK f : /\ kprint_c(t, buf) = f[N]
               /\ f[0] = t
               /\ \A n \in 1 .. N : f[n] = kprint_char(f[n - 1], buf[n])
  BY <1>1, PrintUnfolds
<1> DEFINE S == { n \in Nat : n <= N => Good(f[n], 0) }
<1>3. 0 \in S
  BY <1>2
<1>4. ASSUME NEW n \in Nat, n \in S PROVE n + 1 \in S
  <2> SUFFICES ASSUME n + 1 <= N PROVE Good(f[n + 1], 0)
    OBVIOUS
  <2>1. n <= N /\ n + 1 \in 1 .. N /\ (n + 1) - 1 = n
    BY <1>1
  <2>2. Good(f[n], 0)
    BY <1>4, <2>1
  <2> DEFINE C == {NL, TAB, TEXT, PROMPT}
  <2>3. buf[n + 1] \in C
    <3>1. buf \in Seq(C)
      OBVIOUS
    <3> HIDE DEF C
    <3> QED
      BY <2>1, <3>1
  <2>4. f[n + 1] = kprint_char(f[n], buf[n + 1])
    BY <1>2, <2>1
  <2> QED
    BY <2>2, <2>3, <2>4, CharKeeps
<1>5. Nat \subseteq S
  <2> HIDE DEF S
  <2> QED
    BY <1>3, <1>4, SetInduction
<1>6. Good(f[N], 0)
  BY <1>1, <1>5
<1> QED
  BY <1>2, <1>6

LEMMA NewlineKeeps ==
  ASSUME NEW t, Good(t, 0)
  PROVE  Good(newline(t), 0)
BY CharKeeps DEF kprint_char

\* What Enter prints: the reply of a command or nothing, and the prompt.
LEMMA EnterKeeps ==
  ASSUME NEW t, Good(t, 0), NEW cmd, NEW r \in replies
  PROVE  Good(init_prompt(processCommand(t, cmd, r)), 0)
<1> DEFINE C == {NL, TAB, TEXT, PROMPT}
           u == processCommand(t, cmd, r)
<1>1. prompt_text \in Seq(C) /\ r \in Seq(C)
  <2>1. {PROMPT} \subseteq C /\ {NL, TAB, TEXT} \subseteq C
    OBVIOUS
  <2>2. prompt_text \in Seq({PROMPT}) /\ r \in Seq({NL, TAB, TEXT})
    BY TerminalAssumption
  <2> HIDE DEF C
  <2> QED
    BY <2>1, <2>2, SeqMonotonic
<1>2. Good(clear_prompt, 0)
  <2> DEFINE e == clear_prompt
  <2>1. /\ e.col = 1 /\ e.row = 0 /\ e.screen = [i \in Cells |-> BLANK]
        /\ e = [col |-> 1, row |-> 0, screen |-> [i \in Cells |-> BLANK]]
    BY DEF clear_prompt
  <2>2. 1 \in 0 .. (U32 - 1) /\ 0 \in 0 .. (VGA_HEIGHT - 1) /\ signed(1) = 1
        /\ 0 * VGA_WIDTH = 0
    BY ScreenFacts DEF signed
  <2>3. BLANK \in Shade /\ BLANK # PROMPT
    BY DEF Shade, BLANK, PROMPT
  <2> HIDE DEF e, Shade, Cells
  <2>4. e \in TTY
    BY <2>1, <2>2, <2>3 DEF TTY
  <2>5. cell(e) = 1
    BY <2>1, <2>2 DEF cell
  <2>6. Above(e.screen, cell(e) - 0)
    BY <2>1, <2>3 DEF Above
  <2> QED
    BY <2>4, <2>5, <2>6 DEF Good, Place, e
<1>3. u = clear_prompt \/ u = newline(t) \/ u = kprint_c(t, r)
  BY DEF processCommand
<1>4. Good(u, 0)
  BY <1>1, <1>2, <1>3, NewlineKeeps, TextKeeps
<1> HIDE DEF u, C
<1>5. Good(newline(u), 0)
  BY <1>4, NewlineKeeps
<1>6. Good(kprint_c(newline(u), prompt_text), 0)
  BY <1>1, <1>5, TextKeeps DEF C
<1> QED
  BY <1>6 DEF init_prompt, u

\* A backspace goes back one cell, into the row before if it must, and the
\* cell it blanks is behind every prompt.
LEMMA BackspaceMoves ==
  ASSUME NEW t, NEW n \in 1 .. CMD, Good(t, n)
  PROVE  /\ Good(backspace(t), n - 1)
         /\ \A i \in Cells : t.screen[i] = PROMPT => backspace(t).screen[i] = PROMPT
<1>1. t \in TTY /\ cell(t) >= n /\ Above(t.screen, cell(t) - n) /\ cell(t) \in Int
  BY CellInt DEF Good, Place
<1> DEFINE b == t.row * VGA_WIDTH
           c == (t.col - 1) % U32
           s == [t EXCEPT !.col = c]
           u == [s EXCEPT !.screen = write_cell(@, pos(s), BLANK)]
<1>2. /\ t.col \in 0 .. (U32 - 1) /\ t.row \in 0 .. (VGA_HEIGHT - 1)
      /\ b \in Nat /\ b <= last_row
  BY <1>1, RowFacts DEF TTY
<1>3. c = IF t.col = 0 THEN U32 - 1 ELSE t.col - 1
  BY <1>2, ScreenFacts
<1>4. cell(t) = signed(t.col) + b /\ signed(c) = signed(t.col) - 1
  <2>1. cell(t) = signed(t.col) + b
    BY DEF cell
  <2> HIDE DEF b, c
  <2>2. signed(t.col) >= 1 - last_row
    BY <1>1, <1>2, <2>1, ScreenFacts DEF signed
  <2> QED
    BY <1>2, <1>3, <2>1, <2>2, ScreenFacts DEF signed
<1>5. backspace(t) = u
  BY DEF backspace
<1>6. c \in 0 .. (U32 - 1)
  BY <1>2, <1>3, ScreenFacts
<1> HIDE DEF c
<1>7. s \in TTY /\ s.col = c /\ s.row = t.row /\ s.screen = t.screen
  BY <1>1, <1>6 DEF TTY
<1>8. cell(s) = cell(t) - 1
  BY <1>2, <1>4, <1>7, ScreenFacts DEF cell, signed
<1> HIDE DEF s
<1>9. BLANK \in Shade /\ BLANK # PROMPT /\ cell(s) >= 0
  BY <1>1, <1>8 DEF Shade, BLANK, PROMPT
<1>10. /\ u \in TTY /\ cell(u) = cell(s)
       /\ \A i \in Cells : u.screen[i] = IF i = cell(s) THEN BLANK ELSE t.screen[i]
  BY <1>7, <1>9, WriteFacts
<1> HIDE DEF u
<1>11. \A i \in Cells : i \in Int
  BY ScreenFacts DEF Cells
<1>12. cell(u) >= n - 1 /\ cell(u) - (n - 1) = cell(t) - n
  BY <1>1, <1>8, <1>10
<1>13. Above(u.screen, cell(u) - (n - 1))
  BY <1>1, <1>9, <1>10, <1>12 DEF Above
<1>14. ASSUME NEW i \in Cells, t.screen[i] = PROMPT PROVE u.screen[i] = PROMPT
  <2>1. i < cell(t) - n
    BY <1>1, <1>14 DEF Above
  <2>2. i # cell(s)
    BY <1>1, <1>8, <1>11, <2>1
  <2> QED
    BY <1>10, <1>14, <2>2
<1> QED
  BY <1>5, <1>10, <1>12, <1>13, <1>14 DEF Good, Place

-----------------------------------------------------------------------------
(***************************************************************************)
(* kernel_main prints before the first key.  What it has still to do is    *)
(* the rest of one character, moves of the cursor and characters.          *)
(***************************************************************************)
Plain == {NL, TAB, TEXT, PROMPT, "adv"}

Pieces ==
  { << >>,
    << "load_row", "store_row", "col_1" >>, << "store_row", "col_1" >>,
    << "scroll", "col_1" >>, << "col_1" >>,
    << "add_col", "write_text", "adv" >>, << "add_col", "write_prompt", "adv" >>,
    << "write_text", "adv" >>, << "write_prompt", "adv" >>,
    << "load_col", "store_col" >>, << "store_col" >> }

Shape == \E p \in Pieces, q \in Seq(Plain) : todo = p \o q

\* What the tests and loads of newline, cursor_adv and print_char established
\* still holds when their stores are made.
Stage ==
  /\ at("load_row") => fb_row < VGA_HEIGHT - 1
  /\ at("store_row") => fb_row < VGA_HEIGHT - 1 /\ reg = fb_row
  /\ at("scroll") => fb_row = VGA_HEIGHT - 1
  /\ at("col_1") => Above(screen, fb_row * VGA_WIDTH)
  /\ at("add_col") => reg = fb_row * VGA_WIDTH
  /\ at("write_text") \/ at("write_prompt") => reg = cell(tty)
  /\ at("load_col") => fb_col < VGA_WIDTH - 1
  /\ at("store_col") => fb_col < VGA_WIDTH - 1 /\ reg = fb_col

\* No key came yet; the character at the cursor may be the prompt's.
Busy ==
  todo # << >> => /\ cmd_index = 0 /\ fb_col \in 1 .. (VGA_WIDTH - 1)
                  /\ Above(screen, cell(tty) + 1)

\* The keys of the line lie between the last prompt and the cursor.
Ready == todo = << >> => Good(tty, cmd_index)

IInv ==
  /\ Line /\ Shape /\ Stage /\ Busy /\ Ready
  /\ tty \in TTY /\ reg \in 0 .. (U32 - 1)

Ops == Plain \cup {"load_row", "store_row", "col_1", "scroll", "add_col",
                   "write_text", "write_prompt", "load_col", "store_col"}

LEMMA ConcatHead ==
  ASSUME NEW S, NEW p \in Seq(S), NEW q \in Seq(S), p # << >>
  PROVE  p \o q # << >> /\ Head(p \o q) = Head(p) /\ Tail(p \o q) = Tail(p) \o q
<1> DEFINE s == p \o q
           t == Tail(p)
<1>1. /\ s \in Seq(S) /\ Len(s) = Len(p) + Len(q)
      /\ \A i \in 1 .. Len(p) + Len(q) : s[i] = IF i <= Len(p) THEN p[i] ELSE q[i - Len(p)]
  BY ConcatProperties
<1>2. Len(p) \in Nat /\ Len(p) >= 1 /\ Len(q) \in Nat
  OBVIOUS
<1> HIDE DEF s
<1>3. s # << >> /\ s[1] = p[1]
  BY <1>1, <1>2
<1>4. Head(s) = Head(p)
  BY <1>1, <1>3
<1>5. /\ t \in Seq(S) /\ Len(t) = Len(p) - 1
      /\ \A i \in 1 .. Len(t) : t[i] = p[i + 1]
  BY HeadTailProperties
<1> HIDE DEF t
<1>6. /\ t \o q \in Seq(S) /\ Len(t \o q) = Len(t) + Len(q)
      /\ \A i \in 1 .. Len(t) + Len(q) : (t \o q)[i] = IF i <= Len(t) THEN t[i] ELSE q[i - Len(t)]
  BY <1>5, ConcatProperties
<1>7. /\ Tail(s) \in Seq(S) /\ Len(Tail(s)) = Len(s) - 1
      /\ \A i \in 1 .. Len(Tail(s)) : Tail(s)[i] = s[i + 1]
  BY <1>1, <1>3, HeadTailProperties
<1>8. Len(Tail(s)) = Len(t \o q)
  BY <1>1, <1>2, <1>5, <1>6, <1>7
<1>9. ASSUME NEW i \in 1 .. Len(Tail(s)) PROVE Tail(s)[i] = (t \o q)[i]
  <2>1. /\ i \in 1 .. Len(t) + Len(q) /\ i + 1 \in 1 .. Len(p) + Len(q)
        /\ i + 1 - Len(p) = i - Len(t) /\ (i + 1 <= Len(p) <=> i <= Len(t))
    BY <1>1, <1>2, <1>5, <1>7
  <2>2. Tail(s)[i] = IF i + 1 <= Len(p) THEN p[i + 1] ELSE q[i + 1 - Len(p)]
    BY <1>1, <1>7, <2>1
  <2>3. (t \o q)[i] = IF i <= Len(t) THEN t[i] ELSE q[i - Len(t)]
    BY <1>6, <2>1
  <2>4. i <= Len(t) => t[i] = p[i + 1]
    BY <1>2, <1>5
  <2> QED
    BY <2>1, <2>2, <2>3, <2>4
<1>10. Tail(s) = t \o q
  BY <1>6, <1>7, <1>8, <1>9, SeqEqual
<1> QED
  BY <1>3, <1>4, <1>10 DEF s, t

LEMMA Tuples ==
  ASSUME NEW S, NEW a \in S, NEW b \in S, NEW c \in S
  PROVE  /\ << >> \in Seq(S) /\ << a >> \in Seq(S)
         /\ << a, b >> \in Seq(S) /\ << a, b, c >> \in Seq(S)
         /\ Head(<< a >>) = a /\ Head(<< a, b >>) = a /\ Head(<< a, b, c >>) = a
         /\ Tail(<< a >>) = << >> /\ Tail(<< a, b >>) = << b >>
         /\ Tail(<< a, b, c >>) = << b, c >>
  OBVIOUS

\* Pieces are done from their front.
Rest(op) ==
  { t \in Pieces \cup {<< "adv" >>} :
      \/ op = "load_row" /\ t = << "store_row", "col_1" >>
      \/ op \in {"store_row", "scroll"} /\ t = << "col_1" >>
      \/ op = "add_col" /\ (t = << "write_text", "adv" >> \/ t = << "write_prompt", "adv" >>)
      \/ op \in {"write_text", "write_prompt"} /\ t = << "adv" >>
      \/ op = "load_col" /\ t = << "store_col" >>
      \/ op \in {"col_1", "store_col"} /\ t = << >> }

LEMMA PieceFacts ==
  /\ Plain \subseteq Ops /\ \A p \in Pieces : p \in Seq(Ops)
  /\ \A p \in Pieces : p # << >> => Head(p) \in Ops \ Plain /\ Tail(p) \in Rest(Head(p))
<1>1. Plain \subseteq Ops
  BY DEF Ops
<1>2. /\ "load_row" \in Ops \ Plain /\ "store_row" \in Ops \ Plain
      /\ "col_1" \in Ops \ Plain /\ "scroll" \in Ops \ Plain
      /\ "add_col" \in Ops \ Plain /\ "write_text" \in Ops \ Plain
      /\ "write_prompt" \in Ops \ Plain /\ "adv" \in Ops
      /\ "load_col" \in Ops \ Plain /\ "store_col" \in Ops \ Plain
  BY DEF Ops, Plain, NL, TAB, TEXT, PROMPT
<1> HIDE DEF Ops, Plain
<1>3. ASSUME NEW p \in Pieces
      PROVE  p \in Seq(Ops) /\ (p # << >> => Head(p) \in Ops \ Plain /\ Tail(p) \in Rest(Head(p)))
  <2>1. CASE p = << >>
    BY <1>2, <2>1, Tuples
  <2>2. CASE p = << "load_row", "store_row", "col_1" >>
    <3>1. p \in Seq(Ops) /\ Head(p) = "load_row" /\ Tail(p) = << "store_row", "col_1" >>
      BY <1>2, <2>2, Tuples
    <3> QED
      BY <1>2, <3>1 DEF Rest, Pieces
  <2>3. CASE p = << "store_row", "col_1" >>
    <3>1. p \in Seq(Ops) /\ Head(p) = "store_row" /\ Tail(p) = << "col_1" >>
      BY <1>2, <2>3, Tuples
    <3> QED
      BY <1>2, <3>1 DEF Rest, Pieces
  <2>4. CASE p = << "scroll", "col_1" >>
    <3>1. p \in Seq(Ops) /\ Head(p) = "scroll" /\ Tail(p) = << "col_1" >>
      BY <1>2, <2>4, Tuples
    <3> QED
      BY <1>2, <3>1 DEF Rest, Pieces
  <2>5. CASE p = << "col_1" >>
    <3>1. p \in Seq(Ops) /\ Head(p) = "col_1" /\ Tail(p) = << >>
      BY <1>2, <2>5, Tuples
    <3> QED
      BY <1>2, <3>1 DEF Rest, Pieces
  <2>6. CASE p = << "add_col", "write_text", "adv" >>
    <3>1. p \in Seq(Ops) /\ Head(p) = "add_col" /\ Tail(p) = << "write_text", "adv" >>
      BY <1>2, <2>6, Tuples
    <3> QED
      BY <1>2, <3>1 DEF Rest, Pieces
  <2>7. CASE p = << "add_col", "write_prompt", "adv" >>
    <3>1. p \in Seq(Ops) /\ Head(p) = "add_col" /\ Tail(p) = << "write_prompt", "adv" >>
      BY <1>2, <2>7, Tuples
    <3> QED
      BY <1>2, <3>1 DEF Rest, Pieces
  <2>8. CASE p = << "write_text", "adv" >>
    <3>1. p \in Seq(Ops) /\ Head(p) = "write_text" /\ Tail(p) = << "adv" >>
      BY <1>2, <2>8, Tuples
    <3> QED
      BY <1>2, <3>1 DEF Rest, Pieces
  <2>9. CASE p = << "write_prompt", "adv" >>
    <3>1. p \in Seq(Ops) /\ Head(p) = "write_prompt" /\ Tail(p) = << "adv" >>
      BY <1>2, <2>9, Tuples
    <3> QED
      BY <1>2, <3>1 DEF Rest, Pieces
  <2>10. CASE p = << "load_col", "store_col" >>
    <3>1. p \in Seq(Ops) /\ Head(p) = "load_col" /\ Tail(p) = << "store_col" >>
      BY <1>2, <2>10, Tuples
    <3> QED
      BY <1>2, <3>1 DEF Rest, Pieces
  <2>11. CASE p = << "store_col" >>
    <3>1. p \in Seq(Ops) /\ Head(p) = "store_col" /\ Tail(p) = << >>
      BY <1>2, <2>11, Tuples
    <3> QED
      BY <1>2, <3>1 DEF Rest, Pieces
  <2> QED
    BY <2>1, <2>2, <2>3, <2>4, <2>5, <2>6, <2>7, <2>8, <2>9, <2>10, <2>11
       DEF Pieces
<1> QED
  BY <1>1, <1>3

\* The next thing to do and what is left behind it
LEMMA Ahead ==
  ASSUME Shape, todo # << >>
  PROVE  \E q \in Seq(Plain) :
           \/ Head(todo) \in Plain /\ Tail(todo) = q
           \/ Head(todo) \in Ops \ Plain /\ \E t \in Rest(Head(todo)) : Tail(todo) = t \o q
<1>1. PICK p \in Pieces, q \in Seq(Plain) : todo = p \o q
  BY DEF Shape
<1>2. p \in Seq(Ops) /\ q \in Seq(Ops)
  BY PieceFacts, SeqMonotonic
<1>3. CASE p = << >>
  <2>1. todo = q
    BY <1>1, <1>2, <1>3, ConcatEmptySeq
  <2>2. Head(q) \in Plain /\ Tail(q) \in Seq(Plain)
    BY <2>1, HeadTailProperties
  <2> QED
    BY <2>1, <2>2
<1>4. CASE p # << >>
  <2>1. Head(todo) = Head(p) /\ Tail(todo) = Tail(p) \o q
    BY <1>1, <1>2, <1>4, ConcatHead
  <2>2. Head(p) \in Ops \ Plain /\ Tail(p) \in Rest(Head(p))
    BY <1>4, PieceFacts
  <2> QED
    BY <2>1, <2>2
<1> QED
  BY <1>3, <1>4

LEMMA NextTodo ==
  ASSUME NEW p \in Pieces, NEW q \in Seq(Plain), todo' = p \o q
  PROVE  /\ Shape'
         /\ p # << >> => todo' # << >> /\ \A op : at(op)' <=> op = Head(p)
         /\ p = << >> => todo' = q /\ \A op \in Ops \ Plain : ~ at(op)'
<1>1. Shape'
  BY DEF Shape, Pieces, Plain
<1>2. p \in Seq(Ops) /\ q \in Seq(Ops)
  BY PieceFacts, SeqMonotonic
<1>3. CASE p = << >>
  <2>1. todo' = q
    BY <1>2, <1>3, ConcatEmptySeq
  <2>2. q # << >> => Head(q) \in Plain
    BY HeadTailProperties
  <2> QED
    BY <1>1, <1>3, <2>1, <2>2 DEF at
<1>4. CASE p # << >>
  <2>1. todo' # << >> /\ Head(todo') = Head(p)
    BY <1>2, <1>4, ConcatHead
  <2> QED
    BY <1>1, <1>4, <2>1 DEF at
<1> QED
  BY <1>3, <1>4

LEMMA AboveMono ==
  ASSUME NEW scr, NEW x \in Int, NEW y \in Int, x <= y, Above(scr, x)
  PROVE  Above(scr, y)
<1>1. \A i \in Cells : i \in Int
  BY ScreenFacts DEF Cells
<1> QED
  BY <1>1 DEF Above

\* Where the cursor is while kernel_main prints
LEMMA BusyFacts ==
  ASSUME IInv, todo # << >>
  PROVE  /\ cmd_index = 0 /\ fb_col \in 1 .. (VGA_WIDTH - 1)
         /\ fb_row \in 0 .. (VGA_HEIGHT - 1) /\ screen \in [Cells -> Shade]
         /\ fb_row * VGA_WIDTH \in Nat /\ fb_row * VGA_WIDTH <= last_row
         /\ cell(tty) = fb_col + fb_row * VGA_WIDTH
         /\ Above(screen, fb_col + fb_row * VGA_WIDTH + 1)
<1>1. /\ cmd_index = 0 /\ fb_col \in 1 .. (VGA_WIDTH - 1)
      /\ Above(screen, cell(tty) + 1) /\ tty \in TTY
  BY DEF IInv, Busy
<1>2. tty.col = fb_col /\ tty.row = fb_row /\ tty.screen = screen
  BY DEF tty
<1>3. fb_row \in 0 .. (VGA_HEIGHT - 1) /\ screen \in [Cells -> Shade]
  BY <1>1, <1>2 DEF TTY
<1>4. fb_row * VGA_WIDTH \in Nat /\ fb_row * VGA_WIDTH <= last_row
  BY <1>3, RowFacts
<1>5. cell(tty) = fb_col + fb_row * VGA_WIDTH
  BY <1>1, <1>2, ScreenFacts DEF cell, signed
<1> QED
  BY <1>1, <1>3, <1>4, <1>5

\* What a step of kernel_main must leave behind
LEMMA Assemble ==
  ASSUME NEW p \in Pieces, NEW q \in Seq(Plain), todo' = p \o q, cmd_index' = 0,
         fb_col' \in 1 .. (VGA_WIDTH - 1), fb_row' \in 0 .. (VGA_HEIGHT - 1),
         screen' \in [Cells -> Shade], reg' \in 0 .. (U32 - 1),
         NEW b, b = fb_row' * VGA_WIDTH,
         NEW x \in Int, Above(screen', x), x <= fb_col' + b + 1,
         todo' = << >> => x <= fb_col' + b,
         Line', Stage'
  PROVE  IInv'
<1>1. b \in Nat
  BY RowFacts
<1>2. tty' = [col |-> fb_col', row |-> fb_row', screen |-> screen']
  BY DEF tty
<1>3. fb_col' \in 0 .. (U32 - 1)
  BY ScreenFacts
<1>4. tty' \in TTY
  <2> HIDE DEF Cells, Shade
  <2> QED
    BY <1>2, <1>3 DEF TTY
<1> DEFINE c == fb_col' + b
           d == c + 1
<1>5. cell(tty)' = c
  BY <1>2, ScreenFacts DEF cell, signed
<1>6. c \in Nat /\ x <= d /\ (todo' = << >> => x <= c)
  <2>1. VGA_WIDTH \in Nat
    BY ScreenFacts
  <2>2. c \in Nat
    <3>1. \A w \in Nat : \A y \in 1 .. (w - 1), z \in Nat : y + z \in Nat
      OBVIOUS
    <3> QED
      BY <1>1, <2>1, <3>1, Zenon
  <2>3. x <= d
    OBVIOUS
  <2>4. todo' = << >> => x <= c
    OBVIOUS
  <2> QED
    BY <2>2, <2>3, <2>4
<1>7. Shape'
  BY NextTodo
<1> HIDE DEF c
<1>8. d \in Int
  BY <1>6
<1> HIDE DEF d
<1>9. Above(screen', d)
  BY <1>6, <1>8, AboveMono
<1>10. Busy'
  BY <1>5, <1>9 DEF Busy, Above, Cells, d
<1>11. ASSUME todo' = << >> PROVE Good(tty, cmd_index)'
  <2>1. tty'.screen = screen' /\ cell(tty') = c
    BY <1>2, <1>5 DEF cell, signed, tty
  <2>2. Above(screen', c)
    BY <1>6, <1>11, AboveMono
  <2>3. c - 0 = c /\ c >= 0
    BY <1>6
  <2>4. Good(tty', 0)
    BY <1>4, <2>1, <2>2, <2>3 DEF Good, Place
  <2> QED
    BY <2>4 DEF Good, Place, cell, signed, Above, TTY, Cells, Shade
<1>12. Ready'
  BY <1>11 DEF Ready
<1> QED
  BY <1>4, <1>7, <1>10, <1>12 DEF IInv, TTY, Cells, Shade

LEMMA Doing ==
  ASSUME Shape, NEW op \in Ops \ Plain, at(op)
  PROVE  \E q \in Seq(Plain) : \E t \in Rest(op) : << >> \o Tail(todo) = t \o q
<1>1. todo # << >> /\ Head(todo) = op
  BY DEF at
<1>2. PICK q \in Seq(Plain) : \E t \in Rest(op) : Tail(todo) = t \o q
  BY <1>1, Ahead
<1>3. PICK t \in Rest(op) : Tail(todo) = t \o q
  BY <1>2
<1>4. t \in Pieces \/ t = << "adv" >>
  BY DEF Rest
<1>5. t \in Seq(Ops) /\ q \in Seq(Ops)
  <2>1. "adv" \in Ops
    BY DEF Ops, Plain
  <2> HIDE DEF Ops, Plain
  <2>2. << "adv" >> \in Seq(Ops)
    BY <2>1
  <2> QED
    BY <1>4, <2>2, PieceFacts, SeqMonotonic
<1>6. t \o q \in Seq(Ops)
  BY <1>5, ConcatProperties
<1>7. << >> \o Tail(todo) = t \o q
  BY <1>3, <1>6, ConcatEmptySeq
<1> QED
  BY <1>3, <1>7

LEMMA DoingPlain ==
  ASSUME Shape, todo # << >>, Head(todo) \in Plain
  PROVE  Tail(todo) \in Seq(Plain)
BY Ahead

LEMMA OpsApart ==
  /\ "load_row" \in Ops \ Plain /\ "store_row" \in Ops \ Plain
  /\ "col_1" \in Ops \ Plain /\ "scroll" \in Ops \ Plain
  /\ "add_col" \in Ops \ Plain /\ "write_text" \in Ops \ Plain
  /\ "write_prompt" \in Ops \ Plain
  /\ "load_col" \in Ops \ Plain /\ "store_col" \in Ops \ Plain
BY DEF Ops, Plain, NL, TAB, TEXT, PROMPT

\* Nothing happens between the pieces but the pieces: a newline that found a
\* row left still finds it when it stores the row.
LEMMA NewlinePieces ==
  ASSUME IInv, Line', cmd_index' = 0,
         main_newline \/ main_load_row \/ main_store_row \/ main_scroll \/ main_col_1
  PROVE  IInv'
<1>1. todo # << >> /\ Shape /\ Stage /\ reg \in 0 .. (U32 - 1)
  BY DEF IInv, main_newline, main_load_row, main_store_row, main_scroll, main_col_1, at
<1> DEFINE b == fb_row * VGA_WIDTH
           x == fb_col + b + 1
<1>2. /\ fb_col \in 1 .. (VGA_WIDTH - 1) /\ fb_row \in 0 .. (VGA_HEIGHT - 1)
      /\ screen \in [Cells -> Shade] /\ b \in Nat /\ Above(screen, x)
  BY <1>1, BusyFacts
<1>3. /\ fb_row < VGA_HEIGHT - 1 => (fb_row + 1) * VGA_WIDTH = b + VGA_WIDTH
      /\ fb_row \in 0 .. (U32 - 1) /\ x \in Int /\ x <= b + VGA_WIDTH
  <2>1. fb_row < VGA_HEIGHT - 1 => (fb_row + 1) * VGA_WIDTH = b + VGA_WIDTH
    BY <1>2, RowFacts
  <2>2. b <= last_row /\ fb_row <= b
    <3>1. VGA_WIDTH \in Nat /\ VGA_WIDTH >= 2 /\ fb_row \in Nat
      BY <1>2, ScreenFacts
    <3>2. fb_row * VGA_WIDTH = fb_row + fb_row * (VGA_WIDTH - 1)
      BY <3>1
    <3>3. fb_row * (VGA_WIDTH - 1) \in Nat
      BY <3>1
    <3> QED
      BY <1>2, <3>1, <3>2, <3>3, RowFacts
  <2> HIDE DEF b
  <2>3. fb_row \in 0 .. (U32 - 1)
    BY <1>2, <2>2, ScreenFacts
  <2> QED
    BY <1>2, <2>1, <2>3, ScreenFacts
<1>4. CASE main_newline
  <2>1. Tail(todo) \in Seq(Plain)
    BY <1>1, <1>4, DoingPlain DEF main_newline, at, Plain
  <2>2. /\ UNCHANGED <<fb_col, fb_row, screen, reg>>
        /\ todo' = (IF fb_row < VGA_HEIGHT - 1 THEN << "load_row", "store_row", "col_1" >>
                    ELSE << "scroll", "col_1" >>) \o Tail(todo)
    BY <1>4 DEF main_newline, instead
  <2> DEFINE p == IF fb_row < VGA_HEIGHT - 1 THEN << "load_row", "store_row", "col_1" >>
                  ELSE << "scroll", "col_1" >>
  <2>3. /\ p \in Pieces /\ p # << >>
        /\ Head(p) = IF fb_row < VGA_HEIGHT - 1 THEN "load_row" ELSE "scroll"
    BY DEF Pieces
  <2>4. todo' = p \o Tail(todo)
    BY <2>2
  <2> HIDE DEF p
  <2>5. todo' # << >> /\ \A op : at(op)' <=> op = Head(p)
    BY <2>1, <2>3, <2>4, NextTodo
  <2>6. ~ (fb_row < VGA_HEIGHT - 1) => fb_row = VGA_HEIGHT - 1
    BY <1>2, ScreenFacts
  <2>7. Stage'
    BY <2>2, <2>3, <2>5, <2>6 DEF Stage
  <2>8. /\ fb_col' \in 1 .. (VGA_WIDTH - 1) /\ fb_row' \in 0 .. (VGA_HEIGHT - 1)
        /\ screen' \in [Cells -> Shade] /\ reg' \in 0 .. (U32 - 1)
        /\ Above(screen', x) /\ b = fb_row' * VGA_WIDTH /\ x <= fb_col' + b + 1
    BY <1>1, <1>2, <1>3, <2>2
  <2> HIDE DEF b, x
  <2> QED
    BY <1>3, <2>1, <2>3, <2>4, <2>5, <2>7, <2>8, Assemble
<1>5. CASE main_load_row
  <2>1. PICK q \in Seq(Plain) : \E t \in Rest("load_row") : << >> \o Tail(todo) = t \o q
    BY <1>1, <1>5, Doing, OpsApart DEF main_load_row
  <2> DEFINE p == << "store_row", "col_1" >>
  <2>2. p \in Pieces /\ p # << >> /\ Head(p) = "store_row"
    BY DEF Pieces
  <2>3. << >> \o Tail(todo) = p \o q
    BY <2>1 DEF Rest
  <2>4. /\ UNCHANGED <<fb_col, fb_row, screen>> /\ reg' = fb_row /\ at("load_row")
        /\ todo' = << >> \o Tail(todo)
    BY <1>5 DEF main_load_row, instead
  <2> HIDE DEF p
  <2>5. todo' = p \o q /\ todo' # << >> /\ \A op : at(op)' <=> op = Head(p)
    BY <2>2, <2>3, <2>4, NextTodo
  <2>6. fb_row < VGA_HEIGHT - 1
    BY <1>1, <2>4 DEF Stage
  <2>7. Stage'
    BY <2>2, <2>4, <2>5, <2>6 DEF Stage
  <2>8. /\ fb_col' \in 1 .. (VGA_WIDTH - 1) /\ fb_row' \in 0 .. (VGA_HEIGHT - 1)
        /\ screen' \in [Cells -> Shade] /\ reg' \in 0 .. (U32 - 1)
        /\ Above(screen', x) /\ b = fb_row' * VGA_WIDTH /\ x <= fb_col' + b + 1
    BY <1>2, <1>3, <2>4
  <2> HIDE DEF b, x
  <2> QED
    BY <1>3, <2>2, <2>5, <2>7, <2>8, Assemble
<1>6. CASE main_store_row
  <2>1. PICK q \in Seq(Plain) : \E t \in Rest("store_row") : << >> \o Tail(todo) = t \o q
    BY <1>1, <1>6, Doing, OpsApart DEF main_store_row
  <2> DEFINE p == << "col_1" >>
             d == b + VGA_WIDTH
  <2>2. p \in Pieces /\ p # << >> /\ Head(p) = "col_1"
    BY DEF Pieces
  <2>3. << >> \o Tail(todo) = p \o q
    BY <2>1 DEF Rest
  <2>4. /\ UNCHANGED <<fb_col, screen, reg>> /\ fb_row' = reg + 1 /\ at("store_row")
        /\ todo' = << >> \o Tail(todo)
    BY <1>6 DEF main_store_row, instead
  <2> HIDE DEF p
  <2>5. todo' = p \o q /\ todo' # << >> /\ \A op : at(op)' <=> op = Head(p)
    BY <2>2, <2>3, <2>4, NextTodo
  <2>6. fb_row < VGA_HEIGHT - 1 /\ reg = fb_row
    BY <1>1, <2>4 DEF Stage
  <2>7. d = fb_row' * VGA_WIDTH /\ d \in Int
    BY <1>2, <1>3, <2>4, <2>6, ScreenFacts
  <2>8. Above(screen, d)
    <3> HIDE DEF b, x, d
    <3> QED
      BY <1>2, <1>3, <2>7, AboveMono DEF d
  <2>9. Stage'
    BY <2>2, <2>4, <2>5, <2>7, <2>8 DEF Stage, Above, Cells
  <2>10. /\ fb_col' \in 1 .. (VGA_WIDTH - 1) /\ fb_row' \in 0 .. (VGA_HEIGHT - 1)
         /\ screen' \in [Cells -> Shade] /\ reg' \in 0 .. (U32 - 1)
         /\ Above(screen', d) /\ d <= fb_col' + d + 1
    BY <1>1, <1>2, <1>3, <2>4, <2>6, <2>7, <2>8, ScreenFacts
  <2> HIDE DEF b, x, d
  <2> QED
    BY <2>2, <2>5, <2>7, <2>9, <2>10, Assemble
<1>7. CASE main_scroll
  <2>1. PICK q \in Seq(Plain) : \E t \in Rest("scroll") : << >> \o Tail(todo) = t \o q
    BY <1>1, <1>7, Doing, OpsApart DEF main_scroll
  <2> DEFINE p == << "col_1" >>
             y == x - VGA_WIDTH
  <2>2. p \in Pieces /\ p # << >> /\ Head(p) = "col_1"
    BY DEF Pieces
  <2>3. << >> \o Tail(todo) = p \o q
    BY <2>1 DEF Rest
  <2>4. /\ UNCHANGED <<fb_col, fb_row, reg>> /\ screen' = scroll(screen)
        /\ todo' = << >> \o Tail(todo)
    BY <1>7 DEF main_scroll, instead
  <2> HIDE DEF p
  <2>5. todo' = p \o q /\ todo' # << >> /\ \A op : at(op)' <=> op = Head(p)
    BY <2>2, <2>3, <2>4, NextTodo
  <2> HIDE DEF b, x
  <2>6. y \in Int /\ y <= b
    BY <1>2, <1>3, ScreenFacts
  <2>7. screen' \in [Cells -> Shade] /\ Above(screen', y)
    BY <1>2, <1>3, <2>4, ScrollFacts
  <2> HIDE DEF y
  <2>8. Above(screen', b)
    BY <1>2, <2>6, <2>7, AboveMono
  <2>9. b = fb_row' * VGA_WIDTH
    BY <2>4 DEF b
  <2>10. Stage'
    BY <2>2, <2>5, <2>8, <2>9 DEF Stage, Above, Cells
  <2>11. /\ fb_col' \in 1 .. (VGA_WIDTH - 1) /\ fb_row' \in 0 .. (VGA_HEIGHT - 1)
         /\ reg' \in 0 .. (U32 - 1) /\ b <= fb_col' + b + 1 /\ b \in Int
    BY <1>1, <1>2, <2>4, ScreenFacts
  <2> QED
    BY <2>2, <2>5, <2>7, <2>8, <2>9, <2>10, <2>11, Assemble
<1>8. CASE main_col_1
  <2>1. PICK q \in Seq(Plain) : \E t \in Rest("col_1") : << >> \o Tail(todo) = t \o q
    BY <1>1, <1>8, Doing, OpsApart DEF main_col_1
  <2> DEFINE p == << >>
  <2>2. p \in Pieces
    BY DEF Pieces
  <2>3. << >> \o Tail(todo) = p \o q
    BY <2>1 DEF Rest
  <2>4. /\ UNCHANGED <<fb_row, screen, reg>> /\ fb_col' = 1 /\ at("col_1")
        /\ todo' = << >> \o Tail(todo)
    BY <1>8 DEF main_col_1, instead
  <2>5. todo' = p \o q /\ \A op \in Ops \ Plain : ~ at(op)'
    BY <2>2, <2>3, <2>4, NextTodo
  <2>6. Stage'
    BY <2>5, OpsApart DEF Stage
  <2>7. Above(screen', b) /\ b = fb_row' * VGA_WIDTH
    BY <1>1, <2>4 DEF Stage
  <2> HIDE DEF b, x, p
  <2>8. /\ fb_col' \in 1 .. (VGA_WIDTH - 1) /\ fb_row' \in 0 .. (VGA_HEIGHT - 1)
        /\ screen' \in [Cells -> Shade] /\ reg' \in 0 .. (U32 - 1)
        /\ b \in Int /\ b <= fb_col' + b + 1 /\ b <= fb_col' + b
    BY <1>1, <1>2, <2>4, ScreenFacts
  <2> QED
    BY <2>2, <2>5, <2>6, <2>7, <2>8, Assemble
<1> QED
  BY <1>4, <1>5, <1>6, <1>7, <1>8

\* A character or a move of the cursor is next, for which nothing was tested.
LEMMA PlainNext ==
  ASSUME NEW n \in Seq(Plain), n # << >>, NEW q \in Seq(Plain), todo' = n \o q
  PROVE  \E r \in Seq(Plain) : /\ todo' = << >> \o r /\ todo' # << >> /\ << >> \in Pieces
                               /\ Stage'
<1> DEFINE r == n \o q
           p == << >>
<1>1. p \in Pieces
  BY DEF Pieces
<1>2. r \in Seq(Plain) /\ r # << >>
  BY ConcatProperties, ConcatHead
<1>3. todo' = r
  OBVIOUS
<1> HIDE DEF r
<1>4. todo' = p \o r
  BY <1>2, <1>3, ConcatEmptySeq
<1>5. \A op \in Ops \ Plain : ~ at(op)'
  BY <1>1, <1>2, <1>4, NextTodo
<1>6. Stage'
  BY <1>5, OpsApart DEF Stage
<1> QED
  BY <1>1, <1>2, <1>3, <1>4, <1>6

LEMMA PlainTuples ==
  /\ << NL >> \in Seq(Plain) /\ << "adv" >> \in Seq(Plain)
  /\ << "adv", "adv", "adv", "adv" >> \in Seq(Plain)
<1>1. NL \in Plain /\ "adv" \in Plain
  BY DEF Plain
<1> HIDE DEF Plain
<1> QED
  BY <1>1

\* The same for a character: the cell that print_char computed is the
\* cursor's when it is written, and the column that was loaded is still there
\* when the next one is stored.
LEMMA CharPieces ==
  ASSUME IInv, Line', cmd_index' = 0,
         main_char \/ main_add_col \/ main_write \/ main_adv \/ main_tab
           \/ main_load_col \/ main_store_col
  PROVE  IInv'
<1>1. todo # << >> /\ Shape /\ Stage /\ reg \in 0 .. (U32 - 1)
  BY DEF IInv, main_char, main_add_col, main_write, main_adv, main_tab,
         main_load_col, main_store_col, at
<1> DEFINE b == fb_row * VGA_WIDTH
           c == fb_col + b
           x == fb_col + b + 1
<1>2. /\ fb_col \in 1 .. (VGA_WIDTH - 1) /\ fb_row \in 0 .. (VGA_HEIGHT - 1)
      /\ screen \in [Cells -> Shade] /\ b \in Nat /\ b <= last_row
      /\ Above(screen, x) /\ cell(tty) = c
  BY <1>1, BusyFacts
<1>3. /\ x \in Int /\ b \in 0 .. (U32 - 1) /\ c \in Nat /\ c < U16 /\ c \in Cells
      /\ c \in 0 .. (U32 - 1) /\ fb_col \in 0 .. (U32 - 1)
  <2>1. Cells = 0 .. (last_row + VGA_WIDTH - 1)
    BY ScreenFacts DEF Cells
  <2> HIDE DEF b
  <2> QED
    BY <1>2, <2>1, ScreenFacts
<1>4. CASE main_char
  <2>1. Tail(todo) \in Seq(Plain)
    BY <1>1, <1>4, DoingPlain DEF main_char, Plain
  <2> DEFINE w == IF Head(todo) = TEXT THEN "write_text" ELSE "write_prompt"
             p == << "add_col", w, "adv" >>
  <2>2. p \in Pieces /\ p # << >> /\ Head(p) = "add_col"
    BY DEF Pieces
  <2>3. /\ UNCHANGED <<fb_col, fb_row, screen>> /\ reg' = b /\ todo' = p \o Tail(todo)
    BY <1>4 DEF main_char, instead
  <2> HIDE DEF p
  <2>4. todo' # << >> /\ \A op : at(op)' <=> op = Head(p)
    BY <2>1, <2>2, <2>3, NextTodo
  <2>5. Stage'
    BY <2>2, <2>3, <2>4 DEF Stage
  <2>6. /\ fb_col' \in 1 .. (VGA_WIDTH - 1) /\ fb_row' \in 0 .. (VGA_HEIGHT - 1)
        /\ screen' \in [Cells -> Shade] /\ reg' \in 0 .. (U32 - 1)
        /\ Above(screen', x) /\ b = fb_row' * VGA_WIDTH /\ x <= fb_col' + b + 1
    BY <1>2, <1>3, <2>3
  <2> HIDE DEF b, x
  <2> QED
    BY <1>3, <2>1, <2>2, <2>3, <2>4, <2>5, <2>6, Assemble
<1>5. CASE main_add_col
  <2>1. PICK q \in Seq(Plain) : \E t \in Rest("add_col") : << >> \o Tail(todo) = t \o q
    BY <1>1, <1>5, Doing, OpsApart DEF main_add_col
  <2>2. PICK p \in Rest("add_col") : << >> \o Tail(todo) = p \o q
    BY <2>1
  <2>3. p \in Pieces /\ p # << >> /\ Head(p) \in {"write_text", "write_prompt"}
    BY <2>2 DEF Rest, Pieces
  <2>4. /\ UNCHANGED <<fb_col, fb_row, screen>> /\ reg' = (reg + fb_col) % U16
        /\ todo' = << >> \o Tail(todo) /\ at("add_col")
    BY <1>5 DEF main_add_col, instead
  <2>5. todo' = p \o q /\ todo' # << >> /\ \A op : at(op)' <=> op = Head(p)
    BY <2>2, <2>3, <2>4, NextTodo
  <2>6. reg = b
    BY <1>1, <2>4 DEF Stage
  <2> HIDE DEF b
  <2>7. reg + fb_col = c
    BY <1>2, <2>6, ScreenFacts
  <2> HIDE DEF c
  <2>8. reg' = c
    BY <1>3, <2>4, <2>7, WrapsTogether
  <2>9. tty' = tty
    BY <2>4 DEF tty
  <2>10. cell(tty)' = c
    BY <1>2, <2>9 DEF cell, signed
  <2>11. Stage'
    BY <2>3, <2>5, <2>8, <2>10 DEF Stage
  <2>12. /\ fb_col' \in 1 .. (VGA_WIDTH - 1) /\ fb_row' \in 0 .. (VGA_HEIGHT - 1)
         /\ screen' \in [Cells -> Shade] /\ reg' \in 0 .. (U32 - 1)
         /\ Above(screen', x) /\ b = fb_row' * VGA_WIDTH /\ x <= fb_col' + b + 1
    BY <1>2, <1>3, <2>4, <2>8 DEF b
  <2> HIDE DEF x
  <2> QED
    BY <1>3, <2>2, <2>3, <2>5, <2>11, <2>12, Assemble
<1>6. CASE main_write
  <2>1. PICK k \in {TEXT, PROMPT} :
          /\ at("write_text") \/ at("write_prompt") 
          /\ screen' = write_cell(screen, reg, k)
    BY <1>6 DEF main_write
  <2>2. PICK o \in {"write_text", "write_prompt"} : at(o)
    BY <2>1
  <2>3. o \in Ops \ Plain
    BY OpsApart
  <2>4. PICK q \in Seq(Plain) : \E t \in Rest(o) : << >> \o Tail(todo) = t \o q
    BY <1>1, <2>2, <2>3, Doing
  <2>5. << >> \o Tail(todo) = << "adv" >> \o q
    BY <2>4 DEF Rest
  <2>6. /\ UNCHANGED <<fb_col, fb_row, reg>> /\ todo' = << >> \o Tail(todo)
    BY <1>6 DEF main_write, instead
  <2>7. PICK r \in Seq(Plain) : /\ todo' = << >> \o r /\ todo' # << >>
                                /\ << >> \in Pieces /\ Stage'
    <3> DEFINE n == << "adv" >>
    <3>1. n \in Seq(Plain) /\ n # << >>
      BY PlainTuples
    <3>2. todo' = n \o q
      BY <2>5, <2>6
    <3> HIDE DEF n
    <3> QED
      BY <3>1, <3>2, PlainNext
  <2> DEFINE p == << >>
  <2>8. p \in Pieces /\ todo' = p \o r
    BY <2>7
  <2> HIDE DEF p
  <2>9. todo' # << >> /\ Stage'
    BY <2>7
  <2>10. reg = c
    BY <1>1, <1>2, <2>1 DEF Stage
  <2>11. screen' = [screen EXCEPT ![c] = k]
    BY <1>3, <2>1, <2>10 DEF write_cell
  <2>12. k \in Shade
    BY DEF Shade
  <2>13. x = c + 1 /\ \A i \in Cells : i \in Int
    BY ScreenFacts DEF Cells
  <2> HIDE DEF b, c, x, Cells, Shade
  <2>14. screen' \in [Cells -> Shade]
    BY <1>2, <1>3, <2>11, <2>12
  <2>15. Above(screen', x)
    BY <1>2, <1>3, <2>11, <2>13 DEF Above
  <2>16. /\ fb_col' \in 1 .. (VGA_WIDTH - 1) /\ fb_row' \in 0 .. (VGA_HEIGHT - 1)
         /\ reg' \in 0 .. (U32 - 1) /\ b = fb_row' * VGA_WIDTH
    BY <1>1, <1>2, <2>6 DEF b
  <2>17. x <= fb_col' + b + 1
    BY <1>3, <2>6 DEF x
  <2> QED
    BY <1>3, <2>8, <2>9, <2>14, <2>15, <2>16, <2>17, Assemble
<1>7. CASE main_adv
  <2> DEFINE q == Tail(todo)
  <2>1. q \in Seq(Plain)
    BY <1>1, <1>7, DoingPlain DEF main_adv, at, Plain
  <2>4. /\ UNCHANGED <<fb_col, fb_row, screen, reg>>
        /\ todo' = (IF fb_col < VGA_WIDTH - 1 THEN << "load_col", "store_col" >>
                    ELSE << NL >>) \o q
    BY <1>7 DEF main_adv, instead
  <2> HIDE DEF q
  <2>5. /\ fb_col' \in 1 .. (VGA_WIDTH - 1) /\ fb_row' \in 0 .. (VGA_HEIGHT - 1)
        /\ screen' \in [Cells -> Shade] /\ reg' \in 0 .. (U32 - 1)
        /\ Above(screen', x) /\ b = fb_row' * VGA_WIDTH /\ x <= fb_col' + b + 1
    BY <1>1, <1>2, <1>3, <2>4
  <2>6. CASE fb_col < VGA_WIDTH - 1
    <3> DEFINE p == << "load_col", "store_col" >>
    <3>1. p \in Pieces /\ p # << >> /\ Head(p) = "load_col"
      BY DEF Pieces
    <3>2. todo' = p \o q
      BY <2>4, <2>6
    <3> HIDE DEF p
    <3>3. todo' # << >> /\ \A op : at(op)' <=> op = Head(p)
      BY <2>1, <3>1, <3>2, NextTodo
    <3>4. Stage'
      BY <2>4, <2>6, <3>1, <3>3 DEF Stage
    <3> HIDE DEF b, x
    <3> QED
      BY <1>3, <2>1, <2>5, <3>1, <3>2, <3>3, <3>4, Assemble
  <2>7. CASE ~ (fb_col < VGA_WIDTH - 1)
    <3> DEFINE n == << NL >>
               p == << >>
    <3>1. n \in Seq(Plain) /\ n # << >> /\ todo' = n \o q
      BY <2>4, <2>7, PlainTuples
    <3> HIDE DEF n
    <3>2. PICK r \in Seq(Plain) : /\ todo' = << >> \o r /\ todo' # << >>
                                  /\ << >> \in Pieces /\ Stage'
      BY <2>1, <3>1, PlainNext
    <3>3. p \in Pieces /\ todo' = p \o r
      BY <3>2
    <3> HIDE DEF b, x, p
    <3> QED
      BY <1>3, <2>5, <3>2, <3>3, Assemble
  <2> QED
    BY <2>6, <2>7
<1>8. CASE main_load_col
  <2>1. PICK q \in Seq(Plain) : \E t \in Rest("load_col") : << >> \o Tail(todo) = t \o q
    BY <1>1, <1>8, Doing, OpsApart DEF main_load_col
  <2> DEFINE p == << "store_col" >>
  <2>2. p \in Pieces /\ p # << >> /\ Head(p) = "store_col"
    BY DEF Pieces
  <2>3. << >> \o Tail(todo) = p \o q
    BY <2>1 DEF Rest
  <2>4. /\ UNCHANGED <<fb_col, fb_row, screen>> /\ reg' = fb_col /\ at("load_col")
        /\ todo' = << >> \o Tail(todo)
    BY <1>8 DEF main_load_col, instead
  <2> HIDE DEF p
  <2>5. todo' = p \o q /\ todo' # << >> /\ \A op : at(op)' <=> op = Head(p)
    BY <2>2, <2>3, <2>4, NextTodo
  <2>6. fb_col < VGA_WIDTH - 1
    BY <1>1, <2>4 DEF Stage
  <2>7. Stage'
    BY <2>2, <2>4, <2>5, <2>6 DEF Stage
  <2>8. /\ fb_col' \in 1 .. (VGA_WIDTH - 1) /\ fb_row' \in 0 .. (VGA_HEIGHT - 1)
        /\ screen' \in [Cells -> Shade] /\ reg' \in 0 .. (U32 - 1)
        /\ Above(screen', x) /\ b = fb_row' * VGA_WIDTH /\ x <= fb_col' + b + 1
    BY <1>2, <1>3, <2>4
  <2> HIDE DEF b, x
  <2> QED
    BY <1>3, <2>2, <2>5, <2>7, <2>8, Assemble
<1>9. CASE main_store_col
  <2>1. PICK q \in Seq(Plain) : \E t \in Rest("store_col") : << >> \o Tail(todo) = t \o q
    BY <1>1, <1>9, Doing, OpsApart DEF main_store_col
  <2> DEFINE p == << >>
  <2>2. p \in Pieces
    BY DEF Pieces
  <2>3. << >> \o Tail(todo) = p \o q
    BY <2>1 DEF Rest
  <2>4. /\ UNCHANGED <<fb_row, screen, reg>> /\ fb_col' = (reg + 1) % U32
        /\ at("store_col") /\ todo' = << >> \o Tail(todo)
    BY <1>9 DEF main_store_col, instead
  <2>5. todo' = p \o q /\ \A op \in Ops \ Plain : ~ at(op)'
    BY <2>2, <2>3, <2>4, NextTodo
  <2>6. Stage'
    BY <2>5, OpsApart DEF Stage
  <2>7. fb_col < VGA_WIDTH - 1 /\ reg = fb_col
    BY <1>1, <2>4 DEF Stage
  <2>8. fb_col' = fb_col + 1
    <3>1. fb_col + 1 \in 0 .. (U32 - 1) /\ U32 \in Nat
      BY <1>2, <2>7, ScreenFacts
    <3>2. (fb_col + 1) % U32 = fb_col + 1
      BY <3>1
    <3> QED
      BY <2>4, <2>7, <3>2
  <2>9. Above(screen', x) /\ b = fb_row' * VGA_WIDTH
    BY <1>2, <2>4
  <2> HIDE DEF b, p
  <2>10. /\ fb_col' \in 1 .. (VGA_WIDTH - 1) /\ fb_row' \in 0 .. (VGA_HEIGHT - 1)
         /\ screen' \in [Cells -> Shade] /\ reg' \in 0 .. (U32 - 1)
         /\ x <= fb_col' + b + 1 /\ x <= fb_col' + b
    BY <1>1, <1>2, <2>4, <2>7, <2>8, ScreenFacts
  <2> HIDE DEF x
  <2> QED
    BY <1>3, <2>2, <2>5, <2>6, <2>9, <2>10, Assemble
<1>10. CASE main_tab
  <2> DEFINE q == Tail(todo)
             n == << "adv", "adv", "adv", "adv" >>
             p == << >>
  <2>1. q \in Seq(Plain)
    BY <1>1, <1>10, DoingPlain DEF main_tab, at, Plain
  <2>2. UNCHANGED <<fb_col, fb_row, screen, reg>> /\ todo' = n \o q
    BY <1>10 DEF main_tab, instead
  <2> HIDE DEF q
  <2>3. n \in Seq(Plain) /\ n # << >>
    BY PlainTuples
  <2> HIDE DEF n
  <2>4. PICK r \in Seq(Plain) : /\ todo' = << >> \o r /\ todo' # << >>
                                /\ << >> \in Pieces /\ Stage'
    BY <2>1, <2>2, <2>3, PlainNext
  <2>5. p \in Pieces /\ todo' = p \o r
    BY <2>4
  <2>6. /\ fb_col' \in 1 .. (VGA_WIDTH - 1) /\ fb_row' \in 0 .. (VGA_HEIGHT - 1)
        /\ screen' \in [Cells -> Shade] /\ reg' \in 0 .. (U32 - 1)
        /\ Above(screen', x) /\ b = fb_row' * VGA_WIDTH /\ x <= fb_col' + b + 1
    BY <1>1, <1>2, <1>3, <2>2
  <2> HIDE DEF b, x, p
  <2> QED
    BY <1>3, <2>4, <2>5, <2>6, Assemble
<1> QED
  BY <1>4, <1>5, <1>6, <1>7, <1>8, <1>9, <1>10

LEMMA MainKeeps == IInv /\ Main => IInv'
<1> SUFFICES ASSUME IInv, Main PROVE IInv'
  OBVIOUS
<1>1. todo # << >>
  BY DEF Main, main_newline, main_load_row, main_store_row, main_scroll, main_col_1,
         main_char, main_add_col, main_write, main_adv, main_tab, main_load_col,
         main_store_col, at
<1>2. cmd_index = 0 /\ Line
  BY <1>1 DEF IInv, Busy
<1>3. Line'
  BY <1>2, LineStep DEF Next
<1>4. cmd_index' = 0
  BY <1>2 DEF Main, main_newline, main_load_row, main_store_row, main_scroll, main_col_1,
         main_char, main_add_col, main_write, main_adv, main_tab, main_load_col,
         main_store_col, line
<1> QED
  BY <1>3, <1>4, NewlinePieces, CharPieces DEF Main

\* A key that comes when kernel_main is done.
LEMMA KeyKeeps == IInv /\ todo = << >> /\ Key => IInv'
<1> SUFFICES ASSUME IInv, todo = << >>, Key PROVE IInv'
  OBVIOUS
<1>1. /\ Line /\ Good(tty, cmd_index) /\ tty \in TTY /\ reg \in 0 .. (U32 - 1)
      /\ cmd_index \in 0 .. CMD /\ CMD \in Nat
  BY ScreenFacts DEF IInv, Ready, Line
<1>2. Line'
  BY <1>1, LineStep DEF Next
<1>3. todo' = << >> /\ reg' = reg
  BY DEF Key, KeyBackspace, KeyEnter, KeyOther, handler
<1>4. \E u : show(u) /\ Good(u, cmd_index')
  <2>1. CASE KeyBackspace
    <3>1. cmd_index > 0 /\ cmd_index' = cmd_index - 1 /\ show(backspace(tty))
      BY <2>1 DEF KeyBackspace
    <3>2. cmd_index \in 1 .. CMD
      BY <1>1, <3>1
    <3>3. Good(backspace(tty), cmd_index - 1)
      BY <1>1, <3>2, BackspaceMoves
    <3> QED
      BY <3>1, <3>3
  <2>2. CASE KeyEnter
    <3>1. PICK r \in replies : show(init_prompt(processCommand(tty, command, r)))
      BY <2>2 DEF KeyEnter
    <3>2. cmd_index' = 0
      BY <2>2 DEF KeyEnter
    <3>3. Good(tty, 0)
      <4>1. cell(tty) \in Int /\ cmd_index \in Nat /\ cell(tty) >= cmd_index
            /\ Above(tty.screen, cell(tty) - cmd_index)
        BY <1>1, CellInt DEF Good, Place
      <4>2. cell(tty) >= 0 /\ cell(tty) - cmd_index <= cell(tty) - 0
        BY <4>1
      <4>3. Above(tty.screen, cell(tty) - 0)
        BY <4>1, <4>2, AboveMono
      <4> QED
        BY <1>1, <4>2, <4>3 DEF Good, Place
    <3>4. Good(init_prompt(processCommand(tty, command, r)), 0)
      BY <3>3, EnterKeeps
    <3> QED
      BY <3>1, <3>2, <3>4
  <2>3. ASSUME NEW c \in Letters \cup {TAB, NUL}, KeyOther(c)
        PROVE  \E u : show(u) /\ Good(u, cmd_index')
    <3> DEFINE k == IF c = TAB THEN TAB ELSE KEY
    <3>1. cmd_index < CMD /\ cmd_index' = cmd_index + 1 /\ show(kprint_char(tty, k))
      BY <2>3 DEF KeyOther
    <3>2. cmd_index \in 0 .. (CMD - 1) /\ k \in {TAB, KEY}
      BY <1>1, <3>1
    <3> HIDE DEF k
    <3>3. Good(kprint_char(tty, k), cmd_index + 1)
      BY <1>1, <3>2, KeyMoves
    <3> QED
      BY <3>1, <3>3
  <2> QED
    BY <2>1, <2>2, <2>3 DEF Key
<1>5. PICK u : show(u) /\ Good(u, cmd_index')
  BY <1>4
<1>6. u \in TTY
  BY <1>5 DEF Good, Place
<1>7. tty' = u
  <2>1. u = [col |-> u.col, row |-> u.row, screen |-> u.screen]
    BY <1>6 DEF TTY
  <2> QED
    BY <1>5, <2>1 DEF show, tty
<1>8. Ready' /\ tty' \in TTY
  BY <1>5, <1>6, <1>7 DEF Ready, Good, Place, cell, signed, Above, TTY, Cells, Shade
<1>9. Shape' /\ Stage' /\ Busy'
  <2>1. Shape
    BY DEF IInv
  <2> QED
    BY <1>3, <2>1 DEF Shape, Pieces, Plain, Stage, Busy, at
<1> QED
  BY <1>1, <1>2, <1>3, <1>8, <1>9 DEF IInv, TTY, Cells, Shade

LEMMA InitEstablishes == Init => IInv
<1> SUFFICES ASSUME Init PROVE IInv
  OBVIOUS
<1>1. /\ fb_row = 1 /\ fb_col \in 1 .. (VGA_WIDTH - 1) /\ cmd_index = 0
      /\ screen = [i \in Cells |-> BLANK] /\ reg = 0
      /\ todo = boot_text \o << NL >> \o prompt_text
  BY DEF Init
<1>2. Line
  BY LineInit
<1>3. todo \in Seq(Plain) /\ todo # << >>
  <2>1. boot_text \in Seq(Plain) /\ prompt_text \in Seq(Plain)
    <3>1. {NL, TAB, TEXT} \subseteq Plain /\ {PROMPT} \subseteq Plain
      BY DEF Plain
    <3>2. boot_text \in Seq({NL, TAB, TEXT}) /\ prompt_text \in Seq({PROMPT})
      BY TerminalAssumption
    <3> HIDE DEF Plain
    <3> QED
      BY <3>1, <3>2, SeqMonotonic
  <2> DEFINE n == << NL >>
             s == boot_text \o n
  <2>2. n \in Seq(Plain) /\ n # << >>
    <3>1. NL \in Plain
      BY DEF Plain
    <3> HIDE DEF Plain
    <3> QED
      BY <3>1
  <2>3. todo = s \o prompt_text
    BY <1>1
  <2> HIDE DEF n
  <2>4. s \in Seq(Plain) /\ s # << >>
    BY <2>1, <2>2, ConcatProperties, ConcatEqualIffEmpty
  <2> HIDE DEF s
  <2> QED
    BY <2>1, <2>3, <2>4, ConcatProperties, ConcatEqualIffEmpty
<1>4. Shape
  <2>1. << >> \in Pieces
    BY DEF Pieces
  <2>2. todo = << >> \o todo
    BY <1>3, ConcatEmptySeq
  <2> QED
    BY <1>3, <2>1, <2>2 DEF Shape
<1>5. Stage
  <2>1. Head(todo) \in Plain
    BY <1>3, HeadTailProperties
  <2> QED
    BY <2>1, OpsApart DEF Stage, at
<1>6. tty \in TTY /\ screen \in [Cells -> Shade]
  <2>1. fb_col \in 0 .. (U32 - 1) /\ fb_row \in 0 .. (VGA_HEIGHT - 1) /\ BLANK \in Shade
    BY <1>1, ScreenFacts DEF Shade
  <2> HIDE DEF Shade, Cells
  <2> QED
    BY <1>1, <2>1 DEF tty, TTY
<1>7. Busy
  <2>1. BLANK # PROMPT
    BY DEF BLANK, PROMPT
  <2>2. Above(screen, cell(tty) + 1)
    BY <1>1, <2>1 DEF Above
  <2> QED
    BY <1>1, <2>2 DEF Busy
<1>8. reg \in 0 .. (U32 - 1)
  BY <1>1, ScreenFacts
<1> QED
  BY <1>2, <1>3, <1>4, <1>5, <1>6, <1>7, <1>8 DEF IInv, Ready

LEMMA StepPreserves == IInv /\ [NextQuiet]_vars => IInv'
<1> SUFFICES ASSUME IInv, [NextQuiet]_vars PROVE IInv'
  OBVIOUS
<1>1. CASE UNCHANGED vars
  BY <1>1 DEF vars, IInv, Line, Shape, Stage, Busy, Ready, Good, Place, Above, cell,
         signed, tty, at
<1> QED
  BY <1>1, MainKeeps, KeyKeeps DEF NextQuiet

\* The inductive invariant holds.
THEOREM Invariant == SpecQuiet => []IInv
BY InitEstablishes, StepPreserves, PTL DEF SpecQuiet

\* The fields keep their widths whatever is typed and printed; the row never
\* leaves the screen and the line never leaves command[].
THEOREM TypeCorrect == SpecQuiet => []TypeOK
<1>1. IInv => TypeOK
  <2> SUFFICES ASSUME IInv PROVE TypeOK
    OBVIOUS
  <2>1. tty \in TTY /\ Line /\ reg \in 0 .. (U32 - 1)
    BY DEF IInv
  <2>2. /\ fb_col \in 0 .. (U32 - 1) /\ fb_row \in 0 .. (VGA_HEIGHT - 1)
        /\ screen \in [Cells -> Shade]
    BY <2>1 DEF tty, TTY
  <2>3. fb_row \in Nat
    BY <2>2, ScreenFacts
  <2> QED
    BY <2>1, <2>2, <2>3 DEF TypeOK, Line, Chars, Shade
<1> QED
  BY <1>1, Invariant, PTL

\* Backspaces may wrap fb_col below 0, but the cell they and print_char write
\* to is on the screen.
THEOREM CursorStaysOnScreen == SpecQuiet => []CursorOnScreen
<1>1. IInv => CursorOnScreen
  <2> SUFFICES ASSUME IInv PROVE CursorOnScreen
    OBVIOUS
  <2>1. tty \in TTY
    BY DEF IInv
  <2>2. cell(tty) >= 0
    <3>1. CASE todo = << >>
      <4>1. cell(tty) >= cmd_index /\ cmd_index \in 0 .. CMD
        BY <3>1 DEF IInv, Ready, Good, Place, Line
      <4> QED
        BY <2>1, <4>1, CellInt, ScreenFacts
    <3>2. CASE todo # << >>
      <4> DEFINE b == fb_row * VGA_WIDTH
      <4>1. b \in Nat /\ fb_col \in 1 .. (VGA_WIDTH - 1) /\ cell(tty) = fb_col + b
        BY <3>2, BusyFacts
      <4> HIDE DEF b
      <4> QED
        BY <4>1, ScreenFacts
    <3> QED
      BY <3>1, <3>2
  <2> QED
    BY <2>1, <2>2, PosIsCell DEF CursorOnScreen
<1> QED
  BY <1>1, Invariant, PTL

\* No backspace erases a cell of a prompt, on this row or on one above.
THEOREM PromptIsSpared == SpecQuiet => PromptSpared
<1> DEFINE A == KeyBackspace =>
                  \A i \in Cells : screen[i] = PROMPT => screen'[i] = PROMPT
<1>1. IInv /\ [NextQuiet]_vars => [A]_vars
  <2> SUFFICES ASSUME IInv, NextQuiet, KeyBackspace
               PROVE  \A i \in Cells : screen[i] = PROMPT => screen'[i] = PROMPT
    OBVIOUS
  <2>1. todo' = todo /\ cmd_index > 0
    BY DEF KeyBackspace, handler
  <2>2. todo = << >>
    <3>1. cmd_index \in 0 .. CMD /\ CMD \in Nat
      BY ScreenFacts DEF IInv, Line
    <3> QED
      BY <2>1, <3>1 DEF IInv, Busy
  <2>3. Good(tty, cmd_index) /\ cmd_index \in 1 .. CMD
    BY <2>1, <2>2, ScreenFacts DEF IInv, Ready, Line
  <2>4. \A i \in Cells : tty.screen[i] = PROMPT => backspace(tty).screen[i] = PROMPT
    BY <2>3, BackspaceMoves
  <2>5. tty.screen = screen /\ screen' = backspace(tty).screen
    BY DEF KeyBackspace, show, tty
  <2> QED
    BY <2>4, <2>5
<1>2. SpecQuiet => []IInv
  BY Invariant
<1>3. SpecQuiet => [][NextQuiet]_vars
  BY PTL DEF SpecQuiet
<1> QED
  BY <1>1, <1>2, <1>3, PTL DEF PromptSpared

=============================================================================
