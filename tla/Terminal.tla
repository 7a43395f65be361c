------------------------------ MODULE Terminal ------------------------------
(***************************************************************************)
(* tty.c, keyboard.c and the dispatch of shell.c: the cursor and the frame *)
(* buffer, the command line that keyboard_callback edits, and kernel_main, *)
(* which prints while key presses already interrupt it.                    *)
(*                                                                         *)
(* keyboard_callback runs with interrupts off, so it is one action (module *)
(* Interrupts); kernel_main may be interrupted between any two accesses to *)
(* fb_col and fb_row.  A cell is described by who wrote it.  The position  *)
(* that move_cursor sends to the VGA controller is left out: nothing reads *)
(* it.                                                                     *)
(***************************************************************************)
EXTENDS Integers, Sequences, SequencesExt

CONSTANTS
  VGA_WIDTH, VGA_HEIGHT,
  CMD,          \* bytes of command[] and temp[]
  U16, U32,     \* positions are taken modulo U16, fb_col modulo U32
  Letters,      \* printable keys
  boot_text,    \* what kernel_main prints after init_keyboard
  prompt_text,  \* the characters of the prompt
  replies       \* what commands may print, with their line ends

NL == "newline"
TAB == "tab"
TEXT == "text"
PROMPT == "prompt"
KEY == "key"
BLANK == "blank"
NUL == "nul"

ASSUME TerminalAssumption ==
  /\ VGA_WIDTH \in Nat \ {0, 1} /\ VGA_HEIGHT \in Nat \ {0, 1}
  /\ U16 \in Nat /\ U32 \in Nat \ {0} /\ U32 % U16 = 0
  /\ (VGA_HEIGHT + 1) * VGA_WIDTH < U16
  /\ CMD \in Nat /\ CMD <= (VGA_HEIGHT - 1) * VGA_WIDTH
  /\ Letters \cap {NL, TAB, NUL} = {}
  /\ boot_text \in Seq({NL, TAB, TEXT}) /\ prompt_text \in Seq({PROMPT})
  /\ replies \subseteq Seq({NL, TAB, TEXT})

VARIABLES
  fb_col, fb_row, screen,
  command, cmd_index,
  typed,        \* history: the keys of the line that were not erased
  todo,         \* what kernel_main has still to do
  reg           \* the register of kernel_main that holds a loaded value

vars == <<fb_col, fb_row, screen, command, cmd_index, typed, todo, reg>>

Cells == 0 .. (VGA_WIDTH * VGA_HEIGHT - 1)

-----------------------------------------------------------------------------
(***************************************************************************)
(* tty.c, on a record of the cursor and the screen                         *)
(***************************************************************************)
tty == [col |-> fb_col, row |-> fb_row, screen |-> screen]

pos(t) == (t.col + t.row * VGA_WIDTH) % U16

\* Around the rows shown there is more video memory, which is not shown
write_cell(scr, i, c) == IF i \in Cells THEN [scr EXCEPT ![i] = c] ELSE scr

scroll(scr) ==
  [i \in Cells |-> IF i + VGA_WIDTH \in Cells THEN scr[i + VGA_WIDTH] ELSE BLANK]

newline(t) ==
  [col |-> 1,
   row |-> IF t.row < VGA_HEIGHT - 1 THEN t.row + 1 ELSE t.row,
   screen |-> IF t.row < VGA_HEIGHT - 1 THEN t.screen ELSE scroll(t.screen)]

adv_past_the_edge(t) == [t EXCEPT !.col = (t.col + 1) % U32]

cursor_adv(t) ==
  IF t.col < VGA_WIDTH - 1 THEN [t EXCEPT !.col = t.col + 1] ELSE newline(t)

tab(t) == cursor_adv(cursor_adv(cursor_adv(cursor_adv(t))))

\* One character of kprint_c
kprint_char(t, c) ==
  IF c = NL THEN newline(t)
  ELSE IF c = TAB THEN tab(t)
  ELSE cursor_adv([t EXCEPT !.screen = write_cell(@, pos(t), c)])

kprint_c(t, buf) ==
  LET printed[n \in 0 .. Len(buf)] ==
        IF n = 0 THEN t ELSE kprint_char(printed[n - 1], buf[n])
  IN printed[Len(buf)]

backspace_signed(t) ==
  LET s == [t EXCEPT !.col = @ - 1]
  IN [s EXCEPT !.screen = write_cell(@, pos(s), BLANK)]

backspace(t) ==
  LET s == [t EXCEPT !.col = (@ - 1) % U32]
  IN [s EXCEPT !.screen = write_cell(@, pos(s), BLANK)]

init_prompt(t) == kprint_c(newline(t), prompt_text)

clear_prompt ==
  [col |-> 1, row |-> 0, screen |-> [i \in Cells |-> BLANK]]

-----------------------------------------------------------------------------
(***************************************************************************)
(* shell.c: processCommand compares the line up to its first NUL.  The     *)
(* line << "c" >> stands for clear and cls, every other one for a command  *)
(* that only prints, known or not; r is what it prints.                    *)
(***************************************************************************)
c_string(cmd) ==
  IF \E n \in 0 .. (CMD - 1) : cmd[n] = NUL
  THEN LET n == CHOOSE n \in 0 .. (CMD - 1) :
                  cmd[n] = NUL /\ \A k \in 0 .. (n - 1) : cmd[k] # NUL
       IN [k \in 1 .. n |-> cmd[k - 1]]
  ELSE [k \in 1 .. CMD |-> cmd[k - 1]]

processCommand(t, cmd, r) ==
  IF c_string(cmd) = << "c" >> THEN clear_prompt
  ELSE IF c_string(cmd) = << >> THEN newline(t)
  ELSE kprint_c(t, r)

cleared == [n \in 0 .. (CMD - 1) |-> NUL]

-----------------------------------------------------------------------------
(***************************************************************************)
(* keyboard_callback, by key                                               *)
(***************************************************************************)
show(t) == fb_col' = t.col /\ fb_row' = t.row /\ screen' = t.screen

handler == UNCHANGED <<todo, reg>>

KeyBackspace_unguarded ==
  /\ cmd_index' = IF cmd_index = 0 THEN 0 ELSE cmd_index - 1
  /\ typed' = IF cmd_index = 0 THEN typed ELSE Front(typed)
  /\ command' = cleared
  /\ show(backspace(tty))
  /\ handler

(***************************************************************************)
(* The line is copied to temp, cleared, and copied back; then clear_tmp,   *)
(* which is meant to clear temp, clears the line once more.                *)
(***************************************************************************)
KeyBackspace ==
  /\ cmd_index > 0
  /\ cmd_index' = cmd_index - 1 /\ typed' = Front(typed)
  /\ command' = cleared
  /\ show(backspace(tty))
  /\ handler

KeyEnter_keeps_line ==
  /\ \E r \in replies : show(init_prompt(processCommand(tty, command, r)))
  /\ cmd_index' = 0 /\ typed' = << >>
  /\ UNCHANGED command
  /\ handler

KeyEnter ==
  /\ \E r \in replies : show(init_prompt(processCommand(tty, command, r)))
  /\ cmd_index' = 0 /\ typed' = << >>
  /\ command' = cleared
  /\ handler

(***************************************************************************)
(* Any other key, with its character: a letter, TAB, or NUL for the keys   *)
(* without one, which are printed and stored too.  Bound: the user types   *)
(* at most CMD keys on a line; nothing in the code stops him there.        *)
(***************************************************************************)
KeyOther(c) ==
  /\ cmd_index < CMD
  /\ show(kprint_char(tty, IF c = TAB THEN TAB ELSE KEY))
  /\ command' = [command EXCEPT ![cmd_index] = c]
  /\ cmd_index' = cmd_index + 1 /\ typed' = Append(typed, c)
  /\ handler

Key == KeyBackspace \/ KeyEnter \/ \E c \in Letters \cup {TAB, NUL} : KeyOther(c)

-----------------------------------------------------------------------------
(***************************************************************************)
(* kernel_main prints.  todo starts with what it is doing: a character to  *)
(* print, or a piece of cursor_adv or newline, which test, load and store  *)
(* the cursor separately.  Moving the rows of the screen is one step.      *)
(***************************************************************************)
at(op) == todo # << >> /\ Head(todo) = op

instead(ops) == todo' = ops \o Tail(todo)

line == UNCHANGED <<command, cmd_index, typed>>

main_newline ==
  /\ at(NL)
  /\ instead(IF fb_row < VGA_HEIGHT - 1 THEN << "load_row", "store_row", "col_1" >>
             ELSE << "scroll", "col_1" >>)
  /\ UNCHANGED <<fb_col, fb_row, screen, reg>> /\ line

main_load_row ==
  /\ at("load_row") /\ reg' = fb_row /\ instead(<< >>)
  /\ UNCHANGED <<fb_col, fb_row, screen>> /\ line

main_store_row ==
  /\ at("store_row") /\ fb_row' = reg + 1 /\ instead(<< >>)
  /\ UNCHANGED <<fb_col, screen, reg>> /\ line

main_scroll ==
  /\ at("scroll") /\ screen' = scroll(screen) /\ instead(<< >>)
  /\ UNCHANGED <<fb_col, fb_row, reg>> /\ line

main_col_1 ==
  /\ at("col_1") /\ fb_col' = 1 /\ instead(<< >>)
  /\ UNCHANGED <<fb_row, screen, reg>> /\ line

\* pos is computed from fb_row and fb_col, then used
main_char ==
  /\ todo # << >> /\ Head(todo) \in {TEXT, PROMPT}
  /\ reg' = fb_row * VGA_WIDTH
  /\ instead(<< "add_col",
                IF Head(todo) = TEXT THEN "write_text" ELSE "write_prompt", "adv" >>)
  /\ UNCHANGED <<fb_col, fb_row, screen>> /\ line

main_add_col ==
  /\ at("add_col") /\ reg' = (reg + fb_col) % U16 /\ instead(<< >>)
  /\ UNCHANGED <<fb_col, fb_row, screen>> /\ line

main_write ==
  /\ \/ at("write_text") /\ screen' = write_cell(screen, reg, TEXT)
     \/ at("write_prompt") /\ screen' = write_cell(screen, reg, PROMPT)
  /\ instead(<< >>)
  /\ UNCHANGED <<fb_col, fb_row, reg>> /\ line

main_adv ==
  /\ at("adv")
  /\ instead(IF fb_col < VGA_WIDTH - 1 THEN << "load_col", "store_col" >> ELSE << NL >>)
  /\ UNCHANGED <<fb_col, fb_row, screen, reg>> /\ line

main_tab ==
  /\ at(TAB) /\ instead(<< "adv", "adv", "adv", "adv" >>)
  /\ UNCHANGED <<fb_col, fb_row, screen, reg>> /\ line

main_load_col ==
  /\ at("load_col") /\ reg' = fb_col /\ instead(<< >>)
  /\ UNCHANGED <<fb_col, fb_row, screen>> /\ line

main_store_col ==
  /\ at("store_col") /\ fb_col' = (reg + 1) % U32 /\ instead(<< >>)
  /\ UNCHANGED <<fb_row, screen, reg>> /\ line

Main ==
  \/ main_newline \/ main_load_row \/ main_store_row \/ main_scroll \/ main_col_1
  \/ main_char \/ main_add_col \/ main_write \/ main_adv \/ main_tab
  \/ main_load_col \/ main_store_col

-----------------------------------------------------------------------------
\* init_keyboard has returned; some rows have been printed
Init ==
  /\ fb_row = 1 /\ fb_col \in 1 .. (VGA_WIDTH - 1)
  /\ screen = [i \in Cells |-> BLANK]
  /\ command = cleared /\ cmd_index = 0 /\ typed = << >>
  /\ todo = boot_text \o << NL >> \o prompt_text
  /\ reg = 0

Next == Main \/ Key

Spec == Init /\ [][Next]_vars

\* No key is pressed before the prompt is there
NextQuiet == Main \/ (todo = << >> /\ Key)

SpecQuiet == Init /\ [][NextQuiet]_vars

-----------------------------------------------------------------------------
\* The fields keep their widths and the line its place in command[].
TypeOK ==
  /\ fb_col \in 0 .. (U32 - 1) /\ fb_row \in Nat
  /\ screen \in [Cells -> {BLANK, TEXT, PROMPT, KEY}]
  /\ command \in [0 .. (CMD - 1) -> Letters \cup {TAB, NUL}]
  /\ cmd_index \in 0 .. CMD
  /\ reg \in 0 .. (U32 - 1)

\* The cell that the next character goes to is on the screen, although
\* backspace lets fb_col fall below 0 and wrap around: tabs, line ends and
\* scrolling move the cursor at least as far as the keys that may be erased.
CursorOnScreen == pos(tty) \in Cells

\* "If at start of the prompt do not delete it" (keyboard.c:92): no backspace
\* erases a cell of the prompt.
PromptSpared ==
  [][KeyBackspace =>
       \A i \in Cells : screen[i] = PROMPT => screen'[i] = PROMPT]_vars

\* The line that Enter would run holds no key of an earlier line and none that
\* was erased: it is the start of what the user sees.  It is only the start,
\* since a backspace clears command[] (keyboard.c:79, 101); clearing it at
\* Enter is what keeps old keys out, as cmd_index alone starts over.
OnlyTypedKeysRun == IsPrefix(c_string(command), typed)

\* "If there's at least one cell add it, otherwise scroll framebuffer"
\* (tty.c:141, 143): the row on which text is written is one of the screen's.
RowOnScreen == fb_row < VGA_HEIGHT

=============================================================================
