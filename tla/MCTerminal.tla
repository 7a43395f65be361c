----------------------------- MODULE MCTerminal -----------------------------
(***************************************************************************)
(* A screen of four rows of five cells: a line of CMD keys wraps, scrolls  *)
(* and can be erased to before the start of its last row.                  *)
(***************************************************************************)
EXTENDS Terminal

MCboot_text == << TEXT, TAB, NL >>

MCprompt_text == << PROMPT, PROMPT >>

\* puts ends the line, printf does not
MCreplies == { << NL, TEXT, NL >>, << NL, TEXT >> }

MCLetters == {"c"}
=============================================================================
