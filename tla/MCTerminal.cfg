CONSTANTS
  VGA_WIDTH = 5
  VGA_HEIGHT = 4
  CMD = 4
  U16 = 64
  U32 = 128
  Letters <- MCLetters
  boot_text <- MCboot_text
  prompt_text <- MCprompt_text
  replies <- MCreplies
SPECIFICATION SpecQuiet
INVARIANTS TypeOK CursorOnScreen OnlyTypedKeysRun
PROPERTIES PromptSpared
