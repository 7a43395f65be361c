------------------------------ MODULE Archive ------------------------------
(***************************************************************************)
(* What a read-only file system promises a client: after it is mounted, a  *)
(* name stands for one file or for none, and reading a file delivers its   *)
(* bytes from the client's position on, as many as were asked for or as    *)
(* many as there are.  A client that leaves the contract is promised       *)
(* nothing from then on.                                                   *)
(***************************************************************************)
EXTENDS Integers, Sequences

CONSTANTS
  Names,     \* names a client may look up
  Offsets,   \* positions it may go to
  Sizes,     \* numbers of bytes it may ask for
  NoFile     \* the client holds no file

VARIABLES
  files,     \* the contents of each file, by name
  cur,       \* the name of the file the client holds
  pos,       \* its position in that file
  copied,    \* the bytes delivered since it took that position
  trusted    \* the client has kept to the contract

vars == <<files, cur, pos, copied, trusted>>

Init ==
  /\ files = << >> /\ cur = NoFile /\ pos = 0 /\ copied = << >>
  /\ trusted = TRUE

\* The disk appears, with any contents
Mount ==
  /\ trusted /\ trusted' = trusted
  /\ files = << >> /\ cur' = NoFile
  /\ UNCHANGED <<pos, copied>>

Open(n) ==
  /\ trusted
  /\ cur' = IF n \in DOMAIN files THEN n ELSE NoFile
  /\ pos' = 0 /\ copied' = << >>
  /\ UNCHANGED <<files, trusted>>

Close ==
  /\ trusted
  /\ cur' = NoFile /\ pos' = 0 /\ copied' = << >>
  /\ UNCHANGED <<files, trusted>>

Seek(p) ==
  /\ trusted
  /\ pos' = p /\ copied' = << >>
  /\ UNCHANGED <<files, cur, trusted>>

\* SubSeq ends with the file if there are fewer bytes than asked for
Read(size) ==
  /\ trusted /\ cur # NoFile
  /\ LET file == files[cur]
         end == IF pos + size > Len(file) THEN Len(file) ELSE pos + size
         got == SubSeq(file, pos + 1, end)
     IN copied' = copied \o got /\ pos' = pos + Len(got)
  /\ UNCHANGED <<files, cur, trusted>>

LeaveContract == trusted' = FALSE

Next ==
  \/ Mount \/ Close \/ LeaveContract
  \/ \E n \in Names : Open(n)
  \/ \E p \in Offsets : Seek(p)
  \/ \E size \in Sizes : Read(size)

Spec == Init /\ [][Next]_vars
=============================================================================
