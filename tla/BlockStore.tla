----------------------------- MODULE BlockStore -----------------------------
(***************************************************************************)
(* What a disk cache promises to the file system: the contents of a sector *)
(* are those of the last write that a client completed.  Neither the       *)
(* recycling of a block nor a write-back is visible, and two clients never *)
(* write to a sector at the same time.                                     *)
(***************************************************************************)
CONSTANTS Clients, Sectors, Contents, Blank

VARIABLES
  contents,  \* contents[s]: what a client reads from the sector s
  writing    \* the pairs <<client, sector>> of the writes in progress

vars == <<contents, writing>>

Init == /\ contents = [s \in Sectors |-> Blank]
        /\ writing = {}

BeginWrite(c, s) ==
  /\ \A w \in writing : w[1] # c /\ w[2] # s
  /\ writing' = writing \cup {<<c, s>>}
  /\ UNCHANGED contents

EndWrite(c, s, v) ==
  /\ <<c, s>> \in writing
  /\ writing' = writing \ {<<c, s>>}
  /\ contents' = [contents EXCEPT ![s] = v]

Next == \E c \in Clients, s \in Sectors :
          BeginWrite(c, s) \/ \E v \in Contents : EndWrite(c, s, v)

Spec == Init /\ [][Next]_vars

=============================================================================
