----------------------------- MODULE FieldStore -----------------------------
(***************************************************************************)
(* What field encryption promises the application: nullable columns that   *)
(* hold texts in the clear, as if nothing were encrypted and nothing ever  *)
(* migrated.  A read answers with what was written last.  There is no key, *)
(* no token, no failed read and no release here.                           *)
(***************************************************************************)
CONSTANTS
  Cell,      \* columns of rows
  Content,   \* what a cell can hold: texts in the clear, and null
  NoReply    \* no read has been answered since the last write

VARIABLES
  content,   \* what each cell holds
  reply      \* the last read and its answer

Init ==
  /\ content \in [Cell -> Content]
  /\ reply = NoReply

Write(c, v) ==
  /\ content' = [content EXCEPT ![c] = v]
  /\ reply' = NoReply

Read(c) ==
  /\ reply' = [cell |-> c, content |-> content[c]]
  /\ UNCHANGED content

Next == \E c \in Cell : Read(c) \/ \E v \in Content : Write(c, v)

Spec == Init /\ [][Next]_<<content, reply>>
=============================================================================
