----------------------------- MODULE MessageLedger -----------------------------
(***************************************************************************)
(* What the channel webhook promises to a vendor that repeats a message    *)
(* until it is answered: a message with an id of its own is recorded in    *)
(* one row, however often it is delivered, and a message is answered only  *)
(* when it has been recorded.  A message without an id is recorded each    *)
(* time it is delivered.                                                   *)
(***************************************************************************)

CONSTANTS
  Messages,     \* what customers write
  Identified,   \* the messages that carry an external id
  Rows          \* names of rows: a row records one message

VARIABLES
  entries,      \* the rows in use, and the message each records
  answered      \* the messages the vendor has had an answer to

vars == <<entries, answered>>

Recorded(m) == \E e \in entries : e.message = m

Record(m, row) ==
  /\ m \in Identified => ~Recorded(m)
  /\ \A e \in entries : e.row # row
  /\ entries' = entries \cup {[row |-> row, message |-> m]}
  /\ UNCHANGED answered

Answer(m) ==
  /\ Recorded(m)
  /\ answered' = answered \cup {m}
  /\ UNCHANGED entries

Init == entries = {} /\ answered = {}

Next == \E m \in Messages : Answer(m) \/ \E row \in Rows : Record(m, row)

Spec == Init /\ [][Next]_vars
=============================================================================
