------------------------------- MODULE Outbox -------------------------------
(***************************************************************************)
(* What the bridge promises a client about outbox ids (PROTOCOL.md, 6.5    *)
(* and 10.3), with a store that forgets none: an id is reserved at most    *)
(* once and for ever, and a message is handed to WhatsApp only under a     *)
(* reserved id and at most once.  Crashes and restarts are not visible.    *)
(***************************************************************************)
EXTENDS Sequences

CONSTANT Ids

VARIABLES
  reserved,  \* the outbox ids in use
  log        \* the outbox ids handed to WhatsApp, in order

Reserve(o) ==
  /\ o \notin reserved
  /\ reserved' = reserved \cup {o}
  /\ UNCHANGED log

HandOff(o) ==
  /\ o \in reserved
  /\ \A i \in DOMAIN log : log[i] # o
  /\ log' = Append(log, o)
  /\ UNCHANGED reserved

Init ==
  /\ reserved = {}
  /\ log = <<>>

Next == \E o \in Ids : Reserve(o) \/ HandOff(o)

Spec == Init /\ [][Next]_<<reserved, log>>
=============================================================================
