---------------------------- MODULE DurableOutbox -----------------------------
(***************************************************************************)
(* What the cloud connector promises about the messages that may not be    *)
(* lost (events, acknowledgements): once one has been accepted with a      *)
(* durable copy, only its delivery releases the cabinet from it.  Delivery *)
(* is at least once.  A message accepted while the disk refused the copy   *)
(* is fragile: it is owed too, but a power cut loses it.                   *)
(***************************************************************************)
CONSTANT Messages

VARIABLES
  owed,     (* accepted with a durable copy, not released yet   *)
  fragile,  (* accepted without one                             *)
  got       (* delivered to the cloud, by whatever route        *)

vars == <<owed, fragile, got>>

Init == owed = {} /\ fragile = {} /\ got = {}

Accept(m) ==
  /\ owed' = owed \cup {m}
  /\ UNCHANGED <<fragile, got>>

AcceptFragile(m) ==
  /\ fragile' = fragile \cup {m}
  /\ UNCHANGED <<owed, got>>

Deliver(S) ==
  /\ S \subseteq owed \cup fragile \cup got
  /\ got' = got \cup S
  /\ UNCHANGED <<owed, fragile>>

Release(S) ==
  /\ S \subseteq got
  /\ owed' = owed \ S
  /\ fragile' \in {fragile, fragile \ S}
  /\ UNCHANGED got

PowerCut ==
  /\ fragile' = {}
  /\ UNCHANGED <<owed, got>>

Next ==
  \/ \E m \in Messages : Accept(m) \/ AcceptFragile(m)
  \/ \E S \in SUBSET Messages : Deliver(S) \/ Release(S)
  \/ PowerCut

Spec == Init /\ [][Next]_vars
=============================================================================
