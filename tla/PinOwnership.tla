----------------------------- MODULE PinOwnership -----------------------------
(***************************************************************************)
(* Who governs the cabinet's pins.  Several processes may try: the pin     *)
(* owner's service, the edge service, one started by hand.  The only thing *)
(* that keeps two of them apart is an flock taken before the first pin is  *)
(* opened and released after the last one is closed (GpioController,       *)
(* _on_start, _on_stop and the rescue of a start that failed).             *)
(*                                                                         *)
(* flock is the kernel's: it dies with the process.  The kernel's own      *)
(* exclusivity of GPIO lines is not assumed.                               *)
(***************************************************************************)
CONSTANTS
  Process,    (* the processes of the host that may want the pins *)
  Pin,        (* the output lines                                 *)
  Nobody,     (* the lock or the socket is free                   *)
  CloseFails  (* safing or closing a device may raise             *)

ASSUME NobodyAssumption == Nobody \notin Process
ASSUME FlagAssumption == CloseFails \in BOOLEAN

VARIABLES
  lock,     (* process whose _lock_fd holds the flock              *)
  lines,    (* lines each process has open                         *)
  door,     (* process bound to the service socket                 *)
  pc        (* where each process is in _on_start or _on_stop      *)

ownerVars == <<lock, lines, door, pc>>

OwnerInit ==
  /\ lock = Nobody /\ door = Nobody
  /\ lines = [p \in Process |-> {}]
  /\ pc = [p \in Process |-> "dead"]

Goes(p, from, to) == pc[p] = from /\ pc' = [pc EXCEPT ![p] = to]

Launch(p) ==
  /\ Goes(p, "dead", "starting")
  /\ UNCHANGED <<lock, lines, door>>

\* Mutant of Claim: the lock is checked, the claim is remembered elsewhere.
Mutant_ClaimInMemory(p) ==
  /\ lock = Nobody
  /\ Goes(p, "starting", "claimed")
  /\ UNCHANGED <<lock, lines, door>>

\* LOCK_NB: taken at once or not at all.
Claim(p) ==
  /\ lock = Nobody
  /\ Goes(p, "starting", "claimed")
  /\ lock' = p
  /\ UNCHANGED <<lines, door>>

\* Refused, or the lock file cannot be opened: nothing was touched.
ClaimRefused(p) ==
  /\ Goes(p, "starting", "dead")
  /\ UNCHANGED <<lock, lines, door>>

\* _arrancar_hardware, device by device.
OpenLine(p, l) ==
  /\ pc[p] = "claimed"
  /\ l \notin lines[p]
  /\ lines' = [lines EXCEPT ![p] = @ \cup {l}]
  /\ UNCHANGED <<lock, door, pc>>

\* Mutant of HardwareReady: ready with the devices built so far.
Mutant_ReadyEarly(p) ==
  /\ lines[p] # {}
  /\ Goes(p, "claimed", "built")
  /\ UNCHANGED <<lock, lines, door>>

HardwareReady(p) ==
  /\ lines[p] = Pin
  /\ Goes(p, "claimed", "built")
  /\ UNCHANGED <<lock, lines, door>>

\* Not critical: a socket somebody else serves, or that cannot be bound, is left.
OpenDoor(p, bound) ==
  /\ Goes(p, "built", "serving")
  /\ bound => door = Nobody
  /\ door' = IF bound THEN p ELSE door
  /\ UNCHANGED <<lock, lines>>

Seeded(p) ==
  /\ Goes(p, "serving", "up")
  /\ UNCHANGED <<lock, lines, door>>

\* Mutants of CloseDoor: a start that fails gives the lock back at once (what the
\* code did before the audit of 2026-08-08); the door stays open until the process ends.
Mutant_OnlyLock(p) ==
  /\ pc[p] \in {"claimed", "built", "serving", "up"}
  /\ pc' = [pc EXCEPT ![p] = "closing"]
  /\ door' = IF door = p THEN Nobody ELSE door
  /\ lock' = Nobody
  /\ UNCHANGED lines

Mutant_DoorStaysOpen(p) ==
  /\ pc[p] \in {"claimed", "built", "serving", "up"}
  /\ pc' = [pc EXCEPT ![p] = "closing"]
  /\ UNCHANGED <<lock, lines, door>>

\* The door closes first, in a stop and in a start that failed.
CloseDoor(p) ==
  /\ pc[p] \in {"claimed", "built", "serving", "up"}
  /\ pc' = [pc EXCEPT ![p] = "closing"]
  /\ door' = IF door = p THEN Nobody ELSE door
  /\ UNCHANGED <<lock, lines>>

\* Then the hardware.  An exception leaves some devices open.
CloseLines(p) ==
  /\ Goes(p, "closing", "safe")
  /\ lines' = [lines EXCEPT ![p] = {}]
  /\ UNCHANGED <<lock, door>>

CloseLinesFails(p) ==
  /\ CloseFails
  /\ Goes(p, "closing", "broken")
  /\ \E left \in SUBSET lines[p] : lines' = [lines EXCEPT ![p] = left]
  /\ UNCHANGED <<lock, door>>

\* The lock last, whatever happened before.
Release(p) ==
  /\ pc[p] \in {"safe", "broken"}
  /\ pc' = [pc EXCEPT ![p] = IF pc[p] = "safe" THEN "ended" ELSE "crippled"]
  /\ lock' = IF lock = p THEN Nobody ELSE lock
  /\ UNCHANGED <<lines, door>>

\* The process ends, or is killed at any point: the kernel closes what it had.
Dies(p) ==
  /\ pc[p] # "dead"
  /\ pc' = [pc EXCEPT ![p] = "dead"]
  /\ lines' = [lines EXCEPT ![p] = {}]
  /\ lock' = IF lock = p THEN Nobody ELSE lock
  /\ door' = IF door = p THEN Nobody ELSE door

OwnerNext ==
  \E p \in Process :
    \/ Launch(p) \/ Claim(p) \/ ClaimRefused(p)
    \/ \E l \in Pin : OpenLine(p, l)
    \/ HardwareReady(p)
    \/ \E b \in BOOLEAN : OpenDoor(p, b)
    \/ Seeded(p)
    \/ CloseDoor(p) \/ CloseLines(p) \/ CloseLinesFails(p) \/ Release(p) \/ Dies(p)

OwnerSpec == OwnerInit /\ [][OwnerNext]_ownerVars

-----------------------------------------------------------------------------
Steps == {"dead", "starting", "claimed", "built", "serving", "up", "closing",
          "safe", "broken", "ended", "crippled"}

\* The types, and how far each process has got: what it says it is ready for is
\* built, and what it says it has shut is shut.
OwnerTypeOK ==
  /\ lock \in Process \cup {Nobody}
  /\ door \in Process \cup {Nobody}
  /\ lines \in [Process -> SUBSET Pin]
  /\ pc \in [Process -> Steps]
  /\ \A p \in Process :
       /\ pc[p] \in {"built", "serving", "up"} => lines[p] = Pin
       /\ pc[p] \in {"dead", "starting", "safe", "ended"} => lines[p] = {}

\* Two processes never govern pins at once, at any point of a start, a stop, a
\* rescue or a kill of either, unless one of them could not close its devices
\* and has not died yet (what the rescue reports as CRITICAL).
OneGovernor ==
  \A p, q \in Process :
    p # q /\ lines[p] # {} /\ lines[q] # {}
      => "crippled" \in {pc[p], pc[q]}

\* Only the owner of the pins answers at the service socket, so whoever is
\* reached there can act.
DoorIsTheOwners == OwnerTypeOK /\ (door # Nobody => lock = door /\ lines[door] = Pin)

\* And the successor finds the socket free: no owner nobody can talk to.
SuccessorFindsDoor == \A p \in Process : pc[p] = "built" => door = Nobody

=============================================================================
