------------------------------- MODULE PinLink -------------------------------
(***************************************************************************)
(* The link between the process that owns the pins and the rest of the     *)
(* cabinet (edge pinlink/server.py, pinlink/client.py).  An alert reaches  *)
(* the client twice: as the event the reflex sends, and as the identity    *)
(* that travels with every state, which is how an alert that came while    *)
(* the socket was down is delivered all the same, and once.                *)
(*                                                                         *)
(* Three threads of the owner push to one client: the one of the reflex,   *)
(* the emitter that polls at 20 Hz, and the reader that serves the         *)
(* requests.  A message is read, sealed with the identity and sent in      *)
(* three steps, with no lock across them.  Identities are numbers, in the  *)
(* order of the alerts.  Left out: rate limits and credentials, a restart  *)
(* of either process, an overflow of the observers' mailbox.  A queue that *)
(* overflows closes the connection, which Drop does at any time.           *)
(***************************************************************************)
EXTENDS Naturals, Sequences

CONSTANTS
  MaxRises,  \* bound: real alerts
  MaxInputs, \* bound: alerts, openings or tests of the contact, and connections
  MaxQueue   \* bound: messages on their way; whoever sends waits

ASSUME BoundsAssumption == MaxRises \in Nat /\ {MaxInputs, MaxQueue} \subseteq Nat \ {0}

VARIABLES
  latch,      \* sasmex_active in the pin owner
  rises,      \* real alerts so far; the last one's identity once it is minted
  episode,    \* PinLinkServer._episodio, 0 for None
  other,      \* openings and tests so far
  at,         \* where each of the owner's threads is
  hand,       \* the message each of them is making
  up,         \* the socket is open
  subscribed, \* the connection of this session is among _suscriptores
  session,    \* connections so far
  queue,      \* messages on their way to the client
  cache,      \* the latch the client has cached, {} if it has no state
  delivered,  \* IpcGpioLink._episodio_entregado
  got,        \* history: times each alert was announced to the observers
  newest,     \* history: latest identity sent
  behind,     \* history: a state was sent with an older identity than that
  torn,       \* history: identities that travelled with the state of before them
  said,       \* history: this identity has been sent in this session
  mute        \* history: it subscribed while the emitter was on its way out

ownerVars == <<latch, rises, episode, other>>
serverVars == <<at, hand, subscribed>>
clientVars == <<cache, delivered, got>>
linkVars == <<up, session, queue>>
history == <<newest, behind, torn, said, mute>>
vars == <<ownerVars, serverVars, clientVars, linkVars, history>>

Ids == 1..MaxRises
Pushers == {"reflex", "emitter", "reader"}
Message ==
  [kind : {"state"}, latch : BOOLEAN, id : {0} \cup Ids]
    \cup [kind : {"rise", "other"}, id : {0} \cup Ids]
NoHand == [latch |-> FALSE, rises |-> 0, id |-> 0, to |-> 0]

TypeOK ==
  /\ latch \in BOOLEAN /\ rises \in 0..MaxRises /\ episode \in 0..rises
  /\ other \in 0..MaxInputs
  /\ at \in [Pushers -> {"idle", "leaving", "subscribe", "mint", "rise", "other",
                         "look", "seal", "send"}]
  /\ hand \in [Pushers -> [latch : BOOLEAN, rises : 0..MaxRises, id : 0..MaxRises,
                           to : 0..MaxInputs]]
  /\ up \in BOOLEAN /\ subscribed \in BOOLEAN /\ (subscribed => up)
  /\ session \in 0..MaxInputs
  /\ queue \in Seq(Message) /\ Len(queue) <= MaxQueue
  /\ cache \in {{}, {TRUE}, {FALSE}}
  /\ delivered \in {0} \cup Ids /\ got \in [Ids -> Nat]
  /\ newest \in 0..MaxRises /\ behind \in BOOLEAN
  /\ torn \subseteq Ids /\ said \in BOOLEAN /\ mute \in BOOLEAN

Init ==
  /\ latch = FALSE /\ rises = 0 /\ episode = 0 /\ other = 0
  /\ at = [p \in Pushers |-> "idle"] /\ hand = [p \in Pushers |-> NoHand]
  /\ up = FALSE /\ subscribed = FALSE /\ session = 0 /\ queue = <<>>
  /\ cache = {} /\ delivered = 0 /\ got = [n \in Ids |-> 0]
  /\ newest = 0 /\ behind = FALSE /\ torn = {} /\ said = FALSE /\ mute = FALSE

Budget == rises + other + session < MaxInputs
Goto(p, step) == at' = [at EXCEPT ![p] = step]

-----------------------------------------------------------------------------
(* The contact.  The reflex latches under the owner's lock; its observers, *)
(* the server first, run afterwards on the same thread.                    *)

Rise ==
  /\ at["reflex"] = "idle" /\ rises < MaxRises /\ Budget
  /\ latch' = TRUE /\ rises' = rises + 1
  /\ Goto("reflex", "mint")
  /\ UNCHANGED <<episode, other, hand, subscribed, clientVars, linkVars, history>>

\* Opening does not unlatch, and a test pulse does not latch; both are events.
OpenOrTest ==
  /\ at["reflex"] = "idle" /\ Budget
  /\ other' = other + 1
  /\ Goto("reflex", "other")
  /\ UNCHANGED <<latch, rises, episode, hand, subscribed, clientVars, linkVars, history>>

Mint ==
  /\ at["reflex"] = "mint"
  /\ episode' = rises /\ said' = FALSE
  /\ Goto("reflex", "rise")
  /\ UNCHANGED <<latch, rises, other, hand, subscribed, clientVars, linkVars,
                 newest, behind, torn, mute>>

\* Whoever is subscribed gets the event, with the identity there is.
SendEvent ==
  /\ at["reflex"] \in {"rise", "other"}
  /\ IF subscribed
       THEN /\ Len(queue) < MaxQueue
            /\ queue' = Append(queue, [kind |-> at["reflex"], id |-> episode])
            /\ newest' = episode /\ said' = TRUE
            /\ torn' = IF at["reflex"] = "other" /\ ~said /\ episode \notin {0, delivered}
                         THEN torn \cup {episode} ELSE torn
       ELSE UNCHANGED <<queue, newest, said, torn>>
  /\ Goto("reflex", "look")
  /\ UNCHANGED <<ownerVars, hand, subscribed, clientVars, up, session, behind, mute>>

-----------------------------------------------------------------------------
(* A push: _empujar_estado, a turn of _emitir, the answer to subscribe.    *)

\* Without subscribers the others do not push, and the emitter's turn is its last.
\* (That it skips a state already sent, until the keepalive is due, is left out.)
Rest(p) == IF p = "emitter" THEN "look" ELSE "idle"

Look(p) ==
  /\ at[p] = "look"
  /\ IF subscribed
       THEN /\ hand' = [hand EXCEPT ![p] = [latch |-> latch, rises |-> rises, id |-> 0,
                                           to |-> IF p = "emitter" THEN 0 ELSE session]]
            /\ Goto(p, "seal")
       ELSE /\ Goto(p, IF p = "emitter" THEN "leaving" ELSE "idle")
            /\ UNCHANGED hand
  /\ UNCHANGED <<ownerVars, subscribed, clientVars, linkVars, history>>

\* _sobre_estado: the identity of now, with the state of before.
Seal(p) ==
  /\ at[p] = "seal"
  /\ hand' = [hand EXCEPT ![p].id = episode, ![p].rises = 0]
  /\ torn' = IF ~hand[p].latch /\ episode > hand[p].rises THEN torn \cup {episode} ELSE torn
  /\ Goto(p, "send")
  /\ UNCHANGED <<ownerVars, subscribed, clientVars, linkVars, newest, behind, said, mute>>

\* The emitter sends to who is subscribed now; the others, to who was then.
Send(p) ==
  /\ at[p] = "send"
  /\ IF subscribed /\ (p = "emitter" \/ hand[p].to = session)
       THEN /\ Len(queue) < MaxQueue
            /\ queue' = Append(queue, [kind |-> "state", latch |-> hand[p].latch, id |-> hand[p].id])
            /\ behind' = (behind \/ hand[p].id < newest)
            /\ newest' = IF hand[p].id > newest THEN hand[p].id ELSE newest
            /\ said' = (said \/ hand[p].id = episode)
       ELSE UNCHANGED <<queue, newest, behind, said>>
  /\ hand' = [hand EXCEPT ![p] = NoHand]
  /\ Goto(p, Rest(p))
  /\ UNCHANGED <<ownerVars, subscribed, clientVars, up, session, torn, mute>>

Push(p) == Look(p) \/ Seal(p) \/ Send(p)

EmitterEnds ==
  /\ at["emitter"] = "leaving"
  /\ Goto("emitter", "idle")
  /\ UNCHANGED <<ownerVars, hand, subscribed, clientVars, linkVars, history>>

-----------------------------------------------------------------------------
(* The connection and the requests that come by it.                        *)

Connect ==
  /\ ~up
  /\ up' = TRUE /\ session' = session + 1
  /\ cache' = {}
  /\ Goto("reader", "subscribe")
  /\ UNCHANGED <<ownerVars, hand, subscribed, delivered, got, queue, history>>

\* The emitter is started with the server, and not again.
Mutant_Subscribe ==
  /\ at["reader"] = "subscribe"
  /\ subscribed' = TRUE
  /\ at' = [at EXCEPT !["reader"] = "look"]
  /\ UNCHANGED <<ownerVars, hand, clientVars, linkVars, history>>

\* _asegurar_emisor: an emitter that is leaving is alive.
Subscribe ==
  /\ at["reader"] = "subscribe"
  /\ subscribed' = TRUE
  /\ at' = [at EXCEPT !["reader"] = "look",
                      !["emitter"] = IF @ = "idle" THEN "look" ELSE @]
  /\ mute' = (at["emitter"] = "leaving")
  /\ UNCHANGED <<ownerVars, hand, clientVars, linkVars, newest, behind, torn, said>>

\* The operator closes the alert: an action, after which its state is pushed.
Reset ==
  /\ at["reader"] = "idle" /\ up /\ latch
  /\ latch' = FALSE
  /\ Goto("reader", "look")
  /\ UNCHANGED <<rises, episode, other, hand, subscribed, clientVars, linkVars, history>>

Drop ==
  /\ up /\ Budget
  /\ up' = FALSE /\ subscribed' = FALSE /\ queue' = <<>> /\ cache' = {}
  /\ Goto("reader", "idle") /\ hand' = [hand EXCEPT !["reader"] = NoHand]
  /\ said' = FALSE
  /\ UNCHANGED <<ownerVars, session, delivered, got, newest, behind, torn, mute>>

-----------------------------------------------------------------------------
(* The client's reader thread.                                             *)

Announce(n) == got' = [got EXCEPT ![n] = @ + 1]

\* The first state of a connection is taken as known.
Mutant_FirstIsKnown(m) ==
  /\ m.kind = "state"
  /\ cache' = {m.latch}
  /\ delivered' = IF m.id = 0 THEN delivered ELSE m.id
  /\ IF m.id \notin {0, delivered} /\ m.latch /\ cache # {}
       THEN Announce(m.id) ELSE UNCHANGED got

\* Alerts come as events only.
Mutant_NoReconciliation(m) ==
  /\ m.kind = "state"
  /\ cache' = {m.latch}
  /\ UNCHANGED <<delivered, got>>

\* _guardar and _reconciliar_episodio.
TakeState(m) ==
  /\ m.kind = "state"
  /\ cache' = {m.latch}
  /\ delivered' = IF m.id = 0 THEN delivered ELSE m.id
  /\ IF m.id \notin {0, delivered} /\ m.latch THEN Announce(m.id) ELSE UNCHANGED got

\* Only what came with a state is remembered.
Mutant_Forgets(m) ==
  /\ m.kind # "state"
  /\ IF m.id # delivered /\ m.kind = "rise" THEN Announce(m.id) ELSE UNCHANGED got
  /\ UNCHANGED <<cache, delivered>>

\* _al_evento: an identity already delivered brings nothing, whatever the event.
TakeEvent(m) ==
  /\ m.kind # "state"
  /\ delivered' = IF m.id = 0 THEN delivered ELSE m.id
  /\ IF m.id # delivered /\ m.kind = "rise" THEN Announce(m.id) ELSE UNCHANGED got
  /\ UNCHANGED cache

Handle ==
  /\ queue # <<>>
  /\ TakeState(Head(queue)) \/ TakeEvent(Head(queue))
  /\ queue' = Tail(queue)
  /\ UNCHANGED <<ownerVars, serverVars, up, session, history>>

-----------------------------------------------------------------------------
Reflex == Mint \/ SendEvent \/ Push("reflex")
Emitter == EmitterEnds \/ Push("emitter")
Reader == Subscribe \/ Push("reader")

Next == Rise \/ OpenOrTest \/ Reflex \/ Emitter \/ Reader \/ Connect \/ Reset \/ Drop \/ Handle

Spec == Init /\ [][Next]_vars

\* The emitter turns for ever, the client reads and reconnects, and the owner's other
\* threads, which have a few steps each, are not all left for ever.  Nobody has to
\* raise, open or close anything.
FairSpec ==
  /\ Spec
  /\ WF_vars(Emitter) /\ WF_vars(Handle)
  /\ WF_vars(Reflex \/ Reader \/ Connect)

-----------------------------------------------------------------------------
\* What the reconciliation promises: of an alert that is up, the client believes it
\* delivered only what it announced.
DeliveredIsAnnounced ==
  latch /\ delivered = rises /\ rises > 0 => got[rises] > 0

\* It keeps the promise unless the identity reached the client with a state read
\* before the alert, or with an opening or a test ahead of anything that said it.
AnnouncedUnlessTorn ==
  TypeOK /\ (rises \in torn \/ DeliveredIsAnnounced)

\* An alert is announced once, unless a state sealed under an older identity was
\* sent behind a newer one: the client remembers only the last.
OncePerAlert ==
  behind \/ \A n \in Ids : got[n] <= 1

\* An alert that is up has been announced by the time everything sent has been read
\* and every thread but the emitter rests, however the connection broke before.
Settled ==
  /\ subscribed /\ queue = <<>>
  /\ at["reflex"] = "idle" /\ at["reader"] = "idle"

AlertIsAnnounced ==
  Settled /\ latch => got[rises] > 0 \/ rises \in torn

\* The client comes to see the cabinet as it is, again and again, unless the
\* emitter was on its way out when it subscribed: nobody starts another one.
CacheIsRefreshed == []<>(mute \/ cache = {latch})

=============================================================================
