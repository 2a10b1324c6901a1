------------------------- MODULE TransitionJournal -------------------------
(***************************************************************************)
(* What one recording rule promises, without engines, timers or rows: an   *)
(* append-only journal of confirmed transitions, each announced at most    *)
(* once and in order.                                                      *)
(***************************************************************************)
EXTENDS Integers, Sequences

CONSTANTS
    Confirmation,    \* seconds a side must persist: [side -> Nat]
    CooldownSeconds  \* seconds between two events of one direction

VARIABLES
    now,       \* the clock of the confirmations
    journal,   \* transitions recorded, in commit order
    published  \* transitions announced to the user

journalVars == <<now, journal, published>>

Init == now \in Nat /\ journal = <<>> /\ published = <<>>

Elapse ==
    /\ now' > now
    /\ UNCHANGED <<journal, published>>

Newer(e, history) ==
    \A i \in DOMAIN history : history[i].generation < e.generation

CooledDown(e) ==
    \A i \in DOMAIN journal :
        journal[i].side = e.side =>
            e.confirmed >= journal[i].confirmed + CooldownSeconds

(* A transition is recorded after its side lasted, once per pending        *)
(* episode, and not within the cooldown of its direction.                  *)
Record(e) ==
    /\ journal' = Append(journal, e)
    /\ e.occurred + Confirmation[e.side] <= e.confirmed
    /\ e.confirmed <= now
    /\ Newer(e, journal)
    /\ CooledDown(e)
    /\ UNCHANGED <<now, published>>

Announce(e) ==
    /\ published' = Append(published, e)
    /\ Newer(e, published)
    /\ UNCHANGED <<now, journal>>

Next ==
    \/ Elapse
    \/ \E i \in DOMAIN journal' : Record(journal'[i])
    \/ \E i \in DOMAIN journal : Announce(journal[i])

Spec == Init /\ [][Next]_journalVars
=============================================================================
