----------------------------- MODULE WorldFeed -----------------------------
(***************************************************************************)
(* What everybody who watches the world is promised: there is one line of  *)
(* worlds, a screen shows one of them or nothing, and until its page is    *)
(* loaded again it only ever moves on to a later one.  No database, queue, *)
(* socket or request is in sight, and no failure of any of them.           *)
(***************************************************************************)
EXTENDS Naturals

CONSTANTS
  Clients,
  Marks,    \* a world is [version, tick, mark], its mark standing for all the rest
  Initial,  \* the world create_initial_state makes
  NoWorld   \* a screen that has not received a world yet

VARIABLES
  line,     \* the worlds there have been
  shown     \* the world each client shows

Newest(w) == w \in line /\ \A x \in line : x.version <= w.version

Init ==
  /\ line = {Initial}
  /\ shown = [c \in Clients |-> NoWorld]

\* The next version, in which time stands still, moves on by a tick or starts again.
Extend ==
  /\ \E w \in line, m \in Marks : \E t \in {0, w.tick, w.tick + 1} :
       /\ Newest(w)
       /\ line' = line \cup {[version |-> w.version + 1, tick |-> t, mark |-> m]}
  /\ UNCHANGED shown

MoveOn(c) ==
  /\ \E w \in line :
       /\ shown[c] # NoWorld => w.version > shown[c].version
       /\ shown' = [shown EXCEPT ![c] = w]
  /\ UNCHANGED line

Forget(c) ==
  /\ shown' = [shown EXCEPT ![c] = NoWorld]
  /\ UNCHANGED line

Next == Extend \/ \E c \in Clients : MoveOn(c) \/ Forget(c)

Spec == Init /\ [][Next]_<<line, shown>>

=============================================================================
