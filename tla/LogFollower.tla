----------------------------- MODULE LogFollower -----------------------------
(***************************************************************************)
(* What a connection promises its view, whatever the network does: it      *)
(* shows the log as it stood at one point, and that point only moves       *)
(* forward.                                                                *)
(***************************************************************************)
EXTENDS ChangeFolds

CONSTANT Clients

VARIABLES log, rounds, at, shows

vars == <<log, rounds, at, shows>>

Init ==
    /\ log = << >> /\ rounds = "defined"
    /\ at = [c \in Clients |-> -1]
    /\ shows = [c \in Clients |-> NoBody]

Grow ==
    /\ \E kind \in Entries : log' = Append(log, kind)
    /\ UNCHANGED <<rounds, at, shows>>

Remove == rounds' = "removed" /\ UNCHANGED <<log, at, shows>>

\* A snapshot or a frame: some later point, under the config of the moment or
\* the one before it.
Follow(c) ==
    /\ \E n \in 0..Len(log) :
          /\ n >= at[c]
          /\ at' = [at EXCEPT ![c] = n]
          /\ \E r \in {"defined", rounds} :
                shows' = [shows EXCEPT ![c] = LiveFold(log, n, r)]
    /\ UNCHANGED <<log, rounds>>

Next == Grow \/ Remove \/ \E c \in Clients : Follow(c)

Spec == Init /\ [][Next]_vars
==============================================================================
