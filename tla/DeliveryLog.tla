------------------------------ MODULE DeliveryLog ------------------------------
(***************************************************************************)
(* What the publish_attempts table promises its readers, whoever writes    *)
(* it: for each post and channel an append-only list of attempts, which    *)
(* ends with the first sent one and disappears only with its post.         *)
(***************************************************************************)
EXTENDS Naturals

CONSTANTS Posts, Channels, Statuses

VARIABLES
    alive,  \* the posts that exist
    log     \* a set of entries [post, channel, no, status]

Entries(p, c) == {e \in log : e.post = p /\ e.channel = c}

Init == alive \subseteq Posts /\ log = {}

\* The next entry of an unfinished list: every smaller number is taken, and no
\* other.
Append(p, c, n, status) ==
    /\ p \in alive
    /\ \A e \in Entries(p, c) : e.no < n /\ e.status # "sent"
    /\ \A m \in 1 .. n - 1 : \E e \in Entries(p, c) : e.no = m
    /\ log' = log \cup {[post |-> p, channel |-> c, no |-> n, status |-> status]}
    /\ UNCHANGED alive

Erase(p) ==
    /\ p \in alive
    /\ alive' = alive \ {p}
    /\ log' = {e \in log : e.post # p}

Next ==
    \/ \E p \in Posts, c \in Channels, status \in Statuses :
          \E n \in {1} \cup {e.no + 1 : e \in Entries(p, c)} : Append(p, c, n, status)
    \/ \E p \in Posts : Erase(p)

Spec == Init /\ [][Next]_<<alive, log>>
================================================================================
