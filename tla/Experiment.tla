----------------------------- MODULE Experiment -----------------------------
(***************************************************************************)
(* What a placement A/B experiment promises across its sessions, however   *)
(* they end (perf/placement/ab.py): the rounds asked for only grow, in the *)
(* same order; a round whose samples are complete stays so, unless a log   *)
(* that _trim had opened lost some of them; and a session reports success  *)
(* only when every round asked for is complete.                            *)
(***************************************************************************)
EXTENDS Integers, Sequences

VARIABLES
    asked,     \* the round seeds asked for, in order
    finished,  \* the rounds whose samples are complete
    losses,    \* for each loss of samples, the rounds that they were of
    reported   \* the driver has just reported success

vars == <<asked, finished, losses, reported>>

Rounds == 0..(Len(asked) - 1)

Init == asked = <<>> /\ finished = {} /\ losses = <<>> /\ reported = FALSE

\* A session asks for the rounds so far and perhaps more.
Ask ==
    /\ ~reported
    /\ Len(asked') >= Len(asked)
    /\ SubSeq(asked', 1, Len(asked)) = asked
    /\ UNCHANGED <<finished, losses, reported>>

Finish == \E r \in Rounds \ finished :
    finished' = finished \cup {r} /\ UNCHANGED <<asked, losses, reported>>

Report ==
    /\ finished = Rounds /\ asked # <<>>
    /\ reported' = TRUE
    /\ UNCHANGED <<asked, finished, losses>>

\* The user has seen the report, and may extend the experiment.
Seen == reported /\ reported' = FALSE /\ UNCHANGED <<asked, finished, losses>>

\* A loss undoes no round but those it took samples of, and no session
\* survives it.
Lose ==
    /\ Len(losses') = Len(losses) + 1 /\ SubSeq(losses', 1, Len(losses)) = losses
    /\ finished' \subseteq finished /\ finished \ finished' \subseteq losses'[Len(losses')]
    /\ ~reported' /\ UNCHANGED asked

Next == Ask \/ Finish \/ Report \/ Seen \/ Lose
Spec == Init /\ [][Next]_vars
=============================================================================
