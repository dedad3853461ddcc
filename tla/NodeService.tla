----------------------------- MODULE NodeService -----------------------------
(***************************************************************************)
(* What one node does for those around it, without its tasks and channels: *)
(* each input is decided once, in one of the ways the router has for its   *)
(* kind, and each answer leaves the node once, or is refused by the kernel *)
(* once.  A node that stops may lose what it has, and makes nothing up.    *)
(*                                                                         *)
(* The models of the mesh take an input and put out its answers in one     *)
(* step; this is what allows it.                                           *)
(***************************************************************************)
EXTENDS Naturals, Sequences

CONSTANTS
    Hellos,          \* the set of hellos to the configured servers
    Kinds,           \* the kinds of inputs
    Answers(_, _),   \* Answers(kind, i): the sets of answers input i may have
    Ended(_, _),     \* Ended(kind, i): how input i may end before it is decided
    Outcomes(_)      \* Outcomes(m): what answer m may be done as

VARIABLES
    arrived,   \* the kinds of the inputs so far, by their number
    todo,      \* the inputs to be decided
    owed,      \* the answers that have not left
    done,      \* the answers that left, and what ended in the node
    stopped    \* a task of the node has ended

serviceVars == <<arrived, todo, owed, done, stopped>>

ServiceInit ==
    /\ arrived = << >> /\ todo = {} /\ done = {}
    /\ owed \in {{}, Hellos}
    /\ stopped = FALSE

\* The node says hello before anything else.
Greet ==
    /\ arrived = << >> /\ owed = {} /\ done = {}
    /\ owed' = Hellos
    /\ UNCHANGED <<arrived, todo, done, stopped>>

Accept ==
    /\ \E kind \in Kinds : arrived' = Append(arrived, kind)
    /\ todo' = todo \cup {Len(arrived')}
    /\ UNCHANGED <<owed, done, stopped>>

Decide(i) ==
    /\ todo' = todo \ {i}
    /\ \E answers \in Answers(arrived[i], i) : owed' = owed \cup answers
    /\ UNCHANGED <<arrived, done, stopped>>

\* An input that is an error ends where it was read.
Discard(i) ==
    /\ todo' = todo \ {i}
    /\ \E m \in Ended(arrived[i], i) : done' = done \cup {m}
    /\ UNCHANGED <<arrived, owed, stopped>>

Deliver(m) ==
    /\ owed' = owed \ {m}
    /\ \E x \in Outcomes(m) : done' = done \cup {x}
    /\ UNCHANGED <<arrived, todo, stopped>>

\* A task ends, perhaps in the middle of deciding an input, and what it had is
\* lost.
Lose ==
    /\ stopped'
    /\ todo' \subseteq todo
    /\ \/ owed' \subseteq owed
       \/ \E i \in todo \ todo' : \E answers \in Answers(arrived[i], i) :
              owed' \subseteq owed \cup answers
    /\ UNCHANGED <<arrived, done>>

ServiceNext ==
    \/ Greet \/ Accept \/ Lose
    \/ \E i \in todo : Decide(i) \/ Discard(i)
    \/ \E m \in owed : Deliver(m)

ServiceSpec == ServiceInit /\ [][ServiceNext]_serviceVars
=============================================================================
