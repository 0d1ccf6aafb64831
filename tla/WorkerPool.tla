----------------------------- MODULE WorkerPool -----------------------------
(***************************************************************************)
(* What the execution semaphore promises its clients, without permits and  *)
(* futures: a pool of N workers. A client that enters is served at once    *)
(* when a worker is free, and otherwise stands in line; a worker that is   *)
(* left by its client turns to the first in line. Nobody is overtaken,     *)
(* and no worker rests while somebody stands in line.                      *)
(***************************************************************************)
EXTENDS Naturals, FiniteSets, Sequences

CONSTANTS
    Clients,
    N         \* workers

VARIABLES
    working,  \* clients being served
    line      \* clients waiting, in the order they came

Init == working = {} /\ line = <<>>

Waiting == {line[i] : i \in 1..Len(line)}

\* Serving c right away needs a free worker, and standing in line a reason.
Enter(c) ==
    /\ c \notin working \cup Waiting
    /\ \/ /\ line = <<>> /\ Cardinality(working) < N
          /\ working' = working \cup {c} /\ line' = line
       \/ /\ Cardinality(working) = N
          /\ working' = working /\ line' = Append(line, c)

Leave(c) ==
    /\ c \in working
    /\ \/ /\ line = <<>>
          /\ working' = working \ {c} /\ line' = line
       \/ /\ line # <<>>
          /\ working' = (working \ {c}) \cup {Head(line)} /\ line' = Tail(line)

Next == \E c \in Clients : Enter(c) \/ Leave(c)

Spec == Init /\ [][Next]_<<working, line>>

=============================================================================
