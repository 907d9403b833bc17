------------------------------ MODULE TradeFeed ------------------------------
(***************************************************************************)
(* What the aggregator may expect of the trades given to it: within one    *)
(* life of the process their ids only grow, and until something fails they *)
(* grow by one.  RecoveryManager implements it.                            *)
(***************************************************************************)
EXTENDS Integers, Sequences

CONSTANT MaxId    \* bound: the largest trade id

VARIABLES
  feed,   \* the ids given to the aggregator since the process started
  lossy   \* whether ids may be skipped by now

Follows(id) ==
  \/ feed = <<>>
  \/ LET last == feed[Len(feed)]
     IN  IF lossy THEN id > last ELSE id = last + 1

Init == feed = <<>> /\ lossy = FALSE

Deliver ==
  /\ \E id \in 1 .. MaxId :
       /\ Follows(id)
       /\ feed' = Append(feed, id)
  /\ UNCHANGED lossy

Restart == feed' = <<>> /\ UNCHANGED lossy

Degrade == lossy' = TRUE /\ UNCHANGED feed

Next == Deliver \/ Restart \/ Degrade

Spec == Init /\ [][Next]_<<feed, lossy>>
=============================================================================
