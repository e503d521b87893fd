---------------------------- MODULE EpisodeLists ----------------------------
(***************************************************************************)
(* What readers of one feed are promised: the list of episodes they see is *)
(* always that of one whole document, the one recorded last, in that       *)
(* document's order, and recording another one swaps the lists in a single *)
(* step.                                                                   *)
(***************************************************************************)
EXTENDS Sequences, Ordering

CONSTANT Documents   \* sequences of episode identities

VARIABLES
  latest,   \* the document recorded last, <<>> before the first
  list      \* what readers see

(* An identity that is repeated in a document is one episode, the last of  *)
(* its occurrences.                                                        *)
IsLast(doc, i) == \A j \in i + 1..Len(doc) : doc[j] # doc[i]

ListOf(doc) == Picked(doc, {i \in 1..Len(doc) : IsLast(doc, i)})

vars == <<latest, list>>

Init == latest = <<>> /\ list = <<>>

Publish(doc) == latest' = doc /\ list' = ListOf(doc)

Next == \E doc \in Documents : Publish(doc)

Spec == Init /\ [][Next]_vars
=============================================================================
