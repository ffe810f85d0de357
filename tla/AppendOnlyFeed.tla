--------------------------- MODULE AppendOnlyFeed ---------------------------
(***************************************************************************)
(* What a layer of the medallion path promises to the layer above it: a    *)
(* sink of batches that is only ever appended to, in which every record    *)
(* comes from the source and none is delivered twice, whatever the runs    *)
(* that fill it go through.                                                *)
(***************************************************************************)
EXTENDS Integers

VARIABLES
    source,     \* the records that may be delivered
    sink        \* the batches delivered, by batch id

Delivered(s) == UNION {s[id] : id \in DOMAIN s}

Init == source = {} /\ DOMAIN sink = {}

Grow == source \subseteq source' /\ source' # source /\ UNCHANGED sink

DeliverAs(id) ==
    \E batch \in SUBSET (source \ Delivered(sink)) :
        /\ sink' = [i \in DOMAIN sink \cup {id} |-> IF i = id THEN batch ELSE sink[i]]
        /\ UNCHANGED source

Deliver == \E id \in DOMAIN sink' \ DOMAIN sink : DeliverAs(id)

Next == Grow \/ Deliver

Spec == Init /\ [][Next]_<<source, sink>>
=============================================================================
