--------------------------- MODULE OrderedDelivery ---------------------------
(***************************************************************************)
(* What the block range indexer promises the strategy: the blocks of the    *)
(* requested range are executed one at a time, each once, in order and      *)
(* without a gap, and the run is reported a success only after the last.    *)
(***************************************************************************)
EXTENDS Naturals, Sequences

CONSTANT Ranges   \* the <<first, last>> block ranges a run may be asked for

VARIABLES
  asked,       \* the range of the current run
  delivered,   \* the blocks executed in this run
  status       \* "running", "ok" or "failed"

deliveryVars == <<asked, delivered, status>>

DeliveryInit == /\ asked \in Ranges
                /\ delivered = <<>>
                /\ status = "running"

(* The block after the last one executed. *)
NextBlock == asked[1] + Len(delivered)

Deliver == /\ status = "running" /\ NextBlock <= asked[2]
           /\ delivered' = Append(delivered, NextBlock)
           /\ UNCHANGED <<asked, status>>

Succeed == /\ status = "running" /\ NextBlock = asked[2] + 1
           /\ status' = "ok"
           /\ UNCHANGED <<asked, delivered>>

Fail == /\ status = "running"
        /\ status' = "failed"
        /\ UNCHANGED <<asked, delivered>>

(* The program is started again, from the first block of its range. *)
StartOver == /\ status # "running"
             /\ asked' \in Ranges
             /\ delivered' = <<>>
             /\ status' = "running"

DeliveryNext == Deliver \/ Succeed \/ Fail \/ StartOver

DeliverySpec == DeliveryInit /\ [][DeliveryNext]_deliveryVars
=============================================================================
