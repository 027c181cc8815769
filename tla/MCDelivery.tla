----------------------------- MODULE MCDelivery -----------------------------
(* A small instance of Delivery: payload sizes and the symmetry of ids.    *)
EXTENDS Delivery, TLC

CONSTANTS small, large, huge

\* Two small payloads or one large one fill the queue; the huge one is over
\* the envelope limit and can never be enqueued.
MCBytes == small :> 1 @@ large :> 2 @@ huge :> 3

MCSymmetry == Permutations(Batches) \cup Permutations(Conns)
                 \cup Permutations(Uploaders)
=============================================================================
