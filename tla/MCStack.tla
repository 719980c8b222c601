------------------------------ MODULE MCStack -------------------------------
(* Four blocks that add eight hypotheses, of five keys, to a stack for two. *)
EXTENDS Stack, TLC

CONSTANTS b1, b2, b3, b4, k1, k2, k3, k4, k5

Hypo(k, n) == [key |-> k, score |-> n]

MCBlocks == {b1, b2, b3, b4}

\* A better and a worse one of the same key, an equal score of another key.
MCOffers == b1 :> <<Hypo(k1, 3), Hypo(k2, 1)>>
         @@ b2 :> <<Hypo(k2, 2), Hypo(k3, 3), Hypo(k1, 2)>>
         @@ b3 :> <<Hypo(k4, 1), Hypo(k3, 2)>>
         @@ b4 :> <<Hypo(k5, 2)>>

MCHypotheses == UNION {{MCOffers[b][i] : i \in DOMAIN MCOffers[b]} : b \in MCBlocks}

=============================================================================
