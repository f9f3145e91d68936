------------------------ MODULE MCIntegrationProjection ------------------------
(* Instances of IntegrationProjection for TLC. *)
EXTENDS IntegrationProjection, TLC

CONSTANTS i1, i2, x, y, a, b, p1, p2

ProcessSymmetry == Permutations({p1, p2})

T(i, generation, content, points, delivery) ==
    [kind |-> "topology", integration |-> i, integrationKind |-> "hub", generation |-> generation,
     content |-> content, points |-> points, delivery |-> delivery]
O(generation, batch, content, seen, delivery) ==
    [kind |-> "observations", integration |-> i1, generation |-> generation,
     batch |-> batch, content |-> content, seen |-> seen, delivery |-> delivery]
At_(stream, position, sent) == [stream |-> stream, position |-> position, sent |-> sent]

\* Two topologies and three batches on two streams; a topology of another
\* Integration at the place of the second; a direct call that repeats a batch
\* under a request of its own.
Sent(sent) ==
    {T(i1, 1, "t1", {x, y}, At_(a, 1, sent)), T(i1, 2, "t2", {x}, At_(a, 2, sent)),
     T(i2, 2, "t3", {x, y}, At_(a, 2, sent)),
     O(1, "b1", "o1", (x :> 1), At_(b, 1, sent)), O(1, "b2", "o2", (x :> 0 @@ y :> 1), At_(b, 2, sent)),
     O(2, "b3", "o3", (x :> 1), At_(b, 3, sent))}
MCMessages == Sent(None) \cup {O(1, "b1", "o4", (x :> 1), None)}
BridgeMessages == Sent("t")
=============================================================================
