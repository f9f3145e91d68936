------------------------- MODULE MCIntegrationControl -------------------------
(* Instances of IntegrationControl for TLC. *)
EXTENDS IntegrationControl, TLC

CONSTANTS j1, on, off, r1, r2, r3, a, b, x, y, z, p1, p2

ProcessSymmetry == Permutations({p1, p2})

\* Two callers disagree about a job; a third repeats the first, to expire earlier.
MCCommands == {[request |-> r1, job |-> j1, intent |-> on, expires |-> 2],
               [request |-> r2, job |-> j1, intent |-> off, expires |-> 2],
               [request |-> r3, job |-> j1, intent |-> on, expires |-> 1]}

\* One caller: every further offer is a reoffer.
OneCommand == {[request |-> r1, job |-> j1, intent |-> on, expires |-> 2]}

M(stream, position, receipt, sequence) ==
    [stream |-> stream, position |-> position,
     content |-> [job |-> j1, intent |-> on, receipt |-> receipt, sequence |-> sequence,
                  digest |-> <<position, receipt>>]]

\* Two receipts of the job; another one at the first position; the first again
\* at the second; another stream.
MCMessages == {M(<<a, 1>>, 1, x, 1), M(<<a, 1>>, 2, y, 2),
               M(<<a, 1>>, 1, z, 1), M(<<a, 1>>, 2, x, 1),
               M(<<b, 1>>, 1, z, 1)}
=============================================================================
