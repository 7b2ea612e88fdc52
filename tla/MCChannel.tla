----------------------------- MODULE MCChannel -----------------------------
(* Small instances of Channel.                                             *)
EXTENDS Channel, TLC

CONSTANTS s1, s2, s3, r1, r2, r3, c1

\* Every call is made by a thread of its own.
Concurrent(n, C) == [capacity |-> n, before |-> [x \in C |-> {}]]

MCRaces      == {Concurrent(n, Calls) : n \in 0..2}
MCRendezvous == {Concurrent(0, Calls)}
MCOne        == {Concurrent(1, Calls)}
MCTwo        == {Concurrent(2, Calls)}

\* One producer sends s1, s2, s3 and then closes; one consumer receives.
MCPipe ==
  {[capacity |-> 1,
    before |-> (s1 :> {}) @@ (s2 :> {s1}) @@ (s3 :> {s2}) @@ (c1 :> {s3})
               @@ (r1 :> {}) @@ (r2 :> {r1}) @@ (r3 :> {r2})]}

\* The pipe, and rendezvous of three concurrent calls with a Close.
MCQuiet ==
  MCPipe \cup {Concurrent(0, C \cup {c1}) : C \in {{s1, s2, r1}, {s1, r1, r2}}}

\* Concurrent calls of one kind differ in their names only.
MCSymmetry == Permutations(Senders) \cup Permutations(Receivers)
=============================================================================
