--------------------------- MODULE RecordTransfer ---------------------------
(* What a format conversion promises, with no caches and no headers: of the   *)
(* records it is asked for, each conduit's output receives a growing initial  *)
(* run; the conversion succeeds only when every run is complete.              *)
EXTENDS Naturals

CONSTANT Conduit

VARIABLES
    wanted,      \* the records each conduit is asked for
    delivered,   \* the records in each conduit's output
    status

vars == <<wanted, delivered, status>>

\* S is a part of T with nothing left out before its last member
InitialRun(S, T) ==
    S \subseteq T /\ \A r \in T : (\E s \in S : r <= s) => r \in S

Init ==
    /\ wanted \in [Conduit -> SUBSET Nat]
    /\ delivered = [c \in Conduit |-> {}]
    /\ status = "running"

\* More records arrive at one output
Deliver(c) ==
    /\ delivered'[c] # delivered[c]
    /\ delivered[c] \subseteq delivered'[c]
    /\ InitialRun(delivered'[c], wanted[c])
    /\ \A d \in Conduit \ {c} : delivered'[d] = delivered[d]

Running == status = "running" /\ UNCHANGED wanted

Next ==
    \/ Running /\ (\E c \in Conduit : Deliver(c)) /\ status' \in {"running", "failed"}
    \/ Running /\ delivered = wanted /\ status' = "succeeded" /\ UNCHANGED delivered
    \/ Running /\ status' = "failed" /\ UNCHANGED delivered

Spec == Init /\ [][Next]_vars

=============================================================================
