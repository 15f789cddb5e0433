-------------------------- MODULE LatestFormation --------------------------
(***************************************************************************)
(* What the Contracts interface promises the certificate handlers          *)
(* (internal/oracle/listener.go:33-38): for each contract the most recent  *)
(* of the contract formations published so far.  The promise is kept       *)
(* eventually: publication and storage are different moments.              *)
(***************************************************************************)
EXTENDS Naturals

CONSTANTS
    Contracts, Formations,
    ContractOf,     \* the contract each formation is of
    TimestampOf,    \* the timestamp in each formation
    None            \* no formation is known

VARIABLES
    published,      \* the formations on the chain
    current         \* the formation the interface returns for each contract

vars == <<published, current>>

NoOlder(f, g) == g = None \/ TimestampOf[f] >= TimestampOf[g]

Newest(c, f) ==
    /\ f \in published /\ ContractOf[f] = c
    /\ \A g \in published : ContractOf[g] = c => NoOlder(f, g)

Init == published = {} /\ current = [c \in Contracts |-> None]

Publish(fs) == published' = published \union fs /\ UNCHANGED current

\* A published formation replaces one that is not more recent.
Advance(f) ==
    /\ f \in published /\ NoOlder(f, current[ContractOf[f]])
    /\ current' = [current EXCEPT ![ContractOf[f]] = f]
    /\ UNCHANGED published

CatchUp(c) == ~Newest(c, current[c]) /\ \E f \in Formations : Newest(c, f) /\ Advance(f)

Next == (\E fs \in SUBSET Formations : Publish(fs)) \/ (\E f \in Formations : Advance(f))

Spec == Init /\ [][Next]_vars
FairSpec == Spec /\ \A c \in Contracts : WF_vars(CatchUp(c))
=============================================================================
