------------------------------ MODULE GuardianSet ------------------------------
(***************************************************************************)
(* What the governance of one vault promises about who its guardians are,  *)
(* whatever votes, queues and deadlines it takes to get there.  An account *)
(* is an outsider, then invited, then a member, then a former member, and  *)
(* never moves back; one reconfiguration drops at most one member; a new   *)
(* approval threshold is always one the remaining members can meet.        *)
(***************************************************************************)
EXTENDS Naturals, FiniteSets

CONSTANT Addr

VARIABLES
    invited,     \* accounts with an invitation they have not accepted
    members,     \* the guardians
    former,      \* the guardians that were removed
    threshold    \* approvals an access request needs; 0 before the vault exists

gsVars == <<invited, members, former, threshold>>

Init ==
    /\ invited = {}
    /\ members = {}
    /\ former = {}
    /\ threshold = 0

Found(a, guests) ==
    /\ threshold = 0
    /\ members' = {a}
    /\ invited' = guests \ {a}
    /\ threshold' \in 1 .. (Cardinality(guests \ {a}) + 1)
    /\ UNCHANGED former

Join(a) ==
    /\ a \in invited
    /\ members' = members \cup {a}
    /\ invited' = invited \ {a}
    /\ UNCHANGED <<former, threshold>>

Reconfigure(leaving) ==
    /\ leaving \subseteq members
    /\ Cardinality(leaving) <= 1
    /\ members' = members \ leaving
    /\ former' = former \cup leaving
    /\ threshold' \in {threshold} \cup 1 .. Cardinality(members \ leaving)
    /\ UNCHANGED invited

Next ==
    \/ \E a \in Addr, guests \in SUBSET Addr : Found(a, guests)
    \/ \E a \in Addr : Join(a)
    \/ \E leaving \in SUBSET Addr : Reconfigure(leaving)

Spec == Init /\ [][Next]_gsVars

=============================================================================
