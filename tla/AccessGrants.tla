----------------------------- MODULE AccessGrants -----------------------------
(***************************************************************************)
(* What access passes and revocations promise about the document grants of *)
(* one vault, whatever versions and balances implement them.  A grant      *)
(* lasts until it is revoked or its holder gives up the last pass, and     *)
(* nothing but a new grant brings it back.  Revoking one document ends     *)
(* every grant of an account that holds a pass; an account without one may *)
(* keep its grants for other documents, unusable until it receives a pass. *)
(***************************************************************************)

CONSTANTS Addr, Docs

VARIABLES
    granted,    \* pairs <<d, u>>: u was granted d and the grant stands
    holders     \* the accounts with at least one pass

agVars == <<granted, holders>>

GrantsOf(u) == {p \in granted : p[2] = u}

Init ==
    /\ granted = {}
    /\ holders = {}

Receive(u) ==
    /\ holders' = holders \cup {u}
    /\ UNCHANGED granted

\* The last pass of u is burnt.
GiveUp(u) ==
    /\ u \in holders
    /\ holders' = holders \ {u}
    /\ granted' = granted \ GrantsOf(u)

\* The last pass of u goes to w.
HandOver(u, w) ==
    /\ u \in holders /\ w # u
    /\ holders' = (holders \ {u}) \cup {w}
    /\ granted' = granted \ GrantsOf(u)

Grant(d, u) ==
    /\ granted' = granted \cup {<<d, u>>}
    /\ UNCHANGED holders

Revoke(d, u) ==
    /\ \E kept \in SUBSET (GrantsOf(u) \ {<<d, u>>}) :
         /\ u \in holders => kept = {}
         /\ granted' = (granted \ GrantsOf(u)) \cup kept
    /\ UNCHANGED holders

Next ==
    \E u \in Addr :
      \/ Receive(u)
      \/ GiveUp(u)
      \/ \E w \in Addr : HandOver(u, w)
      \/ \E d \in Docs : Grant(d, u) \/ Revoke(d, u)

Spec == Init /\ [][Next]_agVars

=============================================================================
