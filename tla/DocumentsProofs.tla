-------------------------- MODULE DocumentsProofs --------------------------
(***************************************************************************)
(* The life of a document's bytes and keys, for every value of the         *)
(* constants: each part keeps an inductive invariant of its own, and a     *)
(* step of one part leaves the others as they are.                         *)
(***************************************************************************)
EXTENDS MCDocuments, FiniteSetTheorems, SequenceTheorems, NaturalsInduction, TLAPS

-----------------------------------------------------------------------------
(* Sets of naturals and positions in a list                                 *)

\* A nonempty set of naturals has a least element.
LEMMA LeastNatural == ASSUME NEW T \in SUBSET Nat, T # {} PROVE \E x \in T : \A y \in T : x <= y
<1> DEFINE R == OpToRel(<, Nat)
<1>1. \E x \in T : \A y \in T : ~(<<y, x>> \in R)
  BY NatLessThanWellFounded, WFMin, Zenon
<1>2. \A x, y \in Nat : x < y => <<x, y>> \in R
  BY Zenon DEF OpToRel
<1> HIDE DEF R
<1>3. PICK x \in T : \A y \in T : ~(<<y, x>> \in R)
  BY <1>1
<1>4. \A y \in T : ~(y < x)
  BY <1>2, <1>3, Zenon
<1> QED BY <1>3, <1>4
-----------------------------------------------------------------------------
(* Proactive refresh                                                        *)

(* Accounts move from invited to member to former and never back; a        *)
(* session and its submissions belong to the epoch that comes next, and    *)
(* the epochs after that have no submissions yet.                          *)
RefreshInv ==
    /\ TypeOK
    /\ threshold = 0 => members = {} /\ invited = {} /\ former = {}
    /\ invited \cap (members \cup former) = {}
    /\ members \cap former = {}
    /\ session.active => shareEpoch < MaxEpoch
    /\ ~document => shareEpoch = 0 /\ ~session.active
    /\ SubmissionsCounted
    /\ \A e \in 1 .. MaxEpoch :
          /\ zeroShareSubmitted[e] \subseteq members \cup former
          /\ e > shareEpoch + 1 => zeroShareSubmitted[e] = {}

\* What the client passes to addDocument and applyShareRefresh.
ClientShares == ~OutsiderShares /\ ~BlankShares

(* Shares are on file for guardians and former ones only, none before the  *)
(* document exists, and those of the guardians are of the current epoch.   *)
SharesInv ==
    /\ SharesAreCurrent
    /\ \A g \in Addr : shares[g] # None \/ shareCommitments[g] # None =>
          document /\ g \in members \cup former

\* Init establishes the invariant of the refresh.
LEMMA RefreshInitial == Init => RefreshInv /\ SharesInv
<1> SUFFICES ASSUME Init PROVE RefreshInv /\ SharesInv
  OBVIOUS
<1> USE RefreshAssumptions DEF Init, GS!Init
<1>1. TypeOK
  <2>1. Cardinality(Addr) \in Nat
    BY FS_CardinalityType
  <2>2. session \in [deadline : Nat, submittedCount : 0 .. Cardinality(Addr), active : BOOLEAN]
    BY <2>1
  <2>3. vss \in [c0 : Secrets \cup {None}, length : Nat, epoch : Epochs]
    BY DEF NoVss, Epochs
  <2>4. /\ members \subseteq Addr /\ invited \subseteq Addr /\ former \subseteq Addr
        /\ threshold \in Nat /\ time \in Nat /\ document \in BOOLEAN
    OBVIOUS
  <2>5. /\ shareEpoch \in Epochs /\ zeroShareSubmitted \in [1 .. MaxEpoch -> SUBSET Addr]
        /\ shares \in [Addr -> Epochs \cup {None}]
        /\ shareCommitments \in [Addr -> Epochs \cup {None}]
    BY DEF Epochs
  <2> QED BY <2>2, <2>3, <2>4, <2>5 DEF TypeOK
<1>2. SubmissionsCounted
  BY DEF SubmissionsCounted, NextEpoch
<1>3. /\ threshold = 0 => members = {} /\ invited = {} /\ former = {}
      /\ invited \cap (members \cup former) = {} /\ members \cap former = {}
      /\ session.active => shareEpoch < MaxEpoch
      /\ ~document => shareEpoch = 0 /\ ~session.active
      /\ \A e \in 1 .. MaxEpoch :
            /\ zeroShareSubmitted[e] \subseteq members \cup former
            /\ e > shareEpoch + 1 => zeroShareSubmitted[e] = {}
  OBVIOUS
<1>4. SharesInv
  BY DEF SharesInv, SharesAreCurrent
<1> QED BY <1>1, <1>2, <1>3, <1>4 DEF RefreshInv

\* Guardians come and go without a share or a submission changing hands.
LEMMA GovernanceKeeps ==
    ASSUME RefreshInv, Governance
    PROVE  RefreshInv' /\ members \cup former \subseteq members' \cup former'
<1> USE DEF Governance, docVars
<1>1. /\ members' \subseteq Addr /\ invited' \subseteq Addr /\ former' \subseteq Addr
      /\ threshold' \in Nat
      /\ threshold' = 0 => members' = {} /\ invited' = {} /\ former' = {}
      /\ invited' \cap (members' \cup former') = {}
      /\ members' \cap former' = {}
      /\ members \cup former \subseteq members' \cup former'
  <2>1. CASE \E a \in Addr, guests \in SUBSET Addr : GS!Found(a, guests)
    <3>1. PICK a \in Addr, guests \in SUBSET Addr : GS!Found(a, guests)
      BY <2>1
    <3>2. threshold' \in Nat \ {0}
      BY <3>1, FS_CardinalityType, FS_Subset, RefreshAssumptions DEF GS!Found
    <3> QED BY <3>1, <3>2 DEF GS!Found, RefreshInv, TypeOK
  <2>2. CASE \E a \in Addr : GS!Join(a)
    BY <2>2 DEF GS!Join, RefreshInv, TypeOK
  <2>3. CASE \E leaving \in SUBSET Addr : GS!Reconfigure(leaving)
    <3>1. PICK leaving \in SUBSET Addr : GS!Reconfigure(leaving)
      BY <2>3
    <3>2. PICK n : n = Cardinality(members \ leaving)
      OBVIOUS
    <3>3. n \in Nat /\ (members = {} => n = 0)
      <4>1. IsFiniteSet(members \ leaving)
        BY FS_Subset, RefreshAssumptions DEF RefreshInv, TypeOK
      <4>2. members = {} => members \ leaving = {}
        OBVIOUS
      <4> QED BY <4>1, <4>2, <3>2, FS_CardinalityType, FS_EmptySet
    <3>4. threshold' = threshold \/ threshold' \in 1 .. n
      <4>1. threshold' \in {threshold} \cup 1 .. Cardinality(members \ leaving)
        BY <3>1 DEF GS!Reconfigure, GS!Cardinality, Cardinality
      <4> QED BY <4>1, <3>2
    <3>5. threshold \in Nat /\ (threshold = 0 => members = {} /\ invited = {} /\ former = {})
      BY DEF RefreshInv, TypeOK
    <3>6. threshold' \in Nat /\ (threshold' = 0 => threshold = 0)
      BY <3>3, <3>4, <3>5
    <3>7. members' = members \ leaving /\ former' = former \cup leaving /\ leaving \subseteq members
          /\ invited' = invited
      BY <3>1 DEF GS!Reconfigure
    <3> QED BY <3>5, <3>6, <3>7 DEF RefreshInv, TypeOK
  <2> QED BY <2>1, <2>2, <2>3 DEF GS!Next
<1>2. /\ UNCHANGED <<time, document, session, shareEpoch, zeroShareSubmitted, shares,
                     shareCommitments, vss>>
  OBVIOUS
<1>3. TypeOK'
  BY <1>1, <1>2 DEF RefreshInv, TypeOK, Epochs
<1>4. SubmissionsCounted'
  BY <1>2 DEF RefreshInv, SubmissionsCounted, NextEpoch
<1>5. \A e \in 1 .. MaxEpoch :
        /\ zeroShareSubmitted'[e] \subseteq members' \cup former'
        /\ e > shareEpoch' + 1 => zeroShareSubmitted'[e] = {}
  BY <1>1, <1>2 DEF RefreshInv
<1>6. /\ session'.active => shareEpoch' < MaxEpoch
      /\ ~document' => shareEpoch' = 0 /\ ~session'.active
  BY <1>2 DEF RefreshInv
<1> QED BY <1>1, <1>3, <1>4, <1>5, <1>6 DEF RefreshInv

\* A submission is counted, for the epoch of the session that runs.
LEMMA SubmissionKeeps ==
    ASSUME RefreshInv, NEW a \in Addr, SubmitZeroShareCommitment(a)
    PROVE  RefreshInv'
<1> USE RefreshAssumptions
<1>0. PICK S : S = zeroShareSubmitted[NextEpoch]
  OBVIOUS
<1>1. /\ NextEpoch \in 1 .. MaxEpoch /\ shareEpoch < MaxEpoch /\ a \in members /\ a \notin S
      /\ S \subseteq Addr /\ session.submittedCount = Cardinality(S) /\ session.active /\ document
  BY <1>0 DEF SubmitZeroShareCommitment, MaySubmit, RefreshInv, TypeOK, SubmissionsCounted, NextEpoch, Epochs
<1>2. /\ IsFiniteSet(S) /\ IsFiniteSet(S \cup {a}) /\ Cardinality(S \cup {a}) = Cardinality(S) + 1
      /\ Cardinality(S \cup {a}) <= Cardinality(Addr) /\ Cardinality(Addr) \in Nat
      /\ Cardinality(S) \in Nat
  <2>1. IsFiniteSet(S) /\ S \cup {a} \subseteq Addr
    BY <1>1, FS_Subset
  <2>2. IsFiniteSet(S \cup {a}) /\ Cardinality(S \cup {a}) <= Cardinality(Addr)
    BY <2>1, FS_Subset
  <2> QED BY <1>1, <2>1, <2>2, FS_AddElement, FS_CardinalityType
<1>3. /\ zeroShareSubmitted' = [zeroShareSubmitted EXCEPT ![NextEpoch] = S \cup {a}]
      /\ session' = [session EXCEPT !.submittedCount = @ + 1]
      /\ UNCHANGED <<invited, members, former, threshold, time, document, shareEpoch, shares,
                     shareCommitments, vss>>
  BY <1>0 DEF SubmitZeroShareCommitment, guardianVars
<1>4. session' \in [deadline : Nat, submittedCount : 0 .. Cardinality(Addr), active : BOOLEAN]
      /\ session'.active = session.active /\ session'.submittedCount = Cardinality(S \cup {a})
  <2>1. session \in [deadline : Nat, submittedCount : 0 .. Cardinality(Addr), active : BOOLEAN]
    BY DEF RefreshInv, TypeOK
  <2>2. PICK n : n = Cardinality(Addr)
    OBVIOUS
  <2>3. PICK m : m = Cardinality(S \cup {a})
    OBVIOUS
  <2>4. m = session.submittedCount + 1 /\ m <= n /\ n \in Nat /\ m \in Nat
    BY <1>1, <1>2, <2>2, <2>3
  <2> QED BY <2>1, <2>2, <2>3, <2>4, <1>3
<1>5. zeroShareSubmitted \in [1 .. MaxEpoch -> SUBSET Addr]
  BY DEF RefreshInv, TypeOK
<1>6. zeroShareSubmitted' \in [1 .. MaxEpoch -> SUBSET Addr]
      /\ zeroShareSubmitted'[NextEpoch] = S \cup {a}
      /\ \A e \in 1 .. MaxEpoch : e # NextEpoch => zeroShareSubmitted'[e] = zeroShareSubmitted[e]
  BY <1>1, <1>3, <1>5
<1>7. TypeOK'
  BY <1>3, <1>4, <1>6 DEF RefreshInv, TypeOK, Epochs
<1>8. SubmissionsCounted'
  BY <1>1, <1>3, <1>4, <1>6 DEF SubmissionsCounted, NextEpoch
<1>9. \A e \in 1 .. MaxEpoch :
        /\ zeroShareSubmitted'[e] \subseteq members' \cup former'
        /\ e > shareEpoch' + 1 => zeroShareSubmitted'[e] = {}
  BY <1>0, <1>1, <1>3, <1>6 DEF RefreshInv, NextEpoch
<1>10. /\ session'.active => shareEpoch' < MaxEpoch
       /\ ~document' => shareEpoch' = 0 /\ ~session'.active
  BY <1>1, <1>3
<1>11. /\ threshold' = 0 => members' = {} /\ invited' = {} /\ former' = {}
       /\ invited' \cap (members' \cup former') = {} /\ members' \cap former' = {}
  BY <1>3 DEF RefreshInv
<1> QED BY <1>7, <1>8, <1>9, <1>10, <1>11 DEF RefreshInv

\* A refresh closes the session and moves on to an epoch without submissions.
LEMMA ApplyKeeps ==
    ASSUME RefreshInv, NEW a \in Addr, NEW accounts \in SUBSET Addr, NEW blank \in SUBSET Addr,
           NEW newVss \in Vectors, ApplyShareRefresh(a, accounts, blank, newVss)
    PROVE  RefreshInv'
<1> USE RefreshAssumptions
<1>1. /\ document /\ session.active /\ shareEpoch \in Nat /\ shareEpoch < MaxEpoch
      /\ NextEpoch = shareEpoch + 1 /\ NextEpoch \in Epochs
  BY DEF ApplyShareRefresh, RefreshInv, TypeOK, NextEpoch, Epochs
<1>2. /\ shareEpoch' = NextEpoch /\ session' = ClosedSession
      /\ UNCHANGED <<invited, members, former, threshold, time, document, zeroShareSubmitted>>
  BY DEF ApplyShareRefresh, guardianVars
<1>3. shares' \in [Addr -> Epochs \cup {None}] /\ shareCommitments' \in [Addr -> Epochs \cup {None}]
  <2>1. \A g \in Addr : shares[g] \in Epochs \cup {None} /\ shareCommitments[g] \in Epochs \cup {None}
    BY DEF RefreshInv, TypeOK
  <2>2. shares' = [g \in Addr |-> IF g \in blank THEN None ELSE IF g \in accounts THEN NextEpoch ELSE shares[g]]
    BY DEF ApplyShareRefresh
  <2>3. shareCommitments' = [g \in Addr |-> IF g \in accounts \ blank THEN NextEpoch ELSE shareCommitments[g]]
    BY DEF ApplyShareRefresh
  <2> QED BY <1>1, <2>1, <2>2, <2>3
<1>4. vss' \in [c0 : Secrets \cup {None}, length : Nat, epoch : Epochs]
  <2>1. newVss \in [c0 : Secrets \cup {None}, length : Nat, epoch : Epochs]
    <3>1. CASE newVss = NoVss
      BY <3>1 DEF NoVss, Epochs
    <3>2. CASE newVss \in [c0 : Secrets, length : Lengths, epoch : {NextEpoch}]
      BY <3>2, <1>1
    <3> QED BY <3>1, <3>2 DEF Vectors
  <2>2. vss' = vss \/ vss' = newVss
    BY DEF ApplyShareRefresh
  <2>3. vss \in [c0 : Secrets \cup {None}, length : Nat, epoch : Epochs]
    BY DEF RefreshInv, TypeOK
  <2> QED BY <2>1, <2>2, <2>3
<1>5. session' \in [deadline : Nat, submittedCount : 0 .. Cardinality(Addr), active : BOOLEAN]
      /\ ~session'.active
  BY <1>2 DEF ClosedSession, RefreshInv, TypeOK
<1>6. TypeOK'
  BY <1>1, <1>2, <1>3, <1>4, <1>5 DEF RefreshInv, TypeOK, Epochs
<1>7. \A e \in 1 .. MaxEpoch :
        /\ zeroShareSubmitted'[e] \subseteq members' \cup former'
        /\ e > shareEpoch + 1 => zeroShareSubmitted'[e] = {}
  BY <1>2 DEF RefreshInv
<1>8. \A e \in 1 .. MaxEpoch : e > shareEpoch' + 1 => zeroShareSubmitted'[e] = {}
  BY <1>1, <1>2, <1>7
<1>9. SubmissionsCounted'
  <2>1. NextEpoch' = shareEpoch + 2
    BY <1>1, <1>2 DEF NextEpoch
  <2>2. shareEpoch' < MaxEpoch => NextEpoch' \in 1 .. MaxEpoch /\ NextEpoch' > shareEpoch + 1
    BY <1>1, <1>2, <2>1
  <2> QED BY <1>5, <1>7, <2>2 DEF SubmissionsCounted
<1>10. /\ threshold' = 0 => members' = {} /\ invited' = {} /\ former' = {}
       /\ invited' \cap (members' \cup former') = {} /\ members' \cap former' = {}
  BY <1>2 DEF RefreshInv
<1> QED BY <1>1, <1>2, <1>5, <1>6, <1>7, <1>8, <1>9, <1>10 DEF RefreshInv

\* Every step of the refresh keeps its invariant.
LEMMA RefreshStepKeeps == RefreshInv /\ [Next]_vars => RefreshInv'
<1> SUFFICES ASSUME RefreshInv, [Next]_vars PROVE RefreshInv'
  OBVIOUS
<1> USE RefreshAssumptions
<1>1. CASE Governance
  BY <1>1, GovernanceKeeps
<1>2. CASE Tick \/ UNCHANGED vars
  <2>1. /\ time' \in Nat
        /\ UNCHANGED <<invited, members, former, threshold, document, session, shareEpoch,
                       zeroShareSubmitted, shares, shareCommitments, vss>>
    BY <1>2 DEF Tick, vars, guardianVars, docVars, RefreshInv, TypeOK
  <2>2. TypeOK' /\ SubmissionsCounted'
    BY <2>1 DEF RefreshInv, TypeOK, Epochs, SubmissionsCounted, NextEpoch
  <2> QED BY <2>1, <2>2 DEF RefreshInv
<1>3. ASSUME NEW a \in Addr, NEW accounts \in SUBSET Addr, AddDocument(a, accounts) PROVE RefreshInv'
  <2>1. /\ document' = TRUE /\ ~document
        /\ UNCHANGED <<invited, members, former, threshold, time, session, shareEpoch,
                       zeroShareSubmitted, vss>>
    BY <1>3 DEF AddDocument, guardianVars
  <2>2. shares' \in [Addr -> Epochs \cup {None}] /\ shareCommitments' \in [Addr -> Epochs \cup {None}]
    <3>1. \A g \in Addr : shares[g] \in Epochs \cup {None} /\ shareCommitments[g] \in Epochs \cup {None}
      BY DEF RefreshInv, TypeOK
    <3>2. 0 \in Epochs
      BY DEF Epochs
    <3>3. /\ shares' = [g \in Addr |-> IF g \in accounts THEN 0 ELSE shares[g]]
          /\ shareCommitments' = [g \in Addr |-> IF g \in accounts THEN 0 ELSE shareCommitments[g]]
      BY <1>3 DEF AddDocument
    <3> QED BY <3>1, <3>2, <3>3
  <2>3. TypeOK' /\ SubmissionsCounted'
    BY <2>1, <2>2 DEF RefreshInv, TypeOK, Epochs, SubmissionsCounted, NextEpoch
  <2> QED BY <2>1, <2>3 DEF RefreshInv
<1>4. ASSUME NEW a \in Addr, NEW c0 \in Secrets, NEW len \in Lengths,
             SetDocumentVSSCommitments(a, c0, len)
      PROVE  RefreshInv'
  <2>1. /\ vss' = [c0 |-> c0, length |-> len, epoch |-> shareEpoch]
        /\ UNCHANGED <<invited, members, former, threshold, time, document, session, shareEpoch,
                       zeroShareSubmitted, shares, shareCommitments>>
    BY <1>4 DEF SetDocumentVSSCommitments, guardianVars
  <2>2. vss' \in [c0 : Secrets \cup {None}, length : Nat, epoch : Epochs]
    BY <2>1 DEF RefreshInv, TypeOK
  <2>3. TypeOK' /\ SubmissionsCounted'
    BY <2>1, <2>2 DEF RefreshInv, TypeOK, Epochs, SubmissionsCounted, NextEpoch
  <2> QED BY <2>1, <2>3 DEF RefreshInv
<1>5. ASSUME NEW a \in Addr, NEW duration \in Durations, StartShareRefresh(a, duration)
      PROVE  RefreshInv'
  <2>1. /\ session' = [deadline |-> time + duration, submittedCount |-> 0, active |-> TRUE]
        /\ document /\ ~session.active /\ shareEpoch < MaxEpoch
        /\ UNCHANGED <<invited, members, former, threshold, time, document, shareEpoch,
                       zeroShareSubmitted, shares, shareCommitments, vss>>
    BY <1>5 DEF StartShareRefresh, guardianVars
  <2>2. session' \in [deadline : Nat, submittedCount : 0 .. Cardinality(Addr), active : BOOLEAN]
    <3>1. time \in Nat /\ duration \in Nat
      BY DEF RefreshInv, TypeOK
    <3>2. Cardinality(Addr) \in Nat
      BY FS_CardinalityType
    <3> QED BY <2>1, <3>1, <3>2
  <2>3. TypeOK'
    BY <2>1, <2>2 DEF RefreshInv, TypeOK, Epochs
  <2>4. zeroShareSubmitted[NextEpoch] = {}
    BY <2>1 DEF RefreshInv, SubmissionsCounted
  <2>5. SubmissionsCounted'
    BY <2>1, <2>4, FS_EmptySet DEF SubmissionsCounted, NextEpoch
  <2> QED BY <2>1, <2>3, <2>5 DEF RefreshInv
<1> QED BY <1>1, <1>2, <1>3, <1>4, <1>5, SubmissionKeeps, ApplyKeeps DEF Next

\* A list of as many guardians as there are holds all of them.
LEMMA ListIsEveryone ==
    ASSUME RefreshInv, NEW accounts, ValidList(accounts)
    PROVE  accounts = members
<1>1. IsFiniteSet(members) /\ accounts \subseteq members
  BY FS_Subset, RefreshAssumptions DEF ValidList, RefreshInv, TypeOK
<1> QED BY <1>1, FS_Subset DEF ValidList

\* With what the client passes, every share a guardian has on file is current.
LEMMA SharesStepKeeps ==
    ASSUME ClientShares, RefreshInv, SharesInv, [Next]_vars PROVE SharesInv'
<1> USE RefreshAssumptions
<1>0. /\ ~OutsiderShares /\ ~BlankShares
      /\ shares \in [Addr -> Epochs \cup {None}] /\ shareCommitments \in [Addr -> Epochs \cup {None}]
      /\ members \subseteq Addr
  BY DEF ClientShares, RefreshInv, TypeOK
<1>1. CASE Governance
  <2>1. /\ members \cup former \subseteq members' \cup former'
        /\ UNCHANGED <<document, shares, shareCommitments, shareEpoch>>
    BY <1>1, GovernanceKeeps DEF Governance, docVars
  <2>2. \A g \in members' : g \in members \/ g \in invited \/ threshold = 0
    <3>1. CASE \E a \in Addr, guests \in SUBSET Addr : GS!Found(a, guests)
      BY <3>1 DEF GS!Found
    <3>2. CASE \E a \in Addr : GS!Join(a)
      BY <3>2 DEF GS!Join
    <3>3. CASE \E leaving \in SUBSET Addr : GS!Reconfigure(leaving)
      BY <3>3 DEF GS!Reconfigure
    <3> QED BY <1>1, <3>1, <3>2, <3>3 DEF Governance, GS!Next
  <2>3. members' \subseteq Addr
    BY <1>1, GovernanceKeeps DEF RefreshInv, TypeOK
  <2>4. \A g \in members' : g \in members \/ (shares[g] = None /\ shareCommitments[g] = None)
    BY <2>2, <2>3 DEF RefreshInv, SharesInv
  <2> QED BY <2>1, <2>4 DEF SharesInv, SharesAreCurrent
<1>2. CASE UNCHANGED <<members, former, document, shares, shareCommitments, shareEpoch>>
  BY <1>2 DEF SharesInv, SharesAreCurrent
<1>3. ASSUME NEW a \in Addr, NEW accounts \in SUBSET Addr, AddDocument(a, accounts) PROVE SharesInv'
  <2>1. /\ ~document /\ document' /\ accounts \subseteq members
        /\ shares' = [g \in Addr |-> IF g \in accounts THEN 0 ELSE shares[g]]
        /\ shareCommitments' = [g \in Addr |-> IF g \in accounts THEN 0 ELSE shareCommitments[g]]
        /\ UNCHANGED <<members, former, shareEpoch>>
    BY <1>0, <1>3 DEF AddDocument, guardianVars
  <2>2. shareEpoch = 0
    BY <2>1 DEF RefreshInv
  <2>3. \A g \in Addr : shares[g] = None /\ shareCommitments[g] = None
    BY <2>1 DEF SharesInv
  <2> QED BY <1>0, <2>1, <2>2, <2>3 DEF SharesInv, SharesAreCurrent
<1>4. ASSUME NEW a \in Addr, NEW accounts \in SUBSET Addr, NEW blank \in SUBSET Addr,
             NEW newVss \in Vectors, ApplyShareRefresh(a, accounts, blank, newVss)
      PROVE  SharesInv'
  <2>1. blank = {} /\ accounts = members
    BY <1>0, <1>4, ListIsEveryone DEF ApplyShareRefresh
  <2>2. /\ shares' = [g \in Addr |-> IF g \in members THEN NextEpoch ELSE shares[g]]
        /\ shareCommitments' = [g \in Addr |-> IF g \in members THEN NextEpoch ELSE shareCommitments[g]]
        /\ shareEpoch' = NextEpoch /\ document /\ UNCHANGED <<members, former, document>>
    BY <1>4, <2>1 DEF ApplyShareRefresh, guardianVars
  <2> QED BY <1>0, <2>2 DEF SharesInv, SharesAreCurrent
<1>5. CASE Tick \/ UNCHANGED vars
  BY <1>2, <1>5 DEF Tick, vars, guardianVars, docVars
<1>6. ASSUME NEW a \in Addr, NEW c0 \in Secrets, NEW len \in Lengths,
             SetDocumentVSSCommitments(a, c0, len)
      PROVE  SharesInv'
  BY <1>2, <1>6 DEF SetDocumentVSSCommitments, guardianVars
<1>7. ASSUME NEW a \in Addr, NEW duration \in Durations, StartShareRefresh(a, duration)
      PROVE  SharesInv'
  BY <1>2, <1>7 DEF StartShareRefresh, guardianVars
<1>8. ASSUME NEW a \in Addr, SubmitZeroShareCommitment(a) PROVE SharesInv'
  BY <1>2, <1>8 DEF SubmitZeroShareCommitment, guardianVars
<1> QED BY <1>1, <1>3, <1>4, <1>5, <1>6, <1>7, <1>8 DEF Next

\* The cardinality of two sets that have nothing in common.
LEMMA DisjointCardinality ==
    ASSUME NEW A, NEW B, IsFiniteSet(A), IsFiniteSet(B), A \cap B = {}
    PROVE  Cardinality(A \cup B) = Cardinality(A) + Cardinality(B)
<1>1. Cardinality(A \cap B) = 0
  BY FS_EmptySet
<1>2. Cardinality(A) \in Nat /\ Cardinality(B) \in Nat
  BY FS_CardinalityType
<1>3. Cardinality(A \cup B) = Cardinality(A) + Cardinality(B) - Cardinality(A \cap B)
  BY FS_Union
<1> QED BY <1>1, <1>2, <1>3

\* Cardinalities of a set of submissions that is at least as large as the guardians.
LEMMA MissingAreMadeUp ==
    ASSUME NEW M, NEW F, NEW S, IsFiniteSet(M), IsFiniteSet(F), M \cap F = {}, S \subseteq M \cup F,
           Cardinality(S) >= Cardinality(M)
    PROVE  Cardinality(M \ S) <= Cardinality(S \cap F)
<1>1. IsFiniteSet(S)
  BY FS_Union, FS_Subset
<1>2. /\ IsFiniteSet(M \cap S) /\ IsFiniteSet(M \ S) /\ IsFiniteSet(S \cap F)
  BY <1>1, FS_Subset
<1>3. Cardinality(M) = Cardinality(M \cap S) + Cardinality(M \ S)
  <2>1. M = (M \cap S) \cup (M \ S) /\ (M \cap S) \cap (M \ S) = {}
    OBVIOUS
  <2> QED BY <1>2, <2>1, DisjointCardinality
<1>4. Cardinality(S) = Cardinality(M \cap S) + Cardinality(S \cap F)
  <2>1. S = (M \cap S) \cup (S \cap F) /\ (M \cap S) \cap (S \cap F) = {}
    OBVIOUS
  <2> QED BY <1>2, <2>1, DisjointCardinality
<1>5. Cardinality(M \cap S) \in Nat /\ Cardinality(M \ S) \in Nat /\ Cardinality(S \cap F) \in Nat
  BY <1>2, FS_CardinalityType
<1> QED BY <1>3, <1>4, <1>5

\* What RefreshQuorum says of one step.
LEMMA QuorumStep ==
    ASSUME RefreshInv, Next, shareEpoch' # shareEpoch
    PROVE  Cardinality(members \ zeroShareSubmitted[NextEpoch])
             <= Cardinality(zeroShareSubmitted[NextEpoch] \cap former)
<1> USE RefreshAssumptions
<1>1. session.active /\ EnoughSubmitted
  BY DEF Next, Governance, Tick, AddDocument, SetDocumentVSSCommitments, StartShareRefresh,
         SubmitZeroShareCommitment, ApplyShareRefresh, docVars
<1>2. shareEpoch < MaxEpoch /\ NextEpoch \in 1 .. MaxEpoch
  BY <1>1 DEF RefreshInv, TypeOK, NextEpoch, Epochs
<1>3. Cardinality(zeroShareSubmitted[NextEpoch]) >= Cardinality(members)
  BY <1>1, <1>2 DEF RefreshInv, SubmissionsCounted, EnoughSubmitted
<1>4. /\ IsFiniteSet(members) /\ IsFiniteSet(former) /\ members \cap former = {}
      /\ zeroShareSubmitted[NextEpoch] \subseteq members \cup former
  BY <1>2, FS_Subset DEF RefreshInv, TypeOK
<1> QED BY <1>3, <1>4, MissingAreMadeUp

-----------------------------------------------------------------------------
(* Keyring and OPAQUE server                                                *)

AtMostOne(S) == \A x, y \in S : x = y

TaskType ==
    [id : Nat, kind : Kinds, stage : Stages, pin : Pins \cup {NoPin}, key : 0 .. MaxKeys,
     passkey : SUBSET (1 .. MaxKeys), existing : SUBSET Records, ver : Ids]

\* Operations that have not yet asked the server for a version or a token.
Waiting(S) == {t \in S : t.stage \in {"register", "login", "proof"}}

(* The server issues one version or token per operation at most, so their  *)
(* number is bounded by that of the operations.                            *)
IssuedBounded(S, i, n) ==
    /\ IsFiniteSet(S) /\ i \in Nat /\ n \in Nat
    /\ i + Cardinality(Waiting(S)) <= n

\* Records of which there is one, with one envelope of each kind.
OneRecord(R) ==
    R \subseteq Records /\ AtMostOne(R) /\ \A r \in R : AtMostOne(r.opaque) /\ AtMostOne(r.passkey)

TaskFits(t) ==
    /\ t \in TaskType /\ OneRecord(t.existing) /\ AtMostOne(t.passkey)
    /\ t.stage \in {"register", "login", "proof", "store", "attach"} => t.key # 0
    /\ t.stage \in {"register", "login", "proof"} => t.pin # NoPin

ServerFits(cr, tks, tk) ==
    /\ cr \subseteq [pin : Pins, ver : Ids] /\ AtMostOne(cr)
    /\ tks \subseteq Ids /\ tk \in Ids

CacheFits(k) == k \subseteq 1 .. MaxKeys /\ AtMostOne(k)

KeyringInv ==
    /\ ServerFits(cred, tokens, token) /\ attempts \in 0 .. MaxAttempts
    /\ OneRecord(record) /\ CacheFits(cache)
    /\ keys \in 1 .. MaxKeys
    /\ \A t \in tasks : TaskFits(t)
    /\ IssuedBounded(tasks, issued, started) /\ started <= MaxTasks

\* The stored envelope opens with the credential the server has.
Opens(rec, cr) ==
    \A r \in rec : \A w \in r.opaque :
        w.key = r.pub /\ \E c \in cr : c.ver = w.ver /\ c.pin = w.pin

(* While nothing overlapped there is one operation at most; between the    *)
(* answer of the server and the write of the record it carries what the    *)
(* server has, and at all other times the stored envelope opens.           *)
PinInv ==
    ~overlap =>
        /\ AtMostOne(tasks)
        /\ (\A t \in tasks : t.stage \notin {"store", "erase"}) => Opens(record, cred)
        /\ \A t \in tasks :
              t.stage = "proof" \/ (t.stage = "store" /\ t.pin # NoPin) =>
                  \E c \in cred : c.ver = t.ver /\ c.pin = t.pin

LockInv == locked = "quiet" => tasks = {} /\ cache = {}

CustodyInv == KeyringInv /\ PinInv /\ LockInv

LEMMA OneIsCounted == ASSUME NEW S, AtMostOne(S) PROVE IsFiniteSet(S) /\ Cardinality(S) <= 1
<1>1. CASE S = {}
  BY <1>1, FS_EmptySet
<1>2. CASE S # {}
  <2>1. PICK x : x \in S
    BY <1>2
  <2>2. S = {x}
    BY <2>1 DEF AtMostOne
  <2>3. IsFiniteSet({x}) /\ Cardinality({x}) = 1
    BY FS_Singleton
  <2> QED BY <2>2, <2>3
<1> QED BY <1>1, <1>2

\* The invariant of the keyring is what the properties need.
LEMMA CustodyInvSuffices == CustodyInv => CustodyTypeOK /\ PinOpensKeyring /\ LockedWithoutKey
<1> SUFFICES ASSUME CustodyInv PROVE CustodyTypeOK /\ PinOpensKeyring /\ LockedWithoutKey
  OBVIOUS
<1>1. Cardinality(cred) <= 1 /\ Cardinality(record) <= 1 /\ Cardinality(cache) <= 1
  BY OneIsCounted DEF CustodyInv, KeyringInv, ServerFits, OneRecord, CacheFits
<1>2. CustodyTypeOK
  BY <1>1 DEF CustodyInv, KeyringInv, ServerFits, OneRecord, CacheFits, TaskFits, TaskType, CustodyTypeOK
<1>3. PinOpensKeyring
  BY DEF CustodyInv, PinInv, PinOpensKeyring, Opens
<1> QED BY <1>2, <1>3 DEF CustodyInv, LockInv, LockedWithoutKey

LEMMA FewerWait ==
    ASSUME NEW S, NEW T, NEW i, NEW n, IssuedBounded(S, i, n), T \subseteq S
    PROVE  IssuedBounded(T, i, n)
<1>1. IsFiniteSet(T) /\ IsFiniteSet(Waiting(S)) /\ Waiting(T) \subseteq Waiting(S)
  BY FS_Subset DEF IssuedBounded, Waiting
<1>2. Cardinality(Waiting(T)) <= Cardinality(Waiting(S)) /\ IsFiniteSet(Waiting(T))
  BY <1>1, FS_Subset
<1>3. Cardinality(Waiting(T)) \in Nat /\ Cardinality(Waiting(S)) \in Nat
  BY <1>1, <1>2, FS_CardinalityType
<1> QED BY <1>1, <1>2, <1>3 DEF IssuedBounded

LEMMA OneMoreWaits ==
    ASSUME NEW S, NEW t, NEW i, NEW n, IssuedBounded(S, i, n)
    PROVE  IssuedBounded(S \cup {t}, i, n + 1)
<1>1. IsFiniteSet(Waiting(S)) /\ Waiting(S \cup {t}) \subseteq Waiting(S) \cup {t}
  BY FS_Subset DEF IssuedBounded, Waiting
<1>2. /\ IsFiniteSet(Waiting(S) \cup {t})
      /\ Cardinality(Waiting(S) \cup {t}) <= Cardinality(Waiting(S)) + 1
  <2>0. Cardinality(Waiting(S)) \in Nat
    BY <1>1, FS_CardinalityType
  <2>1. PICK W : W = Waiting(S)
    OBVIOUS
  <2>2. /\ IsFiniteSet(W \cup {t})
        /\ Cardinality(W \cup {t}) = IF t \in W THEN Cardinality(W) ELSE Cardinality(W) + 1
    BY <1>1, <2>1, FS_AddElement
  <2> QED BY <2>0, <2>1, <2>2
<1>3. Cardinality(Waiting(S \cup {t})) <= Cardinality(Waiting(S) \cup {t})
      /\ IsFiniteSet(Waiting(S \cup {t}))
  BY <1>1, <1>2, FS_Subset
<1>4. /\ Cardinality(Waiting(S \cup {t})) \in Nat /\ Cardinality(Waiting(S)) \in Nat
      /\ Cardinality(Waiting(S) \cup {t}) \in Nat
  BY <1>1, <1>2, <1>3, FS_CardinalityType
<1>5. IsFiniteSet(S \cup {t})
  BY FS_AddElement DEF IssuedBounded
<1> QED BY <1>2, <1>3, <1>4, <1>5 DEF IssuedBounded

\* An operation that waited is answered: it waits no more, and one number is issued.
LEMMA OneIsIssued ==
    ASSUME NEW S, NEW i, NEW n, IssuedBounded(S, i, n), NEW t \in Waiting(S)
    PROVE  IssuedBounded(S \ {t}, i + 1, n) /\ i + 1 <= n
<1>1. IsFiniteSet(Waiting(S)) /\ Waiting(S \ {t}) = Waiting(S) \ {t} /\ IsFiniteSet(S \ {t})
  BY FS_Subset DEF IssuedBounded, Waiting
<1>2. Cardinality(Waiting(S) \ {t}) = Cardinality(Waiting(S)) - 1 /\ IsFiniteSet(Waiting(S) \ {t})
  BY <1>1, FS_RemoveElement
<1>3. Cardinality(Waiting(S) \ {t}) \in Nat /\ Cardinality(Waiting(S)) \in Nat
  BY <1>1, <1>2, FS_CardinalityType
<1> QED BY <1>1, <1>2, <1>3 DEF IssuedBounded

LEMMA IdleJoins ==
    ASSUME NEW S, NEW i, NEW n, IssuedBounded(S, i, n), NEW u,
           u.stage \notin {"register", "login", "proof"}
    PROVE  IssuedBounded(S \cup {u}, i, n)
<1>1. Waiting(S \cup {u}) = Waiting(S)
  BY DEF Waiting
<1>2. IsFiniteSet(S \cup {u})
  BY FS_AddElement DEF IssuedBounded
<1> QED BY <1>1, <1>2 DEF IssuedBounded

\* An operation that waited goes on waiting, or does not.
LEMMA OneMoves ==
    ASSUME NEW S, NEW i, NEW n, IssuedBounded(S, i, n), NEW t \in S, NEW u,
           t \in Waiting(S) \/ u.stage \notin {"register", "login", "proof"}
    PROVE  IssuedBounded((S \ {t}) \cup {u}, i, n)
<1>1. CASE u.stage \notin {"register", "login", "proof"}
  <2>1. IssuedBounded(S \ {t}, i, n)
    BY FewerWait
  <2> QED BY <1>1, <2>1, IdleJoins
<1>2. CASE t \in Waiting(S)
  <2>1. IssuedBounded(S \ {t}, i + 1, n)
    BY <1>2, OneIsIssued
  <2>2. IssuedBounded((S \ {t}) \cup {u}, i + 1, n + 1)
    BY <2>1, OneMoreWaits
  <2>3. i \in Nat /\ n \in Nat
    BY DEF IssuedBounded
  <2>4. PICK k : k = Cardinality(Waiting((S \ {t}) \cup {u}))
    OBVIOUS
  <2>5. i + 1 + k <= n + 1 /\ k \in Nat
    <3>1. IsFiniteSet(Waiting((S \ {t}) \cup {u}))
      BY <2>2, FS_Subset DEF IssuedBounded, Waiting
    <3> QED BY <2>2, <2>4, <3>1, FS_CardinalityType DEF IssuedBounded
  <2>6. i + k <= n
    BY <2>3, <2>5
  <2> QED BY <2>2, <2>3, <2>4, <2>6 DEF IssuedBounded
<1> QED BY <1>1, <1>2

LEMMA CustodyInitial == CustodyInit => CustodyInv
<1> SUFFICES ASSUME CustodyInit PROVE CustodyInv
  OBVIOUS
<1> USE KeyConstants
<1>1. 0 \in Ids /\ 1 \in 1 .. MaxKeys
  BY DEF Ids
<1>2. /\ tokens = {} /\ attempts = 0 /\ cache = {} /\ token = 0 /\ tasks = {} /\ keys = 1
      /\ issued = 0 /\ started = 0 /\ locked = "no"
  BY DEF CustodyInit
<1>3. OneRecord(record) /\ cred \subseteq [pin : Pins, ver : Ids] /\ AtMostOne(cred) /\ Opens(record, cred)
  <2>1. CASE record = {} /\ cred = {}
    BY <2>1 DEF OneRecord, AtMostOne, Opens
  <2>2. ASSUME NEW p \in Pins, cred = {},
               record = {[pub |-> 1, opaque |-> {}, passkey |-> {},
                          legacy |-> {[key |-> 1, ver |-> 0, pin |-> p]}]}
        PROVE  OneRecord(record) /\ Opens(record, cred)
    BY <1>1, <2>2 DEF OneRecord, AtMostOne, Opens, Records, Wrapped
  <2>3. ASSUME NEW p \in Pins, NEW k \in {{}, {1}}, cred = {[pin |-> p, ver |-> 0]},
               record = {[pub |-> 1, opaque |-> {[key |-> 1, ver |-> 0, pin |-> p]},
                          passkey |-> k, legacy |-> {}]}
        PROVE  /\ OneRecord(record) /\ Opens(record, cred)
               /\ cred \subseteq [pin : Pins, ver : Ids] /\ AtMostOne(cred)
    <3>1. cred \subseteq [pin : Pins, ver : Ids] /\ AtMostOne(cred)
      BY <1>1, <2>3 DEF AtMostOne
    <3>2. OneRecord(record)
      BY <1>1, <2>3 DEF OneRecord, AtMostOne, Records, Wrapped
    <3>3. Opens(record, cred)
      BY <2>3 DEF Opens
    <3> QED BY <3>1, <3>2, <3>3
  <2> QED BY <2>1, <2>2, <2>3 DEF CustodyInit, AtMostOne
<1>4. IssuedBounded(tasks, issued, started)
  <2>1. Waiting({}) = {}
    BY DEF Waiting
  <2> QED BY <1>2, <2>1, FS_EmptySet DEF IssuedBounded
<1> QED BY <1>1, <1>2, <1>3, <1>4
     DEF CustodyInv, KeyringInv, PinInv, LockInv, ServerFits, CacheFits, AtMostOne

-----------------------------------------------------------------------------
\* An operation begins, on the record and the credential of that moment.
LEMMA BeginTaskKeeps ==
    ASSUME CustodyInv, NEW t, TaskFits(t), BeginTask(t),
           t.stage \in {"passkey", "register", "login", "drop"} \/ (t.stage = "store" /\ t.pin = NoPin),
           UNCHANGED <<cred, tokens, attempts, record, token, issued>>,
           CacheFits(cache'), keys' \in 1 .. MaxKeys
    PROVE  CustodyInv'
<1> USE KeyConstants
<1>1. /\ started < MaxTasks /\ started' = started + 1 /\ tasks' = tasks \cup {t} /\ locked' = "no"
      /\ overlap' = (overlap \/ tasks # {})
  BY DEF BeginTask
<1>2. IssuedBounded(tasks', issued', started') /\ started' <= MaxTasks
  <2>1. IssuedBounded(tasks, issued, started) /\ started \in Nat
    BY DEF CustodyInv, KeyringInv, IssuedBounded
  <2>2. IssuedBounded(tasks \cup {t}, issued, started + 1)
    BY <2>1, OneMoreWaits
  <2>3. issued' = issued
    OBVIOUS
  <2> QED BY <1>1, <2>1, <2>2, <2>3
<1>3. KeyringInv'
  BY <1>1, <1>2 DEF CustodyInv, KeyringInv
<1>4. PinInv'
  <2> SUFFICES ASSUME ~overlap'
               PROVE  /\ AtMostOne(tasks')
                      /\ (\A u \in tasks' : u.stage \notin {"store", "erase"}) => Opens(record', cred')
                      /\ \A u \in tasks' :
                            u.stage = "proof" \/ (u.stage = "store" /\ u.pin # NoPin) =>
                                \E c \in cred' : c.ver = u.ver /\ c.pin = u.pin
    BY DEF PinInv
  <2>1. ~overlap /\ tasks = {} /\ tasks' = {t}
    BY <1>1
  <2>2. Opens(record, cred)
    BY <2>1 DEF CustodyInv, PinInv
  <2> QED BY <2>1, <2>2 DEF AtMostOne
<1> QED BY <1>1, <1>3, <1>4 DEF CustodyInv, LockInv

\* What Task makes of the current record has the type of an operation.
LEMMA TaskHasType ==
    ASSUME CustodyInv, started < MaxTasks, NEW kind \in Kinds, NEW stage \in Stages,
           NEW pin \in Pins \cup {NoPin}, NEW key \in 0 .. MaxKeys, NEW passkey \in SUBSET (1 .. MaxKeys),
           AtMostOne(passkey),
           stage \in {"register", "login", "proof", "store", "attach"} => key # 0,
           stage \in {"register", "login", "proof"} => pin # NoPin
    PROVE  /\ TaskFits(Task(kind, stage, pin, key, passkey))
           /\ Task(kind, stage, pin, key, passkey).stage = stage
           /\ Task(kind, stage, pin, key, passkey).pin = pin
<1>1. 0 \in Ids /\ started + 1 \in Nat
  BY KeyConstants DEF Ids, CustodyInv, KeyringInv, IssuedBounded
<1>2. OneRecord(record) /\ record \subseteq Records
  BY DEF CustodyInv, KeyringInv, OneRecord
<1>3. Task(kind, stage, pin, key, passkey) \in TaskType
  BY <1>1, <1>2 DEF Task, TaskType
<1>4. /\ Task(kind, stage, pin, key, passkey).stage = stage
      /\ Task(kind, stage, pin, key, passkey).pin = pin
      /\ Task(kind, stage, pin, key, passkey).key = key
      /\ Task(kind, stage, pin, key, passkey).passkey = passkey
      /\ Task(kind, stage, pin, key, passkey).existing = record
  BY DEF Task
<1> QED BY <1>2, <1>3, <1>4 DEF TaskFits

LEMMA BeginningsKeep ==
    ASSUME CustodyInv,
           \/ \E pin \in Pins \cup {NoPin}, p \in BOOLEAN : Generate(pin, p)
           \/ \E pin \in Pins, k \in 1 .. keys : SaveKeyPair(pin, k)
           \/ \E pin \in Pins \cup {NoPin} : Unlock(pin)
           \/ DeleteKeyPair
    PROVE  CustodyInv'
<1> USE KeyConstants
<1>1. keys \in 1 .. MaxKeys /\ CacheFits(cache) /\ OneRecord(record) /\ NoPin \notin Pins
  BY DEF CustodyInv, KeyringInv
<1>2. ASSUME NEW pin \in Pins \cup {NoPin}, NEW p \in BOOLEAN, Generate(pin, p) PROVE CustodyInv'
  <2>1. PICK stage : stage = IF pin # NoPin THEN "register" ELSE "store"
    OBVIOUS
  <2>2. PICK passkey : passkey = IF p THEN {keys + 1} ELSE {}
    OBVIOUS
  <2>3. /\ keys + 1 \in 1 .. MaxKeys /\ keys' = keys + 1
        /\ BeginTask(Task("generate", stage, pin, keys + 1, passkey))
        /\ UNCHANGED <<cred, tokens, attempts, record, cache, token, issued>>
    BY <1>1, <1>2, <2>1, <2>2 DEF Generate, serverVars
  <2>4. passkey \in SUBSET (1 .. MaxKeys) /\ AtMostOne(passkey)
    BY <2>2, <2>3 DEF AtMostOne
  <2>5. started < MaxTasks
    BY <2>3 DEF BeginTask
  <2>6. /\ TaskFits(Task("generate", stage, pin, keys + 1, passkey))
        /\ Task("generate", stage, pin, keys + 1, passkey).stage = stage
        /\ Task("generate", stage, pin, keys + 1, passkey).pin = pin
    <3>1. PICK kind \in Kinds : kind = "generate"
      BY DEF Kinds
    <3>2. PICK k \in 0 .. MaxKeys : k = keys + 1 /\ k # 0
      BY <1>1, <2>3
    <3>3. stage \in Stages /\ (stage \in {"register", "login", "proof"} => pin # NoPin)
      BY <2>1 DEF Stages
    <3>4. TaskFits(Task(kind, stage, pin, k, passkey)) /\ Task(kind, stage, pin, k, passkey).stage = stage
          /\ Task(kind, stage, pin, k, passkey).pin = pin
      BY <2>4, <2>5, <3>2, <3>3, TaskHasType
    <3> QED BY <3>1, <3>2, <3>4
  <2> QED BY <1>1, <2>1, <2>3, <2>6, BeginTaskKeeps
<1>3. ASSUME NEW pin \in Pins, NEW k \in 1 .. keys, SaveKeyPair(pin, k) PROVE CustodyInv'
  <2>1. /\ BeginTask(Task("save", "register", pin, k, {}))
        /\ UNCHANGED <<cred, tokens, attempts, record, cache, token, keys, issued>>
    BY <1>3 DEF SaveKeyPair, serverVars
  <2>2. started < MaxTasks /\ k \in 0 .. MaxKeys /\ k # 0 /\ AtMostOne({})
    BY <1>1, <2>1 DEF BeginTask, AtMostOne
  <2>3. /\ TaskFits(Task("save", "register", pin, k, {}))
        /\ Task("save", "register", pin, k, {}).stage = "register"
    BY <1>1, <2>2, TaskHasType DEF Kinds, Stages
  <2> QED BY <1>1, <2>1, <2>3, BeginTaskKeeps
<1>4. ASSUME NEW pin \in Pins \cup {NoPin}, Unlock(pin) PROVE CustodyInv'
  <2>1. PICK r \in record : \E stage \in UnlockStage(r, pin) :
            BeginTask(Task("unlock", stage, pin, r.pub, r.passkey))
    BY <1>4 DEF Unlock
  <2>2. PICK stage \in UnlockStage(r, pin) : BeginTask(Task("unlock", stage, pin, r.pub, r.passkey))
    BY <2>1
  <2>3. stage \in {"passkey", "login", "register"} /\ (stage # "passkey" => pin # NoPin)
    BY <2>2 DEF UnlockStage
  <2>4. /\ r.pub \in 1 .. MaxKeys /\ r.passkey \in SUBSET (1 .. MaxKeys) /\ AtMostOne(r.passkey)
    BY <1>1 DEF OneRecord, Records
  <2>5. r.pub \in 0 .. MaxKeys /\ r.pub # 0 /\ started < MaxTasks
    BY <2>2, <2>4 DEF BeginTask
  <2>6. /\ TaskFits(Task("unlock", stage, pin, r.pub, r.passkey))
        /\ Task("unlock", stage, pin, r.pub, r.passkey).stage = stage
    BY <2>3, <2>4, <2>5, TaskHasType DEF Kinds, Stages
  <2>7. UNCHANGED <<cred, tokens, attempts, record, cache, token, keys, issued>>
    BY <1>4 DEF Unlock, serverVars
  <2> QED BY <1>1, <2>2, <2>3, <2>6, <2>7, BeginTaskKeeps
<1>5. ASSUME DeleteKeyPair PROVE CustodyInv'
  <2>1. /\ BeginTask(Task("delete", "drop", NoPin, 0, {})) /\ cache' = {}
        /\ UNCHANGED <<cred, tokens, attempts, record, token, keys, issued>>
    BY <1>5 DEF DeleteKeyPair, serverVars
  <2>2. started < MaxTasks /\ AtMostOne({}) /\ CacheFits({}) /\ 0 \in 0 .. MaxKeys
    BY <2>1 DEF BeginTask, AtMostOne, CacheFits
  <2>3. /\ TaskFits(Task("delete", "drop", NoPin, 0, {}))
        /\ Task("delete", "drop", NoPin, 0, {}).stage = "drop"
    BY <2>2, TaskHasType DEF Kinds, Stages
  <2> QED BY <1>1, <2>1, <2>2, <2>3, BeginTaskKeeps
<1> QED BY <1>2, <1>3, <1>4, <1>5

-----------------------------------------------------------------------------
\* An operation goes on to its next stage, or ends.
LEMMA MoveKeeps ==
    ASSUME CustodyInv, NEW t \in tasks, NEW R, tasks' = (tasks \ {t}) \cup R,
           AtMostOne(R), \A u \in R : TaskFits(u),
           t \in Waiting(tasks) \/ Waiting(R) = {},
           UNCHANGED <<keys, issued, started, locked, overlap>>,
           ServerFits(cred', tokens', token'), attempts' \in 0 .. MaxAttempts,
           OneRecord(record'), CacheFits(cache'),
           ~overlap => \A u \in R : u.stage = "proof" \/ (u.stage = "store" /\ u.pin # NoPin) =>
                                       \E c \in cred' : c.ver = u.ver /\ c.pin = u.pin,
           ~overlap /\ (\A u \in R : u.stage \notin {"store", "erase"})
              /\ (t.stage \in {"store", "erase"} \/ Opens(record, cred)) => Opens(record', cred')
    PROVE  CustodyInv'
<1>1. IssuedBounded(tasks', issued', started')
  <2>1. IssuedBounded(tasks, issued, started)
    BY DEF CustodyInv, KeyringInv
  <2>2. CASE R = {}
    <3>1. tasks' \subseteq tasks
      BY <2>2
    <3> QED BY <2>1, <3>1, FewerWait
  <2>3. CASE R # {}
    <3>1. PICK u : u \in R
      BY <2>3
    <3>2. R = {u} /\ tasks' = (tasks \ {t}) \cup {u}
      BY <3>1 DEF AtMostOne
    <3>3. t \in Waiting(tasks) \/ u.stage \notin {"register", "login", "proof"}
      BY <3>2 DEF Waiting
    <3>4. IssuedBounded((tasks \ {t}) \cup {u}, issued, started)
      BY <2>1, <3>3, OneMoves
    <3> QED BY <3>2, <3>4
  <2> QED BY <2>2, <2>3
<1>2. KeyringInv'
  BY <1>1 DEF CustodyInv, KeyringInv
<1>3. PinInv'
  <2> SUFFICES ASSUME ~overlap'
               PROVE  /\ AtMostOne(tasks')
                      /\ (\A u \in tasks' : u.stage \notin {"store", "erase"}) => Opens(record', cred')
                      /\ \A u \in tasks' :
                            u.stage = "proof" \/ (u.stage = "store" /\ u.pin # NoPin) =>
                                \E c \in cred' : c.ver = u.ver /\ c.pin = u.pin
    BY DEF PinInv
  <2>1. ~overlap /\ tasks = {t} /\ tasks' = R
    <3>1. ~overlap
      OBVIOUS
    <3>2. AtMostOne(tasks)
      BY <3>1 DEF CustodyInv, PinInv
    <3>3. tasks = {t}
      BY <3>2 DEF AtMostOne
    <3> QED BY <3>1, <3>3
  <2>2. t.stage \notin {"store", "erase"} => Opens(record, cred)
    BY <2>1 DEF CustodyInv, PinInv
  <2> QED BY <2>1, <2>2
<1>4. LockInv'
  BY DEF CustodyInv, LockInv
<1> QED BY <1>2, <1>3, <1>4 DEF CustodyInv

\* A task with another stage, or another version, is a task.
LEMMA NextStage ==
    ASSUME NEW t, TaskFits(t), NEW stage \in Stages,
           stage \in {"register", "login", "proof", "store", "attach"} => t.key # 0,
           stage \in {"register", "login", "proof"} => t.pin # NoPin
    PROVE  /\ TaskFits([t EXCEPT !.stage = stage])
           /\ [t EXCEPT !.stage = stage].stage = stage
           /\ [t EXCEPT !.stage = stage].pin = t.pin
           /\ [t EXCEPT !.stage = stage].ver = t.ver
<1>1. t \in TaskType
  BY DEF TaskFits
<1>2. PICK u : u = [t EXCEPT !.stage = stage]
  OBVIOUS
<1>3. /\ u \in TaskType /\ u.stage = stage /\ u.pin = t.pin /\ u.ver = t.ver /\ u.key = t.key
      /\ u.passkey = t.passkey /\ u.existing = t.existing
  BY <1>1, <1>2 DEF TaskType
<1> QED BY <1>2, <1>3 DEF TaskFits

LEMMA NextVersion ==
    ASSUME NEW t, TaskFits(t), NEW stage \in {"proof", "store"}, NEW v \in Ids, t.key # 0, t.pin # NoPin
    PROVE  /\ TaskFits([t EXCEPT !.stage = stage, !.ver = v])
           /\ [t EXCEPT !.stage = stage, !.ver = v].stage = stage
           /\ [t EXCEPT !.stage = stage, !.ver = v].pin = t.pin
           /\ [t EXCEPT !.stage = stage, !.ver = v].ver = v
<1>1. t \in TaskType /\ stage \in Stages
  BY DEF TaskFits, Stages
<1>2. PICK u : u = [t EXCEPT !.stage = stage, !.ver = v]
  OBVIOUS
<1>3. /\ u \in TaskType /\ u.stage = stage /\ u.pin = t.pin /\ u.ver = v /\ u.key = t.key
      /\ u.passkey = t.passkey /\ u.existing = t.existing
  BY <1>1, <1>2 DEF TaskType
<1> QED BY <1>2, <1>3 DEF TaskFits

\* Stages of an operation that leave server and record as they are.
LEMMA QuietStagesKeep ==
    ASSUME CustodyInv, NEW t \in tasks,
           PasskeyAnswers(t) \/ PasskeyFails(t) \/ RegisterRefused(t) \/ StartLogin(t)
    PROVE  CustodyInv'
<1> USE KeyConstants
<1>1. /\ TaskFits(t) /\ t \in TaskType /\ ServerFits(cred, tokens, token) /\ OneRecord(record)
      /\ CacheFits(cache) /\ attempts \in 0 .. MaxAttempts /\ 0 \in Ids
      /\ t.passkey \subseteq 1 .. MaxKeys /\ AtMostOne(t.passkey)
  BY DEF CustodyInv, KeyringInv, TaskFits, TaskType, Ids
<1>2. AtMostOne({}) /\ Waiting({}) = {} /\ tasks \ {t} = (tasks \ {t}) \cup {}
  BY DEF AtMostOne, Waiting
<1>3. CASE PasskeyAnswers(t) \/ PasskeyFails(t)
  <2>1. /\ UNCHANGED <<cred, tokens, attempts, record, token, keys, issued, started, locked, overlap>>
        /\ tasks' = (tasks \ {t}) \cup {} /\ cache' \in {cache, t.passkey}
    BY <1>3 DEF PasskeyAnswers, PasskeyFails, End, serverVars
  <2>2. CacheFits(cache') /\ t.stage = "passkey"
    BY <1>1, <1>3, <2>1 DEF CacheFits, PasskeyAnswers, PasskeyFails
  <2> QED BY <1>1, <1>2, <2>1, <2>2, MoveKeeps
<1>4. CASE RegisterRefused(t)
  <2>1. /\ UNCHANGED <<cred, tokens, attempts, record, cache, token, keys, issued, started, locked, overlap>>
        /\ tasks' = (tasks \ {t}) \cup {[t EXCEPT !.stage = "login"]} /\ t.stage = "register"
    BY <1>4 DEF RegisterRefused, Step, serverVars
  <2>2. PICK u : u = [t EXCEPT !.stage = "login"]
    OBVIOUS
  <2>3. TaskFits(u) /\ u.stage = "login" /\ t \in Waiting(tasks) /\ AtMostOne({u})
    <3>1. "login" \in Stages /\ t.key # 0 /\ t.pin # NoPin
      BY <1>1, <2>1 DEF TaskFits, Stages
    <3> QED BY <1>1, <2>1, <2>2, <3>1, NextStage DEF Waiting, AtMostOne
  <2> QED BY <1>1, <2>1, <2>2, <2>3, MoveKeeps
<1>5. CASE StartLogin(t)
  <2>1. /\ UNCHANGED <<cred, tokens, record, cache, token, keys, issued, started, locked, overlap>>
        /\ t.stage = "login" /\ t \in Waiting(tasks)
    BY <1>5 DEF StartLogin, Waiting
  <2>2. attempts' \in 0 .. MaxAttempts
    <3>1. attempts' = attempts \/ (~RateLimited /\ attempts' = attempts + 1)
      BY <1>5 DEF StartLogin
    <3> QED BY <1>1, <3>1 DEF RateLimited
  <2>3. CASE tasks' = tasks \ {t}
    BY <1>1, <1>2, <2>1, <2>2, <2>3, MoveKeeps
  <2>4. CASE tasks' # tasks \ {t}
    <3>1. /\ \E c \in cred : c.pin = t.pin
          /\ tasks' = (tasks \ {t}) \cup {[t EXCEPT !.stage = "proof", !.ver = c.ver] : c \in cred}
      BY <1>5, <2>4 DEF StartLogin, End
    <3>2. PICK c \in cred : c.pin = t.pin
      BY <3>1
    <3>3. cred = {c} /\ c.ver \in Ids
      BY <1>1, <3>2 DEF ServerFits, AtMostOne
    <3>4. PICK u : u = [t EXCEPT !.stage = "proof", !.ver = c.ver]
      OBVIOUS
    <3>5. tasks' = (tasks \ {t}) \cup {u}
      BY <3>1, <3>3, <3>4
    <3>6. TaskFits(u) /\ u.stage = "proof" /\ u.ver = c.ver /\ u.pin = t.pin /\ AtMostOne({u})
      <4>1. "proof" \in Stages /\ t.key # 0 /\ t.pin # NoPin
        BY <1>1, <2>1 DEF TaskFits, Stages
      <4>2. PICK v \in Ids : v = c.ver
        BY <3>3
      <4>3. u = [t EXCEPT !.stage = "proof", !.ver = v]
        BY <3>4, <4>2
      <4>4. TaskFits(u) /\ u.stage = "proof" /\ u.ver = v /\ u.pin = t.pin
        BY <1>1, <4>1, <4>3, NextVersion
      <4> QED BY <4>2, <4>4 DEF AtMostOne
    <3> QED BY <1>1, <2>1, <2>2, <3>2, <3>5, <3>6, MoveKeeps
  <2> QED BY <2>3, <2>4
<1> QED BY <1>3, <1>4, <1>5

\* The record is written, completed or erased.
LEMMA RecordStagesKeep ==
    ASSUME CustodyInv, NEW t \in tasks, Store(t) \/ Attach(t) \/ Erase(t)
    PROVE  CustodyInv'
<1> USE KeyConstants
<1>1. /\ TaskFits(t) /\ t \in TaskType /\ ServerFits(cred, tokens, token) /\ OneRecord(record)
      /\ CacheFits(cache) /\ attempts \in 0 .. MaxAttempts /\ t.ver \in Ids
      /\ t.passkey \subseteq 1 .. MaxKeys /\ AtMostOne(t.passkey) /\ OneRecord(t.existing)
      /\ t.pin \in Pins \cup {NoPin} /\ t.key \in 0 .. MaxKeys
  BY DEF CustodyInv, KeyringInv, TaskFits, TaskType
<1>2. AtMostOne({}) /\ Waiting({}) = {} /\ tasks \ {t} = (tasks \ {t}) \cup {}
  BY DEF AtMostOne, Waiting
<1>3. CASE Store(t)
  <2>1. /\ t.stage = "store" /\ t.key \in 1 .. MaxKeys
        /\ UNCHANGED <<cred, tokens, attempts, token, keys, issued, started, locked, overlap>>
    BY <1>1, <1>3 DEF Store, serverVars, TaskFits
  <2>2. OneRecord(record') /\ CacheFits(cache') /\ (~overlap => Opens(record', cred'))
    <3>1. CASE t.pin = NoPin
      <4>1. record' = {[pub |-> t.key, opaque |-> {}, legacy |-> {}, passkey |-> t.passkey]} /\ cache' = cache
        BY <1>3, <3>1 DEF Store
      <4> QED BY <1>1, <2>1, <4>1 DEF OneRecord, Records, AtMostOne, Opens
    <3>2. CASE t.pin # NoPin
      <4>1. record' = {Persisted(t)} /\ cache' = {t.key}
        BY <1>3, <3>2 DEF Store
      <4>2. PICK k : k = UNION {r.passkey : r \in t.existing}
        OBVIOUS
      <4>3. k \subseteq 1 .. MaxKeys /\ AtMostOne(k)
        <5>1. \A r \in t.existing : r.passkey \subseteq 1 .. MaxKeys
          BY <1>1 DEF OneRecord, Records
        <5>2. \A r, s \in t.existing : r = s
          BY <1>1 DEF OneRecord, AtMostOne
        <5>3. \A r \in t.existing : \A x, y \in r.passkey : x = y
          BY <1>1 DEF OneRecord, AtMostOne
        <5> QED BY <4>2, <5>1, <5>2, <5>3 DEF AtMostOne
      <4>4. Persisted(t) = [pub |-> t.key, opaque |-> {[key |-> t.key, ver |-> t.ver, pin |-> t.pin]},
                            legacy |-> {}, passkey |-> k]
        BY <4>2 DEF Persisted
      <4>5. OneRecord(record') /\ CacheFits(cache')
        <5>1. [key |-> t.key, ver |-> t.ver, pin |-> t.pin] \in Wrapped
          BY <1>1, <2>1, <3>2 DEF Wrapped
        <5>2. PICK w : w = [key |-> t.key, ver |-> t.ver, pin |-> t.pin]
          OBVIOUS
        <5>3. PICK r : r = [pub |-> t.key, opaque |-> {w}, legacy |-> {}, passkey |-> k]
          OBVIOUS
        <5>4. record' = {r}
          BY <4>1, <4>4, <5>2, <5>3
        <5>5. r \in Records /\ r.opaque = {w} /\ r.passkey = k
          BY <2>1, <4>3, <5>1, <5>2, <5>3 DEF Records
        <5>6. AtMostOne(record') /\ AtMostOne({w})
          BY <5>4 DEF AtMostOne
        <5>7. OneRecord(record')
          BY <4>3, <5>4, <5>5, <5>6 DEF OneRecord
        <5> QED BY <2>1, <4>1, <5>7 DEF AtMostOne, CacheFits
      <4>6. ~overlap => \E c \in cred : c.ver = t.ver /\ c.pin = t.pin
        BY <2>1, <3>2 DEF CustodyInv, PinInv
      <4>7. ~overlap => Opens(record', cred')
        BY <2>1, <4>1, <4>4, <4>6 DEF Opens
      <4> QED BY <4>5, <4>7
    <3> QED BY <3>1, <3>2
  <2>3. CASE t.kind # "generate"
    <3>1. tasks' = (tasks \ {t}) \cup {}
      BY <1>3, <2>3 DEF Store, End
    <3> QED BY <1>1, <1>2, <2>1, <2>2, <3>1, MoveKeeps
  <2>4. CASE t.kind = "generate"
    <3>1. PICK u : u = [t EXCEPT !.stage = "attach"]
      OBVIOUS
    <3>2. tasks' = (tasks \ {t}) \cup {u}
      BY <1>3, <2>4, <3>1 DEF Store, Step
    <3>3. TaskFits(u) /\ u.stage = "attach" /\ AtMostOne({u}) /\ Waiting({u}) = {}
      <4>1. "attach" \in Stages /\ t.key # 0
        BY <2>1 DEF Stages
      <4>2. TaskFits(u) /\ u.stage = "attach"
        BY <1>1, <3>1, <4>1, NextStage
      <4> QED BY <4>2 DEF AtMostOne, Waiting
    <3> QED BY <1>1, <2>1, <2>2, <3>2, <3>3, MoveKeeps
  <2> QED BY <2>3, <2>4
<1>4. CASE Attach(t)
  <2>1. /\ t.stage = "attach" /\ t.key \in 1 .. MaxKeys
        /\ tasks' = (tasks \ {t}) \cup {} /\ cache' = {t.key}
        /\ UNCHANGED <<cred, tokens, attempts, token, keys, issued, started, locked, overlap>>
        /\ \/ record' = record
           \/ record' = {[r EXCEPT !.passkey = t.passkey] : r \in record}
    BY <1>1, <1>4 DEF Attach, End, serverVars, TaskFits
  <2>2. CacheFits(cache')
    BY <2>1 DEF CacheFits, AtMostOne
  <2>3. OneRecord(record') /\ (Opens(record, cred) => Opens(record', cred))
    <3>1. CASE record' = record
      BY <1>1, <3>1
    <3>2. CASE record' = {[r EXCEPT !.passkey = t.passkey] : r \in record}
      <4>1. \A r \in record : /\ [r EXCEPT !.passkey = t.passkey] \in Records
                              /\ [r EXCEPT !.passkey = t.passkey].opaque = r.opaque
                              /\ [r EXCEPT !.passkey = t.passkey].pub = r.pub
                              /\ [r EXCEPT !.passkey = t.passkey].passkey = t.passkey
        BY <1>1 DEF OneRecord, Records
      <4>2. \A s \in record' : /\ s \in Records /\ s.passkey = t.passkey
                               /\ \E r \in record : s.opaque = r.opaque /\ s.pub = r.pub
        BY <3>2, <4>1
      <4>3. AtMostOne(record')
        BY <1>1, <3>2 DEF OneRecord, AtMostOne
      <4> QED BY <1>1, <4>2, <4>3 DEF OneRecord, Opens
    <3> QED BY <2>1, <3>1, <3>2
  <2> QED BY <1>1, <1>2, <2>1, <2>2, <2>3, MoveKeeps
<1>5. CASE Erase(t)
  <2>1. /\ record' = {} /\ tasks' = (tasks \ {t}) \cup {}
        /\ UNCHANGED <<cred, tokens, attempts, cache, token, keys, issued, started, locked, overlap>>
    BY <1>5 DEF Erase, End, serverVars
  <2>2. OneRecord(record') /\ Opens(record', cred')
    BY <2>1 DEF OneRecord, AtMostOne, Opens
  <2> QED BY <1>1, <1>2, <2>1, <2>2, MoveKeeps
<1> QED BY <1>3, <1>4, <1>5

\* The server issues a version or a token and the operation goes on or ends.
LEMMA IssueKeeps ==
    ASSUME CustodyInv, NEW t \in Waiting(tasks), NEW R, tasks' = (tasks \ {t}) \cup R,
           AtMostOne(R), \A u \in R : TaskFits(u), Waiting(R) = {}, issued' = issued + 1,
           UNCHANGED <<keys, started, locked, record>>,
           overlap' = overlap \/ overlap' = TRUE,
           ServerFits(cred', tokens', token'), attempts' \in 0 .. MaxAttempts, CacheFits(cache'),
           ~overlap' => \A u \in R : u.stage = "store" =>
                                       \E c \in cred' : c.ver = u.ver /\ c.pin = u.pin,
           ~overlap' => cred' = cred \/ \E u \in R : u.stage = "store"
    PROVE  CustodyInv'
<1>1. IssuedBounded(tasks', issued', started')
  <2>1. IssuedBounded(tasks, issued, started)
    BY DEF CustodyInv, KeyringInv
  <2>2. IssuedBounded(tasks \ {t}, issued', started')
    BY <2>1, OneIsIssued
  <2>3. CASE R = {}
    <3>1. tasks' = tasks \ {t}
      BY <2>3
    <3> QED BY <2>2, <3>1
  <2>4. CASE R # {}
    <3>1. PICK u : u \in R
      BY <2>4
    <3>2. R = {u} /\ tasks' = (tasks \ {t}) \cup {u}
      BY <3>1 DEF AtMostOne
    <3>3. u.stage \notin {"register", "login", "proof"}
      BY <3>2 DEF Waiting
    <3> QED BY <2>2, <3>2, <3>3, IdleJoins
  <2> QED BY <2>3, <2>4
<1>2. t \in tasks /\ t.stage \notin {"store", "erase"}
  BY DEF Waiting
<1>3. KeyringInv'
  BY <1>1, <1>2 DEF CustodyInv, KeyringInv
<1>4. PinInv'
  <2> SUFFICES ASSUME ~overlap'
               PROVE  /\ AtMostOne(tasks')
                      /\ (\A u \in tasks' : u.stage \notin {"store", "erase"}) => Opens(record', cred')
                      /\ \A u \in tasks' :
                            u.stage = "proof" \/ (u.stage = "store" /\ u.pin # NoPin) =>
                                \E c \in cred' : c.ver = u.ver /\ c.pin = u.pin
    BY DEF PinInv
  <2>1. ~overlap /\ tasks = {t} /\ tasks' = R
    <3>1. ~overlap
      OBVIOUS
    <3>2. AtMostOne(tasks)
      BY <3>1 DEF CustodyInv, PinInv
    <3>3. tasks = {t}
      BY <1>2, <3>2 DEF AtMostOne
    <3> QED BY <3>1, <3>3
  <2>2. Opens(record, cred)
    BY <1>2, <2>1 DEF CustodyInv, PinInv
  <2>3. \A u \in R : u.stage # "proof"
    BY DEF Waiting
  <2> QED BY <2>1, <2>2, <2>3
<1>5. LockInv'
  BY <1>2 DEF CustodyInv, LockInv
<1> QED BY <1>3, <1>4, <1>5 DEF CustodyInv

\* Registration, its lost answer, and the end of a login.
LEMMA ServerStagesKeep ==
    ASSUME CustodyInv, NEW t \in tasks, Register(t) \/ RegisterLost(t) \/ FinishLogin(t)
    PROVE  CustodyInv'
<1> USE KeyConstants
<1>1. /\ TaskFits(t) /\ t \in TaskType /\ ServerFits(cred, tokens, token) /\ OneRecord(record)
      /\ CacheFits(cache) /\ attempts \in 0 .. MaxAttempts /\ t.ver \in Ids
      /\ OneRecord(t.existing) /\ t.pin \in Pins \cup {NoPin}
  BY DEF CustodyInv, KeyringInv, TaskFits, TaskType
<1>2. /\ t.stage \in {"register", "proof"} /\ t \in Waiting(tasks) /\ t.key # 0 /\ t.pin \in Pins
      /\ issued' = issued + 1
  BY <1>1 DEF Register, RegisterLost, FinishLogin, Registers, Waiting, TaskFits
<1>3. issued + 1 \in Ids
  <2>1. IssuedBounded(tasks, issued, started) /\ started <= MaxTasks
    BY DEF CustodyInv, KeyringInv
  <2>2. issued + 1 <= started
    BY <1>2, <2>1, OneIsIssued
  <2> QED BY <2>1, <2>2 DEF IssuedBounded, Ids
<1>4. AtMostOne({}) /\ Waiting({}) = {} /\ tasks \ {t} = (tasks \ {t}) \cup {}
  BY DEF AtMostOne, Waiting
<1>5. PICK v \in Ids : v = issued + 1
  BY <1>3
<1>6. CASE Register(t) \/ RegisterLost(t)
  <2>1. /\ cred' = {[pin |-> t.pin, ver |-> v]} /\ tokens' = {v} /\ token' \in {v, token}
        /\ UNCHANGED <<attempts, record, cache, keys, started, locked>>
    BY <1>5, <1>6 DEF Register, RegisterLost
  <2>2. ServerFits(cred', tokens', token')
    BY <1>1, <1>2, <2>1 DEF ServerFits, AtMostOne
  <2>3. CASE Register(t)
    <3>1. PICK u : u = [t EXCEPT !.stage = "store", !.ver = v]
      OBVIOUS
    <3>2. tasks' = (tasks \ {t}) \cup {u} /\ UNCHANGED overlap
      BY <1>5, <2>3, <3>1 DEF Register
    <3>3. TaskFits(u) /\ u.stage = "store" /\ u.ver = v /\ u.pin = t.pin
      <4>1. t.pin # NoPin
        BY <1>2
      <4>2. t.key # 0 /\ TaskFits(t)
        BY <1>1, <1>2, Zenon
      <4>3. "store" \in {"proof", "store"}
        OBVIOUS
      <4> QED BY <3>1, <4>1, <4>2, <4>3, NextVersion, Zenon
    <3>4. AtMostOne({u}) /\ Waiting({u}) = {}
      BY <3>3 DEF AtMostOne, Waiting
    <3> QED BY <1>1, <1>2, <2>1, <2>2, <3>2, <3>3, <3>4, IssueKeeps
  <2>4. CASE RegisterLost(t)
    <3>1. tasks' = (tasks \ {t}) \cup {} /\ overlap' = TRUE
      BY <2>4 DEF RegisterLost, Failing, End
    <3> QED BY <1>1, <1>2, <1>4, <2>1, <2>2, <3>1, IssueKeeps
  <2> QED BY <1>6, <2>3, <2>4
<1>7. CASE FinishLogin(t)
  <2>1. /\ tokens' = tokens \cup {v} /\ token' = v /\ attempts' = 0 /\ t.stage = "proof"
        /\ UNCHANGED <<cred, record, keys, started, locked, overlap>>
    BY <1>5, <1>7 DEF FinishLogin
  <2>2. ServerFits(cred', tokens', token') /\ attempts' \in 0 .. MaxAttempts
    BY <1>1, <2>1 DEF ServerFits
  <2>3. CASE tasks' = tasks \ {t} /\ cache' \in {cache, Unwrapped(t)}
    <3>1. CacheFits(Unwrapped(t))
      <4>1. \A r \in t.existing : r.opaque \subseteq Wrapped /\ \A x, y \in r.opaque : x = y
        BY <1>1 DEF OneRecord, Records, AtMostOne
      <4>2. \A r, s \in t.existing : r = s
        BY <1>1 DEF OneRecord, AtMostOne
      <4>3. \A k \in Unwrapped(t) : \E r \in t.existing : \E w \in r.opaque : k = w.key
        BY DEF Unwrapped
      <4>4. \A w \in Wrapped : w.key \in 1 .. MaxKeys
        BY DEF Wrapped
      <4>5. Unwrapped(t) \subseteq 1 .. MaxKeys
        BY <4>1, <4>3, <4>4
      <4>6. AtMostOne(Unwrapped(t))
        BY <4>1, <4>2, <4>3 DEF AtMostOne
      <4> QED BY <4>5, <4>6 DEF CacheFits
    <3> QED BY <1>1, <1>2, <1>4, <2>1, <2>2, <2>3, <3>1, IssueKeeps
  <2>4. CASE tasks' = (tasks \ {t}) \cup {[t EXCEPT !.stage = "store"]} /\ cache' = cache
    <3>1. PICK u : u = [t EXCEPT !.stage = "store"]
      OBVIOUS
    <3>2. TaskFits(u) /\ u.stage = "store" /\ u.ver = t.ver /\ u.pin = t.pin
      <4>1. "store" \in Stages
        BY DEF Stages
      <4> QED BY <1>1, <1>2, <3>1, <4>1, NextStage
    <3>3. AtMostOne({u}) /\ Waiting({u}) = {}
      BY <3>2 DEF AtMostOne, Waiting
    <3>4. ~overlap => \E c \in cred : c.ver = t.ver /\ c.pin = t.pin
      BY <2>1 DEF CustodyInv, PinInv
    <3> QED BY <1>1, <1>2, <2>1, <2>2, <2>4, <3>1, <3>2, <3>3, <3>4, IssueKeeps
  <2> QED BY <1>7, <2>3, <2>4 DEF FinishLogin, End, Step
<1> QED BY <1>6, <1>7

\* deleteCredential, with the client's token or without effect.
LEMMA DropKeeps == ASSUME CustodyInv, NEW t \in tasks, Drop(t) PROVE CustodyInv'
<1> USE KeyConstants
<1>1. /\ TaskFits(t) /\ ServerFits(cred, tokens, token) /\ OneRecord(record)
      /\ CacheFits(cache) /\ attempts \in 0 .. MaxAttempts /\ 0 \in Ids
  BY DEF CustodyInv, KeyringInv, Ids
<1>2. /\ t.stage = "drop" /\ tasks' = (tasks \ {t}) \cup {[t EXCEPT !.stage = "erase"]}
      /\ UNCHANGED <<attempts, record, cache, keys, issued, started, locked, overlap>>
  BY DEF Drop, Step
<1>3. ServerFits(cred', tokens', token')
  <2>1. \/ cred' = {} /\ tokens' = {} /\ token' = 0
        \/ cred' = cred /\ tokens' = tokens /\ token' = token
    BY DEF Drop
  <2> QED BY <1>1, <2>1 DEF ServerFits, AtMostOne
<1>4. PICK u : u = [t EXCEPT !.stage = "erase"]
  OBVIOUS
<1>5. TaskFits(u) /\ u.stage = "erase"
  BY <1>1, <1>4, NextStage DEF Stages
<1>6. AtMostOne({u}) /\ Waiting({u}) = {}
  BY <1>5 DEF AtMostOne, Waiting
<1> QED BY <1>1, <1>2, <1>3, <1>4, <1>5, <1>6, MoveKeeps

\* Locks, closed pages, restarts and what expires.
LEMMA InterruptionsKeep ==
    ASSUME CustodyInv,
           LockNow \/ LockAccount \/ StartWatching \/ ClosePage \/ ServerRestart \/ Expire
             \/ UNCHANGED custodyVars
    PROVE  CustodyInv'
<1> USE KeyConstants
<1>1. /\ ServerFits(cred, tokens, token) /\ OneRecord(record) /\ CacheFits(cache)
      /\ attempts \in 0 .. MaxAttempts /\ 0 \in Ids /\ IssuedBounded(tasks, issued, started)
      /\ CacheFits({}) /\ AtMostOne({})
  BY DEF CustodyInv, KeyringInv, Ids, CacheFits, AtMostOne
<1>2. /\ UNCHANGED <<cred, record, keys, issued, started>> /\ tokens' \in {tokens, {}}
      /\ token' \in {token, 0} /\ attempts' \in {attempts, 0} /\ cache' \in {cache, {}}
      /\ tasks' \subseteq tasks
  BY DEF LockNow, LockAccount, StartWatching, ClosePage, ServerRestart, Expire, custodyVars,
         serverVars, Purged
<1>3. ServerFits(cred', tokens', token') /\ CacheFits(cache') /\ attempts' \in 0 .. MaxAttempts
  BY <1>1, <1>2 DEF ServerFits
<1>4. IssuedBounded(tasks', issued', started')
  BY <1>1, <1>2, FewerWait
<1>5. KeyringInv'
  BY <1>2, <1>3, <1>4 DEF CustodyInv, KeyringInv
<1>6. PinInv'
  <2>1. \/ tasks' = tasks
        \/ tasks' = {} /\ overlap' = (overlap \/ tasks # {})
        \/ tasks' = {u \in tasks : u.stage # "proof"}
    BY DEF LockNow, LockAccount, StartWatching, ClosePage, ServerRestart, Expire, custodyVars
  <2>2. overlap' = overlap \/ overlap' = (overlap \/ tasks # {})
    BY DEF LockNow, LockAccount, StartWatching, ClosePage, ServerRestart, Expire, custodyVars
  <2> SUFFICES ASSUME ~overlap'
               PROVE  /\ AtMostOne(tasks')
                      /\ (\A u \in tasks' : u.stage \notin {"store", "erase"}) => Opens(record', cred')
                      /\ \A u \in tasks' :
                            u.stage = "proof" \/ (u.stage = "store" /\ u.pin # NoPin) =>
                                \E c \in cred' : c.ver = u.ver /\ c.pin = u.pin
    BY DEF PinInv
  <2>3. ~overlap
    BY <2>2
  <2>4. AtMostOne(tasks') /\ \A u \in tasks' :
            u.stage = "proof" \/ (u.stage = "store" /\ u.pin # NoPin) =>
                \E c \in cred' : c.ver = u.ver /\ c.pin = u.pin
    BY <1>2, <2>3 DEF CustodyInv, PinInv, AtMostOne
  <2>5. (\A u \in tasks' : u.stage \notin {"store", "erase"}) => Opens(record, cred)
    BY <2>1, <2>3 DEF CustodyInv, PinInv
  <2> QED BY <1>2, <2>4, <2>5
<1>7. LockInv'
  <2>1. CASE LockNow \/ LockAccount
    BY <2>1 DEF LockInv, LockNow, LockAccount, Lock, Purged
  <2>2. CASE ClosePage
    BY <2>2 DEF LockInv, ClosePage
  <2>3. CASE StartWatching \/ ServerRestart \/ Expire \/ UNCHANGED custodyVars
    BY <2>3 DEF LockInv, CustodyInv, StartWatching, ServerRestart, Expire, custodyVars
  <2> QED BY <2>1, <2>2, <2>3
<1> QED BY <1>5, <1>6, <1>7 DEF CustodyInv

\* Every step of the keyring keeps its invariant.
LEMMA CustodyStepKeeps == CustodyInv /\ [CustodyNext]_custodyVars => CustodyInv'
<1> SUFFICES ASSUME CustodyInv, [CustodyNext]_custodyVars PROVE CustodyInv'
  OBVIOUS
<1>1. ASSUME NEW t \in tasks,
             \/ PasskeyAnswers(t) \/ PasskeyFails(t) \/ Register(t) \/ RegisterRefused(t)
             \/ RegisterLost(t) \/ StartLogin(t) \/ FinishLogin(t) \/ Store(t) \/ Attach(t)
             \/ Drop(t) \/ Erase(t)
      PROVE  CustodyInv'
  BY <1>1, QuietStagesKeep, RecordStagesKeep, ServerStagesKeep, DropKeeps
<1> QED BY <1>1, BeginningsKeep, InterruptionsKeep DEF CustodyNext

-----------------------------------------------------------------------------
(* Key rotation                                                             *)

(* The keyring holds the old key until the rotation is done; whatever is   *)
(* still on its way to a chain would revoke that key or one that is        *)
(* revoked already; and a chain that has answered has the new key.         *)
RotInv ==
    /\ RotTypeOK
    /\ rot \in [round : 0 .. MaxRotations, mode : Modes, phase : Phases, old : RotKeys, new : RotKeys]
    /\ rot.phase # "idle" => rot.round # 0
    /\ answers \subseteq Chains
    /\ RevokedKeysStayRevoked
    /\ rot.phase \notin {"idle", "done"} => keyring = rot.old
    /\ rot.phase = "idle" => calls = {} /\ answers = {} /\ \A x \in Chains : revoked[x] = {}
    /\ \A c \in calls :
          /\ c.old \in revoked[c.chain] \/ (c.old = keyring /\ rot.phase # "done")
          /\ c.round <= rot.round
          /\ c.round = rot.round => c.old = rot.old /\ c.new = rot.new
    /\ \A x \in answers : chainKey[x] = rot.new /\ rot.old \in revoked[x]
    /\ rot.phase \in {"save", "done"} \/ (rot.phase = "reencrypt" /\ rot.mode = "batch") => BothAnswered
    /\ rot.phase = "done" => keyring = rot.new
    /\ ReencryptedBeforeRevoked
    /\ rot.phase = "revoke" /\ rot.mode = "rotate" => AllTried

\* The invariant of the rotation is what the properties need.
LEMMA RotInvSuffices ==
    RotInv => RotTypeOK /\ RotationSettlesEverywhere /\ ReencryptedBeforeRevoked /\ RevokedKeysStayRevoked
BY DEF RotInv, RotationSettlesEverywhere, BothAnswered, RevokedKeysStayRevoked

LEMMA RotInitial == RotInit => RotInv
<1> SUFFICES ASSUME RotInit PROVE RotInv
  OBVIOUS
<1> USE RotationConstants DEF RotInit
<1>1. 1 \in RotKeys
  BY DEF RotKeys
<1>2. rot \in [round : 0 .. MaxRotations, mode : Modes, phase : Phases, old : RotKeys, new : RotKeys]
  BY <1>1 DEF Modes, Phases
<1>3. RotTypeOK
  BY <1>1 DEF RotTypeOK, Chains, Modes, Phases
<1>4. RevokedKeysStayRevoked /\ ReencryptedBeforeRevoked
  BY DEF RevokedKeysStayRevoked, ReencryptedBeforeRevoked
<1> QED BY <1>2, <1>3, <1>4 DEF RotInv

\* Steps that leave chains, calls and answers alone and move the phase.
LEMMA PhaseKeeps ==
    ASSUME RotInv, NEW phase \in Phases \ {"idle", "done"}, Goto(phase),
           UNCHANGED <<chainKey, revoked, keyring, envelope, calls, answers, rotated, failures>>,
           rot.phase \notin {"idle", "done"},
           phase = "save" \/ (phase = "reencrypt" /\ rot.mode = "batch") => BothAnswered,
           phase = "revoke" /\ rot.mode = "rotate" => AllTried
    PROVE  RotInv'
<1>1. rot \in [round : 0 .. MaxRotations, mode : Modes, phase : Phases, old : RotKeys, new : RotKeys]
  BY DEF RotInv
<1>2. /\ rot' \in [round : 0 .. MaxRotations, mode : Modes, phase : Phases, old : RotKeys, new : RotKeys]
      /\ rot'.phase = phase /\ rot'.mode = rot.mode /\ rot'.round = rot.round
      /\ rot'.old = rot.old /\ rot'.new = rot.new
  BY <1>1 DEF Goto
<1>3. RotTypeOK'
  BY <1>2 DEF RotInv, RotTypeOK
<1>4. RevokedKeysStayRevoked' /\ ReencryptedBeforeRevoked' /\ (BothAnswered => BothAnswered')
      /\ (AllTried => AllTried')
  BY <1>2 DEF RotInv, RevokedKeysStayRevoked, ReencryptedBeforeRevoked, AllTried, BothAnswered
<1>5. /\ rot'.phase \notin {"idle", "done"} => keyring' = rot'.old
      /\ rot'.phase # "idle" /\ rot'.phase # "done"
      /\ \A x \in answers' : chainKey'[x] = rot'.new /\ rot'.old \in revoked'[x]
      /\ answers' \subseteq Chains
      /\ \A c \in calls' :
          /\ c.old \in revoked'[c.chain] \/ (c.old = keyring' /\ rot'.phase # "done")
          /\ c.round <= rot'.round
          /\ c.round = rot'.round => c.old = rot'.old /\ c.new = rot'.new
  BY <1>2 DEF RotInv
<1>6. /\ rot'.phase \in {"save", "done"} \/ (rot'.phase = "reencrypt" /\ rot'.mode = "batch") => BothAnswered'
      /\ rot'.phase = "revoke" /\ rot'.mode = "rotate" => AllTried'
  BY <1>2, <1>4, <1>5
<1> QED BY <1>2, <1>3, <1>4, <1>5, <1>6 DEF RotInv

\* A rotation begins with the key the keyring has; calls of earlier ones may still be on their way.
LEMMA BeginKeeps ==
    ASSUME RotInv, NEW mode \in Modes, NEW new \in RotKeys, BeginRotation(mode, new)
    PROVE  RotInv'
<1> USE RotationConstants
<1>1. rot \in [round : 0 .. MaxRotations, mode : Modes, phase : Phases, old : RotKeys, new : RotKeys]
      /\ keyring \in RotKeys /\ rot.round \in Nat
  BY DEF RotInv, RotTypeOK
<1>2. /\ rot'.round = rot.round + 1 /\ rot'.mode = mode /\ rot'.phase = "proof"
      /\ rot'.old = keyring /\ rot'.new = new
      /\ answers' = {} /\ rotated' = {} /\ failures' = {}
      /\ UNCHANGED <<chainKey, revoked, keyring, envelope, calls>>
      /\ rot' \in [round : 0 .. MaxRotations, mode : Modes, phase : Phases, old : RotKeys, new : RotKeys]
  BY <1>1 DEF BeginRotation, Phases
<1>3. RotTypeOK'
  BY <1>2 DEF RotInv, RotTypeOK
<1>4. \A c \in calls' :
          /\ c.old \in revoked'[c.chain] \/ (c.old = keyring' /\ rot'.phase # "done")
          /\ c.round <= rot'.round
          /\ c.round # rot'.round
  <2> SUFFICES ASSUME NEW c \in calls
               PROVE  /\ c.old \in revoked[c.chain] \/ (c.old = keyring /\ rot'.phase # "done")
                      /\ c.round <= rot'.round
                      /\ c.round # rot'.round
    BY <1>2
  <2>1. c.round \in Nat /\ c.round <= rot.round
    BY DEF RotInv, RotTypeOK
  <2> QED BY <1>1, <1>2, <2>1 DEF RotInv
<1>5. RevokedKeysStayRevoked' /\ ReencryptedBeforeRevoked' /\ rot'.round # 0
  BY <1>1, <1>2, <1>4 DEF RotInv, RevokedKeysStayRevoked, ReencryptedBeforeRevoked
<1> QED BY <1>2, <1>3, <1>4, <1>5 DEF RotInv

\* A call that takes effect on a chain: the first one since the old key was registered there.
LEMMA MinedKeeps ==
    ASSUME RotInv, NEW c \in calls, Accepts(c), Apply(c), calls' = calls \ {c},
           UNCHANGED <<keyring, envelope, rotated, failures>>,
           \/ UNCHANGED rot /\ Answer(c)
           \/ UNCHANGED answers /\ Reject(c)
    PROVE  RotInv'
<1>1. /\ c.chain \in Chains /\ c.new \in RotKeys /\ c.old \in RotKeys
      /\ chainKey \in [Chains -> RotKeys] /\ revoked \in [Chains -> SUBSET RotKeys]
      /\ rot \in [round : 0 .. MaxRotations, mode : Modes, phase : Phases, old : RotKeys, new : RotKeys]
  BY DEF RotInv, RotTypeOK
<1>2. /\ c.old # c.new /\ chainKey[c.chain] = c.old
      /\ c.old \notin revoked[c.chain] /\ c.new \notin revoked[c.chain]
  BY DEF Accepts
<1>3. /\ c.old = keyring /\ rot.phase # "done" /\ rot.phase # "idle" /\ keyring = rot.old
  BY <1>2 DEF RotInv
<1>4. c.chain \notin answers
  BY <1>2, <1>3 DEF RotInv
<1>5. /\ chainKey'[c.chain] = c.new /\ revoked'[c.chain] = revoked[c.chain] \cup {c.old}
      /\ \A x \in Chains : x # c.chain => chainKey'[x] = chainKey[x] /\ revoked'[x] = revoked[x]
      /\ \A x \in Chains : revoked[x] \subseteq revoked'[x]
      /\ chainKey' \in [Chains -> RotKeys] /\ revoked' \in [Chains -> SUBSET RotKeys]
  BY <1>1 DEF Apply
<1>6. /\ rot' \in [round : 0 .. MaxRotations, mode : Modes, phase : Phases, old : RotKeys, new : RotKeys]
      /\ rot'.phase \in {rot.phase, "failed"} /\ rot'.mode = rot.mode /\ rot'.round = rot.round
      /\ rot'.old = rot.old /\ rot'.new = rot.new
  BY <1>1 DEF Reject, Goto, Phases
<1>7. RotTypeOK'
  BY <1>5, <1>6 DEF RotInv, RotTypeOK
<1>8. /\ answers' \subseteq answers \cup {c.chain} /\ answers \subseteq answers'
      /\ c.chain \in answers' => c.new = rot.new
  BY <1>4 DEF RotInv, Answer
<1>9. RevokedKeysStayRevoked'
  BY <1>2, <1>5 DEF RotInv, RevokedKeysStayRevoked
<1>10. \A x \in answers' : chainKey'[x] = rot'.new /\ rot'.old \in revoked'[x]
  BY <1>1, <1>3, <1>4, <1>5, <1>6, <1>8 DEF RotInv
<1>11. \A d \in calls' :
          /\ d.old \in revoked'[d.chain] \/ (d.old = keyring' /\ rot'.phase # "done")
          /\ d.round <= rot'.round
          /\ d.round = rot'.round => d.old = rot'.old /\ d.new = rot'.new
  <2> SUFFICES ASSUME NEW d \in calls
               PROVE  /\ d.old \in revoked'[d.chain] \/ (d.old = keyring' /\ rot'.phase # "done")
                      /\ d.round <= rot'.round
                      /\ d.round = rot'.round => d.old = rot'.old /\ d.new = rot'.new
    OBVIOUS
  <2>1. d.chain \in Chains
    BY DEF RotInv, RotTypeOK
  <2> QED BY <1>3, <1>5, <1>6, <2>1 DEF RotInv
<1>12. ReencryptedBeforeRevoked' /\ (AllTried => AllTried')
  BY <1>6 DEF RotInv, ReencryptedBeforeRevoked, AllTried
<1>13. BothAnswered => BothAnswered'
  BY <1>1, <1>8 DEF BothAnswered
<1>14. answers' \subseteq Chains
  BY <1>1, <1>8 DEF RotInv
<1>15. /\ rot'.phase \notin {"idle", "done"} /\ keyring' = rot'.old
       /\ rot'.phase = "save" \/ (rot'.phase = "reencrypt" /\ rot'.mode = "batch") => BothAnswered'
       /\ rot'.phase = "revoke" /\ rot'.mode = "rotate" => AllTried'
  BY <1>3, <1>6, <1>12, <1>13 DEF RotInv
<1> QED BY <1>6, <1>7, <1>9, <1>10, <1>11, <1>12, <1>14, <1>15 DEF RotInv

\* A call that comes to nothing is only missing from the calls on their way.
LEMMA RejectedKeeps ==
    ASSUME RotInv, NEW c \in calls, Reject(c), calls' = calls \ {c},
           UNCHANGED <<chainKey, revoked, keyring, envelope, answers, rotated, failures>>
    PROVE  RotInv'
<1>1. rot \in [round : 0 .. MaxRotations, mode : Modes, phase : Phases, old : RotKeys, new : RotKeys]
  BY DEF RotInv
<1>2. /\ rot' \in [round : 0 .. MaxRotations, mode : Modes, phase : Phases, old : RotKeys, new : RotKeys]
      /\ rot'.mode = rot.mode /\ rot'.round = rot.round /\ rot'.old = rot.old /\ rot'.new = rot.new
      /\ rot' = rot \/ (rot.phase = "revoke" /\ rot'.phase = "failed")
  BY <1>1 DEF Reject, Goto, Phases
<1>3. RotTypeOK'
  BY <1>2 DEF RotInv, RotTypeOK
<1>4. RevokedKeysStayRevoked' /\ ReencryptedBeforeRevoked'
  BY <1>2 DEF RotInv, RevokedKeysStayRevoked, ReencryptedBeforeRevoked, AllTried
<1>5. (BothAnswered => BothAnswered') /\ (AllTried => AllTried')
  BY DEF BothAnswered, AllTried
<1>6. \A d \in calls' :
          /\ d.old \in revoked'[d.chain] \/ (d.old = keyring' /\ rot'.phase # "done")
          /\ d.round <= rot'.round
          /\ d.round = rot'.round => d.old = rot'.old /\ d.new = rot'.new
  BY <1>2 DEF RotInv
<1> QED BY <1>2, <1>3, <1>4, <1>5, <1>6 DEF RotInv

\* The calls of a rotation that goes to the chains.
LEMMA SubmitKeeps == ASSUME RotInv, SubmitRevocations PROVE RotInv'
<1> USE RotationConstants
<1>1. /\ rot \in [round : 0 .. MaxRotations, mode : Modes, phase : Phases, old : RotKeys, new : RotKeys]
      /\ rot.phase = "revoke" /\ keyring = rot.old
      /\ UNCHANGED <<chainKey, revoked, keyring, envelope, rot, answers, rotated, failures>>
      /\ calls' = calls \cup {[round |-> rot.round, chain |-> c, old |-> rot.old, new |-> rot.new] : c \in Chains}
  BY DEF RotInv, SubmitRevocations
<1>2. rot.round \in 1 .. MaxRotations
  BY <1>1 DEF RotInv
<1>3. RotTypeOK'
  BY <1>1, <1>2 DEF RotInv, RotTypeOK
<1>4. RevokedKeysStayRevoked' /\ BothAnswered' = BothAnswered /\ AllTried' = AllTried
  BY <1>1 DEF RotInv, RevokedKeysStayRevoked, BothAnswered, AllTried
<1>5. ReencryptedBeforeRevoked'
  BY <1>1, <1>4 DEF RotInv, ReencryptedBeforeRevoked
<1>6. \A d \in calls' :
          /\ d.old \in revoked'[d.chain] \/ (d.old = keyring' /\ rot'.phase # "done")
          /\ d.round <= rot'.round
          /\ d.round = rot'.round => d.old = rot'.old /\ d.new = rot'.new
  BY <1>1, <1>2 DEF RotInv
<1> QED BY <1>1, <1>3, <1>4, <1>5, <1>6 DEF RotInv

\* Every step of the rotation keeps its invariant.
LEMMA RotStepKeeps == RotInv /\ [RotNext]_rotVars => RotInv'
<1> SUFFICES ASSUME RotInv, [RotNext]_rotVars PROVE RotInv'
  OBVIOUS
<1> USE RotationConstants
<1>0. rot \in [round : 0 .. MaxRotations, mode : Modes, phase : Phases, old : RotKeys, new : RotKeys]
  BY DEF RotInv
<1>1. CASE ProveAndGo
  <2>1. PICK phase : phase = IF rot.mode = "rotate" THEN "reencrypt" ELSE "revoke"
    OBVIOUS
  <2> QED BY <1>1, <2>1, PhaseKeeps DEF ProveAndGo, Phases
<1>2. CASE ProofFails
  BY <1>2, PhaseKeeps DEF ProofFails, Phases
<1>3. CASE AfterReencrypt
  <2>1. PICK phase : phase = IF rot.mode = "rotate" THEN "revoke" ELSE "save"
    OBVIOUS
  <2>2. rot.mode # "rotate" => BothAnswered
    BY <1>0, <1>3 DEF AfterReencrypt, Reencrypted, RotInv, Modes
  <2> QED BY <1>3, <2>1, <2>2, PhaseKeeps DEF AfterReencrypt, Reencrypted, Phases
<1>4. CASE AfterRevocations
  <2>1. PICK phase : phase = IF rot.mode = "rotate" THEN "save" ELSE "reencrypt"
    OBVIOUS
  <2> QED BY <1>4, <2>1, PhaseKeeps DEF AfterRevocations, Phases
<1>5. CASE SaveFails
  BY <1>5, PhaseKeeps DEF SaveFails, Phases
<1>6. CASE Save
  <2>1. /\ keyring' = rot.new /\ answers = Chains /\ keyring = rot.old
        /\ UNCHANGED <<chainKey, revoked, envelope, calls, answers, rotated, failures>>
    BY <1>6 DEF Save, RotInv, BothAnswered
  <2>2. /\ rot' \in [round : 0 .. MaxRotations, mode : Modes, phase : Phases, old : RotKeys, new : RotKeys]
        /\ rot'.mode = rot.mode /\ rot'.round = rot.round /\ rot'.old = rot.old /\ rot'.new = rot.new
        /\ rot'.phase = "done" /\ rot.phase # "idle"
    BY <1>0, <1>6 DEF Save, Goto, Phases
  <2>3. RotTypeOK'
    BY <2>1, <2>2 DEF RotInv, RotTypeOK
  <2>4. RevokedKeysStayRevoked' /\ ReencryptedBeforeRevoked' /\ BothAnswered'
    BY <2>1, <2>2 DEF RotInv, RevokedKeysStayRevoked, ReencryptedBeforeRevoked, AllTried, BothAnswered
  <2>5. \A d \in calls' :
          /\ d.old \in revoked'[d.chain]
          /\ d.round <= rot'.round
          /\ d.round = rot'.round => d.old = rot'.old /\ d.new = rot'.new
    <3> SUFFICES ASSUME NEW d \in calls
                 PROVE  /\ d.old \in revoked[d.chain]
                        /\ d.round <= rot.round
                        /\ d.round = rot.round => d.old = rot.old /\ d.new = rot.new
      BY <2>1, <2>2
    <3>1. d.chain \in Chains
      BY DEF RotInv, RotTypeOK
    <3> QED BY <2>1, <3>1 DEF RotInv
  <2> QED BY <2>1, <2>2, <2>3, <2>4, <2>5 DEF RotInv
<1>7. ASSUME NEW d \in Docs, Reencrypt(d) PROVE RotInv'
  <2>1. /\ UNCHANGED <<chainKey, revoked, keyring, envelope, rot, calls, answers>>
        /\ rotated' \cap failures' = {} /\ ~AllTried /\ rot.phase = "reencrypt"
    BY <1>7 DEF Reencrypt, AllTried, RotInv, RotTypeOK
  <2>2. RotTypeOK'
    BY <2>1 DEF RotInv, RotTypeOK
  <2>3. RevokedKeysStayRevoked' /\ ReencryptedBeforeRevoked' /\ BothAnswered' = BothAnswered
    BY <2>1 DEF RotInv, RevokedKeysStayRevoked, ReencryptedBeforeRevoked, BothAnswered
  <2> QED BY <2>1, <2>2, <2>3 DEF RotInv
<1>8. ASSUME NEW c \in calls, CallMined(c) \/ CallReverts(c) \/ CallFails(c) PROVE RotInv'
  <2>1. CASE CallMined(c)
    BY <2>1, MinedKeeps DEF CallMined
  <2>2. CASE CallReverts(c)
    BY <2>2, RejectedKeeps DEF CallReverts
  <2>3. CASE CallFails(c)
    <3>1. CASE Accepts(c) /\ Apply(c)
      BY <2>3, <3>1, MinedKeeps DEF CallFails
    <3>2. CASE UNCHANGED <<chainKey, revoked>>
      BY <2>3, <3>2, RejectedKeeps DEF CallFails
    <3> QED BY <2>3, <3>1, <3>2 DEF CallFails
  <2> QED BY <1>8, <2>1, <2>2, <2>3
<1>9. CASE UNCHANGED rotVars
  <2>1. RotTypeOK' /\ RevokedKeysStayRevoked' /\ ReencryptedBeforeRevoked'
        /\ BothAnswered' = BothAnswered /\ AllTried' = AllTried
    BY <1>9 DEF rotVars, RotInv, RotTypeOK, RevokedKeysStayRevoked, ReencryptedBeforeRevoked,
                BothAnswered, AllTried
  <2> QED BY <1>9, <2>1 DEF RotInv, rotVars
<1> QED BY <1>1, <1>2, <1>3, <1>4, <1>5, <1>6, <1>7, <1>8, <1>9, BeginKeeps, SubmitKeeps DEF RotNext

-----------------------------------------------------------------------------
(* Key inbox and envelope collection                                        *)

PinRows == [hash : Nat, doc : InboxDocs, mine : BOOLEAN, day : Nat]

\* PinRows are told apart by their hashes.
Distinct(rows) == \A r, x \in rows : r.hash = x.hash => r = x

LEMMA BeforeIsNatural ==
    ASSUME NEW rows, IsFiniteSet(rows), NEW r
    PROVE  /\ IsFiniteSet({x \in rows : x.hash > r.hash}) /\ Before(r, rows) \in Nat
           /\ Before(r, rows) <= Cardinality(rows) /\ Cardinality(rows) \in Nat
<1>1. {x \in rows : x.hash > r.hash} \subseteq rows
  OBVIOUS
<1> QED BY <1>1, FS_Subset, FS_CardinalityType DEF Before

\* A row of the list has a position below its length.
LEMMA BeforeIsPosition ==
    ASSUME NEW rows \in SUBSET PinRows, IsFiniteSet(rows), NEW r \in rows
    PROVE  Before(r, rows) < Cardinality(rows)
<1>1. {x \in rows : x.hash > r.hash} \subseteq rows \ {r}
  BY DEF PinRows
<1>2. IsFiniteSet(rows \ {r}) /\ Cardinality(rows \ {r}) = Cardinality(rows) - 1
  BY FS_RemoveElement
<1>3. Before(r, rows) <= Cardinality(rows \ {r})
  BY <1>1, <1>2, FS_Subset DEF Before
<1>4. Before(r, rows) \in Nat /\ Cardinality(rows) \in Nat
  BY BeforeIsNatural
<1> QED BY <1>2, <1>3, <1>4

\* A newer row comes earlier.
LEMMA NewerComesEarlier ==
    ASSUME NEW rows \in SUBSET PinRows, IsFiniteSet(rows), NEW r \in rows, NEW x \in rows, x.hash > r.hash
    PROVE  Before(x, rows) < Before(r, rows)
<1> DEFINE U == {y \in rows : y.hash > r.hash}
           V == {y \in rows : y.hash > x.hash}
<1>1. V \subseteq U \ {x} /\ x \in U
  BY DEF PinRows
<1>2. IsFiniteSet(U) /\ Before(r, rows) \in Nat /\ Before(x, rows) \in Nat
  BY BeforeIsNatural
<1>3. Before(r, rows) = Cardinality(U) /\ Before(x, rows) = Cardinality(V)
  BY DEF Before
<1> HIDE DEF U, V
<1>4. IsFiniteSet(U \ {x}) /\ Cardinality(U \ {x}) = Cardinality(U) - 1
  BY <1>1, <1>2, FS_RemoveElement
<1>5. Cardinality(V) <= Cardinality(U \ {x})
  BY <1>1, <1>4, FS_Subset
<1> QED BY <1>2, <1>3, <1>4, <1>5

(* The first rows, until there are enough with what was taken before: no   *)
(* more than enough, and enough if any row was left out.                   *)
LEMMA TakingStops ==
    ASSUME NEW M \in SUBSET PinRows, IsFiniteSet(M), Distinct(M), NEW k \in Nat, NEW max \in Nat, k <= max,
           NEW T, T = {r \in M : k + Before(r, M) < max}
    PROVE  /\ IsFiniteSet(T) /\ Cardinality(T) \in Nat
           /\ k + Cardinality(T) <= max
           /\ T # M => k + Cardinality(T) = max
<1>1. IsFiniteSet(T) /\ Cardinality(T) \in Nat
  <2>1. T \subseteq M
    OBVIOUS
  <2> QED BY <2>1, FS_Subset, FS_CardinalityType
<1>2. \A r \in M : Before(r, M) \in Nat /\ r.hash \in Nat
  BY BeforeIsNatural DEF PinRows
<1>3. k + Cardinality(T) <= max
  <2>1. CASE T = {}
    BY <2>1, FS_EmptySet
  <2>2. CASE T # {}
    <3>1. PICK H : H = {r.hash : r \in T}
      OBVIOUS
    <3>2. H \in SUBSET Nat /\ H # {}
      BY <1>2, <2>2, <3>1
    <3>3. PICK h \in H : \A g \in H : h <= g
      BY <3>2, LeastNatural
    <3>4. PICK m \in T : m.hash = h
      BY <3>1
    <3>5. \A x \in T : x # m => x.hash > m.hash
      <4> TAKE x \in T
      <4> HAVE x # m
      <4>1. x \in M /\ m \in M
        OBVIOUS
      <4>2. x.hash # m.hash
        BY <4>1 DEF Distinct
      <4>3. m.hash <= x.hash
        BY <3>1, <3>3, <3>4
      <4> QED BY <1>2, <4>1, <4>2, <4>3
    <3>6. T \ {m} \subseteq {x \in M : x.hash > m.hash}
      BY <3>5
    <3>7. Cardinality(T \ {m}) <= Before(m, M)
      <4>1. IsFiniteSet({x \in M : x.hash > m.hash})
        BY BeforeIsNatural
      <4> QED BY <3>6, <4>1, FS_Subset DEF Before
    <3>8. Cardinality(T \ {m}) = Cardinality(T) - 1
      BY <1>1, FS_RemoveElement
    <3>9. m \in M /\ k + Before(m, M) < max
      OBVIOUS
    <3>10. Before(m, M) \in Nat
      BY <1>2, <3>9
    <3> QED BY <1>1, <3>7, <3>8, <3>9, <3>10
  <2> QED BY <2>1, <2>2
<1>4. ASSUME T # M PROVE k + Cardinality(T) >= max
  <2>1. PICK P : P = {Before(r, M) : r \in M \ T}
    OBVIOUS
  <2>2. P \in SUBSET Nat /\ P # {}
    BY <1>2, <1>4, <2>1
  <2>3. PICK p \in P : \A q \in P : p <= q
    BY <2>2, LeastNatural
  <2>4. PICK r \in M \ T : p = Before(r, M)
    BY <2>1
  <2>5. \A x \in M : x.hash > r.hash => x \in T
    <3> TAKE x \in M
    <3> HAVE x.hash > r.hash
    <3>1. Before(x, M) < p /\ Before(x, M) \in Nat /\ p \in Nat
      BY <1>2, <2>2, <2>4, NewerComesEarlier
    <3>2. Before(x, M) \notin P
      BY <2>2, <2>3, <3>1
    <3> QED BY <2>1, <3>2
  <2>6. {x \in M : x.hash > r.hash} \subseteq T
    BY <2>5
  <2>7. p <= Cardinality(T)
    BY <1>1, <2>4, <2>6, FS_Subset DEF Before
  <2>8. k + p >= max /\ p \in Nat
    BY <1>2, <2>4
  <2> QED BY <1>1, <2>7, <2>8
<1> QED BY <1>1, <1>3, <1>4

ListType == [for : {"none", "inbox", "collect", "old", "shown"}, doc : InboxDocs \cup {0}, page : 0 .. MaxPages,
             count : 0 .. MaxMatches, found : SUBSET PinRows, start : SUBSET Nat, unpinned : BOOLEAN]

InboxTyped ==
    /\ pins \in SUBSET PinRows /\ IsFiniteSet(pins) /\ pinned \in Nat /\ day \in Nat /\ changed \in BOOLEAN
    /\ list \in ListType /\ status \in [InboxDocs -> Statuses] /\ sweep \in SUBSET InboxDocs

\* A hash is given once, and what a listing found is what was pinned.
RowsKnown ==
    /\ Distinct(pins \cup list.found)
    /\ \A r \in pins \cup list.found : r.hash \in 1 .. pinned
    /\ doomed \in SUBSET (1 .. pinned)

\* What the collector is after was dead when the requests were read, or is old.
MayUnpin(r) == Dead(r.doc) \/ changed \/ day - r.day > MaxAge
CollectsDead ==
    /\ \A d \in sweep : Dead(d) \/ changed
    /\ list.for = "collect" =>
           /\ list.doc \in InboxDocs /\ (Dead(list.doc) \/ changed)
           /\ \A r \in list.found : r.mine /\ r.doc = list.doc
    /\ \A r \in pins : r.mine /\ r.hash \in doomed => MayUnpin(r)

\* A row that was there when the listing began is found or still to come.
StillToCome ==
    list.for = "inbox" /\ ~list.unpinned =>
        /\ list.start \subseteq Hashes({x \in pins : x.mine})
        /\ list.count < MaxMatches =>
               \A r \in pins : r.hash \in list.start => r \in list.found \/ list.page * PageLimit <= Before(r, pins)

InboxInv == InboxTyped /\ RowsKnown /\ CollectsDead /\ StillToCome /\ ListingMissesNothing

LEMMA InboxInvSuffices == InboxInv => InboxTypeOK /\ ListingMissesNothing
BY DEF InboxInv, InboxTyped, RowsKnown, InboxTypeOK, ListType, PinRows, Distinct

LEMMA InboxInitial == InboxInit => InboxInv
<1> SUFFICES ASSUME InboxInit PROVE InboxInv
  OBVIOUS
<1>1. InboxTyped
  <2>1. Idle \in ListType
    BY InboxConstants DEF ListType, Idle
  <2>2. IsFiniteSet({})
    BY FS_EmptySet
  <2> QED BY <2>1, <2>2 DEF InboxInit, InboxTyped, Statuses
<1>2. RowsKnown /\ CollectsDead /\ StillToCome /\ ListingMissesNothing
  BY DEF InboxInit, RowsKnown, CollectsDead, StillToCome, ListingMissesNothing, Idle, Distinct
<1> QED BY <1>1, <1>2 DEF InboxInv

\* What happens to the requests does not touch the pins or the listing.
LEMMA RequestChangesKeeps ==
    ASSUME InboxInv, NEW d \in InboxDocs, NEW s \in Statuses, RequestChanges(d, s)
    PROVE  InboxInv'
<1> USE DEF InboxInv
<1>1. InboxTyped'
  BY DEF InboxTyped, RequestChanges, Collecting
<1>2. RowsKnown' /\ ListingMissesNothing'
  BY DEF RequestChanges, RowsKnown, ListingMissesNothing
<1>3. StillToCome'
  BY DEF RequestChanges, StillToCome, Before, Hashes
<1>4. CollectsDead'
  <2>1. CASE Collecting
    <3>1. changed' /\ sweep' = sweep /\ list' = list
      BY <2>1 DEF RequestChanges
    <3> QED BY <3>1 DEF CollectsDead, MayUnpin
  <2>2. CASE ~Collecting
    BY <2>2 DEF RequestChanges, CollectsDead, MayUnpin, Collecting
  <2> QED BY <2>1, <2>2
<1> QED BY <1>1, <1>2, <1>3, <1>4

LEMMA PassDayKeeps ==
    ASSUME InboxInv, PassDay
    PROVE  InboxInv'
<1> USE DEF InboxInv
<1>1. InboxTyped'
  BY DEF InboxTyped, PassDay
<1>2. RowsKnown' /\ ListingMissesNothing' /\ StillToCome'
  BY DEF PassDay, RowsKnown, ListingMissesNothing, StillToCome, Before, Hashes
<1>3. \A r \in pins : MayUnpin(r) => MayUnpin(r)'
  BY InboxConstants DEF PassDay, MayUnpin, Dead, InboxTyped, PinRows
<1>4. CollectsDead'
  BY <1>3 DEF PassDay, CollectsDead, Dead
<1> QED BY <1>1, <1>2, <1>3, <1>4

\* A new pin pushes the others down the list.
LEMMA SendKeyEnvelopeKeeps ==
    ASSUME InboxInv, NEW d \in InboxDocs, NEW mine \in BOOLEAN, SendKeyEnvelope(d, mine)
    PROVE  InboxInv'
<1> USE DEF InboxInv
<1>0. PICK n : n = [hash |-> pinned + 1, doc |-> d, mine |-> mine, day |-> day]
  OBVIOUS
<1>1. n \in PinRows /\ n.hash = pinned + 1 /\ pins' = pins \cup {n} /\ pinned' = pinned + 1 /\ pinned \in Nat
  BY <1>0 DEF SendKeyEnvelope, InboxTyped, PinRows
<1>2. UNCHANGED <<status, day, list, sweep, doomed, changed>>
  BY DEF SendKeyEnvelope
<1>3. InboxTyped'
  BY <1>1, <1>2, FS_AddElement DEF InboxTyped
<1>4. \A r \in pins \cup list.found : r.hash \in 1 .. pinned
  BY DEF RowsKnown
<1>5. RowsKnown'
  <2>1. \A r \in (pins \cup list.found)' : r.hash \in 1 .. pinned'
    BY <1>1, <1>2, <1>4
  <2>2. Distinct((pins \cup list.found)')
    <3>1. (pins \cup list.found)' = (pins \cup list.found) \cup {n}
      BY <1>1, <1>2
    <3>2. \A r \in pins \cup list.found : r.hash # n.hash
      BY <1>1, <1>4
    <3> QED BY <3>1, <3>2 DEF RowsKnown, Distinct
  <2>3. doomed' \in SUBSET (1 .. pinned')
    BY <1>1, <1>2 DEF RowsKnown
  <2> QED BY <2>1, <2>2, <2>3 DEF RowsKnown
<1>6. n.hash \notin doomed
  BY <1>1 DEF RowsKnown
<1>7. ListingMissesNothing'
  BY <1>2 DEF ListingMissesNothing
<1>8. \A r \in pins : Before(r, pins) <= Before(r, pins') /\ Before(r, pins) \in Nat /\ Before(r, pins') \in Nat
  <2> TAKE r \in pins
  <2>1. IsFiniteSet(pins) /\ IsFiniteSet(pins')
    BY <1>3 DEF InboxTyped
  <2>2. {x \in pins : x.hash > r.hash} \subseteq {x \in pins' : x.hash > r.hash}
    BY <1>1
  <2>3. IsFiniteSet({x \in pins' : x.hash > r.hash}) /\ Before(r, pins) \in Nat /\ Before(r, pins') \in Nat
    BY <2>1, BeforeIsNatural
  <2> QED BY <2>2, <2>3, FS_Subset DEF Before
<1>9. StillToCome'
  <2> SUFFICES ASSUME list.for = "inbox" /\ ~list.unpinned
               PROVE  /\ list.start \subseteq Hashes({x \in pins' : x.mine})
                      /\ list.count < MaxMatches =>
                             \A r \in pins' : r.hash \in list.start =>
                                 r \in list.found \/ list.page * PageLimit <= Before(r, pins')
    BY <1>2 DEF StillToCome
  <2>1. list.start \subseteq Hashes({x \in pins : x.mine})
    BY DEF StillToCome
  <2>2. list.start \subseteq Hashes({x \in pins' : x.mine})
    BY <1>1, <2>1 DEF Hashes
  <2>3. n.hash \notin list.start
    BY <1>1, <1>4, <2>1 DEF Hashes
  <2>4. ASSUME list.count < MaxMatches, NEW r \in pins', r.hash \in list.start, r \notin list.found
        PROVE  list.page * PageLimit <= Before(r, pins')
    <3>1. r \in pins
      BY <1>1, <2>3, <2>4
    <3>2. list.page * PageLimit <= Before(r, pins)
      BY <2>4, <3>1 DEF StillToCome
    <3>3. list.page * PageLimit \in Nat
      BY InboxConstants DEF InboxTyped, ListType
    <3> QED BY <1>8, <3>1, <3>2, <3>3
  <2> QED BY <2>2, <2>4
<1>10. CollectsDead'
  BY <1>1, <1>2, <1>6 DEF CollectsDead, MayUnpin, Dead
<1> QED BY <1>3, <1>5, <1>7, <1>9, <1>10

\* A listing begins with nothing found, and everything of the beneficiary's still to come.
LEMMA BeginListingKeeps ==
    ASSUME InboxInv, ListDone, NEW for \in {"inbox", "collect", "old"}, NEW d \in InboxDocs \cup {0},
           Begin(for, d), UNCHANGED <<pins, pinned, status, day, doomed, changed>>, sweep' \in SUBSET sweep,
           for = "collect" => d \in sweep
    PROVE  InboxInv'
<1> USE DEF InboxInv
<1>1. PICK S : S = IF for = "inbox" THEN {r.hash : r \in {x \in pins : x.mine}} ELSE {}
  OBVIOUS
<1>2. S \in SUBSET Nat
  BY <1>1 DEF InboxTyped, PinRows
<1>3. list' = [for |-> for, doc |-> d, page |-> 0, count |-> 0, found |-> {}, start |-> S, unpinned |-> FALSE]
  BY <1>1 DEF Begin
<1>4. list' \in ListType
  BY <1>2, <1>3, InboxConstants DEF ListType
<1>5. /\ list'.for = for /\ list'.doc = d /\ list'.page = 0 /\ list'.count = 0 /\ list'.found = {}
      /\ list'.start = S
  BY <1>3
<1>6. InboxTyped'
  BY <1>4 DEF InboxTyped
<1>7. RowsKnown' /\ ListingMissesNothing'
  BY <1>5 DEF RowsKnown, ListingMissesNothing, Distinct
<1>8. CollectsDead'
  BY <1>5 DEF CollectsDead, MayUnpin, Dead, InboxTyped
<1>9. StillToCome'
  <2>1. for = "inbox" => S \subseteq Hashes({x \in pins : x.mine})
    BY <1>1 DEF Hashes
  <2>2. \A r \in pins : Before(r, pins) \in Nat
    BY BeforeIsNatural DEF InboxTyped
  <2>3. 0 * PageLimit = 0
    BY InboxConstants
  <2> QED BY <1>5, <2>1, <2>2, <2>3 DEF StillToCome
<1> QED BY <1>6, <1>7, <1>8, <1>9

LEMMA CollectDocumentsKeeps ==
    ASSUME InboxInv, CollectDocuments
    PROVE  InboxInv'
<1> USE DEF InboxInv
<1>1. InboxTyped' /\ RowsKnown' /\ ListingMissesNothing'
  BY DEF CollectDocuments, InboxTyped, RowsKnown, ListingMissesNothing
<1>2. StillToCome'
  BY DEF CollectDocuments, StillToCome
<1>3. doomed = {} /\ list.for # "collect"
  BY DEF CollectDocuments, Collecting
<1>4. CollectsDead'
  BY <1>3 DEF CollectDocuments, CollectsDead, Dead
<1> QED BY <1>1, <1>2, <1>4

\* A page is read: what lay on it is found, unless there are enough rows.
LEMMA ReadPageKeeps ==
    ASSUME InboxInv, ReadPage
    PROVE  InboxInv'
<1> USE DEF InboxInv
<1>1. /\ pins \in SUBSET PinRows /\ IsFiniteSet(pins) /\ list \in ListType
      /\ list.count \in 0 .. MaxMatches /\ list.count < MaxMatches /\ list.page \in 0 .. MaxPages
      /\ list.page < MaxPages /\ list.found \in SUBSET PinRows
  BY DEF InboxTyped, ListType, ReadPage
<1>2. Matching \in SUBSET pins /\ TakenRows \in SUBSET Matching
  BY DEF Matching, PageOf, TakenRows
<1>3. IsFiniteSet(Matching) /\ Distinct(Matching) /\ Matching \in SUBSET PinRows
  BY <1>1, <1>2, FS_Subset DEF RowsKnown, Distinct
<1>4. /\ Cardinality(TakenRows) \in Nat /\ list.count + Cardinality(TakenRows) <= MaxMatches
      /\ TakenRows # Matching => list.count + Cardinality(TakenRows) = MaxMatches
  <2>1. TakenRows = {r \in Matching : list.count + Before(r, Matching) < MaxMatches}
    BY DEF TakenRows
  <2>2. list.count \in Nat /\ MaxMatches \in Nat /\ list.count <= MaxMatches
    BY <1>1, InboxConstants
  <2> QED BY <1>3, <2>1, <2>2, TakingStops
<1>5. /\ list' = [list EXCEPT !.page = list.page + 1, !.count = list.count + Cardinality(TakenRows),
                              !.found = list.found \cup TakenRows]
      /\ UNCHANGED <<pins, pinned, status, day, sweep, doomed, changed>>
  BY DEF ReadPage
<1>6. /\ list'.for = list.for /\ list'.doc = list.doc /\ list'.page = list.page + 1
      /\ list'.count = list.count + Cardinality(TakenRows) /\ list'.found = list.found \cup TakenRows
      /\ list'.start = list.start /\ list'.unpinned = list.unpinned
  BY <1>1, <1>5 DEF ListType
<1>7. list' \in ListType
  <2>1. list.page + 1 \in 0 .. MaxPages /\ list.count + Cardinality(TakenRows) \in 0 .. MaxMatches
    BY <1>1, <1>4, InboxConstants
  <2>2. list.found \cup TakenRows \in SUBSET PinRows
    BY <1>1, <1>2
  <2> QED BY <1>1, <1>5, <2>1, <2>2 DEF ListType
<1>8. InboxTyped'
  BY <1>5, <1>7 DEF InboxTyped
<1>9. RowsKnown'
  <2>1. (pins \cup list.found)' = pins \cup list.found
    BY <1>2, <1>5, <1>6
  <2> QED BY <1>5, <2>1 DEF RowsKnown
<1>10. ListingMissesNothing'
  BY <1>6 DEF ListingMissesNothing, ReadPage, ListDone
<1>11. CollectsDead'
  <2>1. ASSUME list.for = "collect", NEW r \in TakenRows
        PROVE  r.mine /\ r.doc = list.doc
    BY <2>1 DEF TakenRows, Matching, Matches
  <2> QED BY <1>5, <1>6, <2>1 DEF CollectsDead, MayUnpin, Dead
<1>12. StillToCome'
  <2> SUFFICES ASSUME list.for = "inbox", ~list.unpinned
               PROVE  /\ list.start \subseteq Hashes({x \in pins : x.mine})
                      /\ list'.count < MaxMatches =>
                             \A r \in pins : r.hash \in list.start =>
                                 r \in list'.found \/ list'.page * PageLimit <= Before(r, pins)
    BY <1>5, <1>6 DEF StillToCome
  <2>1. list.start \subseteq Hashes({x \in pins : x.mine})
    BY DEF StillToCome
  <2>2. ASSUME list'.count < MaxMatches, NEW r \in pins, r.hash \in list.start, r \notin list'.found
        PROVE  list'.page * PageLimit <= Before(r, pins)
    <3>1. TakenRows = Matching
      BY <1>1, <1>4, <1>6, <2>2, InboxConstants
    <3>2. r.mine
      <4>1. PICK x \in pins : x.mine /\ x.hash = r.hash
        BY <2>1, <2>2 DEF Hashes
      <4> QED BY <4>1 DEF RowsKnown, Distinct
    <3>3. list.page * PageLimit <= Before(r, pins)
      BY <1>1, <1>6, <2>2 DEF StillToCome
    <3>4. r \notin PageOf(list.page)
      BY <1>6, <2>2, <3>1, <3>2 DEF Matching, Matches
    <3>5. ~(Before(r, pins) < (list.page + 1) * PageLimit)
      BY <3>3, <3>4 DEF PageOf
    <3>6. Before(r, pins) \in Nat /\ (list.page + 1) * PageLimit \in Nat
      <4>1. \A a, b \in Nat : a * b \in Nat
        OBVIOUS
      <4>2. list.page + 1 \in Nat /\ PageLimit \in Nat
        BY <1>1, InboxConstants
      <4>3. (list.page + 1) * PageLimit \in Nat
        BY <4>1, <4>2, Zenon
      <4> QED BY <1>1, <4>3, BeforeIsNatural
    <3> QED BY <1>6, <3>5, <3>6
  <2> QED BY <2>1, <2>2
<1> QED BY <1>8, <1>9, <1>10, <1>11, <1>12

\* At an empty page every row that was still to come has been found.
LEMMA EndListingKeeps ==
    ASSUME InboxInv, EndListing
    PROVE  InboxInv'
<1> USE DEF InboxInv
<1>1. /\ pins \in SUBSET PinRows /\ IsFiniteSet(pins) /\ list \in ListType /\ list.found \in SUBSET PinRows
      /\ list.page \in 0 .. MaxPages /\ list.count \in 0 .. MaxMatches
  BY DEF InboxTyped, ListType
<1>2. UNCHANGED <<pins, pinned, status, day, sweep, changed>> /\ doomed' = doomed \cup Condemned
  BY DEF EndListing
<1>3. Condemned \in SUBSET Hashes(list.found)
  BY DEF Condemned, Hashes
<1>4. Idle \in ListType
  BY InboxConstants DEF Idle, ListType
<1>5. \/ list.for = "inbox" /\ list' = [list EXCEPT !.for = "shown"]
      \/ list.for # "inbox" /\ list' = Idle
  BY DEF EndListing
<1>6. list' \in ListType
  BY <1>1, <1>4, <1>5 DEF ListType
<1>7. InboxTyped'
  BY <1>2, <1>6 DEF InboxTyped
<1>8. list'.for \in {"shown", "none"} /\ list'.found \in {list.found, {}}
  BY <1>1, <1>5 DEF ListType, Idle
<1>9. RowsKnown'
  <2>1. (pins \cup list.found)' \in SUBSET (pins \cup list.found)
    BY <1>2, <1>8
  <2>2. Hashes(list.found) \in SUBSET (1 .. pinned)
    BY DEF RowsKnown, Hashes
  <2> QED BY <1>2, <1>3, <2>1, <2>2 DEF RowsKnown, Distinct
<1>10. CollectsDead'
  <2>1. ASSUME NEW r \in pins, r.mine, r.hash \in Condemned
        PROVE  MayUnpin(r)
    <3>1. PICK x \in list.found : x.hash = r.hash
      BY <1>3, <2>1 DEF Hashes
    <3>2. x = r
      BY <3>1 DEF RowsKnown, Distinct
    <3>3. CASE list.for = "collect"
      BY <3>2, <3>3 DEF CollectsDead, MayUnpin
    <3>4. CASE list.for = "old"
      <4>1. PICK y \in list.found : y.hash = r.hash /\ day - y.day > MaxAge
        BY <2>1, <3>4 DEF Condemned, Hashes
      <4>2. y = r
        BY <4>1 DEF RowsKnown, Distinct
      <4> QED BY <4>1, <4>2 DEF MayUnpin
    <3>5. CASE list.for \notin {"collect", "old"}
      BY <2>1, <3>5 DEF Condemned
    <3> QED BY <3>3, <3>4, <3>5
  <2>2. \A r \in pins : MayUnpin(r)' <=> MayUnpin(r)
    BY <1>2 DEF MayUnpin, Dead
  <2> QED BY <1>2, <1>8, <2>1, <2>2 DEF CollectsDead, Dead
<1>11. StillToCome'
  BY <1>8 DEF StillToCome
<1>12. ListingMissesNothing'
  <2> SUFFICES ASSUME list'.for = "shown", ~list'.unpinned, list'.count < MaxMatches, list'.page < MaxPages
               PROVE  list'.start \subseteq Hashes(list'.found)
    BY DEF ListingMissesNothing
  <2>1. list.for = "inbox" /\ list' = [list EXCEPT !.for = "shown"]
    BY <1>5 DEF Idle
  <2>2. /\ list'.unpinned = list.unpinned /\ list'.count = list.count /\ list'.page = list.page
        /\ list'.start = list.start /\ list'.found = list.found
    BY <1>1, <2>1 DEF ListType
  <2>3. PageEmpty(list.page)
    BY <1>1, <2>2, InboxConstants DEF EndListing
  <2>4. ASSUME NEW h \in list.start PROVE h \in Hashes(list.found)
    <3>1. PICK r \in pins : r.mine /\ r.hash = h
      BY <2>1, <2>2, <2>4 DEF StillToCome, Hashes
    <3>2. r \in list.found \/ list.page * PageLimit <= Before(r, pins)
      BY <2>1, <2>2, <2>4, <3>1 DEF StillToCome
    <3>3. Before(r, pins) < Cardinality(pins) /\ Before(r, pins) \in Nat /\ Cardinality(pins) \in Nat
      BY <1>1, BeforeIsPosition, BeforeIsNatural
    <3>4. list.page * PageLimit \in Nat
      BY <1>1, InboxConstants
    <3>5. Cardinality(pins) <= list.page * PageLimit
      BY <2>3 DEF PageEmpty
    <3>6. r \in list.found
      BY <3>2, <3>3, <3>4, <3>5
    <3> QED BY <3>1, <3>6 DEF Hashes
  <2> QED BY <2>2, <2>4
<1> QED BY <1>7, <1>9, <1>10, <1>11, <1>12

LEMMA UnpinKeeps ==
    ASSUME InboxInv, NEW h, Unpin(h)
    PROVE  InboxInv'
<1> USE DEF InboxInv
<1>1. list \in ListType /\ list.found \in SUBSET PinRows /\ pins \in SUBSET PinRows /\ IsFiniteSet(pins)
  BY DEF InboxTyped, ListType
<1>2. doomed' \in SUBSET doomed /\ UNCHANGED <<pinned, status, day, sweep, changed>>
  BY DEF Unpin
<1>3. CASE UNCHANGED <<pins, list>>
  <2>1. InboxTyped' /\ RowsKnown' /\ ListingMissesNothing'
    BY <1>2, <1>3 DEF InboxTyped, RowsKnown, ListingMissesNothing
  <2>2. CollectsDead'
    BY <1>2, <1>3 DEF CollectsDead, MayUnpin, Dead
  <2>3. StillToCome'
    BY <1>2, <1>3 DEF StillToCome
  <2> QED BY <2>1, <2>2, <2>3
<1>4. CASE pins' \in SUBSET pins /\ list' = [list EXCEPT !.unpinned = TRUE]
  <2>1. list'.unpinned = TRUE /\ list'.for = list.for /\ list'.doc = list.doc /\ list'.found = list.found
    BY <1>1, <1>4 DEF ListType
  <2>2. list' \in ListType
    BY <1>1, <1>4 DEF ListType
  <2>3. InboxTyped'
    BY <1>1, <1>2, <1>4, <2>2, FS_Subset DEF InboxTyped
  <2>4. RowsKnown'
    BY <1>2, <1>4, <2>1 DEF RowsKnown, Distinct
  <2>5. StillToCome' /\ ListingMissesNothing'
    BY <2>1 DEF StillToCome, ListingMissesNothing
  <2>6. CollectsDead'
    BY <1>2, <1>4, <2>1 DEF CollectsDead, MayUnpin, Dead
  <2> QED BY <2>3, <2>4, <2>5, <2>6
<1> QED BY <1>3, <1>4 DEF Unpin

\* The inbox keeps its invariant.
LEMMA InboxStepKeeps ==
    ASSUME InboxInv, [InboxNext]_inboxVars
    PROVE  InboxInv'
<1>1. CASE UNCHANGED inboxVars
  BY <1>1 DEF inboxVars, InboxInv, InboxTyped, RowsKnown, CollectsDead, MayUnpin, Dead, StillToCome,
              ListingMissesNothing
<1>2. ASSUME NEW d \in InboxDocs, NEW s \in Statuses, RequestChanges(d, s) PROVE InboxInv'
  BY <1>2, RequestChangesKeeps
<1>3. ASSUME NEW d \in InboxDocs, NEW mine \in BOOLEAN, SendKeyEnvelope(d, mine) PROVE InboxInv'
  BY <1>3, SendKeyEnvelopeKeeps
<1>4. CASE PassDay
  BY <1>4, PassDayKeeps
<1>5. CASE OpenInbox
  BY <1>5, BeginListingKeeps DEF OpenInbox
<1>6. CASE CollectOld
  BY <1>6, BeginListingKeeps DEF CollectOld
<1>7. ASSUME NEW d \in InboxDocs, FindEnvelopes(d) PROVE InboxInv'
  BY <1>7, BeginListingKeeps DEF FindEnvelopes
<1>8. CASE CollectDocuments
  BY <1>8, CollectDocumentsKeeps
<1>9. CASE ReadPage
  BY <1>9, ReadPageKeeps
<1>10. CASE EndListing
  BY <1>10, EndListingKeeps
<1>11. ASSUME NEW h \in 1 .. MaxPins, Unpin(h) PROVE InboxInv'
  BY <1>11, UnpinKeeps
<1> QED BY <1>1, <1>2, <1>3, <1>4, <1>5, <1>6, <1>7, <1>8, <1>9, <1>10, <1>11 DEF InboxNext

\* Only Unpin takes rows off the list, and only the one that was condemned.
LEMMA UnpinStep ==
    ASSUME InboxInv, [InboxNext]_inboxVars, NEW r \in pins, r.mine, r.hash \notin Hashes(pins')
    PROVE  MayUnpin(r)
<1>1. r \notin pins'
  BY DEF Hashes
<1>2. PICK h \in 1 .. MaxPins : Unpin(h)
  BY <1>1 DEF InboxNext, inboxVars, RequestChanges, SendKeyEnvelope, PassDay, OpenInbox, CollectDocuments,
              CollectOld, ReadPage, EndListing, FindEnvelopes
<1>3. r.hash = h /\ h \in doomed
  BY <1>1, <1>2 DEF Unpin
<1> QED BY <1>3 DEF InboxInv, CollectsDead

-----------------------------------------------------------------------------
(* Copies of a document, and the proxy                                      *)

Providers  == {"filecoin", "arweave"}
CopyType   == [doc : Papers, provider : Providers, ref : Nat]
WireType   == [op : {"pin", "unpin"}, doc : Papers, at : Nat, header : BOOLEAN]
BackupType == [id : Nat, doc : Papers, todo : Seq(Providers) \ {<<>>}]
ReadType   == [id : Nat, doc : Papers, stage : {"ipfs", "arweave", "filecoin"}, named : SUBSET CopyType,
               sure : SUBSET Providers]

BackupTyped ==
    /\ storeClock \in Nat /\ losses \in Nat /\ begun \in [backups : Nat, reads : Nat, sends : Nat]
    /\ wire \in SUBSET WireType /\ ipfsPins \in SUBSET Papers
    /\ copies \in SUBSET CopyType /\ anchored \in SUBSET copies
    /\ refs \in [Papers -> SUBSET CopyType]
    /\ backups \in SUBSET BackupType /\ reads \in SUBSET ReadType

\* A reference is one of its document, and the only one with its provider.
OwnRefs == \A d \in Papers : \A r, s \in refs[d] : r.doc = d /\ (r.provider = s.provider => r = s)

\* What carries a header was signed.
WireIsSigned == \A q \in wire : q.header => [op |-> q.op, doc |-> q.doc, at |-> q.at] \in signed

\* What a download counts on lies with a provider it has still to ask, under the reference it goes by.
CountsOn(r) ==
    /\ \A p \in r.sure : \E c \in Record(r) \cap copies : c.provider = p
    /\ r.stage = "filecoin" => r.sure \subseteq {"filecoin"}
ReadsCount == \A r \in reads : CountsOn(r)

BackupInv ==
    /\ BackupTyped /\ OwnRefs /\ WireIsSigned /\ ReadsCount
    /\ FetchFindsCopies /\ ForwardedWasSigned /\ ArchivedIsAnchored

LEMMA BackupInvSuffices ==
    BackupInv => BackupTypeOK /\ FetchFindsCopies /\ ForwardedWasSigned /\ ArchivedIsAnchored
BY DEF BackupInv, BackupTyped, OwnRefs, BackupTypeOK

LEMMA BackupInitial == BackupInit => BackupInv
<1> SUFFICES ASSUME BackupInit PROVE BackupInv
  OBVIOUS
<1>1. BackupTyped
  BY DEF BackupInit, BackupTyped
<1>2. OwnRefs /\ WireIsSigned /\ ReadsCount /\ FetchFindsCopies /\ ForwardedWasSigned /\ ArchivedIsAnchored
  BY DEF BackupInit, OwnRefs, WireIsSigned, ReadsCount, FetchFindsCopies, ForwardedWasSigned, ArchivedIsAnchored
<1> QED BY <1>1, <1>2 DEF BackupInv

\* Steps on the way to IPFS leave the copies and the downloads alone.
LEMMA StoreSideKeeps ==
    ASSUME BackupInv, UNCHANGED <<storeSide, readSide>>
    PROVE  OwnRefs' /\ ReadsCount' /\ FetchFindsCopies' /\ ArchivedIsAnchored'
<1>1. OwnRefs' /\ FetchFindsCopies' /\ ArchivedIsAnchored'
  BY DEF BackupInv, storeSide, readSide, OwnRefs, FetchFindsCopies, ArchivedIsAnchored
<1>2. ReadsCount'
  BY DEF BackupInv, storeSide, readSide, ReadsCount, CountsOn, Record
<1> QED BY <1>1, <1>2

\* Steps that send and forward nothing.
LEMMA WireSideKeeps ==
    ASSUME BackupInv, UNCHANGED <<wire, signed, forwarded>>
    PROVE  WireIsSigned' /\ ForwardedWasSigned'
BY DEF BackupInv, WireIsSigned, ForwardedWasSigned

LEMMA PinnedIsPaper ==
    ASSUME BackupTyped, NEW op, NEW d \in Papers
    PROVE  Pinned(op, d) \in SUBSET Papers
BY DEF BackupTyped, Pinned

LEMMA SendKeeps ==
    ASSUME BackupInv, NEW op \in {"pin", "unpin"}, NEW d \in Papers, NEW h \in BOOLEAN, Send(op, d, h)
    PROVE  BackupInv'
<1> USE DEF BackupInv
<1>1. UNCHANGED <<storeClock, proxied, forwarded, losses>> /\ UNCHANGED <<storeSide, readSide>>
  BY DEF Send
<1>2. begun' \in [backups : Nat, reads : Nat, sends : Nat]
  BY DEF Send, BackupTyped
<1>3. PICK q : q = Request(op, d, h)
  OBVIOUS
<1>4. q \in WireType /\ q.op = op /\ q.doc = d /\ q.at = storeClock /\ q.header = h
  BY <1>3 DEF Request, WireType, BackupTyped
<1>5. ipfsPins' \in SUBSET Papers
  BY PinnedIsPaper DEF Send, BackupTyped
<1>6. wire' \in SUBSET (wire \cup {q}) /\ signed \in SUBSET signed'
      /\ (q \in wire' \ wire /\ h => [op |-> op, doc |-> d, at |-> storeClock] \in signed')
  BY <1>3 DEF Send
<1>7. BackupTyped'
  BY <1>1, <1>2, <1>4, <1>5, <1>6 DEF BackupTyped, storeSide, readSide
<1>8. WireIsSigned'
  BY <1>4, <1>6 DEF WireIsSigned
<1>9. ForwardedWasSigned'
  BY <1>1, <1>6 DEF ForwardedWasSigned
<1> QED BY <1>1, <1>7, <1>8, <1>9, StoreSideKeeps

LEMMA ProxyReceivesKeeps ==
    ASSUME BackupInv, NEW q \in wire, NEW again \in BOOLEAN, ProxyReceives(q, again)
    PROVE  BackupInv'
<1> USE DEF BackupInv
<1>1. UNCHANGED <<storeClock, proxied, signed, losses, begun>> /\ UNCHANGED <<storeSide, readSide>>
      /\ wire' \in SUBSET wire
  BY DEF ProxyReceives
<1>2. q \in WireType
  BY DEF BackupTyped
<1>3. ipfsPins' \in SUBSET Papers
  BY <1>2, PinnedIsPaper DEF ProxyReceives, BackupTyped, WireType
<1>4. BackupTyped'
  BY <1>1, <1>3 DEF BackupTyped, storeSide, readSide
<1>5. WireIsSigned'
  BY <1>1 DEF WireIsSigned
<1>6. ForwardedWasSigned'
  <2>1. CASE ~ProxyAuthorizes(q)
    BY <1>1, <2>1 DEF ProxyReceives, ForwardedWasSigned
  <2>2. CASE ProxyAuthorizes(q)
    <3>1. PICK f : f = [op |-> q.op, doc |-> q.doc, at |-> q.at, when |-> storeClock]
      OBVIOUS
    <3>2. forwarded' = forwarded \cup {f}
      BY <2>2, <3>1 DEF ProxyReceives
    <3>3. [op |-> f.op, doc |-> f.doc, at |-> f.at] \in signed /\ f.when - f.at <= MaxSkew
      BY <2>2, <3>1 DEF ProxyAuthorizes, WireIsSigned
    <3> QED BY <1>1, <3>2, <3>3 DEF ForwardedWasSigned
  <2> QED BY <2>1, <2>2
<1> QED BY <1>1, <1>4, <1>5, <1>6, StoreSideKeeps

LEMMA LosesIsNatural == ASSUME BackupTyped, Loses \/ UNCHANGED losses PROVE losses' \in Nat
BY DEF BackupTyped, Loses

LEMMA RequestLostKeeps == ASSUME BackupInv, NEW q, RequestLost(q) \/ StoreTick PROVE BackupInv'
<1> USE DEF BackupInv
<1>1. /\ UNCHANGED <<proxied, signed, forwarded, ipfsPins, begun>> /\ UNCHANGED <<storeSide, readSide>>
      /\ wire' \in SUBSET wire
  BY DEF RequestLost, StoreTick
<1>2. losses' \in Nat /\ storeClock' \in Nat
  BY LosesIsNatural DEF RequestLost, StoreTick, BackupTyped
<1>3. BackupTyped'
  BY <1>1, <1>2 DEF BackupTyped, storeSide, readSide
<1>4. WireIsSigned' /\ ForwardedWasSigned'
  BY <1>1 DEF WireIsSigned, ForwardedWasSigned
<1> QED BY <1>1, <1>3, <1>4, StoreSideKeeps

LEMMA BackupDocumentKeeps ==
    ASSUME BackupInv, NEW d \in Papers, NEW k \in BOOLEAN, BackupDocument(d, k)
    PROVE  BackupInv'
<1> USE DEF BackupInv
<1>1. /\ UNCHANGED <<storeClock, proxied, wire, signed, forwarded, ipfsPins, copies, anchored, refs, losses>>
      /\ UNCHANGED readSide
  BY DEF BackupDocument
<1>2. PICK b : b = [id |-> begun.backups + 1, doc |-> d, todo |-> Configured(k)]
  OBVIOUS
<1>3. Configured(k) \in Seq(Providers) \ {<<>>}
  BY DEF Configured, Providers
<1>4. b \in BackupType /\ begun' \in [backups : Nat, reads : Nat, sends : Nat]
  BY <1>2, <1>3 DEF BackupDocument, BackupType, BackupTyped
<1>5. backups' = backups \cup {b}
  BY <1>2 DEF BackupDocument
<1>6. BackupTyped'
  BY <1>1, <1>4, <1>5 DEF BackupTyped, readSide
<1>7. OwnRefs' /\ FetchFindsCopies' /\ ArchivedIsAnchored'
  BY <1>1 DEF readSide, OwnRefs, FetchFindsCopies, ArchivedIsAnchored
<1>8. ReadsCount'
  BY <1>1 DEF readSide, ReadsCount, CountsOn, Record
<1> QED BY <1>1, <1>6, <1>7, <1>8, WireSideKeeps

LEMMA DoneIsTyped ==
    ASSUME BackupTyped, NEW b \in backups
    PROVE  Done(b) \in SUBSET BackupType
<1>1. b \in BackupType /\ b.todo \in Seq(Providers)
  BY DEF BackupTyped, BackupType
<1>2. ASSUME Len(b.todo) > 1 PROVE [b EXCEPT !.todo = Tail(b.todo)] \in BackupType
  <2>1. Tail(b.todo) \in Seq(Providers) /\ Tail(b.todo) # <<>>
    <3>1. PICK t \in Seq(Providers) : t = b.todo
      BY <1>1
    <3>2. Tail(t) \in Seq(Providers) /\ Len(Tail(t)) = Len(t) - 1 /\ Len(t) > 1
      BY <1>2, <3>1
    <3>3. Len(t) \in Nat /\ Len(Tail(t)) # 0 /\ Len(<<>>) = 0
      BY <3>2
    <3>4. Tail(t) # <<>>
      BY <3>3, Zenon
    <3> QED BY <3>1, <3>2, <3>4
  <2> QED BY <1>1, <2>1 DEF BackupType
<1> QED BY <1>2 DEF Done, BackupTyped

\* The reference of a new copy replaces the older one of the provider, and the copy is there.
LEMMA UploadToProviderKeeps ==
    ASSUME BackupInv, NEW b \in backups, NEW recorded \in BOOLEAN, UploadToProvider(b, recorded)
    PROVE  BackupInv'
<1> USE DEF BackupInv
<1>1. /\ UNCHANGED <<storeClock, proxied, wire, signed, forwarded, ipfsPins, anchored, begun>>
      /\ UNCHANGED readSide
  BY DEF UploadToProvider
<1>2. PICK c : c = [doc |-> b.doc, provider |-> Head(b.todo), ref |-> b.id]
  OBVIOUS
<1>3. b \in BackupType /\ b.doc \in Papers
  BY DEF BackupTyped, BackupType
<1>4. c \in CopyType /\ c.doc = b.doc
  <2>1. b.todo \in Seq(Providers) /\ b.todo # <<>> /\ b.id \in Nat
    BY <1>3 DEF BackupType
  <2>2. Head(b.todo) \in Providers
    BY <2>1
  <2> QED BY <1>2, <1>3, <2>1, <2>2 DEF CopyType
<1>5. /\ copies' = copies \cup {c} /\ backups' = Done(b) /\ (Loses \/ UNCHANGED losses)
      /\ refs' \in {refs, [refs EXCEPT ![b.doc] = Merged(b.doc, c)]}
  BY <1>2 DEF UploadToProvider
<1>6. losses' \in Nat /\ Done(b) \in SUBSET BackupType
  BY <1>5, LosesIsNatural, DoneIsTyped
<1>7. refs \in [Papers -> SUBSET CopyType] /\ Merged(b.doc, c) \in SUBSET CopyType
  BY <1>3, <1>4 DEF BackupTyped, Merged
<1>8. \A d \in Papers : refs'[d] \in {refs[d], Merged(d, c)} /\ (refs'[d] # refs[d] => d = c.doc)
  BY <1>3, <1>4, <1>5, <1>7
<1>9. refs' \in [Papers -> SUBSET CopyType]
  BY <1>5, <1>7
<1>10. BackupTyped'
  BY <1>1, <1>4, <1>5, <1>6, <1>9 DEF BackupTyped, readSide
<1>11. OwnRefs'
  <2>1. ASSUME NEW d \in Papers, NEW r \in refs'[d], NEW s \in refs'[d]
        PROVE  r.doc = d /\ (r.provider = s.provider => r = s)
    <3>1. CASE refs'[d] = refs[d]
      BY <3>1 DEF OwnRefs
    <3>2. CASE refs'[d] = Merged(d, c) /\ d = c.doc
      BY <3>2 DEF OwnRefs, Merged
    <3> QED BY <1>8, <3>1, <3>2
  <2> QED BY <2>1 DEF OwnRefs
<1>12. ReadsCount'
  <2>1. ASSUME NEW r \in reads, NEW p \in r.sure
        PROVE  \E x \in Record(r)' \cap copies' : x.provider = p
    <3>1. PICK x \in Record(r) \cap copies : x.provider = p
      BY DEF ReadsCount, CountsOn
    <3>2. CASE r.stage # "ipfs"
      BY <1>5, <3>1, <3>2 DEF Record
    <3>3. CASE r.stage = "ipfs"
      <4>1. r.doc \in Papers
        BY DEF BackupTyped, ReadType
      <4>2. x \in refs[r.doc] /\ Record(r)' = refs'[r.doc]
        BY <3>1, <3>3 DEF Record
      <4>3. CASE refs'[r.doc] = refs[r.doc]
        BY <1>5, <3>1, <4>2, <4>3
      <4>4. CASE refs'[r.doc] = Merged(r.doc, c)
        <5>1. CASE p = c.provider
          BY <1>5, <4>2, <4>4, <5>1 DEF Merged
        <5>2. CASE p # c.provider
          BY <1>5, <3>1, <4>2, <4>4, <5>2 DEF Merged
        <5> QED BY <5>1, <5>2
      <4> QED BY <1>8, <4>1, <4>3, <4>4
    <3> QED BY <3>2, <3>3
  <2> QED BY <1>1, <2>1 DEF ReadsCount, CountsOn, readSide
<1>13. FetchFindsCopies' /\ ArchivedIsAnchored'
  BY <1>1 DEF readSide, FetchFindsCopies, ArchivedIsAnchored
<1> QED BY <1>1, <1>10, <1>11, <1>12, <1>13, WireSideKeeps

LEMMA UploadRejectedKeeps == ASSUME BackupInv, NEW b \in backups, UploadRejected(b) PROVE BackupInv'
<1> USE DEF BackupInv
<1>1. /\ UNCHANGED <<storeClock, proxied, wire, signed, forwarded, ipfsPins, copies, anchored, refs, begun>>
      /\ UNCHANGED readSide /\ backups' = Done(b) /\ Loses
  BY DEF UploadRejected
<1>2. losses' \in Nat /\ Done(b) \in SUBSET BackupType
  BY <1>1, LosesIsNatural, DoneIsTyped
<1>3. BackupTyped'
  BY <1>1, <1>2 DEF BackupTyped, readSide
<1>4. OwnRefs' /\ FetchFindsCopies' /\ ArchivedIsAnchored'
  BY <1>1 DEF readSide, OwnRefs, FetchFindsCopies, ArchivedIsAnchored
<1>5. ReadsCount'
  BY <1>1 DEF readSide, ReadsCount, CountsOn, Record
<1> QED BY <1>1, <1>3, <1>4, <1>5, WireSideKeeps

LEMMA CloseTabKeeps == ASSUME BackupInv, CloseTab PROVE BackupInv'
<1> USE DEF BackupInv
<1>1. /\ UNCHANGED <<storeClock, proxied, wire, signed, forwarded, ipfsPins, copies, anchored, refs, failedReads,
                     report, begun>>
      /\ backups' = {} /\ reads' = {} /\ Loses
  BY DEF CloseTab
<1>2. losses' \in Nat
  BY <1>1, LosesIsNatural
<1>3. BackupTyped'
  BY <1>1, <1>2 DEF BackupTyped
<1>4. OwnRefs' /\ FetchFindsCopies' /\ ArchivedIsAnchored' /\ ReadsCount'
  BY <1>1 DEF ReadsCount, OwnRefs, FetchFindsCopies, ArchivedIsAnchored
<1> QED BY <1>1, <1>3, <1>4, WireSideKeeps

LEMMA AnchorKeeps == ASSUME BackupInv, NEW c \in copies, Anchor(c) PROVE BackupInv'
<1> USE DEF BackupInv
<1>1. /\ UNCHANGED <<storeClock, proxied, wire, signed, forwarded, ipfsPins, copies, refs, backups, losses, begun>>
      /\ UNCHANGED readSide /\ anchored' = anchored \cup {c}
  BY DEF Anchor
<1>2. BackupTyped'
  BY <1>1 DEF BackupTyped, readSide
<1>3. OwnRefs' /\ FetchFindsCopies'
  BY <1>1 DEF readSide, OwnRefs, FetchFindsCopies
<1>4. ArchivedIsAnchored'
  BY <1>1 DEF readSide, ArchivedIsAnchored
<1>5. ReadsCount'
  BY <1>1 DEF readSide, ReadsCount, CountsOn, Record
<1> QED BY <1>1, <1>2, <1>3, <1>4, <1>5, WireSideKeeps

\* A download that counted on the copy that was dropped no longer does.
LEMMA DropCopyKeeps == ASSUME BackupInv, NEW c \in copies, DropCopy(c) PROVE BackupInv'
<1> USE DEF BackupInv
<1>1. /\ UNCHANGED <<storeClock, proxied, wire, signed, forwarded, ipfsPins, anchored, refs, backups, failedReads,
                     report, begun>>
      /\ Loses /\ copies' = copies \ {c} /\ c \notin anchored
      /\ reads' = {[r EXCEPT !.sure = IF c \in Record(r) THEN r.sure \ {c.provider} ELSE r.sure] : r \in reads}
  BY DEF DropCopy
<1>2. losses' \in Nat
  BY <1>1, LosesIsNatural
<1>3. ASSUME NEW x \in reads'
      PROVE  x \in ReadType /\ CountsOn(x)'
  <2>1. PICK r \in reads : x = [r EXCEPT !.sure = IF c \in Record(r) THEN r.sure \ {c.provider} ELSE r.sure]
    BY <1>1
  <2>2. r \in ReadType /\ CountsOn(r)
    BY DEF BackupTyped, ReadsCount
  <2>3. /\ x.stage = r.stage /\ x.doc = r.doc /\ x.named = r.named /\ x.sure \in SUBSET r.sure /\ x \in ReadType
        /\ x.sure = IF c \in Record(r) THEN r.sure \ {c.provider} ELSE r.sure
    BY <2>1, <2>2 DEF ReadType
  <2>4. Record(x)' = Record(r)
    BY <1>1, <2>3 DEF Record
  <2>5. ASSUME NEW p \in x.sure PROVE \E y \in Record(x)' \cap copies' : y.provider = p
    <3>1. PICK y \in Record(r) \cap copies : y.provider = p
      BY <2>2, <2>3, <2>5 DEF CountsOn
    <3>2. y # c
      BY <2>3, <2>5, <3>1
    <3> QED BY <1>1, <2>4, <3>1, <3>2
  <2> QED BY <2>2, <2>3, <2>5 DEF CountsOn
<1>4. BackupTyped'
  BY <1>1, <1>2, <1>3 DEF BackupTyped
<1>5. ReadsCount'
  BY <1>3 DEF ReadsCount
<1>6. OwnRefs' /\ FetchFindsCopies' /\ ArchivedIsAnchored'
  BY <1>1 DEF OwnRefs, FetchFindsCopies, ArchivedIsAnchored
<1> QED BY <1>1, <1>4, <1>5, <1>6, WireSideKeeps

LEMMA FetchDocumentKeeps == ASSUME BackupInv, NEW d \in Papers, FetchDocument(d) PROVE BackupInv'
<1> USE DEF BackupInv
<1>1. /\ UNCHANGED <<storeClock, proxied, wire, signed, forwarded, ipfsPins, failedReads, report, losses>>
      /\ UNCHANGED storeSide
  BY DEF FetchDocument
<1>2. PICK r : r = [id |-> begun.reads + 1, doc |-> d, stage |-> "ipfs", named |-> {}, sure |-> Reachable(d)]
  OBVIOUS
<1>3. reads' = reads \cup {r} /\ begun' \in [backups : Nat, reads : Nat, sends : Nat]
  BY <1>2 DEF FetchDocument, BackupTyped
<1>4. Reachable(d) \in SUBSET Providers /\ begun.reads \in Nat
  BY DEF Reachable, BackupTyped, CopyType
<1>5. r \in ReadType /\ r.stage = "ipfs" /\ r.doc = d /\ r.sure = Reachable(d)
  BY <1>2, <1>4 DEF ReadType
<1>6. CountsOn(r)
  BY <1>5 DEF CountsOn, Record, Reachable
<1>7. BackupTyped'
  BY <1>1, <1>3, <1>5 DEF BackupTyped, storeSide
<1>8. ReadsCount'
  BY <1>1, <1>3, <1>6 DEF ReadsCount, CountsOn, Record, storeSide
<1>9. OwnRefs' /\ FetchFindsCopies' /\ ArchivedIsAnchored'
  BY <1>1 DEF OwnRefs, FetchFindsCopies, ArchivedIsAnchored, storeSide
<1> QED BY <1>1, <1>7, <1>8, <1>9, WireSideKeeps

LEMMA ReadServedKeeps == ASSUME BackupInv, NEW r \in reads, ReadServed(r) PROVE BackupInv'
<1> USE DEF BackupInv
<1>1. /\ UNCHANGED <<storeClock, proxied, wire, signed, forwarded, ipfsPins, failedReads, report, losses, begun>>
      /\ UNCHANGED storeSide /\ reads' = reads \ {r}
  BY DEF ReadServed
<1>2. BackupTyped'
  BY <1>1 DEF BackupTyped, storeSide
<1>3. ReadsCount'
  BY <1>1 DEF ReadsCount, CountsOn, Record, storeSide
<1>4. OwnRefs' /\ FetchFindsCopies' /\ ArchivedIsAnchored'
  BY <1>1 DEF OwnRefs, FetchFindsCopies, ArchivedIsAnchored, storeSide
<1> QED BY <1>1, <1>2, <1>3, <1>4, WireSideKeeps

\* A provider that does not serve has no copy to count on; one that refuses is not counted on any more.
LEMMA ReadNextKeeps == ASSUME BackupInv, NEW r \in reads, ReadNext(r) PROVE BackupInv'
<1> USE DEF BackupInv
<1>1. /\ UNCHANGED <<storeClock, proxied, wire, signed, forwarded, ipfsPins, report, begun>>
      /\ UNCHANGED storeSide /\ (Loses \/ UNCHANGED losses)
  BY DEF ReadNext
<1>2. losses' \in Nat
  BY <1>1, LosesIsNatural
<1>3. r \in ReadType /\ CountsOn(r) /\ r.sure \in SUBSET Providers /\ r.stage \in {"ipfs", "arweave", "filecoin"}
  BY DEF BackupTyped, ReadsCount, ReadType
<1>4. PICK S : S = IF Served(r) THEN r.sure \ {r.stage} ELSE r.sure
  OBVIOUS
<1>5. S \in SUBSET r.sure /\ r.stage \notin S
  <2>1. CASE Served(r)
    BY <1>4, <2>1
  <2>2. CASE ~Served(r) /\ r.stage = "ipfs"
    BY <1>3, <1>4, <2>2 DEF Providers
  <2>3. CASE ~Served(r) /\ r.stage # "ipfs"
    BY <1>3, <1>4, <2>3 DEF Served, CountsOn, Record
  <2> QED BY <2>1, <2>2, <2>3
<1>6. CASE r.stage = "filecoin"
  <2>1. S = {}
    BY <1>3, <1>5, <1>6 DEF CountsOn
  <2>2. After(r.stage) = "failed"
    BY <1>6 DEF After
  <2>3. reads' \in SUBSET reads /\ failedReads' = failedReads \cup {S}
    BY <1>4, <2>2 DEF ReadNext
  <2>4. BackupTyped'
    BY <1>1, <1>2, <2>3 DEF BackupTyped, storeSide
  <2>5. ReadsCount'
    BY <1>1, <2>3 DEF ReadsCount, CountsOn, Record, storeSide
  <2>6. OwnRefs' /\ FetchFindsCopies' /\ ArchivedIsAnchored'
    BY <1>1, <2>1, <2>3 DEF OwnRefs, FetchFindsCopies, ArchivedIsAnchored, storeSide
  <2> QED BY <1>1, <2>4, <2>5, <2>6, WireSideKeeps
<1>7. CASE r.stage \in {"ipfs", "arweave"}
  <2>1. /\ After(r.stage) \in {"arweave", "filecoin"} /\ After(r.stage) # "failed"
        /\ After(r.stage) = "filecoin" => r.stage = "arweave"
    BY <1>7 DEF After
  <2>2. PICK n : n = [r EXCEPT !.stage = After(r.stage), !.named = Record(r), !.sure = S]
    OBVIOUS
  <2>3. reads' = (reads \ {r}) \cup {n} /\ failedReads' = failedReads
    BY <1>3, <1>4, <2>1, <2>2 DEF ReadNext, ReadType
  <2>4. Record(r) \in SUBSET CopyType
    BY <1>3 DEF Record, ReadType, BackupTyped
  <2>5. n \in ReadType /\ n.stage = After(r.stage) /\ n.named = Record(r) /\ n.sure = S
    BY <1>3, <1>5, <2>1, <2>2, <2>4 DEF ReadType
  <2>6. Record(n) = Record(r)
    BY <2>1, <2>5 DEF Record
  <2>7. CountsOn(n)
    <3>1. \A p \in n.sure : \E c \in Record(n) \cap copies : c.provider = p
      BY <1>3, <1>5, <2>5, <2>6 DEF CountsOn
    <3>2. n.stage = "filecoin" => n.sure \subseteq {"filecoin"}
      BY <1>3, <1>5, <2>1, <2>5 DEF Providers
    <3> QED BY <3>1, <3>2 DEF CountsOn
  <2>8. BackupTyped'
    BY <1>1, <1>2, <2>3, <2>5 DEF BackupTyped, storeSide
  <2>9. ReadsCount'
    BY <1>1, <2>3, <2>7 DEF ReadsCount, CountsOn, Record, storeSide
  <2>10. OwnRefs' /\ FetchFindsCopies' /\ ArchivedIsAnchored'
    BY <1>1, <2>3 DEF OwnRefs, FetchFindsCopies, ArchivedIsAnchored, storeSide
  <2> QED BY <1>1, <2>8, <2>9, <2>10, WireSideKeeps
<1> QED BY <1>3, <1>6, <1>7

LEMMA VerifyArchivalKeeps == ASSUME BackupInv, NEW d \in Papers, VerifyArchival(d) PROVE BackupInv'
<1> USE DEF BackupInv
<1>1. /\ UNCHANGED <<storeClock, proxied, wire, signed, forwarded, ipfsPins, reads, failedReads, losses, begun>>
      /\ UNCHANGED storeSide
  BY DEF VerifyArchival
<1>2. BackupTyped'
  BY <1>1 DEF BackupTyped, storeSide
<1>3. ReadsCount'
  BY <1>1 DEF ReadsCount, CountsOn, Record, storeSide
<1>4. OwnRefs' /\ FetchFindsCopies'
  BY <1>1 DEF OwnRefs, FetchFindsCopies, storeSide
<1>5. ArchivedIsAnchored'
  <2>1. ASSUME NEW x \in report' PROVE \E c \in anchored : c.doc = x.doc /\ c.provider = x.provider
    <3>1. CASE x \in report
      BY <3>1 DEF ArchivedIsAnchored
    <3>2. CASE \E c \in Archived(d) : x = [doc |-> d, provider |-> c.provider]
      BY <3>2 DEF Archived, OwnRefs
    <3> QED BY <3>1, <3>2 DEF VerifyArchival
  <2> QED BY <1>1, <2>1 DEF ArchivedIsAnchored, storeSide
<1> QED BY <1>1, <1>2, <1>3, <1>4, <1>5, WireSideKeeps

\* Storage and proxy keep their invariant.
LEMMA BackupStepKeeps == ASSUME BackupInv, [BackupNext]_backupVars PROVE BackupInv'
<1>1. CASE UNCHANGED backupVars
  <2>1. UNCHANGED <<storeClock, proxied, wire, signed, forwarded, ipfsPins, losses, begun>> /\ UNCHANGED <<storeSide, readSide>>
    BY <1>1 DEF backupVars
  <2>2. BackupTyped'
    BY <2>1 DEF BackupInv, BackupTyped, storeSide, readSide
  <2> QED BY <2>1, <2>2, StoreSideKeeps, WireSideKeeps DEF BackupInv
<1>2. ASSUME NEW d \in Papers, UploadFile(d) \/ UploadStream(d) \/ UnpinFile(d) PROVE BackupInv'
  <2>1. PICK op \in {"pin", "unpin"}, h \in BOOLEAN : Send(op, d, h)
    BY <1>2 DEF UploadFile, UploadStream, UnpinFile
  <2> QED BY <2>1, SendKeeps
<1>3. CASE StoreTick
  BY <1>3, RequestLostKeeps
<1>4. CASE CloseTab
  BY <1>4, CloseTabKeeps
<1>5. ASSUME NEW d \in Papers, NEW k \in BOOLEAN, BackupDocument(d, k) PROVE BackupInv'
  BY <1>5, BackupDocumentKeeps
<1>6. ASSUME NEW d \in Papers, FetchDocument(d) PROVE BackupInv'
  BY <1>6, FetchDocumentKeeps
<1>7. ASSUME NEW d \in Papers, VerifyArchival(d) PROVE BackupInv'
  BY <1>7, VerifyArchivalKeeps
<1>8. ASSUME NEW q \in wire, RequestLost(q) PROVE BackupInv'
  BY <1>8, RequestLostKeeps
<1>9. ASSUME NEW q \in wire, NEW b \in BOOLEAN, ProxyReceives(q, b) PROVE BackupInv'
  BY <1>9, ProxyReceivesKeeps
<1>10. ASSUME NEW b \in backups, UploadRejected(b) PROVE BackupInv'
  BY <1>10, UploadRejectedKeeps
<1>11. ASSUME NEW b \in backups, NEW k \in BOOLEAN, UploadToProvider(b, k) PROVE BackupInv'
  BY <1>11, UploadToProviderKeeps
<1>12. ASSUME NEW c \in copies, Anchor(c) PROVE BackupInv'
  BY <1>12, AnchorKeeps
<1>13. ASSUME NEW c \in copies, DropCopy(c) PROVE BackupInv'
  BY <1>13, DropCopyKeeps
<1>14. ASSUME NEW r \in reads, ReadServed(r) PROVE BackupInv'
  BY <1>14, ReadServedKeeps
<1>15. ASSUME NEW r \in reads, ReadNext(r) PROVE BackupInv'
  BY <1>15, ReadNextKeeps
<1> QED BY <1>1, <1>2, <1>3, <1>4, <1>5, <1>6, <1>7, <1>8, <1>9, <1>10, <1>11, <1>12, <1>13, <1>14, <1>15
         DEF BackupNext

-----------------------------------------------------------------------------
(* The upload screen                                                        *)

KeysOf  == [Members -> Versions]
JobStages  == {"idle", "keys", "sealing", "drafting", "uploading", "submitting"}
JobType == [stage : JobStages, key : 0 .. MaxUploads, asked : 0 .. Len(VaultGuardians), got : KeysOf, since : KeysOf,
            aborted : BOOLEAN]
Entry   == [key : 1 .. MaxUploads, shares : KeysOf, since : KeysOf]

UploadTyped ==
    /\ pubKeys \in KeysOf /\ job \in JobType /\ entries \in Seq(Entry)
    /\ shown \in {"idle", "encrypting", "uploading_ipfs", "submitting_tx"}
    /\ cids \in SUBSET (1 .. MaxUploads)
    /\ mirrors \in SUBSET [key : 1 .. MaxUploads, state : {"running", "ended"}]
    /\ docKeys \in SUBSET [id : 1 .. Len(entries), key : 1 .. MaxUploads]
    /\ drafts \in SUBSET [key : 1 .. MaxUploads, shares : KeysOf]
    /\ keyNotice \in [doc : 0 .. Len(entries), confirmed : BOOLEAN]

\* The keys read so far were registered since the upload began, and are all there once shares are sealed.
KeysReadAreValid ==
    /\ job.stage # "idle" =>
           /\ job.key >= 1
           /\ \A i \in Members : /\ job.got[i] <= pubKeys[i] /\ job.since[i] <= pubKeys[i]
                                 /\ job.got[i] = 0 \/ job.since[i] <= job.got[i]
    /\ job.stage \notin {"idle", "keys"} => \A i \in Members : job.got[i] # 0

\* An upload under way has left nothing on chain or in the queue yet.
KeysUsed == {entries[d].key : d \in DOMAIN entries} \cup {f.key : f \in drafts}
KeyIsFresh ==
    /\ \A k \in KeysUsed : k <= job.key
    /\ job.stage # "idle" => job.key \notin KeysUsed

\* What is submitted is pinned, and its mirrors know of an abort.
SubmittedIsPinned ==
    job.stage = "submitting" =>
        /\ job.key \in cids
        /\ \E m \in mirrors : m.key = job.key /\ (job.aborted => m.state = "ended")

UploadInv ==
    /\ UploadTyped /\ KeysReadAreValid /\ KeyIsFresh /\ SubmittedIsPinned
    /\ EntriesAreRecoverable /\ UploadsKeepApart

LEMMA UploadInvSuffices ==
    UploadInv => UploadTypeOK /\ EntriesAreRecoverable /\ UploadsKeepApart /\ AbortStopsUpload
<1> SUFFICES ASSUME UploadInv PROVE UploadTypeOK /\ AbortStopsUpload
  BY DEF UploadInv
<1>1. UploadTypeOK
  BY DEF UploadInv, UploadTyped, UploadTypeOK, JobType, KeysOf
<1>2. AbortStopsUpload
  BY DEF UploadInv, SubmittedIsPinned, AbortStopsUpload
<1> QED BY <1>1, <1>2

LEMMA BlankKeys == Blanks \in KeysOf /\ NoNotice = [doc |-> 0, confirmed |-> FALSE]
BY UploadConstants DEF Blanks, KeysOf, Versions, NoNotice

LEMMA JobFields ==
    ASSUME NEW s \in JobStages, NEW k \in 0 .. MaxUploads
    PROVE  /\ Job(s, k) \in JobType /\ Job(s, k).stage = s /\ Job(s, k).key = k /\ Job(s, k).got = Blanks
           /\ Job(s, k).asked = 0 /\ Job(s, k).aborted = FALSE
BY BlankKeys, UploadConstants DEF Job, JobType

LEMMA UploadInitial == UploadInit => UploadInv
<1> SUFFICES ASSUME UploadInit PROVE UploadInv
  OBVIOUS
<1>0. PICK s \in JobStages : s = "idle"
  BY DEF JobStages
<1>1. Job("idle", 0) \in JobType /\ Job("idle", 0).stage = "idle" /\ Job("idle", 0).key = 0
  <2>1. 0 \in 0 .. MaxUploads
    BY UploadConstants
  <2> QED BY <1>0, <2>1, JobFields
<1>2. entries = <<>> /\ entries \in Seq(Entry) /\ Len(entries) = 0 /\ DOMAIN entries = {} /\ keyNotice.doc = 0
  BY BlankKeys DEF UploadInit
<1>3. pubKeys \in KeysOf
  BY UploadConstants DEF UploadInit, KeysOf, Versions
<1>4. UploadTyped
  BY <1>1, <1>2, <1>3, BlankKeys DEF UploadInit, UploadTyped
<1>5. KeysReadAreValid /\ SubmittedIsPinned
  BY <1>1 DEF UploadInit, KeysReadAreValid, SubmittedIsPinned
<1>6. KeyIsFresh /\ EntriesAreRecoverable /\ UploadsKeepApart
  BY <1>1, <1>2 DEF UploadInit, KeyIsFresh, KeysUsed, EntriesAreRecoverable, UploadsKeepApart
<1> QED BY <1>4, <1>5, <1>6 DEF UploadInv

\* The end of an upload, wherever it stopped.
LEMMA FinishEnds ==
    ASSUME UploadTyped, Finish
    PROVE  job' \in JobType /\ job'.stage = "idle" /\ job'.key = job.key
<1>1. job.key \in 0 .. MaxUploads /\ job.aborted \in BOOLEAN
  BY DEF UploadTyped, JobType
<1>2. PICK j : j = Job("idle", job.key)
  OBVIOUS
<1>3. j \in JobType /\ j.stage = "idle" /\ j.key = job.key
  <2>1. PICK s \in JobStages : s = "idle"
    BY DEF JobStages
  <2> QED BY <1>1, <1>2, <2>1, JobFields
<1>4. job' = [j EXCEPT !.aborted = job.aborted]
  BY <1>2 DEF Finish
<1> QED BY <1>1, <1>3, <1>4 DEF JobType

\* The parts of the invariant that only speak of what is stored.
LEMMA StoredKeeps ==
    ASSUME UploadInv, UNCHANGED <<pubKeys, cids, entries, docKeys, drafts, keyNotice>>, mirrors' = mirrors
    PROVE  EntriesAreRecoverable' /\ UploadsKeepApart' /\ KeysUsed' = KeysUsed
BY DEF UploadInv, EntriesAreRecoverable, UploadsKeepApart, KeysUsed

LEMMA KeysUsedAreNatural == UploadTyped => KeysUsed \subseteq Nat
<1> SUFFICES ASSUME UploadTyped PROVE KeysUsed \subseteq Nat
  OBVIOUS
<1>1. \A d \in DOMAIN entries : entries[d].key \in Nat
  <2>1. \A d \in DOMAIN entries : entries[d] \in Entry
    BY DEF UploadTyped
  <2> QED BY <2>1, UploadConstants DEF Entry
<1>2. \A f \in drafts : f.key \in Nat
  BY UploadConstants DEF UploadTyped
<1> QED BY <1>1, <1>2 DEF KeysUsed

\* Steps that change nothing but the job, and end it or take it on.
LEMMA JobEndsKeeps ==
    ASSUME UploadInv, Finish, UNCHANGED <<pubKeys, shown, cids, mirrors, entries, docKeys, drafts, keyNotice>>
    PROVE  UploadInv'
<1>1. job' \in JobType /\ job'.stage = "idle" /\ job'.key = job.key
  BY FinishEnds DEF UploadInv
<1>2. UploadTyped'
  BY <1>1 DEF UploadInv, UploadTyped
<1>3. KeysReadAreValid' /\ SubmittedIsPinned'
  BY <1>1 DEF KeysReadAreValid, SubmittedIsPinned
<1>4. KeyIsFresh'
  BY <1>1, StoredKeeps DEF UploadInv, KeyIsFresh
<1> QED BY <1>2, <1>3, <1>4, StoredKeeps DEF UploadInv

LEMMA HandleUploadKeeps == ASSUME UploadInv, HandleUpload PROVE UploadInv'
<1> USE DEF UploadInv
<1>1. job.key \in 0 .. MaxUploads /\ job.key < MaxUploads /\ pubKeys \in KeysOf
  BY DEF HandleUpload, UploadTyped, JobType
<1>2. job.key + 1 \in 1 .. MaxUploads /\ job.key + 1 \in 0 .. MaxUploads
  BY <1>1, UploadConstants
<1>3. PICK j : j = Job("keys", job.key + 1)
  OBVIOUS
<1>4. j \in JobType /\ j.stage = "keys" /\ j.key = job.key + 1 /\ j.got = Blanks
  <2>1. "keys" \in JobStages
    BY Zenon DEF JobStages
  <2> QED BY <1>2, <1>3, <2>1, JobFields, Zenon
<1>5. job' = [j EXCEPT !.since = pubKeys]
  BY <1>3 DEF HandleUpload
<1>6. job' \in JobType /\ job'.stage = "keys" /\ job'.key = job.key + 1 /\ job'.got = Blanks /\ job'.since = pubKeys
  BY <1>1, <1>4, <1>5 DEF JobType
<1>7. UNCHANGED <<pubKeys, shown, cids, mirrors, entries, docKeys, drafts, keyNotice>>
  BY DEF HandleUpload
<1>8. UploadTyped'
  BY <1>6, <1>7 DEF UploadTyped
<1>9. KeysReadAreValid'
  <2>1. \A i \in Members : pubKeys[i] \in Nat /\ Blanks[i] = 0
    BY <1>1, UploadConstants DEF KeysOf, Versions, Blanks
  <2> QED BY <1>1, <1>6, <1>7, <2>1 DEF KeysReadAreValid
<1>10. KeyIsFresh'
  <2>1. KeysUsed \subseteq Nat
    BY KeysUsedAreNatural
  <2>2. KeysUsed' = KeysUsed
    BY <1>7, StoredKeeps
  <2>3. \A k \in KeysUsed : k <= job.key /\ k \in Nat
    BY <2>1 DEF KeyIsFresh
  <2>4. \A k \in KeysUsed : k <= job.key + 1 /\ k # job.key + 1
    BY <1>1, <2>3
  <2> QED BY <1>6, <2>2, <2>4 DEF KeyIsFresh
<1>11. SubmittedIsPinned'
  BY <1>6 DEF SubmittedIsPinned
<1> QED BY <1>7, <1>8, <1>9, <1>10, <1>11, StoredKeeps

LEMMA ReadGuardianKeyKeeps == ASSUME UploadInv, NEW fails \in BOOLEAN, ReadGuardianKey(fails) PROVE UploadInv'
<1> USE DEF UploadInv
<1>1. /\ job.stage = "keys" /\ job.asked < Len(VaultGuardians) /\ job \in JobType /\ pubKeys \in KeysOf
      /\ job.asked \in 0 .. Len(VaultGuardians) /\ job.got \in KeysOf
  BY DEF ReadGuardianKey, UploadTyped, JobType
<1>2. PICK i : i = job.asked + 1
  OBVIOUS
<1>3. i \in Members /\ i \in 0 .. Len(VaultGuardians)
  BY <1>1, <1>2, UploadConstants DEF Members
<1>4. PICK v : v = IF fails THEN 0 ELSE pubKeys[i]
  OBVIOUS
<1>5. v \in Versions /\ (v = 0 \/ v = pubKeys[i])
  BY <1>1, <1>3, <1>4, UploadConstants DEF KeysOf, Versions
<1>6. PICK g : g = [job.got EXCEPT ![i] = v]
  OBVIOUS
<1>7. g \in KeysOf /\ g[i] = v /\ \A k \in Members : k # i => g[k] = job.got[k]
  BY <1>1, <1>3, <1>5, <1>6 DEF KeysOf
<1>8. job' = [job EXCEPT !.asked = i, !.got = g]
  BY <1>1, <1>2, <1>4, <1>6 DEF ReadGuardianKey, JobType
<1>9. /\ job' \in JobType /\ job'.stage = "keys" /\ job'.key = job.key /\ job'.got = g /\ job'.since = job.since
  BY <1>1, <1>3, <1>7, <1>8 DEF JobType
<1>10. UNCHANGED <<pubKeys, shown, cids, mirrors, entries, docKeys, drafts, keyNotice>>
  BY DEF ReadGuardianKey
<1>11. UploadTyped'
  BY <1>9, <1>10 DEF UploadTyped
<1>12. KeysReadAreValid'
  <2>1. \A k \in Members : pubKeys[k] \in Nat /\ job.since[k] \in Nat
    BY <1>1, UploadConstants DEF KeysOf, Versions, JobType
  <2>2. \A k \in Members : /\ job.got[k] <= pubKeys[k] /\ job.since[k] <= pubKeys[k]
                           /\ job.got[k] = 0 \/ job.since[k] <= job.got[k]
    BY <1>1 DEF KeysReadAreValid
  <2>3. \A k \in Members : /\ g[k] <= pubKeys[k] /\ (g[k] = 0 \/ job.since[k] <= g[k])
    BY <1>5, <1>7, <2>1, <2>2
  <2> QED BY <1>1, <1>9, <1>10, <2>2, <2>3 DEF KeysReadAreValid
<1>13. KeyIsFresh'
  BY <1>1, <1>9, <1>10, StoredKeeps DEF KeyIsFresh
<1>14. SubmittedIsPinned'
  BY <1>9 DEF SubmittedIsPinned
<1> QED BY <1>10, <1>11, <1>12, <1>13, <1>14, StoredKeeps

\* The next stage before the upload is submitted, with the keys all there.
LEMMA StageKeeps ==
    ASSUME UploadInv, NEW s \in {"sealing", "drafting", "uploading"}, job' = [job EXCEPT !.stage = s],
           job.stage # "idle", \A i \in Members : job.got[i] # 0,
           UNCHANGED <<pubKeys, shown, cids, mirrors, entries, docKeys, drafts, keyNotice>>
    PROVE  UploadInv'
<1> USE DEF UploadInv
<1>1. job \in JobType
  BY DEF UploadTyped
<1>2. job' \in JobType /\ job'.stage = s /\ job'.key = job.key /\ job'.got = job.got /\ job'.since = job.since
  BY <1>1 DEF JobType, JobStages
<1>3. UploadTyped'
  BY <1>2 DEF UploadTyped
<1>4. KeysReadAreValid' /\ SubmittedIsPinned'
  BY <1>2 DEF KeysReadAreValid, SubmittedIsPinned
<1>5. KeyIsFresh'
  BY <1>2, StoredKeeps DEF KeyIsFresh
<1> QED BY <1>3, <1>4, <1>5, StoredKeeps

LEMMA SealSharesKeeps == ASSUME UploadInv, SealShares PROVE UploadInv'
<1>1. CASE MissingKeys # {}
  BY <1>1, JobEndsKeeps DEF SealShares
<1>2. CASE MissingKeys = {}
  <2>1. \A i \in Members : job.got[i] # 0
    BY <1>2 DEF MissingKeys
  <2>2. job' = [job EXCEPT !.stage = "sealing"] /\ job.stage # "idle"
    BY <1>2 DEF SealShares
  <2> QED BY <2>1, <2>2, StageKeeps DEF SealShares
<1> QED BY <1>1, <1>2

LEMMA ChooseRouteKeeps == ASSUME UploadInv, NEW onLine \in BOOLEAN, ChooseRoute(onLine) PROVE UploadInv'
<1>1. PICK s \in {"drafting", "uploading"} : s = IF onLine THEN "uploading" ELSE "drafting"
  OBVIOUS
<1>2. job' = [job EXCEPT !.stage = s] /\ job.stage = "sealing"
  BY <1>1 DEF ChooseRoute
<1>3. \A i \in Members : job.got[i] # 0
  BY <1>2 DEF UploadInv, KeysReadAreValid
<1> QED BY <1>2, <1>3, StageKeeps DEF ChooseRoute

LEMMA SaveDraftKeeps == ASSUME UploadInv, NEW ownKey \in BOOLEAN, SaveDraft(ownKey) PROVE UploadInv'
<1>1. CASE ~ownKey
  BY <1>1, JobEndsKeeps DEF SaveDraft
<1>2. CASE ownKey
  <2> USE DEF UploadInv
  <2>1. job' \in JobType /\ job'.stage = "idle" /\ job'.key = job.key
    BY FinishEnds DEF SaveDraft
  <2>2. PICK f : f = [key |-> job.key, shares |-> job.got]
    OBVIOUS
  <2>3. /\ UNCHANGED <<pubKeys, shown, cids, mirrors, entries, docKeys, keyNotice>> /\ drafts' = drafts \cup {f}
        /\ job.stage = "drafting"
    BY <1>2, <2>2 DEF SaveDraft
  <2>4. f \in [key : 1 .. MaxUploads, shares : KeysOf] /\ f.key = job.key /\ job.key \in Nat
    <3>1. job.key \in 0 .. MaxUploads /\ job.got \in KeysOf
      BY DEF UploadTyped, JobType
    <3>2. job.key >= 1
      BY <2>3 DEF KeysReadAreValid
    <3> QED BY <2>2, <3>1, <3>2, UploadConstants
  <2>5. UploadTyped'
    BY <2>1, <2>3, <2>4 DEF UploadTyped
  <2>6. KeysReadAreValid' /\ SubmittedIsPinned'
    BY <2>1 DEF KeysReadAreValid, SubmittedIsPinned
  <2>7. KeysUsed' = KeysUsed \cup {job.key}
    BY <2>3, <2>4 DEF KeysUsed
  <2>8. KeyIsFresh'
    BY <2>1, <2>4, <2>7 DEF KeyIsFresh
  <2>9. EntriesAreRecoverable'
    BY <2>3 DEF EntriesAreRecoverable
  <2>10. \A d \in DOMAIN entries : entries[d].key # job.key
    BY <2>3 DEF KeyIsFresh, KeysUsed
  <2>11. UploadsKeepApart'
    BY <2>3, <2>4, <2>10 DEF UploadsKeepApart
  <2> QED BY <2>5, <2>6, <2>8, <2>9, <2>11
<1> QED BY <1>1, <1>2

LEMMA PinCiphertextKeeps ==
    ASSUME UploadInv, NEW isPinned \in BOOLEAN, NEW answered \in BOOLEAN, PinCiphertext(isPinned, answered)
    PROVE  UploadInv'
<1> USE DEF UploadInv
<1>1. /\ job.stage = "uploading" /\ job \in JobType /\ job.key \in 0 .. MaxUploads /\ job.key >= 1
      /\ job.got \in KeysOf
  BY DEF PinCiphertext, UploadTyped, JobType, KeysReadAreValid
<1>2. job.key \in 1 .. MaxUploads
  BY <1>1, UploadConstants
<1>3. cids' \in {cids, cids \cup {job.key}} /\ UNCHANGED <<pubKeys, shown, entries, docKeys, drafts, keyNotice>>
  BY DEF PinCiphertext
<1>4. KeysUsed' = KeysUsed /\ EntriesAreRecoverable'
  BY <1>3 DEF KeysUsed, EntriesAreRecoverable
<1>5. CASE ~answered
  <2>1. Finish /\ mirrors' = mirrors
    BY <1>5 DEF PinCiphertext
  <2>2. job' \in JobType /\ job'.stage = "idle" /\ job'.key = job.key
    BY <2>1, FinishEnds
  <2>3. UploadTyped'
    BY <1>2, <1>3, <2>1, <2>2 DEF UploadTyped
  <2>4. KeysReadAreValid' /\ SubmittedIsPinned'
    BY <2>2 DEF KeysReadAreValid, SubmittedIsPinned
  <2>5. KeyIsFresh'
    BY <1>4, <2>2 DEF KeyIsFresh
  <2>6. UploadsKeepApart'
    BY <1>3, <2>1 DEF UploadsKeepApart
  <2> QED BY <1>4, <2>3, <2>4, <2>5, <2>6
<1>6. CASE answered
  <2>1. /\ job' = [job EXCEPT !.stage = "submitting"] /\ ~job.aborted /\ cids' = cids \cup {job.key}
        /\ mirrors' = mirrors \cup {[key |-> job.key, state |-> "running"]}
    BY <1>6 DEF PinCiphertext
  <2>2. /\ job' \in JobType /\ job'.stage = "submitting" /\ job'.key = job.key /\ job'.got = job.got
        /\ job'.since = job.since /\ ~job'.aborted
    BY <1>1, <2>1 DEF JobType, JobStages
  <2>3. PICK m : m = [key |-> job.key, state |-> "running"]
    OBVIOUS
  <2>4. m \in [key : 1 .. MaxUploads, state : {"running", "ended"}] /\ m.key = job.key /\ m \in mirrors'
    BY <1>2, <2>1, <2>3
  <2>5. UploadTyped'
    BY <1>2, <1>3, <2>1, <2>2, <2>3, <2>4 DEF UploadTyped
  <2>6. KeysReadAreValid'
    BY <1>1, <1>3, <2>2 DEF KeysReadAreValid
  <2>7. SubmittedIsPinned'
    BY <2>1, <2>2, <2>4 DEF SubmittedIsPinned
  <2>8. KeyIsFresh'
    BY <1>1, <1>4, <2>2 DEF KeyIsFresh
  <2>9. UploadsKeepApart'
    BY <1>3, <2>1, <2>3, <2>4 DEF UploadsKeepApart
  <2> QED BY <1>4, <2>5, <2>6, <2>7, <2>8, <2>9
<1> QED BY <1>5, <1>6

\* What is put on chain was pinned, and its shares were sealed to registered keys.
LEMMA SubmitDocumentKeeps ==
    ASSUME UploadInv, NEW mined \in BOOLEAN, NEW hasId \in BOOLEAN, SubmitDocument(mined, hasId)
    PROVE  UploadInv'
<1>1. CASE ~mined
  <2>1. UNCHANGED <<pubKeys, shown, cids, mirrors, entries, docKeys, drafts, keyNotice>> /\ Finish
    BY <1>1 DEF SubmitDocument
  <2> QED BY <2>1, JobEndsKeeps
<1>2. CASE mined
  <2> USE DEF UploadInv
  <2>1. job' \in JobType /\ job'.stage = "idle" /\ job'.key = job.key
    BY FinishEnds DEF SubmitDocument
  <2>2. PICK e : e = [key |-> job.key, shares |-> job.got, since |-> job.since]
    OBVIOUS
  <2>3. PICK n \in Nat : n = Len(entries)
    BY DEF UploadTyped
  <2>4. /\ UNCHANGED <<pubKeys, shown, cids, mirrors, drafts>> /\ entries' = Append(entries, e)
        /\ job.stage = "submitting"
    BY <1>2, <2>2 DEF SubmitDocument
  <2>5. /\ e \in Entry /\ e.key = job.key /\ e.shares = job.got /\ e.since = job.since
        /\ job.key \in 1 .. MaxUploads /\ job.key \in Nat
    <3>1. job.key \in 0 .. MaxUploads /\ job.got \in KeysOf /\ job.since \in KeysOf
      BY DEF UploadTyped, JobType
    <3>2. job.key >= 1
      BY <2>4 DEF KeysReadAreValid
    <3> QED BY <2>2, <3>1, <3>2, UploadConstants DEF Entry
  <2>6. /\ entries' \in Seq(Entry) /\ Len(entries') = n + 1 /\ DOMAIN entries' = 1 .. n + 1 /\ DOMAIN entries = 1 .. n
        /\ entries'[n + 1] = e /\ \A d \in 1 .. n : entries'[d] = entries[d]
    BY <2>3, <2>4, <2>5 DEF UploadTyped
  <2>7. \/ UNCHANGED <<docKeys, keyNotice>>
        \/ /\ docKeys' = {k \in docKeys : k.id # n + 1} \cup {[id |-> n + 1, key |-> job.key]}
           /\ keyNotice' = [doc |-> n + 1, confirmed |-> FALSE]
    BY <2>3 DEF SubmitDocument, Stored
  <2>8. UploadTyped'
    <3>1. docKeys \in SUBSET [id : 1 .. n + 1, key : 1 .. MaxUploads] /\ keyNotice \in [doc : 0 .. n + 1, confirmed : BOOLEAN]
      BY <2>3 DEF UploadTyped
    <3>2. docKeys' \in SUBSET [id : 1 .. n + 1, key : 1 .. MaxUploads] /\ keyNotice' \in [doc : 0 .. n + 1, confirmed : BOOLEAN]
      <4>1. PICK k : k = [id |-> n + 1, key |-> job.key]
        OBVIOUS
      <4>2. k \in [id : 1 .. n + 1, key : 1 .. MaxUploads]
        BY <2>5, <4>1
      <4>3. [doc |-> n + 1, confirmed |-> FALSE] \in [doc : 0 .. n + 1, confirmed : BOOLEAN]
        OBVIOUS
      <4>4. docKeys' \in SUBSET (docKeys \cup {k}) /\ keyNotice' \in {keyNotice, [doc |-> n + 1, confirmed |-> FALSE]}
        BY <2>7, <4>1
      <4> QED BY <3>1, <4>2, <4>3, <4>4
    <3> QED BY <2>1, <2>4, <2>6, <3>2 DEF UploadTyped
  <2>9. KeysReadAreValid' /\ SubmittedIsPinned'
    BY <2>1 DEF KeysReadAreValid, SubmittedIsPinned
  <2>10. KeysUsed' = KeysUsed \cup {job.key}
    BY <2>4, <2>5, <2>6 DEF KeysUsed
  <2>11. KeyIsFresh'
    BY <2>1, <2>5, <2>10 DEF KeyIsFresh
  <2>12. EntriesAreRecoverable'
    <3>1. job.key \in cids
      BY <2>4 DEF SubmittedIsPinned
    <3>2. \A i \in Members : job.got[i] # 0 /\ job.got[i] <= pubKeys[i] /\ job.since[i] <= job.got[i]
      BY <2>4 DEF KeysReadAreValid
    <3> QED BY <2>4, <2>5, <2>6, <3>1, <3>2 DEF EntriesAreRecoverable
  <2>13. job.key \notin KeysUsed
    BY <2>4 DEF KeyIsFresh
  <2>14. UploadsKeepApart'
    <3>1. \A k \in docKeys : k.id \in 1 .. n /\ entries[k.id].key = k.key
      BY <2>3 DEF UploadsKeepApart, UploadTyped
    <3>2. \A k \in docKeys' : entries'[k.id].key = k.key
      BY <2>5, <2>6, <2>7, <3>1
    <3>3. keyNotice'.doc # 0 => \E k \in docKeys' : k.id = keyNotice'.doc
      <4>1. CASE UNCHANGED <<docKeys, keyNotice>>
        BY <4>1 DEF UploadsKeepApart
      <4>2. CASE /\ docKeys' = {k \in docKeys : k.id # n + 1} \cup {[id |-> n + 1, key |-> job.key]}
                 /\ keyNotice' = [doc |-> n + 1, confirmed |-> FALSE]
        <5>1. PICK k : k = [id |-> n + 1, key |-> job.key]
          OBVIOUS
        <5>2. k \in docKeys' /\ k.id = n + 1 /\ keyNotice'.doc = n + 1
          BY <4>2, <5>1
        <5> QED BY <5>2
      <4> QED BY <2>7, <4>1, <4>2
    <3>4. \A c, d \in 1 .. n + 1 : entries'[c].key = entries'[d].key => c = d
      <4>1. \A c \in 1 .. n : entries[c].key # job.key
        BY <2>6, <2>13 DEF KeysUsed
      <4> QED BY <2>5, <2>6, <4>1 DEF UploadsKeepApart
    <3>5. \A f \in drafts : f.key # job.key
      BY <2>13 DEF KeysUsed
    <3>6. {entries'[d].key : d \in DOMAIN entries'} \cap {f.key : f \in drafts} = {}
      <4>1. \A d \in 1 .. n : \A f \in drafts : entries[d].key # f.key
        BY <2>6 DEF UploadsKeepApart
      <4> QED BY <2>5, <2>6, <3>5, <4>1
    <3> QED BY <2>4, <2>6, <3>2, <3>3, <3>4, <3>6 DEF UploadsKeepApart
  <2> QED BY <2>8, <2>9, <2>11, <2>12, <2>14
<1> QED BY <1>1, <1>2

LEMMA HandleAbortKeeps == ASSUME UploadInv, HandleAbortUpload PROVE UploadInv'
<1> USE DEF UploadInv
<1>1. /\ job' = [job EXCEPT !.aborted = TRUE] /\ job \in JobType
      /\ UNCHANGED <<pubKeys, shown, cids, entries, docKeys, drafts, keyNotice>>
  BY DEF HandleAbortUpload, UploadTyped
<1>2. /\ job' \in JobType /\ job'.stage = job.stage /\ job'.key = job.key /\ job'.got = job.got
      /\ job'.since = job.since
  BY <1>1 DEF JobType
<1>3. mirrors' = {IF m.key = job.key /\ m.state = "running" THEN [m EXCEPT !.state = "ended"] ELSE m : m \in mirrors}
  BY DEF HandleAbortUpload
<1>4. \A m \in mirrors : LET e == [m EXCEPT !.state = "ended"] IN
          e \in [key : 1 .. MaxUploads, state : {"running", "ended"}] /\ e.key = m.key /\ e.state = "ended"
  BY DEF UploadTyped
<1>5. /\ mirrors' \in SUBSET [key : 1 .. MaxUploads, state : {"running", "ended"}]
      /\ \A x \in mirrors' : \E m \in mirrors : x.key = m.key
      /\ \A m \in mirrors : m.key = job.key => \E x \in mirrors' : x.key = job.key /\ x.state = "ended"
  <2>1. ASSUME NEW x \in mirrors'
        PROVE  x \in [key : 1 .. MaxUploads, state : {"running", "ended"}] /\ \E m \in mirrors : x.key = m.key
    <3>1. PICK m \in mirrors : x = IF m.key = job.key /\ m.state = "running" THEN [m EXCEPT !.state = "ended"] ELSE m
      BY <1>3
    <3> QED BY <1>4, <3>1 DEF UploadTyped
  <2>2. ASSUME NEW m \in mirrors, m.key = job.key
        PROVE  \E x \in mirrors' : x.key = job.key /\ x.state = "ended"
    <3>1. PICK x : x = IF m.key = job.key /\ m.state = "running" THEN [m EXCEPT !.state = "ended"] ELSE m
      OBVIOUS
    <3>2. x \in mirrors'
      BY <1>3, <3>1
    <3>3. m.state \in {"running", "ended"}
      BY DEF UploadTyped
    <3>4. x.key = job.key /\ x.state = "ended"
      BY <1>4, <2>2, <3>1, <3>3
    <3> QED BY <3>2, <3>4
  <2> QED BY <2>1, <2>2
<1>6. UploadTyped'
  BY <1>1, <1>2, <1>5 DEF UploadTyped
<1>7. KeysReadAreValid'
  BY <1>1, <1>2 DEF KeysReadAreValid
<1>8. KeyIsFresh' /\ EntriesAreRecoverable'
  BY <1>1, <1>2 DEF KeyIsFresh, KeysUsed, EntriesAreRecoverable
<1>9. SubmittedIsPinned'
  BY <1>1, <1>2, <1>5 DEF SubmittedIsPinned
<1>10. UploadsKeepApart'
  BY <1>1, <1>5 DEF UploadsKeepApart
<1> QED BY <1>6, <1>7, <1>8, <1>9, <1>10

LEMMA MirrorEndsKeeps == ASSUME UploadInv, NEW m \in mirrors, MirrorEnds(m) PROVE UploadInv'
<1> USE DEF UploadInv
<1>1. PICK e : e = [m EXCEPT !.state = "ended"]
  OBVIOUS
<1>2. /\ UNCHANGED <<pubKeys, job, shown, cids, entries, docKeys, drafts, keyNotice>>
      /\ mirrors' = (mirrors \ {m}) \cup {e}
  BY <1>1 DEF MirrorEnds
<1>3. e \in [key : 1 .. MaxUploads, state : {"running", "ended"}] /\ e.key = m.key /\ e.state = "ended"
  BY <1>1 DEF UploadTyped
<1>4. UploadTyped'
  BY <1>2, <1>3 DEF UploadTyped
<1>5. KeysReadAreValid' /\ KeyIsFresh' /\ EntriesAreRecoverable'
  BY <1>2 DEF KeysReadAreValid, KeyIsFresh, KeysUsed, EntriesAreRecoverable
<1>6. SubmittedIsPinned'
  BY <1>2, <1>3 DEF SubmittedIsPinned
<1>7. UploadsKeepApart'
  BY <1>2, <1>3 DEF UploadsKeepApart
<1> QED BY <1>4, <1>5, <1>6, <1>7

\* A key that was read stays valid: registered versions only grow.
LEMMA RegisterKeyKeeps == ASSUME UploadInv, NEW i \in Members, RegisterKey(i) PROVE UploadInv'
<1> USE DEF UploadInv
<1>1. UNCHANGED <<job, shown, cids, mirrors, entries, docKeys, drafts, keyNotice>> /\ pubKeys \in KeysOf
  BY DEF RegisterKey, UploadTyped
<1>2. \A k \in Members : pubKeys[k] \in Nat
  BY <1>1, UploadConstants DEF KeysOf, Versions
<1>3. pubKeys[i] + 1 \in Versions
  BY <1>1, <1>2, UploadConstants DEF KeysOf, Versions, RegisterKey
<1>4. pubKeys' \in KeysOf /\ \A k \in Members : pubKeys[k] <= pubKeys'[k] /\ pubKeys'[k] \in Nat
  BY <1>1, <1>2, <1>3, UploadConstants DEF KeysOf, RegisterKey
<1>5. UploadTyped'
  BY <1>1, <1>4 DEF UploadTyped
<1>6. KeysReadAreValid'
  <2>1. \A k \in Members : job.got[k] \in Nat /\ job.since[k] \in Nat
    BY UploadConstants DEF UploadTyped, JobType, KeysOf, Versions
  <2>2. \A k \in Members : job.got[k] <= pubKeys[k] => job.got[k] <= pubKeys'[k]
    BY <1>2, <1>4, <2>1
  <2>3. \A k \in Members : job.since[k] <= pubKeys[k] => job.since[k] <= pubKeys'[k]
    BY <1>2, <1>4, <2>1
  <2> QED BY <1>1, <2>2, <2>3 DEF KeysReadAreValid
<1>7. EntriesAreRecoverable'
  <2>1. ASSUME NEW d \in DOMAIN entries, NEW k \in Members
        PROVE  entries[d].shares[k] <= pubKeys'[k]
    <3>1. entries[d] \in Entry
      BY DEF UploadTyped
    <3>2. entries[d].shares[k] \in Nat
      BY <3>1, UploadConstants DEF Entry, KeysOf, Versions
    <3>3. entries[d].shares[k] <= pubKeys[k]
      BY DEF EntriesAreRecoverable
    <3> QED BY <1>2, <1>4, <3>2, <3>3
  <2> QED BY <1>1, <2>1 DEF EntriesAreRecoverable
<1>8. KeyIsFresh' /\ SubmittedIsPinned' /\ UploadsKeepApart'
  BY <1>1 DEF KeyIsFresh, KeysUsed, SubmittedIsPinned, UploadsKeepApart
<1> QED BY <1>5, <1>6, <1>7, <1>8

LEMMA ScreenKeeps ==
    ASSUME UploadInv, Render \/ ConfirmBackup \/ HandleCloseKeyModal
    PROVE  UploadInv'
<1> USE DEF UploadInv
<1>1. UNCHANGED <<pubKeys, job, cids, mirrors, entries, docKeys, drafts>>
  BY DEF Render, ConfirmBackup, HandleCloseKeyModal
<1>2. shown' \in {"idle", "encrypting", "uploading_ipfs", "submitting_tx"}
  BY DEF Render, ConfirmBackup, HandleCloseKeyModal, StageOf, UploadTyped
<1>3. keyNotice' \in [doc : 0 .. Len(entries), confirmed : BOOLEAN] /\ keyNotice'.doc \in {0, keyNotice.doc}
  <2>1. keyNotice \in [doc : 0 .. Len(entries), confirmed : BOOLEAN] /\ Len(entries) \in Nat
    BY DEF UploadTyped
  <2>2. CASE Render
    BY <2>1, <2>2 DEF Render
  <2>3. CASE ConfirmBackup
    BY <2>1, <2>3 DEF ConfirmBackup
  <2>4. CASE HandleCloseKeyModal
    BY <2>1, <2>4 DEF HandleCloseKeyModal, NoNotice
  <2> QED BY <2>2, <2>3, <2>4
<1>4. UploadTyped'
  BY <1>1, <1>2, <1>3 DEF UploadTyped
<1>5. KeysReadAreValid' /\ KeyIsFresh' /\ EntriesAreRecoverable' /\ SubmittedIsPinned'
  BY <1>1 DEF KeysReadAreValid, KeyIsFresh, KeysUsed, EntriesAreRecoverable, SubmittedIsPinned
<1>6. UploadsKeepApart'
  <2>1. keyNotice'.doc # 0 => \E k \in docKeys' : k.id = keyNotice'.doc
    BY <1>1, <1>3 DEF UploadsKeepApart
  <2> QED BY <1>1, <2>1 DEF UploadsKeepApart
<1> QED BY <1>4, <1>5, <1>6

LEMMA CloseUploadTabKeeps == ASSUME UploadInv, CloseUploadTab PROVE UploadInv'
<1> USE DEF UploadInv
<1>1. job' \in JobType /\ job'.stage = "idle" /\ job'.key = job.key
  BY FinishEnds DEF CloseUploadTab
<1>2. /\ UNCHANGED <<pubKeys, cids, entries, drafts>> /\ shown' = "idle" /\ docKeys' = {}
      /\ keyNotice' = [doc |-> 0, confirmed |-> FALSE] /\ mirrors' \in SUBSET mirrors
  BY DEF CloseUploadTab, NoNotice
<1>3. UploadTyped'
  BY <1>1, <1>2 DEF UploadTyped
<1>4. KeysReadAreValid' /\ SubmittedIsPinned'
  BY <1>1 DEF KeysReadAreValid, SubmittedIsPinned
<1>5. KeyIsFresh' /\ EntriesAreRecoverable'
  BY <1>1, <1>2 DEF KeyIsFresh, KeysUsed, EntriesAreRecoverable
<1>6. UploadsKeepApart'
  BY <1>2 DEF UploadsKeepApart
<1> QED BY <1>3, <1>4, <1>5, <1>6

\* The screen keeps its invariant.
LEMMA UploadStepKeeps == ASSUME UploadInv, [UploadNext]_uploadVars PROVE UploadInv'
<1>1. CASE UNCHANGED uploadVars
  <2>1. UploadTyped' /\ KeysReadAreValid' /\ SubmittedIsPinned'
    BY <1>1 DEF uploadVars, UploadInv, UploadTyped, KeysReadAreValid, SubmittedIsPinned
  <2>2. KeyIsFresh' /\ EntriesAreRecoverable' /\ UploadsKeepApart'
    BY <1>1 DEF uploadVars, UploadInv, KeyIsFresh, KeysUsed, EntriesAreRecoverable, UploadsKeepApart
  <2> QED BY <2>1, <2>2 DEF UploadInv
<1>2. CASE HandleUpload
  BY <1>2, HandleUploadKeeps
<1>3. CASE SealShares
  BY <1>3, SealSharesKeeps
<1>4. CASE Render \/ ConfirmBackup \/ HandleCloseKeyModal
  BY <1>4, ScreenKeeps
<1>5. CASE HandleAbortUpload
  BY <1>5, HandleAbortKeeps
<1>6. CASE CloseUploadTab
  BY <1>6, CloseUploadTabKeeps
<1>7. ASSUME NEW b \in BOOLEAN, ReadGuardianKey(b) PROVE UploadInv'
  BY <1>7, ReadGuardianKeyKeeps
<1>8. ASSUME NEW b \in BOOLEAN, ChooseRoute(b) PROVE UploadInv'
  BY <1>8, ChooseRouteKeeps
<1>9. ASSUME NEW b \in BOOLEAN, SaveDraft(b) PROVE UploadInv'
  BY <1>9, SaveDraftKeeps
<1>10. ASSUME NEW a \in BOOLEAN, NEW b \in BOOLEAN, PinCiphertext(a, b) PROVE UploadInv'
  BY <1>10, PinCiphertextKeeps
<1>11. ASSUME NEW a \in BOOLEAN, NEW b \in BOOLEAN, SubmitDocument(a, b) PROVE UploadInv'
  BY <1>11, SubmitDocumentKeeps
<1>12. ASSUME NEW m \in mirrors, MirrorEnds(m) PROVE UploadInv'
  BY <1>12, MirrorEndsKeeps
<1>13. ASSUME NEW i \in Members, RegisterKey(i) PROVE UploadInv'
  BY <1>13, RegisterKeyKeeps
<1> QED BY <1>1, <1>2, <1>3, <1>4, <1>5, <1>6, <1>7, <1>8, <1>9, <1>10, <1>11, <1>12, <1>13 DEF UploadNext

-----------------------------------------------------------------------------
(* The streaming cipher                                                     *)

FrameLengths == Seq(0 .. ChunkSize)

LEMMA BytesAreFinite ==
    ASSUME NEW s \in FrameLengths
    PROVE  IsFiniteSet(Bytes(s)) /\ TotalSize(s) \in Nat
<1>1. Len(s) \in Int /\ ChunkSize \in Int /\ 1 \in Int
  BY StreamConstants DEF FrameLengths
<1>2. IsFiniteSet(1 .. Len(s)) /\ IsFiniteSet(1 .. ChunkSize)
  BY <1>1, FS_Interval
<1>3. IsFiniteSet((1 .. Len(s)) \X (1 .. ChunkSize))
  BY <1>2, FS_Product
<1>4. Bytes(s) \subseteq (1 .. Len(s)) \X (1 .. ChunkSize)
  BY DEF Bytes
<1> QED BY <1>3, <1>4, FS_Subset, FS_CardinalityType DEF TotalSize

\* A frame adds its length.
LEMMA AppendAddsLength ==
    ASSUME NEW s \in FrameLengths, NEW n \in 0 .. ChunkSize
    PROVE  /\ Append(s, n) \in FrameLengths /\ TotalSize(Append(s, n)) = TotalSize(s) + n
           /\ WireSize(Append(s, n)) = WireSize(s) + FrameSize(n)
<1>1. PICK m \in Nat : m = Len(s)
  BY DEF FrameLengths
<1>2. PICK t \in FrameLengths : t = Append(s, n)
  <2>1. Append(s, n) \in FrameLengths
    BY AppendProperties DEF FrameLengths
  <2> QED BY <2>1
<1>3. Len(t) = m + 1 /\ t[m + 1] = n /\ \A i \in 1 .. m : t[i] = s[i]
  BY <1>1, <1>2 DEF FrameLengths
<1>4. PICK N : N = {m + 1} \X (1 .. n)
  OBVIOUS
<1>5. Bytes(t) = Bytes(s) \cup N
  <2>1. ASSUME NEW b, b \in Bytes(t) PROVE b \in Bytes(s) \cup N
    <3>1. PICK i \in 1 .. m + 1, j \in 1 .. ChunkSize : b = <<i, j>> /\ j <= t[i]
      BY <1>3, <2>1 DEF Bytes
    <3>2. CASE i = m + 1
      <4>1. j \in 1 .. n
        BY <1>3, <3>1, <3>2
      <4> QED BY <1>4, <3>1, <3>2, <4>1
    <3>3. CASE i # m + 1
      <4>1. i \in 1 .. m
        BY <3>3
      <4>2. j <= s[i]
        BY <1>3, <3>1, <4>1
      <4> QED BY <1>1, <3>1, <4>1, <4>2 DEF Bytes
    <3> QED BY <3>2, <3>3
  <2>2. ASSUME NEW b, b \in Bytes(s) PROVE b \in Bytes(t)
    <3>1. PICK i \in 1 .. m, j \in 1 .. ChunkSize : b = <<i, j>> /\ j <= s[i]
      BY <1>1, <2>2 DEF Bytes
    <3>2. i \in 1 .. m + 1 /\ j <= t[i]
      BY <1>3, <3>1
    <3> QED BY <1>3, <3>1, <3>2 DEF Bytes
  <2>3. ASSUME NEW b, b \in N PROVE b \in Bytes(t)
    <3>1. PICK j \in 1 .. n : b = <<m + 1, j>>
      BY <1>4, <2>3
    <3>2. j \in 1 .. ChunkSize /\ m + 1 \in 1 .. m + 1 /\ j <= t[m + 1]
      BY <1>3, <3>1, StreamConstants
    <3> QED BY <1>3, <3>1, <3>2 DEF Bytes
  <2> QED BY <2>1, <2>2, <2>3
<1>6. Bytes(s) \cap N = {}
  <2> SUFFICES ASSUME NEW b, b \in Bytes(s), b \in N PROVE FALSE
    OBVIOUS
  <2>1. b[1] \in 1 .. m
    BY <1>1 DEF Bytes
  <2>2. b[1] = m + 1
    BY <1>4
  <2> QED BY <2>1, <2>2
<1>7. IsFiniteSet(N) /\ Cardinality(N) = n
  <2>1. IsFiniteSet({m + 1}) /\ Cardinality({m + 1}) = 1
    BY FS_Singleton
  <2>2. IsFiniteSet(1 .. n) /\ Cardinality(1 .. n) = n
    <3>1. n \in Int /\ 1 \in Int
      BY StreamConstants
    <3>2. IsFiniteSet(1 .. n) /\ Cardinality(1 .. n) = IF 1 > n THEN 0 ELSE n - 1 + 1
      BY <3>1, FS_Interval
    <3> QED BY <3>2, StreamConstants
  <2>3. IsFiniteSet(N) /\ Cardinality(N) = 1 * n
    <3>1. IsFiniteSet(N) /\ Cardinality(N) = Cardinality({m + 1}) * Cardinality(1 .. n)
      BY <1>4, <2>1, <2>2, FS_Product, Zenon
    <3> QED BY <2>1, <2>2, <3>1, Zenon
  <2>4. n \in Nat
    BY StreamConstants
  <2> QED BY <2>3, <2>4
<1>8. TotalSize(t) = TotalSize(s) + n
  <2>1. IsFiniteSet(Bytes(s)) /\ TotalSize(s) \in Nat
    BY BytesAreFinite
  <2>2. Cardinality(Bytes(s) \cup N) = Cardinality(Bytes(s)) + Cardinality(N) - Cardinality(Bytes(s) \cap N)
    BY <1>7, <2>1, FS_Union
  <2>3. Cardinality({}) = 0
    BY FS_EmptySet
  <2>4. PICK a \in Nat : a = Cardinality(Bytes(s))
    BY <2>1 DEF TotalSize
  <2>5. n \in Nat
    BY StreamConstants
  <2>6. Cardinality(Bytes(t)) = a + n - 0
    BY <1>5, <1>6, <1>7, <2>2, <2>3, <2>4
  <2> QED BY <2>4, <2>5, <2>6 DEF TotalSize
<1>9. WireSize(t) = WireSize(s) + FrameSize(n)
  <2>1. PICK c \in Nat : c = LenSize + Overhead
    BY StreamConstants
  <2>2. (m + 1) * c = m * c + c /\ m * c \in Nat
    OBVIOUS
  <2>3. TotalSize(s) \in Nat /\ n \in Nat /\ HeaderSize \in Nat
    BY BytesAreFinite, StreamConstants
  <2>4. WireSize(s) = HeaderSize + m * c + TotalSize(s) /\ WireSize(t) = HeaderSize + (m + 1) * c + TotalSize(t)
    BY <1>1, <1>3, <2>1 DEF WireSize
  <2>5. FrameSize(n) = c + n
    BY <2>1 DEF FrameSize
  <2> QED BY <1>8, <2>2, <2>3, <2>4, <2>5
<1> QED BY <1>2, <1>8, <1>9

\* Full frames.
LEMMA FullFrames ==
    ASSUME NEW s \in FrameLengths, \A i \in 1 .. Len(s) : s[i] = ChunkSize
    PROVE  TotalSize(s) = Len(s) * ChunkSize
<1>1. PICK m \in Nat : m = Len(s)
  BY DEF FrameLengths
<1>2. Bytes(s) = (1 .. m) \X (1 .. ChunkSize)
  <2>1. ASSUME NEW i \in 1 .. m, NEW j \in 1 .. ChunkSize PROVE j <= s[i]
    BY <1>1, StreamConstants
  <2> QED BY <1>1, <2>1 DEF Bytes
<1>3. \A k \in Nat : IsFiniteSet(1 .. k) /\ Cardinality(1 .. k) = k
  <2> TAKE k \in Nat
  <2>1. k \in Int /\ 1 \in Int
    OBVIOUS
  <2>2. IsFiniteSet(1 .. k) /\ Cardinality(1 .. k) = IF 1 > k THEN 0 ELSE k - 1 + 1
    BY <2>1, FS_Interval
  <2> QED BY <2>2
<1>4. ChunkSize \in Nat
  BY StreamConstants
<1>5. Cardinality((1 .. m) \X (1 .. ChunkSize)) = Cardinality(1 .. m) * Cardinality(1 .. ChunkSize)
  BY <1>3, <1>4, FS_Product
<1> QED BY <1>1, <1>2, <1>3, <1>4, <1>5 DEF TotalSize

Bodies == {"closed", "peeking", "decrypting", "ended", "accepted", "failed", "legacy"}

StreamTyped ==
    /\ file \in [left : 0 .. MaxPlain, total : 0 .. MaxPlain] /\ pending \in 0 .. ChunkSize - 1
    /\ frames \in FrameLengths /\ output \in FrameLengths /\ body \in Bodies
    /\ cut \in Nat /\ received \in Nat /\ ends \in SUBSET Nat /\ parsing \in BOOLEAN /\ header \in BOOLEAN

\* Until the upload ends all frames are full; then there is one more, and it is not.
Emitted ==
    /\ body = "closed" =>
           /\ \A i \in 1 .. Len(frames) : frames[i] = ChunkSize
           /\ TotalSize(frames) + pending + file.left = file.total
           /\ output = <<>>
    /\ body # "closed" =>
           /\ Len(frames) >= 1 /\ frames[Len(frames)] # ChunkSize
           /\ \A i \in 1 .. Len(frames) - 1 : frames[i] = ChunkSize
           /\ TotalSize(frames) = file.total

\* What was handed on are the first frames; the stream has ended with all of them and nothing left over.
Decrypted ==
    /\ Len(output) <= Len(frames) /\ \A i \in 1 .. Len(output) : output[i] = frames[i]
    /\ parsing => body = "decrypting"
    /\ body \in {"peeking", "decrypting"} => Len(output) < Len(frames)
    /\ body = "ended" => Len(output) = Len(frames) /\ header /\ received = WireSize(output)

StreamInv == StreamTyped /\ Emitted /\ Decrypted /\ AcceptedIsWhole

LEMMA StreamInvSuffices == StreamInv => StreamTypeOK /\ AcceptedIsWhole
BY DEF StreamInv, StreamTyped, StreamTypeOK, FrameLengths, Bodies

LEMMA StreamInitial == StreamInit => StreamInv
<1> SUFFICES ASSUME StreamInit PROVE StreamInv
  OBVIOUS
<1>1. PICK n \in 0 .. MaxPlain : file = [left |-> n, total |-> n]
  BY DEF StreamInit
<1>2. n \in Nat /\ file.left = n /\ file.total = n
  BY <1>1, StreamConstants
<1>3. frames = <<>> /\ <<>> \in FrameLengths /\ Len(<<>>) = 0
  BY DEF StreamInit, FrameLengths
<1>4. StreamTyped
  <2>1. file \in [left : 0 .. MaxPlain, total : 0 .. MaxPlain] /\ 0 \in 0 .. ChunkSize - 1 /\ 0 \in Nat
    BY <1>1, StreamConstants
  <2>2. "closed" \in Bodies /\ FALSE \in BOOLEAN
    BY DEF Bodies
  <2> QED BY <1>3, <2>1, <2>2 DEF StreamInit, StreamTyped
<1>5. TotalSize(frames) = 0
  <2>1. \A i \in 1 .. Len(frames) : frames[i] = ChunkSize
    BY <1>3
  <2>2. TotalSize(frames) = 0 * ChunkSize
    BY <1>3, <2>1, FullFrames
  <2> QED BY <2>2, StreamConstants
<1>6. Emitted
  BY <1>2, <1>3, <1>5 DEF StreamInit, Emitted
<1>7. Decrypted /\ AcceptedIsWhole
  BY <1>3 DEF StreamInit, Decrypted, AcceptedIsWhole
<1> QED BY <1>4, <1>6, <1>7 DEF StreamInv

\* A number is made of its full chunks and the rest.
LEMMA ChunksAndRest ==
    ASSUME NEW a \in Nat
    PROVE  \E d \in Nat, m \in 0 .. ChunkSize - 1 : d = a \div ChunkSize /\ m = a % ChunkSize /\ d * ChunkSize + m = a
<1>1. ChunkSize \in Nat /\ ChunkSize > 0
  BY StreamConstants
<1>2. a = ChunkSize * (a \div ChunkSize) + (a % ChunkSize) /\ a % ChunkSize \in 0 .. ChunkSize - 1
  BY <1>1
<1>3. PICK d \in Nat, m \in Nat : d = a \div ChunkSize /\ m = a % ChunkSize
  BY <1>1
<1>4. a = ChunkSize * d + m /\ m \in 0 .. ChunkSize - 1
  BY <1>1, <1>2, <1>3
<1>5. d * ChunkSize + m = a
  <2>1. ChunkSize * d = d * ChunkSize
    BY <1>1
  <2> QED BY <1>4, <2>1
<1> QED BY <1>3, <1>4, <1>5

LEMMA EncryptPieceKeeps == ASSUME StreamInv, NEW n \in 1 .. MaxPiece, EncryptPiece(n) PROVE StreamInv'
<1> USE DEF StreamInv
<1>1. body = "closed" /\ n \in 1 .. file.left /\ UNCHANGED downVars
  BY DEF EncryptPiece
<1>2. /\ file \in [left : 0 .. MaxPlain, total : 0 .. MaxPlain] /\ file.left \in Nat /\ file.total \in Nat
      /\ pending \in Nat /\ n \in Nat /\ frames \in FrameLengths /\ ChunkSize \in Nat
  BY StreamConstants DEF StreamTyped
<1>3. PICK a \in Nat : a = pending + n
  BY <1>2
<1>4. PICK k \in Nat, rest \in 0 .. ChunkSize - 1 :
          k = a \div ChunkSize /\ rest = a % ChunkSize /\ k * ChunkSize + rest = a
  BY ChunksAndRest
<1>5. pending' = a % ChunkSize /\ pending' \in 0 .. ChunkSize - 1 /\ k * ChunkSize + pending' = a /\ pending' \in Nat
  <2>1. pending' = a % ChunkSize
    BY <1>3 DEF EncryptPiece
  <2>2. pending' = rest
    BY <1>4, <2>1
  <2>3. rest \in Nat
    BY StreamConstants
  <2> QED BY <1>4, <2>1, <2>2, <2>3, Zenon
<1>6. PICK e : e = [i \in 1 .. k |-> ChunkSize]
  OBVIOUS
<1>7. e \in FrameLengths /\ Len(e) = k
  BY <1>2, <1>6 DEF FrameLengths
<1>8. frames' = frames \o e
  BY <1>3, <1>4, <1>6 DEF EncryptPiece
<1>9. PICK m \in Nat : m = Len(frames)
  BY <1>2 DEF FrameLengths
<1>10. /\ frames' \in FrameLengths /\ Len(frames') = m + k
       /\ \A i \in 1 .. m + k : frames'[i] = IF i <= m THEN frames[i] ELSE e[i - m]
  BY <1>2, <1>7, <1>8, <1>9, ConcatProperties DEF FrameLengths
<1>11. \A i \in 1 .. Len(frames') : frames'[i] = ChunkSize
  <2> SUFFICES ASSUME NEW i \in 1 .. m + k PROVE frames'[i] = ChunkSize
    BY <1>10
  <2>1. CASE i <= m
    BY <1>1, <1>9, <1>10, <2>1 DEF Emitted
  <2>2. CASE ~(i <= m)
    <3>1. i - m \in 1 .. k
      BY <2>2
    <3> QED BY <1>6, <1>10, <2>2, <3>1
  <2> QED BY <2>1, <2>2
<1>12. TotalSize(frames) = m * ChunkSize /\ TotalSize(frames') = (m + k) * ChunkSize
  <2>1. TotalSize(frames) = m * ChunkSize
    BY <1>1, <1>2, <1>9, FullFrames DEF Emitted
  <2>2. TotalSize(frames') = Len(frames') * ChunkSize
    BY <1>10, <1>11, FullFrames
  <2> QED BY <1>10, <2>1, <2>2
<1>13. (m + k) * ChunkSize = m * ChunkSize + k * ChunkSize
  BY <1>2
<1>14. file' = [file EXCEPT !.left = file.left - n]
  BY DEF EncryptPiece
<1>15. /\ file' \in [left : 0 .. MaxPlain, total : 0 .. MaxPlain]
       /\ file'.left = file.left - n /\ file'.total = file.total
  BY <1>1, <1>2, <1>14, StreamConstants
<1>16. TotalSize(frames') + pending' + file'.left = file'.total
  <2>1. PICK x \in Nat, y \in Nat : x = m * ChunkSize /\ y = k * ChunkSize
    BY <1>2
  <2>2. x + pending + file.left = file.total
    BY <1>1, <1>12, <2>1 DEF Emitted
  <2>3. y + pending' = pending + n
    BY <1>3, <1>5, <2>1
  <2>4. TotalSize(frames') = x + y
    BY <1>12, <1>13, <2>1
  <2>5. PICK p \in Nat, q \in Nat, l \in Nat, T \in Nat : p = pending /\ q = pending' /\ l = file.left /\ T = file.total
    BY <1>2, <1>5
  <2>6. x + p + l = T /\ y + q = p + n /\ n \in Nat
    BY <1>2, <2>2, <2>3, <2>5
  <2>7. x + y + q + (l - n) = T
    BY <2>6
  <2> QED BY <1>15, <2>4, <2>5, <2>7
<1>17. StreamTyped'
  BY <1>1, <1>5, <1>10, <1>15 DEF StreamTyped, downVars
<1>18. output = <<>> /\ Len(output) = 0
  BY <1>1 DEF Emitted
<1>19. Emitted'
  BY <1>1, <1>11, <1>16, <1>18 DEF Emitted, downVars
<1>20. Decrypted' /\ AcceptedIsWhole'
  <2>1. body' = "closed" /\ output' = output /\ parsing' = parsing
    BY <1>1 DEF downVars
  <2> QED BY <1>1, <1>10, <1>18, <2>1 DEF Decrypted, AcceptedIsWhole
<1> QED BY <1>17, <1>19, <1>20

LEMMA EncryptFlushKeeps == ASSUME StreamInv, EncryptFlush PROVE StreamInv'
<1> USE DEF StreamInv
<1>1. /\ body = "closed" /\ file.left = 0 /\ body' = "peeking" /\ pending' = 0
      /\ UNCHANGED <<file, received, ends, parsing, header, output>> /\ frames' = frames \o <<pending>>
  BY DEF EncryptFlush, LastFrame
<1>2. frames \in FrameLengths /\ pending \in 0 .. ChunkSize - 1 /\ pending \in 0 .. ChunkSize /\ pending # ChunkSize
  BY StreamConstants DEF StreamTyped
<1>3. frames' = Append(frames, pending)
  BY <1>1, <1>2 DEF FrameLengths
<1>4. PICK m \in Nat : m = Len(frames)
  BY <1>2 DEF FrameLengths
<1>5. frames' \in FrameLengths /\ TotalSize(frames') = TotalSize(frames) + pending
  BY <1>2, <1>3, AppendAddsLength
<1>6. Len(frames') = m + 1 /\ frames'[m + 1] = pending /\ \A i \in 1 .. m : frames'[i] = frames[i]
  BY <1>2, <1>3, <1>4, AppendProperties DEF FrameLengths
<1>7. WireSize(frames') \in Nat /\ cut' \in Nat
  <2>1. TotalSize(frames') \in Nat
    BY <1>5, BytesAreFinite
  <2>2. PICK c \in Nat : c = LenSize + Overhead
    BY StreamConstants
  <2>3. (m + 1) * c \in Nat
    OBVIOUS
  <2>4. WireSize(frames') = HeaderSize + (m + 1) * c + TotalSize(frames')
    BY <1>6, <2>2 DEF WireSize
  <2>5. WireSize(frames') \in Nat
    BY <2>1, <2>3, <2>4, StreamConstants
  <2> QED BY <2>5 DEF EncryptFlush
<1>8. StreamTyped'
  BY <1>1, <1>5, <1>7, StreamConstants DEF StreamTyped, Bodies
<1>9. Emitted'
  <2>1. \A i \in 1 .. m : frames'[i] = ChunkSize
    BY <1>1, <1>4, <1>6 DEF Emitted
  <2>2. TotalSize(frames) + pending + file.left = file.total /\ TotalSize(frames) \in Nat /\ pending \in Nat
    BY <1>1, <1>2, BytesAreFinite, StreamConstants DEF Emitted
  <2>3. TotalSize(frames') = file'.total
    BY <1>1, <1>5, <2>2
  <2> QED BY <1>1, <1>2, <1>6, <2>1, <2>3 DEF Emitted
<1>10. Decrypted' /\ AcceptedIsWhole'
  <2>1. output' = <<>> /\ Len(output') = 0 /\ ~parsing
    BY <1>1 DEF Emitted, Decrypted
  <2> QED BY <1>1, <1>6, <2>1 DEF Decrypted, AcceptedIsWhole
<1> QED BY <1>8, <1>9, <1>10

\* Steps of the download before it is accepted that hand on nothing.
LEMMA DownloadKeeps ==
    ASSUME StreamInv, UNCHANGED <<file, pending, frames, cut, output>>, body # "closed",
           body' \in {"peeking", "decrypting", "failed", "legacy"},
           body' \in {"peeking", "decrypting"} => body \in {"peeking", "decrypting"},
           received' \in Nat, ends' \in SUBSET Nat, parsing' \in BOOLEAN, header' \in BOOLEAN,
           parsing' => body' = "decrypting"
    PROVE  StreamInv'
<1>1. StreamTyped'
  BY DEF StreamInv, StreamTyped, Bodies
<1>2. Emitted'
  BY DEF StreamInv, Emitted
<1>3. Decrypted' /\ AcceptedIsWhole'
  BY DEF StreamInv, Decrypted, AcceptedIsWhole
<1> QED BY <1>1, <1>2, <1>3 DEF StreamInv

LEMMA ParseFrameKeeps == ASSUME StreamInv, ParseFrame PROVE StreamInv'
<1> USE DEF StreamInv
<1>1. /\ parsing /\ header /\ body = "decrypting" /\ UNCHANGED <<file, pending, frames, cut, received, header>>
      /\ received \in Nat /\ ends \in SUBSET Nat /\ header \in BOOLEAN
  BY DEF ParseFrame, Decrypted, StreamTyped
<1>2. PICK n : n = frames[Len(output) + 1]
  OBVIOUS
<1>3. \/ parsing' = FALSE /\ body' \in {body, "failed"} /\ UNCHANGED <<ends, output>>
      \/ /\ ~(received - Taken < FrameSize(n)) /\ output' = Append(output, n)
         /\ ends' = Drain(Taken + FrameSize(n)) /\ parsing' = ~(n < ChunkSize)
         /\ body' = IF n = ChunkSize THEN body ELSE IF received > Taken + FrameSize(n) THEN "failed" ELSE "ended"
  BY <1>2 DEF ParseFrame
<1>4. CASE parsing' = FALSE /\ body' \in {body, "failed"} /\ UNCHANGED <<ends, output>>
  BY <1>1, <1>4, DownloadKeeps
<1>5. CASE /\ ~(received - Taken < FrameSize(n)) /\ output' = Append(output, n)
           /\ ends' = Drain(Taken + FrameSize(n)) /\ parsing' = ~(n < ChunkSize)
           /\ body' = IF n = ChunkSize THEN body ELSE IF received > Taken + FrameSize(n) THEN "failed" ELSE "ended"
  <2>1. PICK m \in Nat : m = Len(output)
    BY DEF StreamTyped, FrameLengths
  <2>2. PICK k \in Nat : k = Len(frames)
    BY DEF StreamTyped, FrameLengths
  <2>3. m < k /\ m + 1 \in 1 .. k
    BY <1>1, <2>1, <2>2 DEF Decrypted
  <2>4. n = frames[m + 1] /\ n \in 0 .. ChunkSize
    <3>1. frames \in Seq(0 .. ChunkSize) /\ m + 1 \in 1 .. Len(frames)
      BY <2>2, <2>3 DEF StreamTyped, FrameLengths
    <3>2. frames[m + 1] \in 0 .. ChunkSize
      BY <3>1, ElementOfSeq
    <3> QED BY <1>2, <2>1, <3>2
  <2>5. /\ output' \in FrameLengths /\ WireSize(output') = WireSize(output) + FrameSize(n)
    BY <1>5, <2>4, AppendAddsLength DEF StreamTyped
  <2>6. Len(output') = m + 1 /\ output'[m + 1] = n /\ \A i \in 1 .. m : output'[i] = output[i]
    BY <1>5, <2>1, <2>4, AppendProperties DEF StreamTyped, FrameLengths
  <2>7. \A i \in 1 .. m + 1 : output'[i] = frames[i]
    BY <2>1, <2>4, <2>6 DEF Decrypted
  <2>8. ends' \in SUBSET Nat /\ parsing' \in BOOLEAN
    BY <1>1, <1>5 DEF Drain
  <2>9. body' \in {"decrypting", "failed", "ended"} /\ (body' = "decrypting" <=> n = ChunkSize)
    BY <1>1, <1>5
  <2>10. StreamTyped'
    BY <1>1, <2>5, <2>8, <2>9 DEF StreamTyped, Bodies
  <2>11. Emitted'
    BY <1>1, <2>9 DEF Emitted
  <2>12. n # ChunkSize <=> m + 1 = k
    BY <1>1, <2>2, <2>3, <2>4 DEF Emitted
  <2>13. parsing' => body' = "decrypting"
    <3>1. parsing' => ~(n < ChunkSize)
      BY <1>5, Zenon
    <3>2. ~(n < ChunkSize) => n = ChunkSize
      BY <2>4, StreamConstants
    <3> QED BY <2>9, <3>1, <3>2
  <2>14. body' = "ended" => received = WireSize(output')
    <3> SUFFICES ASSUME body' = "ended" PROVE received = WireSize(output')
      OBVIOUS
    <3>1. Taken = WireSize(output)
      BY <1>1 DEF Taken
    <3>2. ~(received > Taken + FrameSize(n)) /\ ~(received - Taken < FrameSize(n))
      BY <1>1, <1>5
    <3>3. PICK f \in Nat : f = FrameSize(n)
      BY <2>4, StreamConstants DEF FrameSize
    <3>4. PICK t \in Nat : t = WireSize(output)
      <4>1. TotalSize(output) \in Nat
        BY BytesAreFinite DEF StreamTyped
      <4>2. PICK c \in Nat : c = LenSize + Overhead
        BY StreamConstants
      <4>3. m * c \in Nat
        OBVIOUS
      <4>4. WireSize(output) = HeaderSize + m * c + TotalSize(output)
        BY <2>1, <4>2 DEF WireSize
      <4> QED BY <4>1, <4>3, <4>4, StreamConstants
    <3> QED BY <1>1, <2>5, <3>1, <3>2, <3>3, <3>4
  <2>15. body' = "ended" => m + 1 = k
    BY <2>9, <2>12
  <2>16. body' = "decrypting" => m + 1 < k
    BY <2>3, <2>9, <2>12
  <2>17. Decrypted'
    <3>1. Len(output') <= Len(frames') /\ \A i \in 1 .. Len(output') : output'[i] = frames'[i]
      BY <1>1, <2>2, <2>3, <2>6, <2>7
    <3>2. body' \in {"peeking", "decrypting"} => Len(output') < Len(frames')
      BY <1>1, <2>2, <2>6, <2>9, <2>16
    <3>3. body' = "ended" => Len(output') = Len(frames') /\ header' /\ received' = WireSize(output')
      BY <1>1, <2>2, <2>6, <2>14, <2>15
    <3> QED BY <2>13, <3>1, <3>2, <3>3 DEF Decrypted
  <2>18. AcceptedIsWhole'
    BY <2>9 DEF AcceptedIsWhole
  <2> QED BY <2>10, <2>11, <2>17, <2>18
<1> QED BY <1>3, <1>4, <1>5

\* Only a stream that ended is accepted, and it has ended with the last frame.
LEMMA EndOfBodyKeeps == ASSUME StreamInv, EndOfBody PROVE StreamInv'
<1> USE DEF StreamInv
<1>1. /\ UNCHANGED <<file, pending, frames, cut, received, ends, parsing, header, output>>
      /\ body \in {"decrypting", "ended"} /\ ~parsing /\ received = cut
  BY DEF EndOfBody
<1>2. CASE body = "decrypting"
  <2>1. body' = "failed"
    BY <1>2 DEF EndOfBody, Complete
  <2> QED BY <1>1, <2>1, DownloadKeeps DEF StreamTyped
<1>3. CASE body = "ended"
  <2>1. body' = "accepted"
    BY <1>3 DEF EndOfBody, Complete
  <2>2. Len(output) = Len(frames) /\ received = WireSize(output)
    BY <1>3 DEF Decrypted
  <2>3. output = frames
    BY <2>2 DEF Decrypted, StreamTyped, FrameLengths
  <2>4. AcceptedIsWhole'
    BY <1>1, <1>3, <2>2, <2>3 DEF AcceptedIsWhole, WireLength, Emitted, TotalSize, WireSize, Bytes
  <2>5. StreamTyped'
    BY <1>1, <2>1 DEF StreamTyped, Bodies
  <2>6. Emitted' /\ Decrypted'
    BY <1>1, <1>3, <2>1 DEF Emitted, Decrypted
  <2> QED BY <2>4, <2>5, <2>6
<1> QED BY <1>1, <1>2, <1>3

\* The cipher keeps its invariant.
LEMMA StreamStepKeeps == ASSUME StreamInv, [StreamNext]_streamVars PROVE StreamInv'
<1>1. CASE UNCHANGED streamVars
  BY <1>1 DEF streamVars, StreamInv, StreamTyped, Emitted, Decrypted, AcceptedIsWhole, WireLength
<1>2. ASSUME NEW n \in 1 .. MaxPiece, EncryptPiece(n) PROVE StreamInv'
  BY <1>2, EncryptPieceKeeps
<1>3. ASSUME NEW n \in 1 .. MaxPiece, Peek(n) PROVE StreamInv'
  <2>1. received' \in Nat /\ ends' \in SUBSET Nat /\ parsing' \in BOOLEAN /\ header' \in BOOLEAN
    BY <1>3, StreamConstants DEF Peek, StreamInv, StreamTyped
  <2>2. UNCHANGED <<file, pending, frames, cut, output>> /\ body = "peeking" /\ body' \in {"peeking", "decrypting"}
        /\ (parsing' => body' = "decrypting")
    BY <1>3 DEF Peek
  <2> QED BY <2>1, <2>2, DownloadKeeps
<1>4. ASSUME NEW n \in 1 .. MaxPiece, Deliver(n) PROVE StreamInv'
  <2>1. received' \in Nat /\ ends' \in SUBSET Nat /\ parsing' \in BOOLEAN /\ header' \in BOOLEAN
    <3>1. received \in Nat /\ ends \in SUBSET Nat /\ parsing \in BOOLEAN /\ header \in BOOLEAN /\ n \in Nat
      BY StreamConstants DEF StreamInv, StreamTyped
    <3>2. header' = header /\ received' \in {received, received + n} /\ ends' \in {ends, ends \cup {received + n}}
      BY <1>4 DEF Deliver
    <3>3. parsing' \in BOOLEAN
      BY <1>4, <3>1 DEF Deliver
    <3> QED BY <3>1, <3>2, <3>3
  <2>2. UNCHANGED <<file, pending, frames, cut, output>> /\ body \in {"decrypting", "ended"}
    BY <1>4 DEF Deliver
  <2>3. body' \in {"decrypting", "failed"} /\ (body' = "decrypting" => body = "decrypting")
        /\ (parsing' => body' = "decrypting")
    BY <1>4 DEF Deliver
  <2> QED BY <2>1, <2>2, <2>3, DownloadKeeps
<1>5. CASE EncryptFlush
  BY <1>5, EncryptFlushKeeps
<1>6. CASE PeekEnds
  <2>1. /\ UNCHANGED <<file, pending, frames, cut, received, ends, parsing, header, output>>
        /\ body = "peeking" /\ body' = "legacy" /\ ~parsing
    BY <1>6 DEF PeekEnds, StreamInv, Decrypted
  <2> QED BY <2>1, DownloadKeeps DEF StreamInv, StreamTyped
<1>7. CASE ParseHeader
  <2>1. UNCHANGED <<file, pending, frames, body, cut, received, output>> /\ body = "decrypting"
    BY <1>7 DEF ParseHeader, StreamInv, Decrypted
  <2>2. ends' \in SUBSET Nat /\ parsing' \in BOOLEAN /\ header' \in BOOLEAN
    BY <1>7 DEF ParseHeader, Drain, StreamInv, StreamTyped
  <2> QED BY <2>1, <2>2, DownloadKeeps DEF StreamInv, StreamTyped
<1>8. CASE ParseFrame
  BY <1>8, ParseFrameKeeps
<1>9. CASE EndOfBody
  BY <1>9, EndOfBodyKeeps
<1> QED BY <1>1, <1>2, <1>3, <1>4, <1>5, <1>6, <1>7, <1>8, <1>9 DEF StreamNext

-----------------------------------------------------------------------------
(* The parts together                                                       *)

PartsInv == RefreshInv /\ CustodyInv /\ RotInv /\ InboxInv /\ BackupInv /\ UploadInv /\ StreamInv

allVars == <<part, vars, sharingVars, shardVars, streamVars, backupVars, custodyVars, rotVars, inboxVars, lockVars,
             uploadVars>>

\* A step of the whole is a step of each part, or leaves it alone.
LEMMA PartSteps ==
    ASSUME [DocumentsNext]_allVars
    PROVE  /\ [Next]_vars /\ [CustodyNext]_custodyVars /\ [RotNext]_rotVars /\ [InboxNext]_inboxVars
           /\ [BackupNext]_backupVars /\ [UploadNext]_uploadVars /\ [StreamNext]_streamVars
<1>1. CASE UNCHANGED allVars
  BY <1>1, Zenon DEF allVars
<1>2. CASE RefreshStep \/ SharingStep \/ ShardStep
  BY <1>2, Zenon DEF RefreshStep, SharingStep, ShardStep
<1>3. CASE StreamStep \/ BackupStep \/ CustodyStep
  BY <1>3, Zenon DEF StreamStep, BackupStep, CustodyStep
<1>4. CASE RotationStep \/ InboxStep \/ LockStep \/ UploadStep
  BY <1>4, Zenon DEF RotationStep, InboxStep, LockStep, UploadStep
<1> QED BY <1>1, <1>2, <1>3, <1>4, Zenon DEF DocumentsNext

LEMMA PartsInitial == DocumentsInit => PartsInv /\ SharesInv
<1> SUFFICES ASSUME DocumentsInit PROVE PartsInv /\ SharesInv
  OBVIOUS
<1>1. Init /\ BackupInit /\ CustodyInit /\ RotInit /\ InboxInit /\ StreamInit /\ UploadInit
  BY Zenon DEF DocumentsInit
<1> QED BY <1>1, RefreshInitial, CustodyInitial, RotInitial, InboxInitial, BackupInitial, UploadInitial,
           StreamInitial, Zenon DEF PartsInv

LEMMA PartsStepKeeps == ASSUME PartsInv, [DocumentsNext]_allVars PROVE PartsInv'
<1>1. RefreshInv' /\ CustodyInv' /\ RotInv'
  BY PartSteps, RefreshStepKeeps, CustodyStepKeeps, RotStepKeeps, Zenon DEF PartsInv
<1>2. InboxInv' /\ BackupInv'
  BY PartSteps, InboxStepKeeps, BackupStepKeeps, Zenon DEF PartsInv
<1>3. UploadInv' /\ StreamInv'
  BY PartSteps, UploadStepKeeps, StreamStepKeeps, Zenon DEF PartsInv
<1> QED BY <1>1, <1>2, <1>3, Zenon DEF PartsInv

(* The invariants of the parts hold in every behaviour of the whole:       *)
(* refreshes of shares, keyring and server, key rotation, inbox and        *)
(* collector, storage, upload and stream.                                  *)
THEOREM PartsCorrect == DocumentsSpec => []PartsInv
<1>1. DocumentsInit => PartsInv
  BY PartsInitial
<1>2. PartsInv /\ [DocumentsNext]_allVars => PartsInv'
  BY PartsStepKeeps
<1> QED BY <1>1, <1>2, PTL DEF DocumentsSpec, allVars

(* The type invariants of the parts: rows, references, records, jobs and   *)
(* frames of the document services are what the code keeps.                *)
THEOREM DocumentsTyped == DocumentsSpec => []DocumentsTypeOK
<1>1. PartsInv => DocumentsTypeOK
  <2> SUFFICES ASSUME PartsInv PROVE DocumentsTypeOK
    OBVIOUS
  <2>1. TypeOK
    BY DEF PartsInv, RefreshInv
  <2>2. CustodyTypeOK /\ RotTypeOK
    BY CustodyInvSuffices, RotInvSuffices, Zenon DEF PartsInv
  <2>3. InboxTypeOK /\ BackupTypeOK /\ UploadTypeOK /\ StreamTypeOK
    BY InboxInvSuffices, BackupInvSuffices, UploadInvSuffices, StreamInvSuffices, Zenon DEF PartsInv
  <2> QED BY <2>1, <2>2, <2>3, Zenon DEF DocumentsTypeOK
<1> QED BY <1>1, PartsCorrect, PTL

(* A download is whole or fails, a copy still there is found, the proxy    *)
(* passes on what was signed, and a document on chain is pinned and its    *)
(* key shared with every guardian, wherever its upload was interrupted.    *)
THEOREM DocumentsWhole == DocumentsSpec => []DocumentsAreWhole
<1>1. PartsInv => DocumentsAreWhole
  BY BackupInvSuffices, UploadInvSuffices, StreamInvSuffices, Zenon DEF PartsInv, DocumentsAreWhole
<1> QED BY <1>1, PartsCorrect, PTL

KeysUsable ==
    /\ SubmissionsCounted /\ SharesAreCurrent /\ PinOpensKeyring /\ LockedWithoutKey
    /\ RotationSettlesEverywhere /\ ReencryptedBeforeRevoked /\ RevokedKeysStayRevoked /\ ListingMissesNothing

(* With the shares the client passes, those on file are of the last        *)
(* refresh and a quorum took part in it; the PIN opens the keyring through *)
(* every race of tabs and server, a rotation settles on both chains or is  *)
(* reported, a listing misses nothing and the collector unpins only what   *)
(* is dead or old.                                                         *)
THEOREM KeysCorrect == ClientShares => (DocumentsSpec => KeysStayUsable)
<1> SUFFICES ASSUME ClientShares PROVE DocumentsSpec => KeysStayUsable
  OBVIOUS
<1>1. DocumentsInit => PartsInv /\ SharesInv
  BY PartsInitial
<1>2. PartsInv /\ SharesInv /\ [DocumentsNext]_allVars => PartsInv' /\ SharesInv'
  <2> SUFFICES ASSUME PartsInv, SharesInv, [DocumentsNext]_allVars PROVE PartsInv' /\ SharesInv'
    OBVIOUS
  <2>1. [Next]_vars
    BY PartSteps
  <2>2. SharesInv'
    BY <2>1, SharesStepKeeps DEF PartsInv
  <2> QED BY <2>2, PartsStepKeeps
<1>3. PartsInv /\ SharesInv => KeysUsable
  <2> SUFFICES ASSUME PartsInv, SharesInv PROVE KeysUsable
    OBVIOUS
  <2>1. SubmissionsCounted /\ SharesAreCurrent
    BY DEF PartsInv, RefreshInv, SharesInv
  <2>2. PinOpensKeyring /\ LockedWithoutKey
    BY CustodyInvSuffices, Zenon DEF PartsInv
  <2>3. RotationSettlesEverywhere /\ ReencryptedBeforeRevoked /\ RevokedKeysStayRevoked
    BY RotInvSuffices, Zenon DEF PartsInv
  <2>4. ListingMissesNothing
    BY InboxInvSuffices, Zenon DEF PartsInv
  <2> QED BY <2>1, <2>2, <2>3, <2>4, Zenon DEF KeysUsable
<1>4. PartsInv /\ [DocumentsNext]_allVars =>
          [LET submitted == zeroShareSubmitted[NextEpoch]
           IN  shareEpoch' # shareEpoch =>
                 Cardinality(members \ submitted) <= Cardinality(submitted \cap former)]_vars
  BY PartSteps, QuorumStep DEF PartsInv
<1>5. PartsInv /\ [DocumentsNext]_allVars =>
          [\A r \in pins :
              r.mine /\ r.hash \notin Hashes(pins') =>
                  Dead(r.doc) \/ changed \/ day - r.day > MaxAge]_inboxVars
  <2> SUFFICES ASSUME PartsInv, [DocumentsNext]_allVars, NEW r \in pins, r.mine, r.hash \notin Hashes(pins')
               PROVE  Dead(r.doc) \/ changed \/ day - r.day > MaxAge
    BY Zenon
  <2>1. InboxInv /\ [InboxNext]_inboxVars
    BY PartSteps, Zenon DEF PartsInv
  <2>2. MayUnpin(r)
    BY <2>1, UnpinStep
  <2> QED BY <2>2 DEF MayUnpin
<1> QED BY <1>1, <1>2, <1>3, <1>4, <1>5, PTL DEF DocumentsSpec, allVars, KeysStayUsable, KeysUsable, RefreshQuorum, UnpinsOnlyDead
====
