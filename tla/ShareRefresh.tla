----------------------------- MODULE ShareRefresh -----------------------------
(***************************************************************************)
(* Proactive refresh of the key shares of one document: startShareRefresh, *)
(* submitZeroShareCommitment, applyShareRefresh (both overloads) and       *)
(* setDocumentVSSCommitments of contracts/SpooVault.sol and the library    *)
(* SpooVaultAdminLogic, over the shares that addDocument stored.           *)
(*                                                                         *)
(* Guardians come and go while a session runs.  Who they are is the        *)
(* abstract specification GuardianSet, which GuardianGovernance implements.*)
(* A share, its commitment and the VSS commitments of the document are     *)
(* represented by the share epoch they were made for.                      *)
(***************************************************************************)
EXTENDS Naturals, FiniteSets

CONSTANTS
    Addr,
    None,            \* the empty string, the zero hash, the empty array
    Secrets,         \* values of C_0, the commitment to the master secret
    Lengths,         \* lengths of the VSS commitment vectors passed
    Durations,       \* durations passed to startShareRefresh
    MinDuration,     \* 1 hours
    MaxDuration,     \* 7 days
    OutsiderShares,  \* addDocument is given shares of accounts not (yet) guardians
    BlankShares,     \* applyShareRefresh is given empty shares
    MaxTime,         \* bound on the clock
    MaxEpoch         \* bound on the refreshes

ASSUME RefreshAssumptions ==
    /\ IsFiniteSet(Addr)
    /\ None \notin Nat /\ None \notin Secrets
    /\ Lengths \subseteq Nat /\ Durations \subseteq Nat
    /\ MinDuration \in Nat \ {0} /\ MaxDuration \in Nat
    /\ OutsiderShares \in BOOLEAN /\ BlankShares \in BOOLEAN
    /\ MaxTime \in Nat /\ MaxEpoch \in Nat \ {0}

VARIABLES
    invited, members, former, threshold,   \* the vault's guardians
    time,                  \* block.timestamp
    document,              \* documents[documentId].id # 0
    session,               \* reshareSessions[documentId]
    shareEpoch,            \* shareEpoch[documentId]
    zeroShareSubmitted,    \* _zeroShareSubmitted[documentId][epoch]
    shares,                \* encryptedGuardianShares[documentId]
    shareCommitments,      \* guardianShareCommitments[documentId]
    vss                    \* documentVssCommitments[documentId]

guardianVars == <<invited, members, former, threshold>>
docVars == <<document, session, shareEpoch, zeroShareSubmitted, shares,
             shareCommitments, vss>>
vars == <<guardianVars, time, docVars>>

GS == INSTANCE GuardianSet

Epochs == 0 .. MaxEpoch
NextEpoch == shareEpoch + 1
NoVss == [c0 |-> None, length |-> 0, epoch |-> 0]

\* Types. The refresh session, submissions, epochs and stored shares have their types.
TypeOK ==
    /\ members \subseteq Addr /\ invited \subseteq Addr /\ former \subseteq Addr
    /\ threshold \in Nat
    /\ time \in Nat
    /\ document \in BOOLEAN
    /\ session \in [deadline : Nat, submittedCount : 0 .. Cardinality(Addr),
                    active : BOOLEAN]
    /\ shareEpoch \in Epochs
    /\ zeroShareSubmitted \in [1 .. MaxEpoch -> SUBSET Addr]
    /\ shares \in [Addr -> Epochs \cup {None}]
    /\ shareCommitments \in [Addr -> Epochs \cup {None}]
    /\ vss \in [c0 : Secrets \cup {None}, length : Nat, epoch : Epochs]

Init ==
    /\ GS!Init
    /\ time = 1
    /\ document = FALSE
    /\ session = [deadline |-> 0, submittedCount |-> 0, active |-> FALSE]
    /\ shareEpoch = 0
    /\ zeroShareSubmitted = [e \in 1 .. MaxEpoch |-> {}]
    /\ shares = [a \in Addr |-> None]
    /\ shareCommitments = [a \in Addr |-> None]
    /\ vss = NoVss

-----------------------------------------------------------------------------

\* createVault, acceptGuardianInvite and executeVaultReconfiguration.
Governance ==
    /\ GS!Next
    /\ UNCHANGED <<time, docVars>>

\* addDocument by guardian a with shares for the accounts in list.  The
\* contract takes any list; the client passes the vault's guardians.
AddDocument(a, list) ==
    /\ ~document
    /\ a \in members
    /\ OutsiderShares \/ list \subseteq members
    /\ document' = TRUE
    /\ shares' = [g \in Addr |-> IF g \in list THEN 0 ELSE shares[g]]
    /\ shareCommitments' = [g \in Addr |-> IF g \in list THEN 0
                                           ELSE shareCommitments[g]]
    /\ UNCHANGED <<guardianVars, time, session, shareEpoch, zeroShareSubmitted,
                   vss>>

SetDocumentVSSCommitments(a, c0, len) ==
    /\ document
    /\ a \in members
    /\ len >= 2
    /\ vss' = [c0 |-> c0, length |-> len, epoch |-> shareEpoch]
    /\ UNCHANGED <<guardianVars, time, document, session, shareEpoch,
                   zeroShareSubmitted, shares, shareCommitments>>

StartShareRefresh(a, duration) ==
    /\ document
    /\ a \in members
    /\ ~session.active
    /\ duration \in MinDuration .. MaxDuration
    /\ shareEpoch < MaxEpoch
    /\ session' = [deadline |-> time + duration, submittedCount |-> 0,
                   active |-> TRUE]
    /\ UNCHANGED <<guardianVars, time, document, shareEpoch, zeroShareSubmitted,
                   shares, shareCommitments, vss>>

\* Mutant: no ZeroShareAlreadySubmitted check.
MaySubmit_Again(a) ==
    /\ session.active
    /\ time <= session.deadline
    /\ a \in members

MaySubmit(a) ==
    /\ session.active
    /\ time <= session.deadline
    /\ a \in members
    /\ a \notin zeroShareSubmitted[NextEpoch]

\* A well-formed commitment vector; an ill-formed one reverts.
SubmitZeroShareCommitment(a) ==
    /\ document
    /\ MaySubmit(a)
    /\ zeroShareSubmitted' = [zeroShareSubmitted EXCEPT ![NextEpoch] = @ \cup {a}]
    /\ session' = [session EXCEPT !.submittedCount = @ + 1]
    /\ UNCHANGED <<guardianVars, time, document, shareEpoch, shares,
                   shareCommitments, vss>>

\* guardiansList has no duplicates, so it is a set.
ValidList(list) ==
    /\ Cardinality(list) = Cardinality(members)
    /\ \A g \in list : g \in members

EnoughSubmitted == session.submittedCount >= Cardinality(members)

\* A new commitment vector keeps the constant term and the length.
ValidCommitments(c0, len) ==
    \/ vss # NoVss /\ len = vss.length /\ c0 = vss.c0
    \/ vss = NoVss /\ len >= 2

ClosedSession == [session EXCEPT !.active = FALSE]

\* _applyShareRefresh by guardian a: new shares for the accounts in list, an
\* empty one for those in blank, whose share commitment is left as it was.
ApplyShareRefresh(a, list, blank, newVss) ==
    /\ document
    /\ session.active
    /\ a \in members
    /\ ValidList(list)
    /\ EnoughSubmitted
    /\ blank \subseteq list /\ (BlankShares \/ blank = {})
    /\ \/ newVss = NoVss /\ vss' = vss
       \/ /\ newVss # NoVss
          /\ ValidCommitments(newVss.c0, newVss.length)
          /\ vss' = newVss
    /\ shares' = [g \in Addr |-> IF g \in blank THEN None
                                 ELSE IF g \in list THEN NextEpoch
                                 ELSE shares[g]]
    /\ shareCommitments' = [g \in Addr |-> IF g \in list \ blank THEN NextEpoch
                                           ELSE shareCommitments[g]]
    /\ session' = ClosedSession
    /\ shareEpoch' = NextEpoch
    /\ UNCHANGED <<guardianVars, time, document, zeroShareSubmitted>>

Tick ==
    /\ time < MaxTime
    /\ time' = time + 1
    /\ UNCHANGED <<guardianVars, docVars>>

\* The vectors a guardian passes to the next applyShareRefresh.
Vectors == [c0 : Secrets, length : Lengths, epoch : {NextEpoch}] \cup {NoVss}

Next ==
    \/ Governance
    \/ Tick
    \/ \E a \in Addr :
         \/ \E list \in SUBSET Addr : AddDocument(a, list)
         \/ \E c0 \in Secrets, len \in Lengths :
              SetDocumentVSSCommitments(a, c0, len)
         \/ \E duration \in Durations : StartShareRefresh(a, duration)
         \/ SubmitZeroShareCommitment(a)
         \/ \E list, blank \in SUBSET Addr, newVss \in Vectors :
              ApplyShareRefresh(a, list, blank, newVss)

Spec == Init /\ [][Next]_vars

-----------------------------------------------------------------------------
(* Properties                                                              *)

\* startShareRefresh resets the counter but not the submissions on file for
\* the next epoch, so the two agree only because a session can end in no other
\* way than by moving to the next epoch: a count never includes a guardian
\* twice or one of an earlier session.
SubmissionsCounted ==
    shareEpoch < MaxEpoch =>
      /\ session.active =>
           session.submittedCount = Cardinality(zeroShareSubmitted[NextEpoch])
      /\ ~session.active => zeroShareSubmitted[NextEpoch] = {}

\* applyShareRefresh: "irreversibly bumps the share epoch, invalidating all
\* pre-refresh share material for this document".  Whatever a current guardian
\* has on file, the share and the commitment an approval is checked against,
\* belongs to the current epoch, also for guardians that joined or left since.
SharesAreCurrent ==
    \A g \in members : /\ shares[g] \in {None, shareEpoch}
                       /\ shareCommitments[g] \in {None, shareEpoch}

\* A refresh lacks the contribution of at most as many current guardians as
\* there are contributors that were removed before it was applied.
RefreshQuorum ==
    [][LET submitted == zeroShareSubmitted[NextEpoch]
       IN  shareEpoch' # shareEpoch =>
             Cardinality(members \ submitted) <= Cardinality(submitted \cap former)]_vars

=============================================================================
