-------------------------- MODULE AccessPassesProofs --------------------------
(***************************************************************************)
(* Proofs about AccessPasses for every set of accounts and documents and   *)
(* any number of tokens: the counters of _update agree with the owners of  *)
(* the tokens, and versions and balances implement AccessGrants.           *)
(***************************************************************************)
EXTENDS AccessPasses, FiniteSetTheorems, TLAPS

Owned(u) == {t \in Tokens : tokenOwner[t] = u}
Active == {t \in Tokens : tokenOwner[t] # Nobody}

\* The inductive invariant.
PassInv == TypeOK /\ CountersMatchOwners /\ VersionsBound

-----------------------------------------------------------------------------
(* The owners of tokens                                                    *)

\* The ids that can be minted are finitely many, and so is every set of them.
LEMMA TokensFinite ==
    /\ IsFiniteSet(Tokens) /\ Cardinality(Tokens) = MaxToken
    /\ \A S \in SUBSET Tokens : /\ IsFiniteSet(S)
                                /\ Cardinality(S) \in 0 .. MaxToken
                                /\ S # {} => Cardinality(S) > 0
<1>1. MaxToken \in Nat
  BY PassAssumptions
<1>2. IsFiniteSet(Tokens) /\ Cardinality(Tokens) = MaxToken
  BY <1>1, FS_Interval DEF Tokens
<1>3. ASSUME NEW S \in SUBSET Tokens
      PROVE  /\ IsFiniteSet(S)
             /\ Cardinality(S) \in 0 .. MaxToken
             /\ S # {} => Cardinality(S) > 0
  <2>1. IsFiniteSet(S) /\ Cardinality(S) <= MaxToken
    BY <1>2, FS_Subset
  <2>2. Cardinality(S) \in Nat
    BY <2>1, FS_CardinalityType
  <2>3. Cardinality(S) = 0 <=> S = {}
    BY <2>1, FS_EmptySet
  <2> QED
    BY <1>1, <2>1, <2>2, <2>3
<1> QED
  BY <1>2, <1>3

\* The owner of a token has a positive balance.
LEMMA OwnersHoldPasses ==
    ASSUME PassInv, NEW t \in Tokens, tokenOwner[t] # Nobody
    PROVE  tokenOwner[t] \in Addr /\ balance[tokenOwner[t]] > 0 /\ supply > 0
<1>1. tokenOwner[t] \in Addr
  BY DEF PassInv, TypeOK
<1>2. t \in Owned(tokenOwner[t]) /\ t \in Active
  BY DEF Owned, Active
<1>3. Owned(tokenOwner[t]) \in SUBSET Tokens /\ Active \in SUBSET Tokens
  BY DEF Owned, Active
<1>4. Cardinality(Owned(tokenOwner[t])) > 0 /\ Cardinality(Active) > 0
  BY <1>2, <1>3, TokensFinite
<1> QED
  BY <1>1, <1>4 DEF PassInv, CountersMatchOwners, Owned, Active

\* _update keeps the balances equal to the number of tokens owned.
LEMMA UpdateKeepsBalances ==
    ASSUME PassInv, NEW to \in Addr \cup {Nobody}, NEW t \in Tokens, Update(to, t),
           NEW u \in Addr
    PROVE  balance'[u] = Cardinality(Owned(u)')
<1> DEFINE from == tokenOwner[t]
<1>1. tokenOwner' = [tokenOwner EXCEPT ![t] = to] /\ balance' = NewBalance(from, to)
  BY DEF Update
<1>2. tokenOwner \in [Tokens -> Addr \cup {Nobody}]
  BY DEF PassInv, TypeOK
<1>3. balance[u] = Cardinality(Owned(u)) /\ balance[u] \in Nat
  BY DEF PassInv, CountersMatchOwners, TypeOK, Owned
<1>4. IsFiniteSet(Owned(u))
  <2>1. Owned(u) \in SUBSET Tokens
    BY DEF Owned
  <2> QED
    BY <2>1, TokensFinite
<1>5. t \in Owned(u) <=> from = u
  BY DEF Owned
<1>6. Nobody \notin Addr
  BY PassAssumptions
<1>7. from = u => balance[u] > 0
  BY <1>6, OwnersHoldPasses
<1>8. CASE to = u
  <2>0. Cardinality(Owned(u) \cup {t}) = IF t \in Owned(u) THEN Cardinality(Owned(u))
          ELSE Cardinality(Owned(u)) + 1
    BY <1>4, FS_AddElement
  <2>1. Owned(u)' = Owned(u) \cup {t}
    BY <1>1, <1>2, <1>8 DEF Owned
  <2>2. Cardinality(Owned(u)') = IF from = u THEN balance[u] ELSE balance[u] + 1
    BY <2>0, <2>1, <1>3, <1>5
  <2>3. balance'[u] = IF from = u THEN balance[u] ELSE balance[u] + 1
    BY <1>1, <1>3, <1>7, <1>8 DEF NewBalance
  <2> QED
    BY <2>2, <2>3
<1>9. CASE to # u
  <2>0. Cardinality(Owned(u) \ {t}) = IF t \in Owned(u) THEN Cardinality(Owned(u)) - 1
          ELSE Cardinality(Owned(u))
    BY <1>4, FS_RemoveElement
  <2>1. Owned(u)' = Owned(u) \ {t}
    BY <1>1, <1>2, <1>9 DEF Owned
  <2>2. Cardinality(Owned(u)') = IF from = u THEN balance[u] - 1 ELSE balance[u]
    BY <2>0, <2>1, <1>3, <1>5
  <2>3. balance'[u] = IF from = u THEN balance[u] - 1 ELSE balance[u]
    BY <1>1, <1>3, <1>7, <1>9 DEF NewBalance
  <2> QED
    BY <2>2, <2>3
<1> QED
  BY <1>8, <1>9

\* _update keeps the supply equal to the number of tokens with an owner.
LEMMA UpdateKeepsSupply ==
    ASSUME PassInv, NEW to \in Addr \cup {Nobody}, NEW t \in Tokens, Update(to, t),
           tokenOwner[t] # Nobody \/ to # Nobody
    PROVE  supply' = Cardinality(Active')
<1> DEFINE from == tokenOwner[t]
<1>1. tokenOwner' = [tokenOwner EXCEPT ![t] = to] /\ supply' = NewSupply(from, to)
  BY DEF Update
<1>2. tokenOwner \in [Tokens -> Addr \cup {Nobody}]
  BY DEF PassInv, TypeOK
<1>3. supply = Cardinality(Active) /\ supply \in Nat
  BY DEF PassInv, CountersMatchOwners, TypeOK, Active
<1>4. IsFiniteSet(Active)
  <2>1. Active \in SUBSET Tokens
    BY DEF Active
  <2> QED
    BY <2>1, TokensFinite
<1>5. t \in Active <=> from # Nobody
  BY DEF Active
<1>6. from # Nobody => supply > 0
  BY OwnersHoldPasses
<1>7. CASE to # Nobody
  <2>0. Cardinality(Active \cup {t}) = IF t \in Active THEN Cardinality(Active)
          ELSE Cardinality(Active) + 1
    BY <1>4, FS_AddElement
  <2>1. Active' = Active \cup {t}
    BY <1>1, <1>2, <1>7 DEF Active
  <2>2. Cardinality(Active') = IF from # Nobody THEN supply ELSE supply + 1
    BY <2>0, <2>1, <1>3, <1>5
  <2> QED
    BY <2>2, <1>1, <1>7 DEF NewSupply
<1>8. CASE to = Nobody
  <2>0. Cardinality(Active \ {t}) = IF t \in Active THEN Cardinality(Active) - 1
          ELSE Cardinality(Active)
    BY <1>4, FS_RemoveElement
  <2>1. Active' = Active \ {t}
    BY <1>1, <1>2, <1>8 DEF Active
  <2>2. Cardinality(Active') = supply - 1 /\ from # Nobody
    BY <2>0, <2>1, <1>3, <1>5, <1>8
  <2> QED
    BY <2>2, <1>1, <1>3, <1>6, <1>8 DEF NewSupply
<1> QED
  BY <1>7, <1>8

-----------------------------------------------------------------------------
(* Versions                                                                *)

\* _update moves the version that grants are compared with for the sender
\* alone, and only when the sender is left without a pass; every account that
\* has a pass afterwards has a version.
LEMMA UpdateMovesVersion ==
    ASSUME PassInv, NEW to \in Addr \cup {Nobody}, NEW t \in Tokens, Update(to, t),
           NEW u \in Addr
    PROVE  /\ version' \in [Addr -> Nat]
           /\ u = tokenOwner[t] /\ balance'[u] = 0 =>
                CurrentVersion(u)' = CurrentVersion(u) + 1
           /\ ~(u = tokenOwner[t] /\ balance'[u] = 0) =>
                CurrentVersion(u)' = CurrentVersion(u)
           /\ balance'[u] > 0 => version'[u] >= 1
<1> DEFINE from == tokenOwner[t]
<1>1. balance' = NewBalance(from, to) /\ version' = NewVersion(from, to)
  BY DEF Update
<1>2. version \in [Addr -> Nat] /\ balance \in [Addr -> Nat]
  BY DEF PassInv, TypeOK
<1>3. balance[u] > 0 => version[u] >= 1
  BY DEF PassInv, VersionsBound, OwnsToken
<1>4. Nobody \notin Addr
  BY PassAssumptions
<1>5. from = u => balance[u] > 0
  BY <1>4, OwnersHoldPasses
<1>6. version' \in [Addr -> Nat]
  BY <1>1, <1>2 DEF NewVersion
<1>7. balance'[u] = LET taken == IF u = from /\ balance[u] > 0
                                 THEN balance[u] - 1 ELSE balance[u]
                    IN  IF u = to THEN taken + 1 ELSE taken
  BY <1>1 DEF NewBalance
<1>8. version'[u] = LET started == IF u = to /\ version[u] = 0 THEN 1 ELSE version[u]
                    IN  IF u = from /\ balance'[u] = 0 THEN started + 1 ELSE started
  BY <1>1 DEF NewVersion
<1>9. balance[u] \in Nat /\ version[u] \in Nat
  BY <1>2
<1> QED
  BY <1>3, <1>5, <1>6, <1>7, <1>8, <1>9 DEF CurrentVersion

\* The invariant survives a step that leaves documents and grants alone.
LEMMA UpdateKeepsInv ==
    ASSUME PassInv, NEW to \in Addr \cup {Nobody}, NEW t \in Tokens, Update(to, t),
           tokenOwner[t] # Nobody \/ to # Nobody,
           tokenIdCounter' \in 0 .. MaxToken,
           UNCHANGED <<guardianVars, grantVars, crossVars>>
    PROVE  PassInv'
<1>1. CountersMatchOwners'
  BY UpdateKeepsBalances, UpdateKeepsSupply DEF CountersMatchOwners, Owned, Active
<1>2. TypeOK'
  <2>1. tokenOwner' \in [Tokens -> Addr \cup {Nobody}]
    BY DEF Update, PassInv, TypeOK
  <2>2. \A u \in Addr : balance'[u] \in 0 .. MaxToken
    <3>1. \A u \in Addr : {s \in Tokens : tokenOwner'[s] = u} \in SUBSET Tokens
      OBVIOUS
    <3> QED
      BY <1>1, <3>1, TokensFinite DEF CountersMatchOwners
  <2>3. balance' \in [Addr -> 0 .. MaxToken]
    <3>1. balance' = [u \in Addr |-> balance'[u]]
      BY DEF Update, NewBalance
    <3> QED
      BY <2>2, <3>1
  <2>4. supply' \in 0 .. MaxToken
    <3>1. {s \in Tokens : tokenOwner'[s] # Nobody} \in SUBSET Tokens
      OBVIOUS
    <3> QED
      BY <1>1, <3>1, TokensFinite DEF CountersMatchOwners
  <2>5. version' \in [Addr -> Nat]
    BY DEF Update, NewVersion, PassInv, TypeOK
  <2> QED
    BY <2>1, <2>3, <2>4, <2>5
    DEF PassInv, TypeOK, guardianVars, grantVars, crossVars
<1>3. VersionsBound'
  <2>1. \A u \in Addr : CurrentVersion(u)' >= CurrentVersion(u)
    <3>1. \A u \in Addr : CurrentVersion(u) \in Nat
      BY DEF PassInv, TypeOK, CurrentVersion
    <3>2. ASSUME NEW u \in Addr PROVE CurrentVersion(u)' >= CurrentVersion(u)
      <4>1. \/ CurrentVersion(u)' = CurrentVersion(u) + 1
            \/ CurrentVersion(u)' = CurrentVersion(u)
        BY UpdateMovesVersion
      <4> QED
        BY <3>1, <4>1
    <3> QED
      BY <3>2
  <2>2. \A u \in Addr : OwnsToken(u)' => version'[u] >= 1
    BY UpdateMovesVersion DEF OwnsToken
  <2>3. \A d \in Docs, u \in Addr : docVersion'[d][u] <= CurrentVersion(u)'
    <3>1. \A u \in Addr : CurrentVersion(u) \in Nat /\ CurrentVersion(u)' \in Nat
      BY <1>2 DEF PassInv, TypeOK, CurrentVersion
    <3>2. docVersion' = docVersion /\ docVersion \in [Docs -> [Addr -> Nat]]
      BY DEF grantVars, PassInv, TypeOK
    <3>3. \A d \in Docs, u \in Addr : docVersion[d][u] <= CurrentVersion(u)
      BY DEF PassInv, VersionsBound
    <3> QED
      BY <2>1, <3>1, <3>2, <3>3
  <2> QED
    BY <2>2, <2>3 DEF VersionsBound
<1> QED
  BY <1>1, <1>2, <1>3 DEF PassInv

-----------------------------------------------------------------------------
(* The invariant                                                           *)

\* _grantAccess writes the version in force: no grant is ahead of it.
LEMMA GrantKeepsInv ==
    ASSUME PassInv, NEW d \in Docs, NEW u \in Addr, GrantAccess(d, u),
           uploaded' \subseteq Docs,
           UNCHANGED <<guardianVars, tokenVars, version, crossVars>>
    PROVE  PassInv'
<1>1. hasAccess \in [Docs -> SUBSET Addr] /\ docVersion \in [Docs -> [Addr -> Nat]]
  BY DEF PassInv, TypeOK
<1>2. CurrentVersion(u) \in Nat
  BY DEF PassInv, TypeOK, CurrentVersion
<1>3. hasAccess' \in [Docs -> SUBSET Addr]
  BY <1>1 DEF GrantAccess
<1>4. docVersion' \in [Docs -> [Addr -> Nat]]
  BY <1>1, <1>2 DEF GrantAccess
<1>5. TypeOK'
  BY <1>3, <1>4 DEF PassInv, TypeOK, guardianVars, tokenVars, crossVars
<1>6. CountersMatchOwners'
  BY DEF PassInv, CountersMatchOwners, tokenVars
<1>7. \A e \in Docs, w \in Addr :
        docVersion'[e][w] = IF e = d /\ w = u THEN CurrentVersion(u) ELSE docVersion[e][w]
  BY <1>1 DEF GrantAccess
<1>8. VersionsBound'
  <2>1. \A w \in Addr : CurrentVersion(w)' = CurrentVersion(w) /\ CurrentVersion(w) \in Nat
    BY DEF CurrentVersion, PassInv, TypeOK
  <2>2. \A e \in Docs, w \in Addr : docVersion'[e][w] <= CurrentVersion(w)'
    BY <1>7, <2>1 DEF PassInv, VersionsBound
  <2> QED
    BY <2>2 DEF PassInv, VersionsBound, OwnsToken, tokenVars
<1> QED
  BY <1>5, <1>6, <1>8 DEF PassInv

\* revokeAccess lowers one grant to 0 and never lowers a version.
LEMMA RevokeKeepsInv ==
    ASSUME PassInv, NEW a \in Addr, NEW d \in Docs, NEW u \in Addr, RevokeAccess(a, d, u)
    PROVE  PassInv'
<1>1. /\ hasAccess \in [Docs -> SUBSET Addr] /\ docVersion \in [Docs -> [Addr -> Nat]]
      /\ version \in [Addr -> Nat] /\ revocationNonce \in [Docs -> [Addr -> Nat]]
  BY DEF PassInv, TypeOK
<1>2. hasAccess' \in [Docs -> SUBSET Addr] /\ docVersion' \in [Docs -> [Addr -> Nat]]
  BY <1>1 DEF RevokeAccess
<1>3. version' \in [Addr -> Nat]
  BY <1>1 DEF RevokeAccess
<1>4. revocationNonce' \in [Docs -> [Addr -> Nat]]
  BY <1>1 DEF RevokeAccess
<1>5. TypeOK'
  BY <1>2, <1>3, <1>4 DEF RevokeAccess, PassInv, TypeOK, guardianVars, tokenVars
<1>6. CountersMatchOwners'
  BY DEF RevokeAccess, PassInv, CountersMatchOwners, tokenVars
<1>7. VersionsBound'
  <2>1. \A w \in Addr : version'[w] = IF w = u THEN version[w] + 1 ELSE version[w]
    BY <1>1 DEF RevokeAccess
  <2>2. \A w \in Addr : /\ CurrentVersion(w)' >= CurrentVersion(w)
                        /\ CurrentVersion(w)' \in Nat /\ CurrentVersion(w) \in Nat
    BY <1>1, <2>1 DEF CurrentVersion
  <2>3. \A e \in Docs, w \in Addr :
          docVersion'[e][w] = IF e = d /\ w = u THEN 0 ELSE docVersion[e][w]
    BY <1>1 DEF RevokeAccess
  <2>4. \A e \in Docs, w \in Addr : docVersion[e][w] <= CurrentVersion(w)
                                    /\ docVersion[e][w] \in Nat
    BY <1>1 DEF PassInv, VersionsBound
  <2>5. \A e \in Docs, w \in Addr : docVersion'[e][w] <= CurrentVersion(w)'
    BY <2>2, <2>3, <2>4
  <2>6. balance' = balance /\ \A w \in Addr : balance[w] > 0 => version[w] >= 1
    BY DEF RevokeAccess, tokenVars, PassInv, VersionsBound, OwnsToken
  <2>7. \A w \in Addr : OwnsToken(w)' => version'[w] >= 1
    BY <1>1, <2>1, <2>6 DEF OwnsToken
  <2> QED
    BY <2>5, <2>7 DEF VersionsBound
<1> QED
  BY <1>5, <1>6, <1>7 DEF PassInv

\* Every step of the vault keeps the invariant.
LEMMA StepKeepsInv ==
    ASSUME PassInv, [Next]_vars
    PROVE  PassInv'
<1>1. CASE Governance
  <2>1. members' \subseteq Addr
    BY <1>1 DEF Governance, GS!Next, GS!Found, GS!Join, GS!Reconfigure, PassInv, TypeOK
  <2> QED
    BY <1>1, <2>1 DEF Governance, PassInv, TypeOK, CountersMatchOwners, VersionsBound,
                      CurrentVersion, OwnsToken, tokenVars, grantVars, crossVars
<1>2. ASSUME NEW a \in Addr, NEW to \in Addr, MintAccessToken(a, to)
      PROVE  PassInv'
  <2>1. Nobody \notin Addr /\ MaxToken \in Nat
    BY PassAssumptions
  <2>2. tokenIdCounter + 1 \in Tokens /\ tokenIdCounter' \in 0 .. MaxToken
    BY <1>2, <2>1 DEF MintAccessToken, PassInv, TypeOK, Tokens
  <2> QED
    BY <1>2, <2>1, <2>2, UpdateKeepsInv DEF MintAccessToken
<1>3. ASSUME NEW t \in Tokens, NEW to \in Addr \cup {Nobody}, tokenOwner[t] # Nobody,
             Update(to, t), UNCHANGED <<guardianVars, tokenIdCounter, grantVars, crossVars>>
      PROVE  PassInv'
  <2>1. tokenIdCounter' \in 0 .. MaxToken
    BY <1>3 DEF PassInv, TypeOK
  <2> QED
    BY <1>3, <2>1, UpdateKeepsInv
<1>4. ASSUME NEW t \in Tokens, BurnAccessToken(t) \/ \E to \in Addr : TransferToken(t, to)
      PROVE  PassInv'
  BY <1>3, <1>4 DEF BurnAccessToken, TransferToken
<1>5. ASSUME NEW a \in Addr, NEW d \in Docs, AddDocument(a, d)
      PROVE  PassInv'
  <2>1. uploaded' \subseteq Docs
    BY <1>5 DEF AddDocument, PassInv, TypeOK
  <2> QED
    BY <1>5, <2>1, GrantKeepsInv DEF AddDocument
<1>6. ASSUME NEW u \in Addr, NEW d \in Docs, ApproveRequest(d, u)
      PROVE  PassInv'
  <2>1. uploaded' \subseteq Docs
    BY <1>6 DEF ApproveRequest, PassInv, TypeOK
  <2> QED
    BY <1>6, <2>1, GrantKeepsInv DEF ApproveRequest
<1>7. ASSUME NEW a \in Addr, NEW u \in Addr, NEW d \in Docs, RevokeAccess(a, d, u)
      PROVE  PassInv'
  BY <1>7, RevokeKeepsInv
<1>8. ASSUME NEW on \in BOOLEAN, SetCrossChainRevocationEnabled(on)
      PROVE  PassInv'
  BY <1>8 DEF SetCrossChainRevocationEnabled, PassInv, TypeOK, CountersMatchOwners,
              VersionsBound, CurrentVersion, OwnsToken, guardianVars, tokenVars, grantVars
<1>9. CASE UNCHANGED vars
  BY <1>9 DEF vars, PassInv, TypeOK, CountersMatchOwners, VersionsBound,
              CurrentVersion, OwnsToken, guardianVars, tokenVars, grantVars, crossVars
<1> QED
  BY <1>1, <1>2, <1>4, <1>5, <1>6, <1>7, <1>8, <1>9 DEF Next

\* Nothing is minted, granted or counted in a new vault.
LEMMA InitEstablishesInv ==
    ASSUME Init
    PROVE  PassInv
<1>1. MaxToken \in Nat /\ Nobody \notin Addr
  BY PassAssumptions
<1>2. TypeOK
  <2>1. /\ members \subseteq Addr
        /\ tokenOwner \in [Tokens -> Addr \cup {Nobody}]
        /\ tokenIdCounter \in 0 .. MaxToken /\ supply \in 0 .. MaxToken
    BY <1>1 DEF Init, GS!Init
  <2>2. balance \in [Addr -> 0 .. MaxToken] /\ version \in [Addr -> Nat]
    BY <1>1 DEF Init
  <2>3. uploaded \subseteq Docs /\ hasAccess \in [Docs -> SUBSET Addr]
    BY DEF Init
  <2>4. docVersion \in [Docs -> [Addr -> Nat]] /\ revocationNonce \in [Docs -> [Addr -> Nat]]
    <3>1. [u \in Addr |-> 0] \in [Addr -> Nat]
      OBVIOUS
    <3> QED
      BY <3>1 DEF Init
  <2>5. broadcasting \in BOOLEAN
    BY DEF Init
  <2> QED
    BY <2>1, <2>2, <2>3, <2>4, <2>5 DEF TypeOK
<1>3. \A u \in Addr : {t \in Tokens : tokenOwner[t] = u} = {}
  BY <1>1 DEF Init
<1>4. {t \in Tokens : tokenOwner[t] # Nobody} = {}
  BY DEF Init
<1>5. CountersMatchOwners
  BY <1>3, <1>4, FS_EmptySet DEF Init, CountersMatchOwners
<1>6. VersionsBound
  BY DEF Init, VersionsBound, CurrentVersion, OwnsToken
<1> QED
  BY <1>2, <1>5, <1>6 DEF PassInv

\* The inductive invariant of the passes.
THEOREM PassInvariant == Spec => []PassInv
<1>1. Init => PassInv
  BY InitEstablishesInv
<1>2. PassInv /\ [Next]_vars => PassInv'
  BY StepKeepsInv
<1> QED
  BY <1>1, <1>2, PTL DEF Spec

\* Every reachable state of the passes, grants and revocation nonces is well
\* typed; in particular the counters of _update stay within the tokens minted.
THEOREM TypeCorrect == Spec => []TypeOK
<1>1. PassInv => TypeOK
  BY DEF PassInv
<1> QED
  BY <1>1, PassInvariant, PTL

\* The balances and the supply kept by _update count the tokens with an owner,
\* for any number of accounts, tokens and documents.
THEOREM CountersCorrect == Spec => []CountersMatchOwners
<1>1. PassInv => CountersMatchOwners
  BY DEF PassInv
<1> QED
  BY <1>1, PassInvariant, PTL

\* No grant is ever ahead of the version of its account.
THEOREM VersionsCorrect == Spec => []VersionsBound
<1>1. PassInv => VersionsBound
  BY DEF PassInv
<1> QED
  BY <1>1, PassInvariant, PTL

-----------------------------------------------------------------------------
(* Versions and balances implement AccessGrants                            *)

\* What the state of the vault means for AccessGrants.
GrantedPairs == {p \in Docs \X Addr : Granted(p[1], p[2])}
Holders == {u \in Addr : OwnsToken(u)}

\* After _update the holders are those it leaves with a balance, and the
\* grants that are gone are those of a sender left without a pass.
LEMMA UpdateAbstractly ==
    ASSUME PassInv, NEW to \in Addr \cup {Nobody}, NEW t \in Tokens, Update(to, t),
           UNCHANGED grantVars, NEW u \in Addr
    PROVE  /\ OwnsToken(u)' <=> u = to \/ (OwnsToken(u) /\ ~(u = tokenOwner[t] /\ balance'[u] = 0))
           /\ u = tokenOwner[t] => OwnsToken(u)
           /\ u = to => balance'[u] # 0
           /\ \A d \in Docs : Granted(d, u)' <=>
                Granted(d, u) /\ ~(u = tokenOwner[t] /\ balance'[u] = 0)
<1>1. balance \in [Addr -> Nat] /\ Nobody \notin Addr
  BY PassAssumptions DEF PassInv, TypeOK
<1>2. u = tokenOwner[t] => balance[u] > 0
  BY <1>1, OwnersHoldPasses
<1>3. balance'[u] = LET taken == IF u = tokenOwner[t] /\ balance[u] > 0
                                 THEN balance[u] - 1 ELSE balance[u]
                    IN  IF u = to THEN taken + 1 ELSE taken
  BY DEF Update, NewBalance
<1>4. /\ OwnsToken(u)' <=> u = to \/ (OwnsToken(u) /\ ~(u = tokenOwner[t] /\ balance'[u] = 0))
      /\ u = tokenOwner[t] => OwnsToken(u)
      /\ u = to => balance'[u] # 0
  BY <1>1, <1>2, <1>3 DEF OwnsToken
<1>5. ASSUME NEW d \in Docs
      PROVE  Granted(d, u)' <=> Granted(d, u) /\ ~(u = tokenOwner[t] /\ balance'[u] = 0)
  <2>1. docVersion[d][u] <= CurrentVersion(u) /\ docVersion[d][u] \in Nat
        /\ CurrentVersion(u) \in Nat
    BY DEF PassInv, VersionsBound, TypeOK, CurrentVersion
  <2>2. CurrentVersion(u)' = IF u = tokenOwner[t] /\ balance'[u] = 0
                             THEN CurrentVersion(u) + 1 ELSE CurrentVersion(u)
    BY UpdateMovesVersion
  <2>3. hasAccess' = hasAccess /\ docVersion' = docVersion
    BY DEF grantVars
  <2> QED
    BY <2>1, <2>2, <2>3 DEF Granted
<1> QED
  BY <1>4, <1>5

\* Every mint, transfer and burn is a receipt, the loss of a last pass, both at
\* once, or invisible.
LEMMA UpdateRefines ==
    ASSUME PassInv, NEW to \in Addr \cup {Nobody}, NEW t \in Tokens, Update(to, t),
           UNCHANGED grantVars
    PROVE  [AG!Next]_(AG!agVars)
<1> DEFINE from == tokenOwner[t]
           lost == from \in Addr /\ balance'[from] = 0
<1>1. Nobody \notin Addr
  BY PassAssumptions
<1>2. Holders' = {u \in Addr : u = to \/ (u \in Holders /\ ~(u = from /\ lost))}
  BY UpdateAbstractly DEF Holders
<1>3. GrantedPairs' = {p \in GrantedPairs : ~(p[2] = from /\ lost)}
  <2>1. \A d \in Docs, u \in Addr : Granted(d, u)' <=> Granted(d, u) /\ ~(u = from /\ lost)
    BY UpdateAbstractly
  <2> QED
    BY <2>1 DEF GrantedPairs
<1>4. Holders \subseteq Addr /\ (from \in Addr => from \in Holders)
  BY UpdateAbstractly DEF Holders
<1>5. CASE ~lost /\ to = Nobody
  <2>1. Holders' = Holders /\ GrantedPairs' = GrantedPairs
    BY <1>1, <1>2, <1>3, <1>4, <1>5
  <2> QED
    BY <2>1 DEF AG!agVars, Holders, GrantedPairs
<1>6. CASE ~lost /\ to \in Addr
  <2>1. Holders' = Holders \cup {to} /\ GrantedPairs' = GrantedPairs
    BY <1>2, <1>3, <1>4, <1>6
  <2>2. AG!Receive(to)
    BY <2>1 DEF AG!Receive, Holders, GrantedPairs
  <2> QED
    BY <1>6, <2>2 DEF AG!Next
<1>7. CASE lost
  <2>1. to # from /\ from \in Addr /\ from \in Holders
    BY <1>4, <1>7, UpdateAbstractly
  <2>2. GrantedPairs' = GrantedPairs \ {p \in GrantedPairs : p[2] = from}
    BY <1>3, <1>7
  <2>3. CASE to = Nobody
    <3>1. Holders' = Holders \ {from}
      BY <1>1, <1>2, <1>4, <1>7, <2>3
    <3>2. AG!GiveUp(from)
      BY <2>1, <2>2, <3>1 DEF AG!GiveUp, AG!GrantsOf, Holders, GrantedPairs
    <3> QED
      BY <2>1, <3>2 DEF AG!Next
  <2>4. CASE to \in Addr
    <3>1. Holders' = (Holders \ {from}) \cup {to}
      BY <1>2, <1>4, <1>7, <2>4
    <3>2. AG!HandOver(from, to)
      BY <2>1, <2>2, <3>1 DEF AG!HandOver, AG!GrantsOf, Holders, GrantedPairs
    <3> QED
      BY <2>1, <2>4, <3>2 DEF AG!Next
  <2> QED
    BY <2>3, <2>4
<1> QED
  BY <1>5, <1>6, <1>7

\* _grantAccess grants one pair and touches no other.
LEMMA GrantRefines ==
    ASSUME PassInv, NEW d \in Docs, NEW u \in Addr, GrantAccess(d, u),
           UNCHANGED <<tokenVars, version>>
    PROVE  AG!Next
<1>1. /\ hasAccess \in [Docs -> SUBSET Addr] /\ docVersion \in [Docs -> [Addr -> Nat]]
  BY DEF PassInv, TypeOK
<1>2. \A w \in Addr : CurrentVersion(w)' = CurrentVersion(w)
  BY DEF CurrentVersion
<1>3. \A e \in Docs, w \in Addr :
        /\ w \in hasAccess'[e] <=> w \in hasAccess[e] \/ (e = d /\ w = u)
        /\ docVersion'[e][w] = IF e = d /\ w = u THEN CurrentVersion(u) ELSE docVersion[e][w]
  BY <1>1 DEF GrantAccess
<1>4. \A e \in Docs, w \in Addr : Granted(e, w)' <=> Granted(e, w) \/ (e = d /\ w = u)
  BY <1>2, <1>3 DEF Granted
<1>5. GrantedPairs' = GrantedPairs \cup {<<d, u>>}
  BY <1>4 DEF GrantedPairs
<1>6. Holders' = Holders
  BY DEF Holders, OwnsToken, tokenVars
<1>7. AG!Grant(d, u)
  BY <1>5, <1>6 DEF AG!Grant, Holders, GrantedPairs
<1> QED
  BY <1>7 DEF AG!Next

\* revokeAccess ends the grant of the document, keeps those of other accounts,
\* and ends all grants of an account with a pass: its version has started, so
\* the bump leaves every one of them behind.
LEMMA RevokeRefines ==
    ASSUME PassInv, NEW a \in Addr, NEW d \in Docs, NEW u \in Addr, RevokeAccess(a, d, u)
    PROVE  AG!Next
<1> DEFINE kept == {p \in GrantedPairs' : p[2] = u}
<1>1. /\ hasAccess \in [Docs -> SUBSET Addr] /\ docVersion \in [Docs -> [Addr -> Nat]]
      /\ version \in [Addr -> Nat]
  BY DEF PassInv, TypeOK
<1>2. \A w \in Addr : version'[w] = IF w = u THEN version[w] + 1 ELSE version[w]
  BY <1>1 DEF RevokeAccess
<1>3. \A e \in Docs, w \in Addr :
        /\ w \in hasAccess'[e] <=> w \in hasAccess[e] /\ ~(e = d /\ w = u)
        /\ docVersion'[e][w] = IF e = d /\ w = u THEN 0 ELSE docVersion[e][w]
  BY <1>1 DEF RevokeAccess
<1>4. \A e \in Docs, w \in Addr : w # u => (Granted(e, w)' <=> Granted(e, w))
  BY <1>2, <1>3 DEF Granted, CurrentVersion
<1>5. \A e \in Docs : Granted(e, u)' => e # d /\ Granted(e, u) /\ ~OwnsToken(u)
  <2>1. \A e \in Docs : docVersion[e][u] <= CurrentVersion(u) /\ docVersion[e][u] \in Nat
    BY <1>1 DEF PassInv, VersionsBound
  <2>2. OwnsToken(u) => version[u] >= 1
    BY DEF PassInv, VersionsBound
  <2>3. /\ version[u] \in Nat /\ CurrentVersion(u) = (IF version[u] = 0 THEN 1 ELSE version[u])
        /\ CurrentVersion(u)' = version[u] + 1
    BY <1>1, <1>2 DEF CurrentVersion
  <2>4. ASSUME NEW e \in Docs, Granted(e, u)'
        PROVE  e # d /\ Granted(e, u) /\ ~OwnsToken(u)
    <3>1. e # d /\ u \in hasAccess[e] /\ docVersion[e][u] = version[u] + 1
      BY <1>3, <2>3, <2>4 DEF Granted
    <3>2. version[u] = 0
      BY <2>1, <2>3, <3>1
    <3> QED
      BY <2>2, <2>3, <3>1, <3>2 DEF Granted
  <2> QED
    BY <2>4
<1>6. GrantedPairs' = (GrantedPairs \ {p \in GrantedPairs : p[2] = u}) \cup kept
  BY <1>4 DEF GrantedPairs
<1>7. kept \in SUBSET ({p \in GrantedPairs : p[2] = u} \ {<<d, u>>})
  BY <1>5 DEF GrantedPairs
<1>8. u \in Holders => kept = {}
  BY <1>5 DEF GrantedPairs, Holders
<1>9. Holders' = Holders
  BY DEF RevokeAccess, Holders, OwnsToken, tokenVars
<1> HIDE DEF kept
<1>10. AG!Revoke(d, u)
  BY <1>6, <1>7, <1>8, <1>9 DEF AG!Revoke, AG!GrantsOf, Holders, GrantedPairs
<1> QED
  BY <1>10 DEF AG!Next

\* Access versions and balances implement AccessGrants: a grant lasts until it
\* is revoked or its holder runs out of passes, and nothing but a new grant
\* brings it back, whatever is minted, transferred or burnt meanwhile.
THEOREM VersionsImplementGrants == Spec => ImplementsAccessGrants
<1>1. Init => AG!Init
  BY DEF Init, AG!Init, Granted, OwnsToken
<1>2. PassInv /\ [Next]_vars => [AG!Next]_(AG!agVars)
  <2> SUFFICES ASSUME PassInv, [Next]_vars
               PROVE  [AG!Next]_(AG!agVars)
    OBVIOUS
  <2>1. ASSUME UNCHANGED <<balance, version, hasAccess, docVersion>>
        PROVE  [AG!Next]_(AG!agVars)
    BY <2>1 DEF AG!agVars, Granted, OwnsToken, CurrentVersion
  <2>2. CASE Governance
    BY <2>1, <2>2 DEF Governance, tokenVars, grantVars
  <2>3. ASSUME NEW a \in Addr, NEW to \in Addr, MintAccessToken(a, to)
        PROVE  [AG!Next]_(AG!agVars)
    <3>1. tokenIdCounter + 1 \in Tokens
      BY <2>3, PassAssumptions DEF MintAccessToken, PassInv, TypeOK, Tokens
    <3> QED
      BY <2>3, <3>1, UpdateRefines DEF MintAccessToken
  <2>4. ASSUME NEW t \in Tokens, BurnAccessToken(t) \/ \E to \in Addr : TransferToken(t, to)
        PROVE  [AG!Next]_(AG!agVars)
    BY <2>4, UpdateRefines DEF BurnAccessToken, TransferToken
  <2>5. ASSUME NEW a \in Addr, NEW d \in Docs, AddDocument(a, d)
        PROVE  AG!Next
    BY <2>5, GrantRefines DEF AddDocument
  <2>6. ASSUME NEW u \in Addr, NEW d \in Docs, ApproveRequest(d, u)
        PROVE  AG!Next
    BY <2>6, GrantRefines DEF ApproveRequest
  <2>7. ASSUME NEW a \in Addr, NEW u \in Addr, NEW d \in Docs, RevokeAccess(a, d, u)
        PROVE  AG!Next
    BY <2>7, RevokeRefines
  <2>8. ASSUME NEW on \in BOOLEAN, SetCrossChainRevocationEnabled(on)
        PROVE  [AG!Next]_(AG!agVars)
    BY <2>1, <2>8 DEF SetCrossChainRevocationEnabled, tokenVars, grantVars
  <2>9. CASE UNCHANGED vars
    BY <2>1, <2>9 DEF vars, tokenVars, grantVars
  <2> QED
    BY <2>2, <2>3, <2>4, <2>5, <2>6, <2>7, <2>8, <2>9 DEF Next
<1> QED
  BY <1>1, <1>2, PassInvariant, PTL DEF Spec, ImplementsAccessGrants, AG!Spec

=============================================================================
