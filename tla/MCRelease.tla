------------------------------- MODULE MCRelease -------------------------------
(* The two tracks by which documents of a vault are released, for TLC: the  *)
(* emergency delay and the proof of life.  They share no state of the       *)
(* contract, so each behaviour is one of either.                            *)
EXTENDS EmergencyVrf, ProofOfLife

CONSTANTS v1, v2, c1, c2, k1, k2

VARIABLE track

ReleaseInit ==
    /\ track \in {"emergency", "life"}
    /\ Init /\ LifeInit

EmergencyStep == track = "emergency" /\ Next /\ UNCHANGED <<track, lifeVars>>
LifeStep == track = "life" /\ LifeNext /\ UNCHANGED <<track, vars>>

ReleaseNext == EmergencyStep \/ LifeStep

\* The coordinator answers every request that it can still answer.
ReleaseSpec ==
    /\ ReleaseInit /\ [][ReleaseNext]_<<track, vars, lifeVars>>
    /\ WF_vars(EmergencyStep /\ Fulfil)

\* The type invariants of both tracks.
ReleaseTypeOK == TypeOK /\ LifeTypeOK

\* Readers of the timestamp ring and holders of a keeper authorisation see
\* what was really recorded and signed (getMedianBlockInterval,
\* authorizeKeeperBySig).
LifeIsRecorded == RingHoldsLatest /\ MedianIsCentral /\ KeeperHasConsent

\* A schedule, once drawn, stands until the emergency ends, and no call makes
\* a post-death release due (rawFulfillRandomWords, configureVaultRelease).
DelaysAreKept == ScheduledOnce /\ UnlockOnlyByWaiting

=============================================================================
