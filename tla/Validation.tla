----------------------------- MODULE Validation -----------------------------
(***************************************************************************)
(* What the aggregator accepts (aggregator/validation.py).  An SLA payload *)
(* is named by its content hash, so an SLA identifier stands for its       *)
(* payload and the payload's fields are functions of it.  Submissions are  *)
(* records that keep what the validation chains tell apart: `well_formed'  *)
(* sums up parse_json, schema_version and the attachment rules, and a      *)
(* signature is the AS it names with whether that AS's key verifies it.    *)
(***************************************************************************)
EXTENDS Integers, FiniteSets, SequencesExt

CONSTANTS
    SLAs,           \* SLA payloads
    Cosigners,      \* Cosigners[s]: payload.cosigners, a sequence of ASes
    Path,           \* Path[s]: the ASes of payload.path, in order
    ValidFrom,      \* ValidFrom[s], ValidUntil[s]: the validity window
    ValidUntil,
    Bound,          \* Bound[s]: the bounds that are not None, by metric
    PricePerGB,     \* PricePerGB[s]
    DedupWindow     \* dedup_window_minutes

-----------------------------------------------------------------------------
(* POST /sla: [sla, sla_id, well_formed, signatures].                      *)

\* Mutant: the set of signers is compared, and nobody counts them.
SignedBySomeone(b) ==
    /\ {b.signatures[n].isd_as : n \in DOMAIN b.signatures} = ToSet(Cosigners[b.sla])
    /\ \A n \in DOMAIN b.signatures : b.signatures[n].verifies

SignedByEachCosigner(b) ==
    LET signers == [n \in DOMAIN b.signatures |-> b.signatures[n].isd_as]
    IN  /\ Len(b.signatures) = Len(Cosigners[b.sla])
        /\ ToSet(signers) = ToSet(Cosigners[b.sla])
        /\ Len(signers) = Cardinality(ToSet(Cosigners[b.sla]))
        /\ \A n \in DOMAIN b.signatures : b.signatures[n].verifies

ValidSLA(b) ==
    /\ b.well_formed
    /\ b.sla_id = b.sla
    /\ ValidFrom[b.sla] < ValidUntil[b.sla]
    /\ DOMAIN Bound[b.sla] # {}
    /\ Len(Cosigners[b.sla]) >= 2
    /\ Cosigners[b.sla] = Path[b.sla]
    /\ SignedByEachCosigner(b)

InForce(s, t) == ValidFrom[s] <= t /\ t < ValidUntil[s]

-----------------------------------------------------------------------------
(* POST /claim: [sla, claimant, gb, paid, well_formed, signer, verifies].  *)

\* The source AS, the first cosigner, may buy what it signed.
SelfDealing(b) ==
    /\ b.claimant \in ToSet(Cosigners[b.sla])
    /\ Cosigners[b.sla][1] # b.claimant

ValidClaim(b, known, t) ==
    /\ b.well_formed
    /\ b.sla \in known
    /\ InForce(b.sla, t)
    /\ ~SelfDealing(b)
    /\ b.gb > 0
    /\ b.paid = PricePerGB[b.sla] * b.gb
    /\ b.signer = b.claimant /\ b.verifies

-----------------------------------------------------------------------------
(* POST /complaint: [sla, complainant, metric, measured, observed_at,      *)
(* path_used, well_formed, signer, verifies].                              *)

\* Mutant: a complaint about an SLA nobody has posted passes.
ComplaintUnchecked(b, known, t) ==
    /\ b.well_formed
    /\ InForce(b.sla, t)
    /\ b.path_used = Path[b.sla]
    /\ b.complainant \notin ToSet(Cosigners[b.sla])
    /\ b.metric \in DOMAIN Bound[b.sla]
    /\ b.signer = b.complainant /\ b.verifies

ValidComplaint(b, known, t) ==
    /\ b.well_formed
    /\ b.sla \in known
    /\ InForce(b.sla, t)
    /\ b.path_used = Path[b.sla]
    /\ b.complainant \notin ToSet(Cosigners[b.sla])
    /\ b.metric \in DOMAIN Bound[b.sla]
    /\ b.signer = b.complainant /\ b.verifies

Apart(t, u) == IF t < u THEN u - t ELSE t - u

SameVoice(b, c) ==
    b.complainant = c.complainant /\ b.sla = c.sla /\ b.metric = c.metric

\* Mutant: `<' for `<='.
DuplicateStrictly(b, stored) ==
    \E n \in DOMAIN stored :
        /\ SameVoice(b, stored[n])
        /\ Apart(b.observed_at, stored[n].observed_at) < DedupWindow

\* Mutant: only the last complaint of the same voice is compared.
DuplicateOfLatest(b, stored) ==
    \E n \in DOMAIN stored :
        /\ SameVoice(b, stored[n])
        /\ \A m \in DOMAIN stored : SameVoice(b, stored[m]) => m <= n
        /\ Apart(b.observed_at, stored[n].observed_at) <= DedupWindow

\* The last step: an earlier complaint of the same voice is too close.
DuplicateComplaint(b, stored) ==
    \E n \in DOMAIN stored :
        /\ SameVoice(b, stored[n])
        /\ Apart(b.observed_at, stored[n].observed_at) <= DedupWindow
=============================================================================
