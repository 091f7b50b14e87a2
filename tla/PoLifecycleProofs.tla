--------------------------- MODULE PoLifecycleProofs ---------------------------
(***************************************************************************)
(* Theorems about PoLifecycle, for any orders, requests, totals and roles. *)
(*                                                                         *)
(* The argument turns on the requests in flight. What a handler read and   *)
(* what it will write is a pair of rows that no other handler can touch,   *)
(* so a fact about that pair (Sound), established when the handler reads,  *)
(* is still true when it writes. If the stored row is still the one it     *)
(* read, its write takes the stored row along that pair; if it is not, the *)
(* order joins `raced`.                                                    *)
(***************************************************************************)
EXTENDS PoLifecycle, FiniteSetTheorems, TLAPS

Authorised(decided) == \E d \in decided : MayApprove(d[1], d[2])

AuthorisedFor(decided, total) ==
    \E d \in decided : d[2] = total /\ MayApprove(d[1], d[2])

Unsent == {"DRAFT", "PENDING_APPROVAL"}

\* The step from the row read to the row meant, as a step of the contract.
ContractStep(snap, row, sends) ==
    \/ /\ snap.status = "DRAFT" /\ row.status = "PENDING_APPROVAL"
       /\ row.approvalStatus = "PENDING" /\ ~sends
    \/ /\ snap.status = "DRAFT" /\ row.status = "SENT"
       /\ row.approvalStatus = snap.approvalStatus /\ sends
    \/ /\ snap.status = "PENDING_APPROVAL" /\ row.status = "SENT"
       /\ row.approvalStatus = "APPROVED" /\ sends
    \/ /\ snap.status \in {"DRAFT", "SENT"} /\ row.status = "ACKNOWLEDGED"
       /\ row.approvalStatus = "APPROVED" /\ ~sends
    \/ /\ snap.status \in {"DRAFT", "PENDING_APPROVAL", "SENT", "ACKNOWLEDGED",
                           "ACCEPTED"}
       /\ row.status = "CANCELLED"
       /\ row.approvalStatus = "REJECTED" /\ ~sends
    \/ /\ \/ snap.status = "SENT" /\ row.status = "ACKNOWLEDGED"
          \/ snap.status = "ACKNOWLEDGED" /\ row.status = "ACCEPTED"
          \/ /\ snap.status \in {"SENT", "ACKNOWLEDGED"}
             /\ row.status = "CANCELLED_BY_VENDOR"
          \/ /\ snap.status \in {"ACKNOWLEDGED", "ACCEPTED"}
             /\ row.status = "PARTIALLY_DELIVERED"
          \/ /\ snap.status \in {"ACKNOWLEDGED", "ACCEPTED", "PARTIALLY_DELIVERED"}
             /\ row.status = "DELIVERED"
       /\ row.approvalStatus = snap.approvalStatus /\ ~sends
    \/ /\ snap.status = "DRAFT" /\ row.status = "DRAFT"
       /\ row.approvalStatus = snap.approvalStatus /\ ~sends

\* What every handler makes sure of between its read and its write.
Sound(q) ==
    /\ Written(q.snap, q) = q.row
    /\ ContractStep(q.snap, q.row, q.sends)
    /\ q.row.status # q.snap.status => "status" \in q.writes
    /\ CanTransition(q.snap.status, q.row.status) \/ "status" \notin q.writes
    /\ q.row.status \in Released =>
          \/ AuthorisedFor(q.decision, q.row.total)
          \/ q.snap.status \in Released /\ q.row.total = q.snap.total
    /\ q.row.poType = "SPLIT" /\ q.row.status \in {"PENDING_APPROVAL", "SENT"} =>
          q.snap.poType = "SPLIT" /\ q.snap.status = "PENDING_APPROVAL"

\* The statuses some handler writes, or an order is created with: the others
\* of PoStatus are in the table only.
Reached == {"DRAFT", "SPLIT", "PENDING_APPROVAL", "CANCELLED"} \cup Released

\* The last conjunct carries a decision from the row a request read to the
\* moment it writes: decisions are never forgotten.
RequestsSound ==
    \A r \in Request : req[r] # NoRequest =>
        /\ Sound(req[r])
        /\ req[r].snap.status \in Released => Authorised(decisions[req[r].po])

\* A resolution in flight is of a change request that was proposed, and was
\* pending when it was read.
TalksSound ==
    \A r \in Request : talk[r] # NoRequest =>
        (talk[r].kind \in {"approve", "reject"} =>
            change[talk[r].change] # NoChange /\ talk[r].seen = "PENDING")

RevisionsStart == \A p \in PO : revision[p] >= 1

\* The inductive invariant.
IInv ==
    /\ TypeOK
    /\ \A p \in PO : po[p].status \in Reached
    /\ RequestsSound
    /\ ReleasedWithinAuthority
    /\ NoReleaseWithoutDecision
    /\ RejectedMeansCancelled
    /\ MailedOnce
    /\ IssuedHasLink
    /\ SplitNeverSent
    /\ TalksSound
    /\ RevisionsStart
    /\ RevisionCountsChanges

-------------------------------------------------------------------------------
(* The state machine, as far as the handlers use it.                       *)

LEMMA StatusValues ==
    PoStatus = {"DRAFT", "PENDING_APPROVAL", "APPROVED", "SENT", "ACKNOWLEDGED",
                "ACCEPTED", "SCHEDULED_FOR_DELIVERY", "PARTIALLY_DELIVERED",
                "LATE_FOR_DELIVERY", "DELIVERED", "INVOICED", "DISPUTE",
                "CHANGE_PENDING", "CLOSED", "CANCELLED", "CANCELLED_BY_VENDOR",
                "DECLINED", "NOT_DELIVERED", "SPLIT"}
BY DEF PoStatus, PO_TRANSITIONS

\* What may precede a withdrawal or a delivery, among the reached statuses.
LEMMA Predecessors ==
    ASSUME NEW from \in Reached
    PROVE  /\ CanTransition(from, "CANCELLED") =>
                 from \in {"DRAFT", "PENDING_APPROVAL", "SENT", "ACKNOWLEDGED",
                           "ACCEPTED"}
           /\ CanTransition(from, "PARTIALLY_DELIVERED") =>
                 from \in {"ACKNOWLEDGED", "ACCEPTED"}
           /\ CanTransition(from, "DELIVERED") =>
                 from \in {"ACKNOWLEDGED", "ACCEPTED", "PARTIALLY_DELIVERED"}
BY DEF Reached, Released, CanTransition, PO_TRANSITIONS

-------------------------------------------------------------------------------
(* Change requests.                                                        *)

\* What the handlers outside po-change.service.ts leave alone.
LEMMA ChangesAside ==
    ASSUME IInv, UNCHANGED changeVars
    PROVE  TalksSound' /\ RevisionsStart' /\ RevisionCountsChanges'
BY DEF IInv, changeVars, TalksSound, RevisionsStart, RevisionCountsChanges,
       ApprovedChanges

\* A step that alters nothing but totals, and only of orders it revises.
LEMMA TotalsAside ==
    ASSUME IInv, UNCHANGED <<issuedAt, viewLink, req, decisions, raced>>,
           \A p \in PO : /\ po'[p].status = po[p].status
                         /\ po'[p].approvalStatus = po[p].approvalStatus
                         /\ po'[p].poType = po[p].poType
                         /\ revision'[p] = 1 =>
                               po'[p].total = po[p].total /\ revision[p] = 1
    PROVE  (/\ \A p \in PO : po[p].status \in Reached
            /\ RequestsSound
            /\ ReleasedWithinAuthority
            /\ NoReleaseWithoutDecision
            /\ RejectedMeansCancelled
            /\ MailedOnce
            /\ IssuedHasLink
            /\ SplitNeverSent)'
<1>1. (\A p \in PO : po[p].status \in Reached)'
      BY DEF IInv, Reached, Released
<1>2. RequestsSound'
      BY DEF IInv, RequestsSound, Sound, Authorised, AuthorisedFor, MayApprove,
             Written, ContractStep, CanTransition, Released
<1>3. ReleasedWithinAuthority'
      BY DEF IInv, ReleasedWithinAuthority, Released, MayApprove
<1>4. NoReleaseWithoutDecision'
      BY DEF IInv, NoReleaseWithoutDecision, Released, MayApprove
<1>5. RejectedMeansCancelled' /\ MailedOnce' /\ IssuedHasLink' /\ SplitNeverSent'
      BY DEF IInv, RejectedMeansCancelled, MailedOnce, IssuedHasLink, SplitNeverSent
<1> QED
      BY <1>1, <1>2, <1>3, <1>4, <1>5

\* The change requests approved on an order are finitely many, and a change of
\* one request's row makes them one more or one fewer.
LEMMA Approvals ==
    ASSUME NEW p \in PO
    PROVE  /\ IsFiniteSet(ApprovedChanges(p))
           /\ Cardinality(ApprovedChanges(p)) \in Nat
           /\ \A c \in Change :
                 /\ Cardinality(ApprovedChanges(p) \cup {c}) =
                       IF c \in ApprovedChanges(p)
                       THEN Cardinality(ApprovedChanges(p))
                       ELSE Cardinality(ApprovedChanges(p)) + 1
                 /\ Cardinality(ApprovedChanges(p) \ {c}) <=
                       Cardinality(ApprovedChanges(p))
<1>1. IsFiniteSet(ApprovedChanges(p))
      BY ChangeAssumption, FS_Subset DEF ApprovedChanges
<1>2. Cardinality(ApprovedChanges(p)) \in Nat
      BY <1>1, FS_CardinalityType
<1>3. ASSUME NEW c \in Change
      PROVE  Cardinality(ApprovedChanges(p) \ {c}) <= Cardinality(ApprovedChanges(p))
  <2>1. ApprovedChanges(p) \ {c} \subseteq ApprovedChanges(p)
        OBVIOUS
  <2> QED  BY <1>1, <2>1, FS_Subset
<1> QED  BY <1>1, <1>2, <1>3, FS_AddElement

\* Reading and proposing: no resolution yet.
LEMMA TalkKeeps ==
    ASSUME IInv, NEW r \in Request,
           \/ \E p \in PO : ProposeChange(r, p)
           \/ \E c \in Change, p \in PO, kind \in {"approve", "reject"} :
                 ReadChange(r, c, p, kind)
    PROVE  IInv'
<1>1. PICK talking \in Talking :
         /\ Talk(r, talking)
         /\ talking.kind \in {"approve", "reject"} =>
               change[talking.change] # NoChange /\ talking.seen = "PENDING"
  <2>1. ASSUME NEW p \in PO, ProposeChange(r, p)
        PROVE  \E talking \in Talking :
                  /\ Talk(r, talking)
                  /\ talking.kind \notin {"approve", "reject"}
        BY <2>1 DEF ProposeChange, Talking
  <2>2. ASSUME NEW c \in Change, NEW p \in PO, NEW kind \in {"approve", "reject"},
               ReadChange(r, c, p, kind)
        PROVE  \E talking \in Talking :
                  /\ Talk(r, talking)
                  /\ change[talking.change] # NoChange /\ talking.seen = "PENDING"
    <3> DEFINE talking == [kind |-> kind, po |-> p, change |-> c,
                          seen |-> change[c].status]
    <3>1. talking \in Talking
          BY <2>2 DEF ReadChange, Talking, ChangeStatus
    <3> QED  BY <2>2, <3>1 DEF ReadChange
  <2> QED  BY <2>1, <2>2
<1>2. /\ UNCHANGED <<po, issuedAt, viewLink, req, decisions, raced, revision,
                     change, crossed, misrouted>>
      /\ talk' = [talk EXCEPT ![r] = talking]
      BY <1>1 DEF Talk
<1>3. TypeOK'
      BY <1>2 DEF IInv, TypeOK
<1>4. TalksSound'
      BY <1>1, <1>2 DEF IInv, TypeOK, TalksSound
<1>5. RevisionsStart' /\ RevisionCountsChanges'
      BY <1>2 DEF IInv, RevisionsStart, RevisionCountsChanges, ApprovedChanges
<1> QED
      BY <1>2, <1>3, <1>4, <1>5, TotalsAside DEF IInv

LEMMA StoreKeeps ==
    ASSUME IInv, NEW r \in Request, NEW c \in Change, StoreChange(r, c)
    PROVE  IInv'
<1>1. /\ talk[r].po \in PO /\ change[c] = NoChange
      /\ UNCHANGED <<po, issuedAt, viewLink, req, decisions, raced, revision,
                     crossed, misrouted>>
      /\ change' = [change EXCEPT ![c] = [po |-> talk[r].po, status |-> "PENDING"]]
      /\ talk' = [talk EXCEPT ![r] = NoRequest]
      BY DEF IInv, TypeOK, StoreChange, Talking
<1>2. [po |-> talk[r].po, status |-> "PENDING"] \in ChangeRow
      BY <1>1 DEF ChangeRow, ChangeStatus
<1>3. TypeOK'
      BY <1>1, <1>2 DEF IInv, TypeOK
<1>4. TalksSound'
      BY <1>1, <1>2, NoChangeAssumption DEF IInv, TypeOK, TalksSound
<1>5. \A p \in PO : ApprovedChanges(p)' = ApprovedChanges(p)
  <2> SUFFICES ASSUME NEW p \in PO, NEW d \in Change
               PROVE  change'[d] = [po |-> p, status |-> "APPROVED"] <=>
                      change[d] = [po |-> p, status |-> "APPROVED"]
      BY DEF ApprovedChanges
  <2>1. [po |-> p, status |-> "APPROVED"] \in ChangeRow
        BY DEF ChangeRow, ChangeStatus
  <2> QED  BY <1>1, <2>1, NoChangeAssumption DEF IInv, TypeOK
<1>6. RevisionsStart' /\ RevisionCountsChanges'
      BY <1>1, <1>5 DEF IInv, RevisionsStart, RevisionCountsChanges
<1> QED
      BY <1>1, <1>3, <1>4, <1>6, TotalsAside DEF IInv

\* A resolution: the row's new status, and who is crossed by it.
LEMMA ResolveEffect ==
    ASSUME IInv, NEW r \in Request, NEW c \in Change,
           NEW status \in {"APPROVED", "REJECTED"},
           talk[r] # NoRequest, talk[r].kind \in {"approve", "reject"},
           Resolve(r, c, status)
    PROVE  /\ change[c] \in ChangeRow /\ change[c].po \in PO /\ talk[r].po \in PO
           /\ change' \in [Change -> ChangeRow \cup {NoChange}]
           /\ talk' \in [Request -> Talking \cup {NoRequest}]
           /\ crossed \subseteq crossed' /\ crossed' \subseteq PO
           /\ change[c].status # "PENDING" => change[c].po \in crossed'
           /\ \A d \in Change : change'[d] =
                 IF d = c THEN [po |-> change[c].po, status |-> status] ELSE change[d]
           /\ TalksSound'
           /\ \A p \in PO : ApprovedChanges(p)' =
                 IF p # change[c].po THEN ApprovedChanges(p)
                 ELSE IF status = "APPROVED" THEN ApprovedChanges(p) \cup {c}
                 ELSE ApprovedChanges(p) \ {c}
<1>1. talk[r].change = c /\ change[c] # NoChange /\ talk[r].seen = "PENDING"
      BY DEF IInv, TalksSound, Resolve
<1>2. change[c] \in ChangeRow /\ change[c].po \in PO /\ talk[r].po \in PO
      BY <1>1 DEF IInv, TypeOK, ChangeRow, Talking
<1>3. \A d \in Change : change'[d] =
         IF d = c THEN [po |-> change[c].po, status |-> status] ELSE change[d]
      BY <1>2 DEF IInv, TypeOK, Resolve, ChangeRow
<1>4. [po |-> change[c].po, status |-> status] \in ChangeRow
      BY <1>2 DEF ChangeRow, ChangeStatus
<1>5. /\ change' \in [Change -> ChangeRow \cup {NoChange}]
      /\ talk' \in [Request -> Talking \cup {NoRequest}]
  <2>1. change' = [change EXCEPT ![c] = [po |-> change[c].po, status |-> status]]
    <3>1. [change[c] EXCEPT !.status = status] = [po |-> change[c].po, status |-> status]
          BY <1>2 DEF ChangeRow
    <3>2. change' = [change EXCEPT ![c] = [change[c] EXCEPT !.status = status]]
          BY DEF Resolve
    <3> QED  BY <3>1, <3>2
  <2>2. change' \in [Change -> ChangeRow \cup {NoChange}]
        BY <1>4, <2>1 DEF IInv, TypeOK
  <2>3. talk' \in [Request -> Talking \cup {NoRequest}]
    <3>1. talk' = [talk EXCEPT ![r] = NoRequest]
          BY DEF Resolve
    <3> QED  BY <3>1 DEF IInv, TypeOK
  <2> QED  BY <2>2, <2>3
<1>6. /\ crossed \subseteq crossed' /\ crossed' \subseteq PO
      /\ change[c].status # "PENDING" => change[c].po \in crossed'
      BY <1>1, <1>2 DEF IInv, TypeOK, Resolve
<1>7. TalksSound'
  <2> SUFFICES ASSUME NEW s \in Request, talk'[s] # NoRequest,
                      talk'[s].kind \in {"approve", "reject"}
               PROVE  change'[talk'[s].change] # NoChange /\ talk'[s].seen = "PENDING"
      BY DEF TalksSound
  <2>1. talk'[s] = talk[s]
        BY DEF IInv, TypeOK, Resolve
  <2>2. change[talk[s].change] # NoChange /\ talk[s].seen = "PENDING"
        BY <2>1 DEF IInv, TalksSound
  <2>3. talk[s].change \in Change
        BY <2>1 DEF IInv, TypeOK, Talking
  <2> QED  BY <2>1, <2>2, <2>3, <1>3, <1>4, NoChangeAssumption
<1>8. ASSUME NEW p \in PO
      PROVE  ApprovedChanges(p)' =
                 IF p # change[c].po THEN ApprovedChanges(p)
                 ELSE IF status = "APPROVED" THEN ApprovedChanges(p) \cup {c}
                 ELSE ApprovedChanges(p) \ {c}
  <2>1. \A d \in Change : d # c =>
           (d \in ApprovedChanges(p)' <=> d \in ApprovedChanges(p))
        BY <1>3 DEF ApprovedChanges
  <2>2. c \in ApprovedChanges(p)' <=> p = change[c].po /\ status = "APPROVED"
        BY <1>3 DEF ApprovedChanges
  <2>3. c \in ApprovedChanges(p) => p = change[c].po
        BY <1>2 DEF ApprovedChanges
  <2>4. ApprovedChanges(p) \subseteq Change /\ ApprovedChanges(p)' \subseteq Change
        BY DEF ApprovedChanges
  <2> QED  BY <2>1, <2>2, <2>3, <2>4
<1> QED
      BY <1>2, <1>3, <1>5, <1>6, <1>7, <1>8

LEMMA ApproveChangeKeeps ==
    ASSUME IInv, NEW r \in Request, NEW c \in Change, ApproveChange(r, c)
    PROVE  IInv'
<1> DEFINE o == talk[r].po
           own == change[c].po
<1>1. /\ talk[r] # NoRequest /\ talk[r].kind \in {"approve", "reject"}
      /\ Resolve(r, c, "APPROVED")
      /\ "APPROVED" \in {"APPROVED", "REJECTED"}
      BY DEF ApproveChange
<1>2. /\ change[c] \in ChangeRow /\ own \in PO /\ o \in PO
      /\ change' \in [Change -> ChangeRow \cup {NoChange}]
      /\ talk' \in [Request -> Talking \cup {NoRequest}]
      /\ crossed \subseteq crossed' /\ crossed' \subseteq PO
      /\ change[c].status # "PENDING" => own \in crossed'
      /\ TalksSound'
      /\ \A p \in PO : ApprovedChanges(p)' =
            IF p # own THEN ApprovedChanges(p) ELSE ApprovedChanges(p) \cup {c}
      BY <1>1, ResolveEffect
<1>3. UNCHANGED <<issuedAt, viewLink, req, decisions, raced>>
      BY <1>1 DEF Resolve
<1>4. PICK total \in Total : po' = [po EXCEPT ![o].total = total]
      BY DEF ApproveChange
<1>5. /\ revision' = [revision EXCEPT ![o] = @ + 1]
      /\ misrouted \subseteq misrouted' /\ misrouted' \subseteq PO
      /\ o # own => o \in misrouted' /\ own \in misrouted'
      BY <1>2 DEF ApproveChange, IInv, TypeOK
<1>6. TypeOK'
  <2>1. po' \in [PO -> Row]
    <3>1. [po[o] EXCEPT !.total = total] \in Row
          BY <1>2 DEF IInv, TypeOK, Row
    <3> QED  BY <1>2, <1>4, <3>1 DEF IInv, TypeOK
  <2>2. revision' \in [PO -> Nat]
        BY <1>2, <1>5 DEF IInv, TypeOK
  <2> QED  BY <1>2, <1>3, <1>5, <2>1, <2>2 DEF IInv, TypeOK
<1>7. RevisionCountsChanges'
  <2> SUFFICES ASSUME NEW p \in PO, p \notin misrouted'
               PROVE  /\ revision'[p] >= 1 + Cardinality(ApprovedChanges(p)')
                      /\ p \notin crossed' =>
                            revision'[p] = 1 + Cardinality(ApprovedChanges(p)')
      BY DEF RevisionCountsChanges
  <2>1. /\ revision[p] \in Nat
        /\ revision[p] >= 1 + Cardinality(ApprovedChanges(p))
        /\ p \notin crossed => revision[p] = 1 + Cardinality(ApprovedChanges(p))
        BY <1>5 DEF IInv, TypeOK, RevisionCountsChanges
  <2>2. CASE p # o
    <3>1. p # own
          BY <2>2, <1>5
    <3> QED  BY <2>1, <2>2, <3>1, <1>2, <1>5 DEF IInv, TypeOK
  <2>3. CASE p = o
    <3> p = own
        BY <2>3, <1>5
    <3>1. revision'[p] = revision[p] + 1
          BY <2>3, <1>5 DEF IInv, TypeOK
    <3>2. c \in ApprovedChanges(p) => p \in crossed'
          BY <2>3, <1>2 DEF ApprovedChanges
    <3>3. ApprovedChanges(p)' = ApprovedChanges(p) \cup {c}
          BY <2>3, <1>2
    <3>4. /\ Cardinality(ApprovedChanges(p)) \in Nat
          /\ Cardinality(ApprovedChanges(p)') =
                IF c \in ApprovedChanges(p) THEN Cardinality(ApprovedChanges(p))
                                            ELSE Cardinality(ApprovedChanges(p)) + 1
          BY <3>3, Approvals
    <3> QED  BY <2>1, <3>1, <3>2, <3>4, <1>2
  <2> QED  BY <2>2, <2>3
<1>8. \A p \in PO : /\ po'[p].status = po[p].status
                    /\ po'[p].approvalStatus = po[p].approvalStatus
                    /\ po'[p].poType = po[p].poType
                    /\ revision'[p] = 1 => po'[p].total = po[p].total /\ revision[p] = 1
  <2> SUFFICES ASSUME NEW p \in PO
               PROVE  /\ po'[p].status = po[p].status
                      /\ po'[p].approvalStatus = po[p].approvalStatus
                      /\ po'[p].poType = po[p].poType
                      /\ revision'[p] = 1 => po'[p].total = po[p].total /\ revision[p] = 1
      OBVIOUS
  <2>1. /\ revision[p] \in Nat /\ revision[p] >= 1
        /\ po[p] \in Row
        BY DEF IInv, TypeOK, RevisionsStart
  <2>2. CASE p # o
        BY <2>2, <1>4, <1>5 DEF IInv, TypeOK
  <2>3. CASE p = o
        BY <2>1, <2>3, <1>4, <1>5 DEF IInv, TypeOK, Row
  <2> QED  BY <2>2, <2>3
<1>9. RevisionsStart'
      BY <1>2, <1>5 DEF IInv, TypeOK, RevisionsStart
<1> QED
      BY <1>2, <1>3, <1>6, <1>7, <1>8, <1>9, TotalsAside DEF IInv

LEMMA RejectChangeKeeps ==
    ASSUME IInv, NEW r \in Request, NEW c \in Change, RejectChange(r, c)
    PROVE  IInv'
<1> DEFINE o == change[c].po
<1>1. /\ talk[r] # NoRequest /\ talk[r].kind \in {"approve", "reject"}
      /\ Resolve(r, c, "REJECTED")
      /\ "REJECTED" \in {"APPROVED", "REJECTED"}
      /\ UNCHANGED <<po, revision, misrouted>>
      BY DEF RejectChange
<1>2. /\ change[c] \in ChangeRow /\ o \in PO
      /\ change' \in [Change -> ChangeRow \cup {NoChange}]
      /\ talk' \in [Request -> Talking \cup {NoRequest}]
      /\ crossed \subseteq crossed' /\ crossed' \subseteq PO
      /\ change[c].status # "PENDING" => o \in crossed'
      /\ TalksSound'
      /\ \A p \in PO : ApprovedChanges(p)' =
            IF p # o THEN ApprovedChanges(p) ELSE ApprovedChanges(p) \ {c}
      BY <1>1, ResolveEffect
<1>3. UNCHANGED <<issuedAt, viewLink, req, decisions, raced>>
      BY <1>1 DEF Resolve
<1>4. TypeOK'
      BY <1>1, <1>2, <1>3 DEF IInv, TypeOK
<1>5. RevisionCountsChanges'
  <2> SUFFICES ASSUME NEW p \in PO, p \notin misrouted
               PROVE  /\ revision[p] >= 1 + Cardinality(ApprovedChanges(p)')
                      /\ p \notin crossed' =>
                            revision[p] = 1 + Cardinality(ApprovedChanges(p)')
      BY <1>1 DEF RevisionCountsChanges
  <2>1. /\ revision[p] \in Nat
        /\ revision[p] >= 1 + Cardinality(ApprovedChanges(p))
        /\ p \notin crossed => revision[p] = 1 + Cardinality(ApprovedChanges(p))
        BY DEF IInv, TypeOK, RevisionCountsChanges
  <2>2. CASE c \notin ApprovedChanges(p) \/ p # o
    <3>1. ApprovedChanges(p)' = ApprovedChanges(p)
          BY <2>2, <1>2
    <3> QED  BY <2>1, <3>1, <1>2
  <2>3. CASE c \in ApprovedChanges(p) /\ p = o
    <3>1. p \in crossed'
          BY <2>3, <1>2 DEF ApprovedChanges
    <3>2. ApprovedChanges(p)' = ApprovedChanges(p) \ {c}
          BY <2>3, <1>2
    <3>3. /\ Cardinality(ApprovedChanges(p)) \in Nat
          /\ Cardinality(ApprovedChanges(p) \ {c}) <= Cardinality(ApprovedChanges(p))
          BY Approvals
    <3>4. Cardinality(ApprovedChanges(p) \ {c}) \in Nat
          BY Approvals, FS_RemoveElement, FS_CardinalityType, FS_Subset
    <3> QED  BY <2>1, <3>1, <3>2, <3>3, <3>4
  <2> QED  BY <2>2, <2>3
<1>6. RevisionsStart'
      BY <1>1 DEF IInv, RevisionsStart
<1> QED
      BY <1>1, <1>2, <1>3, <1>4, <1>5, <1>6, TotalsAside DEF IInv

LEMMA NegotiateKeeps ==
    ASSUME IInv, NEW r \in Request, Negotiate(r)
    PROVE  IInv'
BY TalkKeeps, StoreKeeps, ApproveChangeKeeps, RejectChangeKeeps DEF Negotiate

-------------------------------------------------------------------------------
(* Reading.                                                                *)

\* A handler that begins with a sound request keeps the invariant.
LEMMA BeginKeeps ==
    ASSUME IInv, NEW r \in Request, NEW p \in PO, NEW row \in Row,
           NEW writes \in SUBSET Columns, NEW sends \in BOOLEAN,
           NEW decision \in SUBSET Decision,
           Begin(r, p, row, writes, sends, decision),
           Sound([po |-> p, snap |-> po[p], row |-> row, writes |-> writes,
                  sends |-> sends, decision |-> decision])
    PROVE  IInv'
<1> DEFINE new == [po |-> p, snap |-> po[p], row |-> row, writes |-> writes,
                   sends |-> sends, decision |-> decision]
<1>1. UNCHANGED <<po, issuedAt, viewLink, decisions, raced, changeVars>>
      BY DEF Begin
<1>2. /\ req' = [req EXCEPT ![r] = new]
      /\ req \in [Request -> InFlight \cup {NoRequest}]
      BY DEF Begin, IInv, TypeOK
<1>3. new \in InFlight
      BY DEF IInv, TypeOK, InFlight
<1>4. TypeOK'
      BY <1>1, <1>2, <1>3 DEF IInv, TypeOK, changeVars
<1>5. RequestsSound'
  <2> SUFFICES ASSUME NEW s \in Request, req'[s] # NoRequest
               PROVE  /\ Sound(req'[s])
                      /\ req'[s].snap.status \in Released =>
                            Authorised(decisions[req'[s].po])
      BY <1>1 DEF RequestsSound, Sound, Authorised, MayApprove, Written,
                  ContractStep, AuthorisedFor, Released, CanTransition
  <2>1. CASE s = r
    <3>1. req'[s] = new
          BY <2>1, <1>2
    <3>2. po[p].status \in Released => Authorised(decisions[p])
          BY DEF IInv, NoReleaseWithoutDecision, Authorised
    <3>   QED  BY <3>1, <3>2
  <2>2. CASE s # r
        BY <2>2, <1>2 DEF IInv, RequestsSound
  <2> QED  BY <2>1, <2>2
<1>6. (/\ \A o \in PO : po[o].status \in Reached
       /\ ReleasedWithinAuthority
       /\ NoReleaseWithoutDecision
       /\ RejectedMeansCancelled
       /\ MailedOnce
       /\ IssuedHasLink
       /\ SplitNeverSent)'
      BY <1>1 DEF IInv, Reached, Released, MayApprove, ReleasedWithinAuthority,
                  NoReleaseWithoutDecision, RejectedMeansCancelled, MailedOnce,
                  IssuedHasLink, SplitNeverSent, changeVars
<1> QED  BY <1>1, <1>4, <1>5, <1>6, ChangesAside DEF IInv

\* An UPDATE of the status, which assertTransition let through, along a step
\* of the contract that leaves the approval status and needs no decision.
LEMMA MoveKeeps ==
    ASSUME IInv, NEW r \in Request, NEW p \in PO, NEW to \in Reached,
           ContractStep(po[p], [po[p] EXCEPT !.status = to], FALSE),
           po[p].status # "DRAFT",
           to \notin {"PENDING_APPROVAL", "SENT"},
           to \in Released => po[p].status \in Released,
           MoveStatus(r, p, to)
    PROVE  IInv'
<1> DEFINE row == [po[p] EXCEPT !.status = to]
<1>1. po[p] \in Row
      BY DEF IInv, TypeOK
<1>2. to \in PoStatus
      BY StatusValues DEF Reached, Released
<1>3. row \in Row
      BY <1>1, <1>2 DEF Row
<1>4. CanTransition(po[p].status, to)
      BY DEF MoveStatus
<1>5. Begin(r, p, row, {"status"}, FALSE, {})
      BY DEF MoveStatus
<1>6. Sound([po |-> p, snap |-> po[p], row |-> row, writes |-> {"status"},
             sends |-> FALSE, decision |-> {}])
      BY <1>1, <1>4 DEF Sound, Row, Written
<1>7. {"status"} \in SUBSET Columns /\ {} \in SUBSET Decision /\ FALSE \in BOOLEAN
      BY DEF Columns
<1> HIDE DEF row
<1> QED
      BY <1>3, <1>5, <1>6, <1>7, BeginKeeps

\* An UPDATE of the status and the approval status.
LEMMA DecideKeeps ==
    ASSUME IInv, NEW r \in Request, NEW p \in PO, NEW to \in Reached,
           NEW approval \in {"NOT_REQUIRED", "PENDING", "APPROVED", "REJECTED"},
           NEW sends \in BOOLEAN, NEW decision \in SUBSET Decision,
           ContractStep(po[p], [po[p] EXCEPT !.status = to,
                                             !.approvalStatus = approval], sends),
           to \in Released => AuthorisedFor(decision, po[p].total),
           to \in {"PENDING_APPROVAL", "SENT"} =>
               po[p].poType # "SPLIT" \/ po[p].status = "PENDING_APPROVAL",
           DecideStatus(r, p, to, approval, sends, decision)
    PROVE  IInv'
<1> DEFINE row == [po[p] EXCEPT !.status = to, !.approvalStatus = approval]
<1>1. po[p] \in Row
      BY DEF IInv, TypeOK
<1>2. to \in PoStatus
      BY StatusValues DEF Reached, Released
<1>3. row \in Row
      BY <1>1, <1>2 DEF Row
<1>4. CanTransition(po[p].status, to)
      BY DEF DecideStatus
<1>5. Begin(r, p, row, {"status", "approvalStatus"}, sends, decision)
      BY DEF DecideStatus
<1>6. Sound([po |-> p, snap |-> po[p], row |-> row,
             writes |-> {"status", "approvalStatus"},
             sends |-> sends, decision |-> decision])
      BY <1>1, <1>4 DEF Sound, Row, Written
<1> QED
      BY <1>3, <1>5, <1>6, BeginKeeps DEF Columns

LEMMA IssueKeeps ==
    ASSUME IInv, NEW r \in Request, NEW p \in PO, NEW role \in Role,
           IssuePurchaseOrder(r, p, role)
    PROVE  IInv'
<1> USE DEF IssuePurchaseOrder
<1>1. po[p] \in Row /\ po[p].status = "DRAFT" /\ po[p].poType # "SPLIT"
      BY DEF IInv, TypeOK
<1>2. CASE /\ MayApprove(role, po[p].total)
           /\ CanTransition(po[p].status, "SENT")
           /\ Begin(r, p, [po[p] EXCEPT !.status = "SENT"], {"status"}, TRUE,
                    {<<role, po[p].total>>})
  <2> DEFINE row == [po[p] EXCEPT !.status = "SENT"]
  <2>1. row \in Row
        BY <1>1, StatusValues DEF Row
  <2>2. {<<role, po[p].total>>} \in SUBSET Decision
        BY <1>1 DEF Row, Decision
  <2>3. AuthorisedFor({<<role, po[p].total>>}, po[p].total)
        BY <1>2 DEF AuthorisedFor
  <2>4. Sound([po |-> p, snap |-> po[p], row |-> row, writes |-> {"status"},
               sends |-> TRUE, decision |-> {<<role, po[p].total>>}])
        BY <1>1, <1>2, <2>3 DEF Sound, Row, Written, ContractStep
  <2> QED
        BY <1>2, <2>1, <2>2, <2>4, BeginKeeps DEF Columns
<1>3. CASE DecideStatus(r, p, "PENDING_APPROVAL", "PENDING", FALSE, {})
  <2>1. ContractStep(po[p], [po[p] EXCEPT !.status = "PENDING_APPROVAL",
                                          !.approvalStatus = "PENDING"], FALSE)
        BY <1>1 DEF ContractStep, Row
  <2>2. /\ "PENDING_APPROVAL" \in Reached /\ "PENDING_APPROVAL" \notin Released
        /\ {} \in SUBSET Decision /\ FALSE \in BOOLEAN
        BY DEF Reached, Released
  <2> QED
        BY <1>1, <1>3, <2>1, <2>2, DecideKeeps
<1> QED  BY <1>2, <1>3

LEMMA ApproveKeeps ==
    ASSUME IInv, NEW r \in Request, NEW p \in PO, NEW role \in Role,
           ApprovePurchaseOrder(r, p, role)
    PROVE  IInv'
<1> DEFINE decision == {<<role, po[p].total>>}
<1> USE DEF ApprovePurchaseOrder
<1>1. po[p] \in Row
      BY DEF IInv, TypeOK
<1>2. decision \in SUBSET Decision
      BY <1>1 DEF Row, Decision
<1>3. AuthorisedFor(decision, po[p].total)
      BY DEF AuthorisedFor
<1>4. CASE po[p].status = "PENDING_APPROVAL"
  <2>1. DecideStatus(r, p, "SENT", "APPROVED", TRUE, decision)
        BY <1>4
  <2>2. ContractStep(po[p], [po[p] EXCEPT !.status = "SENT",
                                          !.approvalStatus = "APPROVED"], TRUE)
        BY <1>1, <1>4 DEF ContractStep, Row
  <2> QED
        BY <1>2, <1>3, <1>4, <2>1, <2>2, DecideKeeps DEF Reached, Released
<1>5. CASE po[p].status \in {"DRAFT", "SENT"}
  <2>1. DecideStatus(r, p, "ACKNOWLEDGED", "APPROVED", FALSE, decision)
        BY <1>5
  <2>2. ContractStep(po[p], [po[p] EXCEPT !.status = "ACKNOWLEDGED",
                                          !.approvalStatus = "APPROVED"], FALSE)
        BY <1>1, <1>5 DEF ContractStep, Row
  <2> QED
        BY <1>2, <1>3, <1>5, <2>1, <2>2, DecideKeeps DEF Reached, Released
<1> QED  BY <1>4, <1>5

LEMMA DeclineKeeps ==
    ASSUME IInv, NEW r \in Request, NEW p \in PO, DeclinePurchaseOrder(r, p)
    PROVE  IInv'
<1>1. po[p] \in Row /\ po[p].status \in Reached
      BY DEF IInv, TypeOK
<1>2. DecideStatus(r, p, "CANCELLED", "REJECTED", FALSE, {})
      BY DEF DeclinePurchaseOrder
<1>3. po[p].status \in {"DRAFT", "PENDING_APPROVAL", "SENT", "ACKNOWLEDGED",
                        "ACCEPTED"}
      BY <1>1, <1>2, Predecessors DEF DecideStatus
<1>4. ContractStep(po[p], [po[p] EXCEPT !.status = "CANCELLED",
                                        !.approvalStatus = "REJECTED"], FALSE)
      BY <1>1, <1>3 DEF ContractStep, Row
<1>5. /\ "CANCELLED" \in Reached /\ "CANCELLED" \notin Released
      /\ {} \in SUBSET Decision /\ FALSE \in BOOLEAN
      BY DEF Reached, Released
<1> QED
      BY <1>2, <1>4, <1>5, DecideKeeps

\* The vendor's three answers and the receipt of goods move the status alone.
LEMMA AnswerKeeps ==
    ASSUME IInv, NEW r \in Request, NEW p \in PO,
           \/ ConfirmPurchaseOrder(r, p)
           \/ AcceptPurchaseOrder(r, p)
           \/ VendorDeclinePurchaseOrder(r, p)
           \/ ReceivePurchaseOrder(r, p)
    PROVE  IInv'
<1>1. po[p] \in Row /\ po[p].status \in Reached
      BY DEF IInv, TypeOK
<1>2. CASE ConfirmPurchaseOrder(r, p)
  <2>1. ContractStep(po[p], [po[p] EXCEPT !.status = "ACKNOWLEDGED"], FALSE)
        BY <1>1, <1>2 DEF ConfirmPurchaseOrder, ContractStep, Row
  <2> QED
        BY <1>2, <2>1, MoveKeeps DEF ConfirmPurchaseOrder, Reached, Released
<1>3. CASE AcceptPurchaseOrder(r, p)
  <2>1. ContractStep(po[p], [po[p] EXCEPT !.status = "ACCEPTED"], FALSE)
        BY <1>1, <1>3 DEF AcceptPurchaseOrder, ContractStep, Row
  <2> QED
        BY <1>3, <2>1, MoveKeeps DEF AcceptPurchaseOrder, Reached, Released
<1>4. CASE VendorDeclinePurchaseOrder(r, p)
  <2>1. ContractStep(po[p], [po[p] EXCEPT !.status = "CANCELLED_BY_VENDOR"], FALSE)
        BY <1>1, <1>4 DEF VendorDeclinePurchaseOrder, ContractStep, Row
  <2> QED
        BY <1>4, <2>1, MoveKeeps DEF VendorDeclinePurchaseOrder, Reached, Released
<1>5. CASE ReceivePurchaseOrder(r, p)
  <2>1. PICK to \in {"PARTIALLY_DELIVERED", "DELIVERED"} : MoveStatus(r, p, to)
        BY <1>5 DEF ReceivePurchaseOrder
  <2>2. po[p].status \in {"ACKNOWLEDGED", "ACCEPTED", "PARTIALLY_DELIVERED"}
        BY <1>1, <2>1, Predecessors DEF MoveStatus
  <2>3. to = "PARTIALLY_DELIVERED" => po[p].status # "PARTIALLY_DELIVERED"
        BY <2>1 DEF MoveStatus, CanTransition
  <2>4. ContractStep(po[p], [po[p] EXCEPT !.status = to], FALSE)
        BY <1>1, <2>2, <2>3 DEF ContractStep, Row
  <2> QED
        BY <2>1, <2>2, <2>4, MoveKeeps DEF Reached, Released
<1> QED  BY <1>2, <1>3, <1>4, <1>5

LEMMA UpdateKeeps ==
    ASSUME IInv, NEW r \in Request, NEW p \in PO, UpdatePurchaseOrder(r, p)
    PROVE  IInv'
<1>0. {} \in SUBSET Decision /\ FALSE \in BOOLEAN
      OBVIOUS
<1>1. po[p] \in Row /\ po[p].status = "DRAFT"
      BY DEF IInv, TypeOK, UpdatePurchaseOrder
<1>2. PICK total \in Total :
         \/ Begin(r, p, [po[p] EXCEPT !.total = total], {"total"}, FALSE, {})
         \/ \E type \in {"STANDARD", "SPLIT"} :
              Begin(r, p, [po[p] EXCEPT !.total = total, !.poType = type],
                    {"total", "poType"}, FALSE, {})
      BY DEF UpdatePurchaseOrder
<1>3. CASE Begin(r, p, [po[p] EXCEPT !.total = total], {"total"}, FALSE, {})
  <2> DEFINE row == [po[p] EXCEPT !.total = total]
  <2>1. row \in Row
        BY <1>1 DEF Row
  <2>2. Sound([po |-> p, snap |-> po[p], row |-> row, writes |-> {"total"},
               sends |-> FALSE, decision |-> {}])
        BY <1>1 DEF Sound, Row, Written, ContractStep, Released
  <2>3. Begin(r, p, row, {"total"}, FALSE, {}) /\ {"total"} \in SUBSET Columns
        BY <1>3 DEF Columns
  <2> HIDE DEF row
  <2> QED
        BY <1>0, <2>1, <2>2, <2>3, BeginKeeps
<1>4. ASSUME NEW type \in {"STANDARD", "SPLIT"},
             Begin(r, p, [po[p] EXCEPT !.total = total, !.poType = type],
                   {"total", "poType"}, FALSE, {})
      PROVE  IInv'
  <2> DEFINE row == [po[p] EXCEPT !.total = total, !.poType = type]
  <2>1. row \in Row
        BY <1>1 DEF Row
  <2>2. Sound([po |-> p, snap |-> po[p], row |-> row,
               writes |-> {"total", "poType"}, sends |-> FALSE, decision |-> {}])
        BY <1>1 DEF Sound, Row, Written, ContractStep, Released
  <2>3. /\ Begin(r, p, row, {"total", "poType"}, FALSE, {})
        /\ {"total", "poType"} \in SUBSET Columns
        BY <1>4 DEF Columns
  <2> HIDE DEF row
  <2> QED
        BY <1>0, <2>1, <2>2, <2>3, BeginKeeps
<1> QED  BY <1>2, <1>3, <1>4

LEMMA ReadKeeps ==
    ASSUME IInv, NEW r \in Request, NEW p \in PO, Read(r, p)
    PROVE  IInv'
BY IssueKeeps, ApproveKeeps, DeclineKeeps, AnswerKeeps, UpdateKeeps
   DEF Read, ConfirmPurchaseOrderViaToken, AcceptPurchaseOrderViaToken,
       VendorDeclinePurchaseOrderViaToken

-------------------------------------------------------------------------------
(* Writing.                                                                *)

\* The write of a request: the order it names, and no other, changes.
LEMMA CommitEffect ==
    ASSUME TypeOK, NEW r \in Request, Commit(r)
    PROVE  /\ req[r] \in InFlight
           /\ \A o \in PO : po'[o] = IF o = req[r].po THEN Written(po[o], req[r])
                                                      ELSE po[o]
           /\ \A o \in PO : o # req[r].po =>
                 /\ issuedAt'[o] = issuedAt[o]
                 /\ viewLink'[o] = viewLink[o]
                 /\ decisions'[o] = decisions[o]
                 /\ o \in raced' <=> o \in raced
           /\ req[r].po \notin raced' => req[r].snap = po[req[r].po]
           /\ decisions'[req[r].po] = decisions[req[r].po] \cup req[r].decision
           /\ raced \subseteq raced'
           /\ req' = [req EXCEPT ![r] = NoRequest]
           /\ IF req[r].sends
              THEN /\ issuedAt'[req[r].po] = issuedAt[req[r].po] + 1
                   /\ viewLink'[req[r].po] = "LIVE"
              ELSE issuedAt' = issuedAt /\ viewLink' = viewLink
BY DEF TypeOK, Commit, InFlight

LEMMA CommitTypeOK ==
    ASSUME TypeOK, NEW r \in Request, Commit(r)
    PROVE  TypeOK'
<1> DEFINE q == req[r]
<1>1. q \in InFlight
      BY CommitEffect
<1>2. Written(po[q.po], q) \in Row
      BY <1>1 DEF TypeOK, InFlight, Row, Written
<1> QED
      BY <1>1, <1>2 DEF TypeOK, Commit, InFlight, changeVars

\* On an order that is not raced, the write is the step that was settled on
\* when the row was read.
LEMMA CommitFollowsRead ==
    ASSUME IInv, NEW r \in Request, Commit(r), req[r].po \notin raced'
    PROVE  /\ po[req[r].po] = req[r].snap
           /\ po'[req[r].po] = req[r].row
           /\ req[r].po \notin raced
<1> DEFINE q == req[r]
<1>1. q \in InFlight /\ q # NoRequest
      BY CommitEffect DEF IInv, Commit
<1>2. q.po \in PO /\ Written(q.snap, q) = q.row
      BY <1>1 DEF IInv, RequestsSound, Sound, InFlight
<1>3. /\ q.snap = po[q.po]
      /\ po'[q.po] = Written(po[q.po], q)
      /\ q.po \notin raced
      BY <1>1, <1>2, CommitEffect DEF IInv
<1> QED
      BY <1>2, <1>3

LEMMA CommitKeeps ==
    ASSUME IInv, NEW r \in Request, Commit(r)
    PROVE  IInv'
<1> DEFINE q == req[r]
<1>1. /\ TypeOK /\ TypeOK'
      /\ q \in InFlight /\ q # NoRequest
      /\ Sound(q)
      /\ q.snap.status \in Released => Authorised(decisions[q.po])
      BY CommitEffect, CommitTypeOK DEF IInv, RequestsSound, Commit
<1>2. /\ q.po \in PO /\ q.snap \in Row /\ q.row \in Row
      BY <1>1 DEF InFlight
<1>3. \A o \in PO : decisions[o] \subseteq decisions'[o]
      BY <1>1, <1>2, CommitEffect DEF TypeOK
<1>4. q.row.status \in Reached
      BY <1>1 DEF Sound, ContractStep, Reached, Released
<1>5. (\A o \in PO : po[o].status \in Reached)'
  <2> SUFFICES ASSUME NEW o \in PO  PROVE  po'[o].status \in Reached
      OBVIOUS
  <2>1. Written(po[o], q).status \in {po[o].status, q.row.status}
        BY DEF Written
  <2>2. po'[o].status \in {po[o].status, q.row.status}
        BY <2>1, <1>1, CommitEffect
  <2> QED
        BY <2>2, <1>4 DEF IInv
<1>6. RequestsSound'
  <2> SUFFICES ASSUME NEW s \in Request, req'[s] # NoRequest
               PROVE  /\ Sound(req'[s])
                      /\ req'[s].snap.status \in Released =>
                            Authorised(decisions'[req'[s].po])
      BY DEF RequestsSound, Sound, Authorised, MayApprove, Written,
             ContractStep, AuthorisedFor, Released, CanTransition
  <2>1. s # r /\ req'[s] = req[s]
        BY <1>1, CommitEffect DEF TypeOK
  <2>2. req[s].po \in PO
        BY <2>1, <1>1 DEF TypeOK, InFlight
  <2> QED
        BY <2>1, <2>2, <1>3 DEF IInv, RequestsSound, Authorised
<1>7. ASSUME NEW o \in PO, o \notin raced'
      PROVE  /\ o # q.po => /\ po'[o] = po[o]
                            /\ issuedAt'[o] = issuedAt[o]
             /\ o = q.po => /\ po'[o] = q.row
                            /\ po[o] = q.snap
             /\ o \notin raced
      BY <1>1, <1>7, CommitEffect, CommitFollowsRead
<1>8. ReleasedWithinAuthority'
  <2> SUFFICES ASSUME NEW o \in PO, o \notin raced', po'[o].status \in Released,
                      revision[o] = 1
               PROVE  AuthorisedFor(decisions'[o], po'[o].total)
      BY DEF ReleasedWithinAuthority, AuthorisedFor, Released, MayApprove, Commit,
             changeVars
  <2>1. po[o].status \in Released /\ po[o].total = po'[o].total =>
            AuthorisedFor(decisions[o], po'[o].total)
        BY <1>7 DEF IInv, ReleasedWithinAuthority, AuthorisedFor
  <2>2. CASE o = q.po
        BY <2>1, <2>2, <1>1, <1>3, <1>7, CommitEffect DEF Sound, AuthorisedFor
  <2>3. CASE o # q.po
        BY <2>1, <2>3, <1>3, <1>7 DEF AuthorisedFor
  <2> QED  BY <2>2, <2>3
<1>9. NoReleaseWithoutDecision'
  <2> SUFFICES ASSUME NEW o \in PO, po'[o].status \in Released
               PROVE  Authorised(decisions'[o])
      BY DEF NoReleaseWithoutDecision, Authorised, Released, MayApprove
  <2>1. po[o].status \in Released => Authorised(decisions[o])
        BY DEF IInv, NoReleaseWithoutDecision, Authorised
  <2>2. CASE po'[o].status = po[o].status
        BY <2>1, <2>2, <1>3 DEF Authorised
  <2>3. CASE po'[o].status # po[o].status
    <3>1. o = q.po /\ po'[o] = Written(po[o], q)
          BY <2>3, <1>1, CommitEffect
    <3>2. q.row.status \in Released
          BY <2>3, <3>1 DEF Written
    <3>3. CASE AuthorisedFor(q.decision, q.row.total)
      <4>1. decisions'[o] = decisions[o] \cup q.decision
            BY <3>1, <1>1, CommitEffect
      <4> QED  BY <3>3, <4>1 DEF Authorised, AuthorisedFor
    <3>4. CASE q.snap.status \in Released
          BY <3>1, <3>4, <1>1, <1>3 DEF Authorised
    <3> QED  BY <3>2, <3>3, <3>4, <1>1 DEF Sound
  <2> QED  BY <2>2, <2>3
<1>10. RejectedMeansCancelled'
  <2> SUFFICES ASSUME NEW o \in PO, o \notin raced'
               PROVE  po'[o].approvalStatus = "REJECTED" <=> po'[o].status = "CANCELLED"
      BY DEF RejectedMeansCancelled
  <2>1. po[o].approvalStatus = "REJECTED" <=> po[o].status = "CANCELLED"
        BY <1>7 DEF IInv, RejectedMeansCancelled
  <2> QED
        BY <2>1, <1>1, <1>7 DEF Sound, ContractStep
<1>11. MailedOnce'
  <2> SUFFICES ASSUME NEW o \in PO, o \notin raced'
               PROVE  /\ issuedAt'[o] <= 1
                      /\ po'[o].status \in Unsent => issuedAt'[o] = 0
      BY DEF MailedOnce, Unsent
  <2>1. /\ issuedAt[o] \in Nat /\ issuedAt[o] <= 1
        /\ po[o].status \in Unsent => issuedAt[o] = 0
        BY <1>1, <1>7 DEF IInv, MailedOnce, TypeOK, Unsent
  <2>2. CASE o # q.po
        BY <2>1, <2>2, <1>7
  <2>3. CASE o = q.po /\ q.sends
    <3>1. /\ issuedAt'[o] = issuedAt[o] + 1
          /\ q.snap.status \in Unsent /\ q.row.status = "SENT"
          BY <2>3, <1>1, CommitEffect DEF Sound, ContractStep, Unsent
    <3> QED  BY <2>1, <2>3, <3>1, <1>7 DEF Unsent
  <2>4. CASE o = q.po /\ ~q.sends
    <3>1. /\ issuedAt'[o] = issuedAt[o]
          /\ q.row.status \in Unsent => q.snap.status \in Unsent
          BY <2>4, <1>1, CommitEffect DEF Sound, ContractStep, Unsent
    <3> QED  BY <2>1, <2>4, <3>1, <1>7
  <2> QED  BY <2>2, <2>3, <2>4
<1>12. IssuedHasLink'
  <2> SUFFICES ASSUME NEW o \in PO, issuedAt'[o] > 0
               PROVE  viewLink'[o] # "NONE"
      BY DEF IssuedHasLink
  <2> QED
      BY <1>1, CommitEffect DEF IInv, IssuedHasLink
<1>13. SplitNeverSent'
  <2> SUFFICES ASSUME NEW o \in PO, o \notin raced', po'[o].poType = "SPLIT"
               PROVE  po'[o].status \notin {"PENDING_APPROVAL", "SENT"}
      BY DEF SplitNeverSent
  <2>1. po[o].poType = "SPLIT" => po[o].status \notin {"PENDING_APPROVAL", "SENT"}
        BY <1>7 DEF IInv, SplitNeverSent
  <2> QED
        BY <2>1, <1>1, <1>7 DEF Sound
<1>14. TalksSound' /\ RevisionsStart' /\ RevisionCountsChanges'
      BY ChangesAside DEF Commit
<1> QED
      BY <1>1, <1>5, <1>6, <1>8, <1>9, <1>10, <1>11, <1>12, <1>13, <1>14 DEF IInv

-------------------------------------------------------------------------------
(* The invariant, and what follows from it.                                *)

LEMMA InitIInv == Init => IInv
<1> SUFFICES ASSUME Init  PROVE  IInv
    OBVIOUS
<1>1. \A p \in PO : /\ po[p] \in Row
                    /\ po[p].status \in {"DRAFT", "SPLIT"}
                    /\ po[p].poType = "SPLIT" \/ po[p].status = "DRAFT"
                    /\ po[p].approvalStatus = "NOT_REQUIRED"
                    /\ issuedAt[p] = 0
      BY DEF Init, NewRow
<1>2. TypeOK
      BY DEF Init, TypeOK, NewRow
<1>3. RequestsSound
      BY DEF Init, RequestsSound
<1>4. TalksSound
      BY DEF Init, TalksSound
<1>5. RevisionCountsChanges
  <2> SUFFICES ASSUME NEW p \in PO
               PROVE  revision[p] = 1 + Cardinality(ApprovedChanges(p))
      BY DEF RevisionCountsChanges, Init
  <2>1. [po |-> p, status |-> "APPROVED"] \in ChangeRow
        BY DEF ChangeRow, ChangeStatus
  <2>2. ApprovedChanges(p) = {}
        BY <2>1, NoChangeAssumption DEF Init, ApprovedChanges
  <2> QED  BY <2>2, FS_EmptySet DEF Init
<1>6. RevisionsStart
      BY DEF Init, RevisionsStart
<1> QED
      BY <1>1, <1>2, <1>3, <1>4, <1>5, <1>6
      DEF IInv, Reached, Released, ReleasedWithinAuthority, NoReleaseWithoutDecision,
          RejectedMeansCancelled, MailedOnce, IssuedHasLink, SplitNeverSent

LEMMA ExpireKeeps ==
    ASSUME IInv, NEW p \in PO, ExpireLink(p)
    PROVE  IInv'
<1>1. UNCHANGED <<po, issuedAt, req, decisions, raced, changeVars>>
      BY DEF ExpireLink
<1>2. TypeOK'
      BY <1>1 DEF IInv, TypeOK, ExpireLink, changeVars
<1>3. IssuedHasLink'
      BY <1>1 DEF IInv, TypeOK, IssuedHasLink, ExpireLink
<1> QED
      BY <1>1, <1>2, <1>3, ChangesAside
      DEF IInv, Reached, Released, ReleasedWithinAuthority, NoReleaseWithoutDecision,
          RejectedMeansCancelled, MailedOnce, SplitNeverSent, RequestsSound, Sound,
          Authorised, AuthorisedFor, MayApprove, Written, ContractStep, CanTransition,
          changeVars

LEMMA StutterKeeps == IInv /\ UNCHANGED vars => IInv'
BY DEF vars, IInv, TypeOK, Reached, Released, ReleasedWithinAuthority,
       NoReleaseWithoutDecision, RejectedMeansCancelled, MailedOnce, IssuedHasLink,
       SplitNeverSent, RequestsSound, Sound, Authorised, AuthorisedFor, MayApprove,
       Written, ContractStep, CanTransition, changeVars, TalksSound,
       RevisionsStart, RevisionCountsChanges, ApprovedChanges

LEMMA StepIInv == IInv /\ [Next]_vars => IInv'
<1> SUFFICES ASSUME IInv, [Next]_vars  PROVE  IInv'
    OBVIOUS
<1>1. ASSUME NEW r \in Request, NEW p \in PO, Read(r, p)  PROVE  IInv'
      BY <1>1, ReadKeeps
<1>2. ASSUME NEW r \in Request, Commit(r)  PROVE  IInv'
      BY <1>2, CommitKeeps
<1>3. ASSUME NEW p \in PO, ExpireLink(p)  PROVE  IInv'
      BY <1>3, ExpireKeeps
<1>4. ASSUME NEW r \in Request, Negotiate(r)  PROVE  IInv'
      BY <1>4, NegotiateKeeps
<1>5. CASE UNCHANGED vars
      BY <1>5, StutterKeeps
<1> QED  BY <1>1, <1>2, <1>3, <1>4, <1>5 DEF Next

\* The invariant holds however the handlers interleave.
THEOREM Invariance == Spec => []IInv
BY InitIInv, StepIInv, PTL DEF Spec

\* Every column holds a value of its type: the columns of an UPDATE are never
\* mixed up, whatever rows the writes land on.
THEOREM TypeCorrect == Spec => []TypeOK
<1>1. IInv => TypeOK
      BY DEF IInv
<1> QED  BY <1>1, Invariance, PTL

\* A released order carries a total somebody with the authority for it decided
\* on, for any table of thresholds, unless handlers overlapped on the order or
\* a change request revised it.
THEOREM Authority == Spec => []ReleasedWithinAuthority
<1>1. IInv => ReleasedWithinAuthority
      BY DEF IInv
<1> QED  BY <1>1, Invariance, PTL

\* However handlers overlap, no order is past the draft stage without a
\* decision by a user who may approve the total that user saw.
THEOREM Decided == Spec => []NoReleaseWithoutDecision
<1>1. IInv => NoReleaseWithoutDecision
      BY DEF IInv
<1> QED  BY <1>1, Invariance, PTL

\* A decline's two columns stay together; an order is mailed once, never mailed
\* while it is a draft or held, and never sent when it is of type SPLIT: the
\* three promises of a send and a decline, on orders without an overlap.
THEOREM SendAndDecline == Spec => [](RejectedMeansCancelled /\ MailedOnce /\ SplitNeverSent)
<1>1. IInv => RejectedMeansCancelled /\ MailedOnce /\ SplitNeverSent
      BY DEF IInv
<1> QED  BY <1>1, Invariance, PTL

\* An order that was sent has had its PO_VIEW token, however handlers overlap.
THEOREM LinkMinted == Spec => []IssuedHasLink
<1>1. IInv => IssuedHasLink
      BY DEF IInv
<1> QED  BY <1>1, Invariance, PTL

\* An order's revision counts the change requests approved on it, and is never
\* behind them, for any number of orders, change requests and resolutions, as
\* long as no approval takes a change request of one order to another.
THEOREM Revisions == Spec => []RevisionCountsChanges
<1>1. IInv => RevisionCountsChanges
      BY DEF IInv
<1> QED  BY <1>1, Invariance, PTL

\* What a step may change: only a handler's write touches the two statuses, the
\* mail count or `raced`, and it takes an order that stays unraced along its
\* request's pair.
LEMMA StepEffect ==
    ASSUME IInv, [Next]_vars
    PROVE  \/ /\ UNCHANGED <<issuedAt, raced>>
              /\ \A p \in PO : /\ po'[p].status = po[p].status
                               /\ po'[p].approvalStatus = po[p].approvalStatus
           \/ \E r \in Request : Commit(r)
<1>1. ASSUME NEW r \in Request, NEW p \in PO, Read(r, p)
      PROVE  UNCHANGED <<po, issuedAt, raced>>
      BY <1>1 DEF Read, IssuePurchaseOrder, ApprovePurchaseOrder,
                  DeclinePurchaseOrder, ConfirmPurchaseOrder,
                  ConfirmPurchaseOrderViaToken, AcceptPurchaseOrder,
                  AcceptPurchaseOrderViaToken, VendorDeclinePurchaseOrder,
                  VendorDeclinePurchaseOrderViaToken, ReceivePurchaseOrder,
                  UpdatePurchaseOrder, MoveStatus, DecideStatus, Begin
<1>2. ASSUME NEW p \in PO, ExpireLink(p)
      PROVE  UNCHANGED <<po, issuedAt, raced>>
      BY <1>2 DEF ExpireLink
<1>3. ASSUME NEW r \in Request, Negotiate(r)
      PROVE  /\ UNCHANGED <<issuedAt, raced>>
             /\ \A p \in PO : /\ po'[p].status = po[p].status
                              /\ po'[p].approvalStatus = po[p].approvalStatus
  <2>1. ASSUME NEW c \in Change, ApproveChange(r, c)
        PROVE  /\ UNCHANGED <<issuedAt, raced>>
               /\ \A p \in PO : /\ po'[p].status = po[p].status
                                /\ po'[p].approvalStatus = po[p].approvalStatus
    <3>1. PICK total \in Total : po' = [po EXCEPT ![talk[r].po].total = total]
          BY <2>1 DEF ApproveChange
    <3>2. \A p \in PO : po[p] \in Row
          BY DEF IInv, TypeOK
    <3>3. UNCHANGED <<issuedAt, raced>>
          BY <2>1 DEF ApproveChange, Resolve
    <3> QED  BY <3>1, <3>2, <3>3 DEF IInv, TypeOK, Row
  <2>2. ASSUME NEW c \in Change, RejectChange(r, c)
        PROVE  UNCHANGED <<po, issuedAt, raced>>
        BY <2>2 DEF RejectChange, Resolve
  <2> QED  BY <1>3, <2>1, <2>2 DEF Negotiate, ProposeChange, StoreChange, ReadChange, Talk
<1> QED  BY <1>1, <1>2, <1>3 DEF Next, vars

LegalStep ==
    \A p \in PO : po'[p].status # po[p].status =>
        CanTransition(po[p].status, po'[p].status) \/ p \in raced'

LEMMA LegalStepHolds == IInv /\ [Next]_vars => LegalStep
<1> SUFFICES ASSUME IInv, [Next]_vars, NEW p \in PO,
                    po'[p].status # po[p].status, p \notin raced'
             PROVE  CanTransition(po[p].status, po'[p].status)
    BY DEF LegalStep
<1>1. PICK r \in Request : Commit(r)
      BY StepEffect
<1>2. req[r] \in InFlight /\ req[r] # NoRequest /\ Sound(req[r])
      BY <1>1, CommitEffect DEF IInv, RequestsSound, Commit
<1>3. p = req[r].po
      BY <1>1, CommitEffect DEF IInv
<1>4. po[p] = req[r].snap /\ po'[p] = req[r].row
      BY <1>1, <1>3, CommitFollowsRead
<1> QED
      BY <1>2, <1>4 DEF Sound

\* Every status change is an edge of the state machine or was written from a
\* stale row, for any number of concurrent requests.
THEOREM Legal == Spec => LegalUnlessRaced
<1>1. IInv /\ [Next]_vars => [LegalStep]_vars
      BY LegalStepHolds
<1> QED
      BY <1>1, Invariance, PTL DEF Spec, LegalUnlessRaced, LegalStep

-------------------------------------------------------------------------------
(* The handlers implement the contract.                                    *)

StatusMap == [p \in PO |-> po[p].status]

ApprovalMap == [p \in PO |-> po[p].approvalStatus]

LEMMA InitContract == Init => Contract!Init
<1> SUFFICES ASSUME Init  PROVE  Contract!Init
    OBVIOUS
<1>1. \A p \in PO : /\ po[p].status \in {"DRAFT", "SPLIT"}
                    /\ po[p].approvalStatus = "NOT_REQUIRED"
      BY DEF Init, NewRow
<1>2. StatusMap \in [PO -> {"DRAFT", "SPLIT"}]
      BY <1>1 DEF StatusMap
<1>3. ApprovalMap = [p \in PO |-> "NOT_REQUIRED"]
      BY <1>1 DEF ApprovalMap
<1> QED
      BY <1>2, <1>3 DEF Init, Contract!Init, StatusMap, ApprovalMap

\* A write leaves the orders it does not name where they are.
LEMMA CommitMaps ==
    ASSUME IInv, NEW r \in Request, Commit(r)
    PROVE  /\ StatusMap' = [StatusMap EXCEPT ![req[r].po] = po'[req[r].po].status]
           /\ ApprovalMap' = [ApprovalMap EXCEPT ![req[r].po] =
                                 po'[req[r].po].approvalStatus]
           /\ issuedAt' = IF req[r].sends
                          THEN [issuedAt EXCEPT ![req[r].po] = @ + 1]
                          ELSE issuedAt
<1>1. req[r].po \in PO
      BY CommitEffect DEF IInv, InFlight
<1>2. \A o \in PO : o # req[r].po => po'[o] = po[o]
      BY CommitEffect DEF IInv
<1>3. StatusMap' = [StatusMap EXCEPT ![req[r].po] = po'[req[r].po].status]
      BY <1>1, <1>2, Zenon DEF StatusMap
<1>4. ApprovalMap' = [ApprovalMap EXCEPT ![req[r].po] = po'[req[r].po].approvalStatus]
      BY <1>1, <1>2, Zenon DEF ApprovalMap
<1> QED
      BY <1>3, <1>4 DEF Commit

LEMMA CommitContract ==
    ASSUME IInv, NEW r \in Request, Commit(r)
    PROVE  [Contract!Next]_(Contract!vars)
<1> DEFINE q == req[r]
<1>1. /\ q \in InFlight /\ q.po \in PO /\ q.row \in Row
      /\ Sound(q)
      BY CommitEffect DEF IInv, RequestsSound, Commit, InFlight
<1> SUFFICES ASSUME NEW p \in PO, p = q.po
             PROVE  [Contract!Next]_(Contract!vars)
    BY <1>1
<1>2. CASE p \in raced'
  <2>1. raced' = raced \cup {p}
        BY <1>2 DEF Commit
  <2>2. \A o \in PO \ {p} : po'[o] = po[o] /\ issuedAt'[o] = issuedAt[o]
        BY <1>1, CommitEffect DEF IInv
  <2>3. Contract!Raced(p)
        BY <2>1, <2>2 DEF Contract!Raced
  <2> QED  BY <1>1, <2>3 DEF Contract!Next
<1>3. CASE p \notin raced'
  <2>1. /\ po[p] = q.snap /\ po'[p] = q.row
        /\ raced' = raced
        BY <1>3, CommitFollowsRead DEF Commit
  <2>2. /\ StatusMap[p] = q.snap.status
        /\ ApprovalMap[p] = q.snap.approvalStatus
        /\ StatusMap' = [StatusMap EXCEPT ![p] = q.row.status]
        /\ ApprovalMap' = [ApprovalMap EXCEPT ![p] = q.row.approvalStatus]
        /\ q.sends => issuedAt' = [issuedAt EXCEPT ![p] = @ + 1]
        /\ ~q.sends => issuedAt' = issuedAt
        BY <1>1, <2>1, CommitMaps DEF StatusMap, ApprovalMap
  <2>3. /\ q.row.status = q.snap.status => StatusMap' = StatusMap
        /\ q.row.approvalStatus = q.snap.approvalStatus => ApprovalMap' = ApprovalMap
        BY <1>1, <2>1, <2>2 DEF StatusMap, ApprovalMap
  <2>4. Contract!Orderly(p) \/ UNCHANGED <<StatusMap, ApprovalMap, issuedAt, raced>>
        BY <1>1, <2>1, <2>2, <2>3
        DEF Sound, ContractStep, Contract!Orderly, Contract!Hold, Contract!Send,
            Contract!Release, Contract!Approve, Contract!Withdraw, Contract!Answer,
            Contract!Deliver, Contract!Move, Contract!Decided, Contract!Mailed,
            StatusMap, ApprovalMap
  <2> QED
        BY <1>1, <2>4 DEF Contract!Next, Contract!vars, StatusMap, ApprovalMap
<1> QED  BY <1>2, <1>3

LEMMA NextContract == IInv /\ [Next]_vars => [Contract!Next]_(Contract!vars)
<1> SUFFICES ASSUME IInv, [Next]_vars  PROVE  [Contract!Next]_(Contract!vars)
    OBVIOUS
<1>1. CASE /\ UNCHANGED <<issuedAt, raced>>
           /\ \A p \in PO : /\ po'[p].status = po[p].status
                            /\ po'[p].approvalStatus = po[p].approvalStatus
      BY <1>1, Zenon DEF Contract!vars
<1> QED
      BY <1>1, StepEffect, CommitContract

\* The handlers, two steps each and interleaved at will, implement the
\* contract, in which each is one atomic step until an overlap on its order.
THEOREM Implements == Spec => ImplementsContract
BY InitContract, NextContract, Invariance, PTL
   DEF Spec, ImplementsContract, Contract!Spec

===============================================================================
