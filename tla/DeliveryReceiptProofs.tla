------------------------- MODULE DeliveryReceiptProofs -------------------------
(***************************************************************************)
(* Theorems about DeliveryReceipt, for any order, reports and requests.    *)
(*                                                                         *)
(* Stock only grows, so the stock of a line covers the quantity a request  *)
(* read (Covered) until it writes, however stale the quantity has become:  *)
(* that is what makes the first theorem hold under any overlap. The others *)
(* follow a write that is not stale from the order it read.                *)
(***************************************************************************)
EXTENDS DeliveryReceipt, TLAPS

Busy == {r \in Request : req[r] # NoRequest}

Covered(q) == \A l \in Tracked : stock[l] >= q.delivered[l]

\* What a receipt or an approval in flight keeps to.
Sound(q) ==
    /\ \A l \in q.lines : q.delivered[l] + q.delta[l] >= 0
    /\ q.kind = "receive" =>
          \A l \in q.lines : q.delivered[l] + q.delta[l] <= q.ordered[l]
    /\ Target(q) = q.status \/ CanTransition(q.status, Target(q))

\* What a receipt or an approval has read of the order, as changes made since
\* can tell it from the order as it is.
Informed(q) ==
    /\ q.located \/ homeless
    /\ \A l \in Line \ cut : Ordered[l] <= q.ordered[l] /\ q.ordered[l] <= ordered[l]

\* A review in flight is of a report that was submitted.
Reviews(q) ==
    /\ q.report \in Report
    /\ report[q.report] # NoReport
    /\ q.kind = "approve" => q.lines = DOMAIN report[q.report].lines

RequestsSound ==
    \A r \in Busy :
        /\ req[r].kind # "reject" => Sound(req[r]) /\ Covered(req[r]) /\ Informed(req[r])
        /\ req[r].kind # "receive" => Reviews(req[r])

\* The order itself, as changes can tell it from the order that was sent.
OrderFollows ==
    /\ located \/ homeless
    /\ \A l \in Line \ cut : Ordered[l] <= ordered[l]

\* An applied report has been submitted.
AppliedSubmitted == \A d \in Report : applied[d] > 0 => report[d] # NoReport

IInv ==
    /\ TypeOK
    /\ RequestsSound
    /\ OrderFollows
    /\ AppliedSubmitted
    /\ StockCoversDelivered
    /\ StockIsDelivered
    /\ OverReceiptOnlyByReport
    /\ StatusTellsQuantities
    /\ AppliedAsDecided

-------------------------------------------------------------------------------
(* Requests, reports and the status.                                       *)

\* A request that is not a rejection carries the order as read.
LEMMA Kinds ==
    ASSUME NEW q \in InFlight
    PROVE  /\ q.kind \in {"receive", "approve", "reject"}
           /\ q.kind # "reject" => q \in Applying
           /\ q.kind = "reject" => q \in Rejecting
BY DEF InFlight, Applying, Rejecting

\* NextStatus either keeps the status or says how much has come.
LEMMA NextStatusType ==
    ASSUME NEW from \in OrderStatus, NEW projected, NEW quantities
    PROVE  /\ NextStatus(from, projected, quantities) \in OrderStatus
           /\ NextStatus(from, projected, quantities) \in
                 {from, "PARTIALLY_DELIVERED", "DELIVERED"}
BY DEF NextStatus, OrderStatus

\* Closing a report leaves what it says alone.
LEMMA CloseReport ==
    ASSUME TypeOK, NEW d \in Report, report[d] # NoReport,
           NEW verdict \in {"APPROVED", "REJECTED"},
           report' = [report EXCEPT ![d].status = verdict]
    PROVE  /\ report' \in [Report -> SubmittedReport \cup {NoReport}]
           /\ report'[d].status = verdict
           /\ \A e \in Report : e # d => report'[e] = report[e]
           /\ \A e \in Report : report[e] # NoReport =>
                 report'[e] # NoReport /\ report'[e].lines = report[e].lines
<1>1. report \in [Report -> SubmittedReport \cup {NoReport}]
      BY DEF TypeOK
<1>2. report[d] \in SubmittedReport
      BY <1>1
<1>3. [report[d] EXCEPT !.status = verdict] \in SubmittedReport
      BY <1>2 DEF SubmittedReport
<1>4. /\ report'[d] = [report[d] EXCEPT !.status = verdict]
      /\ \A e \in Report : e # d => report'[e] = report[e]
      BY <1>1
<1>5. report'[d] # NoReport
      BY <1>3, <1>4, NoReportAssumption
<1>6. report'[d].status = verdict /\ report'[d].lines = report[d].lines
      BY <1>2, <1>4 DEF SubmittedReport
<1>7. report' \in [Report -> SubmittedReport \cup {NoReport}]
      BY <1>1, <1>3
<1> QED  BY <1>4, <1>5, <1>6, <1>7

-------------------------------------------------------------------------------
(* Reading.                                                                *)

\* What a step leaves to show that changes the requests alone: that each of them
\* is still sound.
LEMMA RequestStep ==
    ASSUME IInv, NEW r \in Request, NEW new \in InFlight \cup {NoRequest},
           req' = [req EXCEPT ![r] = new],
           UNCHANGED <<status, delivered, stock, report, applied, lowered, raced,
                       counted, changeVars>>,
           new # NoRequest =>
               /\ new.kind # "reject" => Sound(new) /\ Covered(new) /\ Informed(new)
               /\ new.kind # "receive" => Reviews(new)
    PROVE  IInv'
<1>1. req \in [Request -> InFlight \cup {NoRequest}]
      BY DEF IInv, TypeOK
<1>2. TypeOK'
      BY <1>1 DEF IInv, TypeOK, changeVars
<1>3. RequestsSound'
  <2> SUFFICES ASSUME NEW s \in Request, req'[s] # NoRequest
               PROVE  /\ req'[s].kind # "reject" =>
                            Sound(req'[s]) /\ Covered(req'[s]) /\ Informed(req'[s])
                      /\ req'[s].kind # "receive" => Reviews(req'[s])
      BY DEF RequestsSound, Busy, Sound, Covered, Informed, Reviews, Target, Tracked,
             changeVars
  <2>1. CASE s = r
        BY <2>1, <1>1
  <2>2. CASE s # r
        BY <2>2, <1>1 DEF IInv, RequestsSound, Busy
  <2> QED  BY <2>1, <2>2
<1>4. (/\ OrderFollows /\ AppliedSubmitted /\ StockCoversDelivered /\ StockIsDelivered
       /\ OverReceiptOnlyByReport /\ StatusTellsQuantities /\ AppliedAsDecided)'
      BY DEF IInv, OrderFollows, AppliedSubmitted, StockCoversDelivered,
             StockIsDelivered, OverReceiptOnlyByReport, StatusTellsQuantities,
             AppliedAsDecided, Tracked, changeVars
<1> QED  BY <1>2, <1>3, <1>4 DEF IInv

\* A receipt or an approval that begins with quantities within bounds keeps the
\* invariant.
LEMMA BeginKeeps ==
    ASSUME IInv, NEW r \in Request, NEW kind \in {"receive", "approve"},
           NEW d \in Report \cup {NoReport}, NEW lines \in SUBSET Line,
           NEW delta \in [Line -> Int],
           Begin(r, kind, d, lines, delta),
           \A l \in lines : delivered[l] + delta[l] >= 0,
           kind = "receive" => \A l \in lines : delivered[l] + delta[l] <= ordered[l],
           kind = "approve" => /\ d \in Report /\ report[d] # NoReport
                               /\ lines = DOMAIN report[d].lines
    PROVE  IInv'
<1> DEFINE new == [kind |-> kind, report |-> d, status |-> status,
                   delivered |-> delivered, ordered |-> ordered,
                   located |-> located, lines |-> lines, delta |-> delta,
                   checked |-> FALSE]
<1>1. UNCHANGED <<status, delivered, stock, report, applied, lowered, raced,
                  counted, changeVars>>
      BY DEF Begin
<1>2. /\ req' = [req EXCEPT ![r] = new]
      /\ req \in [Request -> InFlight \cup {NoRequest}]
      BY DEF Begin, IInv, TypeOK
<1>3. new \in InFlight
  <2>1. FALSE \in BOOLEAN
        OBVIOUS
  <2> QED  BY <2>1 DEF IInv, TypeOK, InFlight, Applying
<1>4. Sound(new)
      BY DEF Begin, Sound, Target
<1>5. Covered(new) /\ Informed(new)
  <2>1. ordered \in [Line -> Int]
        BY DEF IInv, TypeOK
  <2> QED  BY <2>1 DEF IInv, StockCoversDelivered, Covered, OrderFollows, Informed
<1>6. kind # "receive" => Reviews(new)
      BY DEF Reviews
<1>7. new.kind = kind
      OBVIOUS
<1> HIDE DEF new
<1> QED  BY <1>1, <1>2, <1>3, <1>4, <1>5, <1>6, <1>7, RequestStep

\* A receipt gives what is ordered at most.
LEMMA ReceiveKeeps ==
    ASSUME IInv, NEW r \in Request, ReceivePurchaseOrder(r)
    PROVE  IInv'
<1>0. PICK lines \in SUBSET Line \ {{}} :
          \E given \in Given(lines) :
              (\A l \in lines : given[l] <= ordered[l]) /\ Receive(r, lines, given)
      BY DEF ReceivePurchaseOrder
<1>1. PICK given \in Given(lines) :
          (\A l \in lines : given[l] <= ordered[l]) /\ Receive(r, lines, given)
      BY <1>0
<1> DEFINE delta == [l \in Line |-> IF l \in lines THEN given[l] - delivered[l] ELSE 0]
<1>2. delivered \in [Line -> Nat]
      BY DEF IInv, TypeOK
<1>3. \A l \in lines : given[l] \in Nat
  <2>1. ordered \in [Line -> Int]
        BY DEF IInv, TypeOK
  <2> QED  BY <2>1 DEF Given
<1>4. /\ delta \in [Line -> Int]
      /\ \A l \in lines : delivered[l] + delta[l] = given[l]
      BY <1>2, <1>3
<1>5. Begin(r, "receive", NoReport, lines, delta)
      BY <1>1 DEF Receive
<1>6. \A l \in lines : /\ delivered[l] + delta[l] >= 0
                       /\ delivered[l] + delta[l] <= ordered[l]
      BY <1>1, <1>3, <1>4
<1> HIDE DEF delta
<1> QED  BY <1>4, <1>5, <1>6, BeginKeeps

\* An approval adds what its report accepts, which is never negative.
LEMMA ApproveKeeps ==
    ASSUME IInv, NEW r \in Request, NEW d \in Report, ApproveReport(r, d)
    PROVE  IInv'
<1> DEFINE said  == report[d].lines
           lines == DOMAIN said
           delta == [l \in Line |-> IF l \in lines THEN Accepted(said[l]) ELSE 0]
<1>1. report[d] \in SubmittedReport /\ report[d] # NoReport
      BY DEF ApproveReport, IInv, TypeOK
<1>2. /\ lines \subseteq Line
      /\ \A l \in lines : said[l] \in ReportLine /\ said[l].damaged <= said[l].received
      BY <1>1, ContentAssumption DEF SubmittedReport
<1>3. \A l \in lines : Accepted(said[l]) \in Nat
      BY <1>2 DEF Accepted, ReportLine
<1>4. delivered \in [Line -> Nat]
      BY DEF IInv, TypeOK
<1>5. /\ delta \in [Line -> Int]
      /\ \A l \in lines : delivered[l] + delta[l] >= 0
      BY <1>2, <1>3, <1>4
<1>6. Begin(r, "approve", d, lines, delta)
      BY DEF ApproveReport
<1>7. lines \in SUBSET Line
      BY <1>2
<1> HIDE DEF delta
<1> QED  BY <1>1, <1>5, <1>6, <1>7, BeginKeeps

LEMMA RecheckKeeps ==
    ASSUME IInv, NEW r \in Request, RecheckReport(r)
    PROVE  IInv'
<1> DEFINE q == req[r]
<1>1. q \in InFlight /\ q # NoRequest
      BY DEF RecheckReport, IInv, TypeOK
<1>2. q \in Applying /\ q.kind = "approve"
      BY <1>1, Kinds DEF RecheckReport
<1>3. Sound(q) /\ Covered(q) /\ Informed(q) /\ Reviews(q)
      BY <1>1, <1>2 DEF IInv, RequestsSound, Busy
<1> DEFINE new == [q EXCEPT !.checked = TRUE]
<1>4. /\ new \in Applying /\ new.kind = "approve" /\ new.report = q.report
      /\ new.lines = q.lines /\ new.delta = q.delta
      /\ new.delivered = q.delivered /\ new.status = q.status
      /\ new.ordered = q.ordered /\ new.located = q.located
      BY <1>2 DEF Applying
<1>5. Sound(new) /\ Covered(new) /\ Informed(new) /\ Reviews(new)
  <2> HIDE DEF new, q
  <2> QED  BY <1>2, <1>3, <1>4 DEF Sound, Covered, Informed, Reviews, Target
<1>6. UNCHANGED <<status, delivered, stock, report, applied, lowered, raced,
                  counted, changeVars>>
      BY DEF RecheckReport
<1>7. CASE req' = [req EXCEPT ![r] = new]
  <2>1. new \in InFlight
        BY <1>4 DEF InFlight
  <2> HIDE DEF new
  <2> QED  BY <1>4, <1>5, <1>6, <1>7, <2>1, RequestStep
<1>8. CASE req' = [req EXCEPT ![r] = NoRequest]
      BY <1>6, <1>8, RequestStep
<1>9. \/ req' = [req EXCEPT ![r] = new]
      \/ req' = [req EXCEPT ![r] = NoRequest]
  <2>1. req \in [Request -> InFlight \cup {NoRequest}]
        BY DEF IInv, TypeOK
  <2>2. [req EXCEPT ![r].checked = TRUE] = [req EXCEPT ![r] = new]
        BY <2>1
  <2> QED  BY <2>2 DEF RecheckReport
<1> QED  BY <1>7, <1>8, <1>9

LEMMA RejectKeeps ==
    ASSUME IInv, NEW r \in Request, NEW d \in Report, RejectReport(r, d)
    PROVE  IInv'
<1> DEFINE new == [kind |-> "reject", report |-> d]
<1>1. new \in InFlight
      BY DEF InFlight, Rejecting
<1>2. new.kind = "reject" /\ Reviews(new)
      BY DEF RejectReport, Reviews
<1>3. /\ req' = [req EXCEPT ![r] = new]
      /\ UNCHANGED <<status, delivered, stock, report, applied, lowered, raced,
                     counted, changeVars>>
      BY DEF RejectReport
<1> HIDE DEF new
<1> QED  BY <1>1, <1>2, <1>3, RequestStep

-------------------------------------------------------------------------------
(* Reports and the order's own moves.                                      *)

LEMMA CreateKeeps ==
    ASSUME IInv, NEW d \in Report, NEW content \in Content, CreateReport(d, content)
    PROVE  IInv'
<1> DEFINE new == [status |-> "SUBMITTED", lines |-> content]
<1>1. /\ report[d] = NoReport
      /\ report' = [report EXCEPT ![d] = new]
      /\ UNCHANGED <<status, delivered, stock, req, applied, lowered, raced, counted,
                     changeVars>>
      BY DEF CreateReport
<1>2. new \in SubmittedReport /\ new # NoReport
      BY NoReportAssumption DEF SubmittedReport
<1>3. /\ report \in [Report -> SubmittedReport \cup {NoReport}]
      /\ applied \in [Report -> Nat]
      /\ req \in [Request -> InFlight \cup {NoRequest}]
      BY DEF IInv, TypeOK
<1>4. /\ report' \in [Report -> SubmittedReport \cup {NoReport}]
      /\ report'[d] = new
      /\ \A e \in Report : e # d => report'[e] = report[e]
      BY <1>1, <1>2, <1>3
<1>5. new.status = "SUBMITTED"
      OBVIOUS
<1>6. applied[d] = 0
      BY <1>1, <1>3 DEF IInv, AppliedSubmitted
<1> HIDE DEF new
<1>7. TypeOK'
      BY <1>1, <1>4 DEF IInv, TypeOK, changeVars
<1>8. RequestsSound'
  <2> SUFFICES ASSUME NEW s \in Request, req[s] # NoRequest
               PROVE  (/\ req[s].kind # "reject" =>
                             Sound(req[s]) /\ Covered(req[s]) /\ Informed(req[s])
                       /\ req[s].kind # "receive" => Reviews(req[s]))'
      BY <1>1 DEF RequestsSound, Busy
  <2>1. /\ req[s].kind # "reject" =>
              Sound(req[s]) /\ Covered(req[s]) /\ Informed(req[s])
        /\ req[s].kind # "receive" => Reviews(req[s])
        BY DEF IInv, RequestsSound, Busy
  <2>2. (req[s].kind # "reject" => Sound(req[s]) /\ Covered(req[s]) /\ Informed(req[s]))'
        BY <1>1, <2>1 DEF Sound, Covered, Informed, Target, Tracked, changeVars
  <2>3. (req[s].kind # "receive" => Reviews(req[s]))'
    <3> SUFFICES ASSUME req[s].kind # "receive"
                 PROVE  Reviews(req[s])'
        BY <1>1
    <3>1. req[s].report \in Report /\ req[s].report # d
          BY <1>1, <2>1 DEF Reviews
    <3> QED  BY <1>1, <1>4, <2>1, <3>1 DEF Reviews
  <2> QED  BY <2>2, <2>3
<1>9. AppliedSubmitted'
      BY <1>1, <1>2, <1>4 DEF IInv, AppliedSubmitted
<1>10. (/\ OrderFollows /\ StockCoversDelivered /\ StockIsDelivered
        /\ StatusTellsQuantities)'
      BY <1>1 DEF IInv, OrderFollows, StockCoversDelivered, StockIsDelivered,
                  StatusTellsQuantities, Tracked, changeVars
<1>11. OverReceiptOnlyByReport'
      BY <1>1, <1>4, <1>6 DEF IInv, OverReceiptOnlyByReport, changeVars
<1>12. AppliedAsDecided'
      BY <1>1, <1>2, <1>4, <1>5, <1>6 DEF IInv, AppliedAsDecided
<1> QED  BY <1>7, <1>8, <1>9, <1>10, <1>11, <1>12 DEF IInv

\* The order moves before anything is delivered, to a status that says so.
LEMMA MoveKeeps ==
    ASSUME IInv, NEW from, NEW to \in {"ACKNOWLEDGED", "ACCEPTED", "CANCELLED"},
           from \subseteq {"SENT", "ACKNOWLEDGED", "ACCEPTED"},
           MoveOrder(from, to)
    PROVE  IInv'
<1>1. /\ status \in {"SENT", "ACKNOWLEDGED", "ACCEPTED"}
      /\ status' = to
      /\ UNCHANGED <<delivered, stock, report, req, applied, lowered, raced, counted,
                     changeVars>>
      BY DEF MoveOrder
<1>2. TypeOK'
      BY <1>1 DEF IInv, TypeOK, OrderStatus, changeVars
<1>3. RequestsSound'
      BY <1>1 DEF IInv, RequestsSound, Busy, Sound, Covered, Informed, Reviews, Target,
                  Tracked, changeVars
<1>4. StatusTellsQuantities'
      BY <1>1 DEF IInv, StatusTellsQuantities, changeVars
<1>5. (/\ OrderFollows /\ AppliedSubmitted /\ StockCoversDelivered /\ StockIsDelivered
       /\ OverReceiptOnlyByReport /\ AppliedAsDecided)'
      BY <1>1 DEF IInv, OrderFollows, AppliedSubmitted, StockCoversDelivered,
                  StockIsDelivered, OverReceiptOnlyByReport, AppliedAsDecided, Tracked,
                  changeVars
<1> QED  BY <1>2, <1>3, <1>4, <1>5 DEF IInv

-------------------------------------------------------------------------------
(* Change requests.                                                        *)

\* Proposing a change and rejecting it leave the order alone.
LEMMA PendingKeeps ==
    ASSUME IInv, NEW c \in Change, ProposeChange(c) \/ RejectChange(c)
    PROVE  IInv'
<1>1. /\ proposed' \subseteq Change
      /\ UNCHANGED <<status, delivered, stock, report, req, applied, lowered, raced,
                     counted, ordered, located, cut, homeless>>
      BY DEF IInv, TypeOK, ProposeChange, RejectChange
<1>2. TypeOK'
      BY <1>1 DEF IInv, TypeOK
<1>3. RequestsSound'
      BY <1>1 DEF IInv, RequestsSound, Busy, Sound, Covered, Informed, Reviews, Target,
                  Tracked
<1>4. (/\ OrderFollows /\ AppliedSubmitted /\ StockCoversDelivered /\ StockIsDelivered
       /\ OverReceiptOnlyByReport /\ StatusTellsQuantities /\ AppliedAsDecided)'
      BY <1>1 DEF IInv, OrderFollows, AppliedSubmitted, StockCoversDelivered,
                  StockIsDelivered, OverReceiptOnlyByReport, StatusTellsQuantities,
                  AppliedAsDecided, Tracked
<1> QED  BY <1>2, <1>3, <1>4 DEF IInv

\* A change of what is ordered: a line it does not cut has at least as much
\* ordered as before, and a line it stops tracking is no longer spoken of.
LEMMA ReviseKeeps ==
    ASSUME IInv, NEW quantities, NEW places \in SUBSET BOOLEAN,
           \A l \in Line \cap DOMAIN quantities : quantities[l] \in Int,
           Revise(quantities, places), proposed' \subseteq Change
    PROVE  IInv'
<1>1. UNCHANGED <<status, delivered, stock, report, req, applied, lowered, raced, counted>>
      BY DEF Revise
<1>2. /\ ordered \in [Line -> Int] /\ ordered' \in [Line -> Int]
      /\ located' \in BOOLEAN /\ homeless' \in BOOLEAN
      /\ cut' \subseteq Line
      BY DEF IInv, TypeOK, Revise
<1>3. /\ homeless => homeless'
      /\ located' \/ homeless'
      /\ cut \subseteq cut'
      /\ \A l \in Line \ cut' : ordered[l] <= ordered'[l]
  <2>1. cut' = cut \cup {l \in Line : ordered'[l] < ordered[l]}
        BY DEF Revise
  <2>2. \A l \in Line \ cut' : ~(ordered'[l] < ordered[l])
        BY <2>1
  <2>3. \A l \in Line \ cut' : ordered[l] <= ordered'[l]
        BY <1>2, <2>2
  <2>4. homeless' = (homeless \/ ~located')
        BY DEF Revise
  <2>5. (homeless => homeless') /\ (located' \/ homeless')
        BY ONLY <2>4
  <2> QED  BY <2>1, <2>3, <2>5
<1>4. Tracked' \subseteq Tracked
      BY <1>3 DEF Tracked
<1>5. TypeOK'
      BY <1>1, <1>2 DEF IInv, TypeOK
<1>6. RequestsSound'
  <2> SUFFICES ASSUME NEW s \in Request, req[s] # NoRequest
               PROVE  (/\ req[s].kind # "reject" =>
                             Sound(req[s]) /\ Covered(req[s]) /\ Informed(req[s])
                       /\ req[s].kind # "receive" => Reviews(req[s]))'
      BY <1>1 DEF RequestsSound, Busy
  <2>1. /\ req[s].kind # "reject" =>
              Sound(req[s]) /\ Covered(req[s]) /\ Informed(req[s])
        /\ req[s].kind # "receive" => Reviews(req[s])
        BY DEF IInv, RequestsSound, Busy
  <2>2. (req[s].kind # "reject" => Sound(req[s]) /\ Covered(req[s]))'
        BY <1>1, <1>4, <2>1 DEF Sound, Covered, Target
  <2>3. (req[s].kind # "reject" => Informed(req[s]))'
    <3> SUFFICES ASSUME req[s].kind # "reject"
                 PROVE  Informed(req[s])'
        BY <1>1
    <3>1. req[s].ordered \in [Line -> Int]
      <4>1. req[s] \in InFlight
            BY DEF IInv, TypeOK
      <4> QED  BY <4>1, Kinds DEF Applying
    <3>2. \A l \in Line \ cut' : req[s].ordered[l] <= ordered'[l]
          BY <1>2, <1>3, <2>1, <3>1 DEF Informed
    <3> QED  BY <1>1, <1>3, <2>1, <3>2 DEF Informed
  <2>4. (req[s].kind # "receive" => Reviews(req[s]))'
        BY <1>1, <2>1 DEF Reviews
  <2> QED  BY <2>2, <2>3, <2>4
<1>7. OrderFollows'
  <2>1. \A l \in Line \ cut' : Ordered[l] <= ordered'[l]
        BY <1>2, <1>3, OrderedAssumption DEF IInv, OrderFollows
  <2> QED  BY <1>3, <2>1 DEF OrderFollows
<1>8. (AppliedSubmitted /\ AppliedAsDecided)'
      BY <1>1 DEF IInv, AppliedSubmitted, AppliedAsDecided
<1>9. (StockCoversDelivered /\ StockIsDelivered)'
      BY <1>1, <1>4 DEF IInv, StockCoversDelivered, StockIsDelivered
<1>10. OverReceiptOnlyByReport'
  <2> SUFFICES ASSUME NEW l \in Line \ cut', delivered[l] > ordered'[l]
               PROVE  \E d \in Report : applied[d] > 0 /\ l \in DOMAIN report[d].lines
      BY <1>1 DEF OverReceiptOnlyByReport
  <2>1. delivered[l] \in Nat
        BY DEF IInv, TypeOK
  <2>2. delivered[l] > ordered[l] /\ l \notin cut
        BY <1>2, <1>3, <2>1
  <2> QED  BY <2>2 DEF IInv, OverReceiptOnlyByReport
<1>11. StatusTellsQuantities'
      BY <1>1, <1>3 DEF IInv, StatusTellsQuantities
<1> QED  BY <1>5, <1>6, <1>7, <1>8, <1>9, <1>10, <1>11 DEF IInv

LEMMA ChangesKeep ==
    ASSUME IInv,
           \/ ApproveChangeOfAnother
           \/ \E c \in Change : ProposeChange(c) \/ ApproveChange(c) \/ RejectChange(c)
    PROVE  IInv'
<1>1. ASSUME NEW c \in Change, ApproveChange(c)
      PROVE  IInv'
  <2>1. c.located \in SUBSET BOOLEAN
    <3>1. c.located \in {{}, {TRUE}, {FALSE}}
          BY ChangeAssumption
    <3>2. {{}, {TRUE}, {FALSE}} \subseteq SUBSET BOOLEAN
          OBVIOUS
    <3> QED  BY <3>1, <3>2, Zenon
  <2>2. \A l \in Line \cap DOMAIN c.ordered : c.ordered[l] \in Int
        BY ChangeAssumption
  <2>3. proposed' \subseteq Change
        BY <1>1 DEF IInv, TypeOK, ApproveChange
  <2> QED  BY <1>1, <2>1, <2>2, <2>3, ReviseKeeps DEF ApproveChange
<1>2. CASE ApproveChangeOfAnother
  <2>1. \A l \in Line \cap DOMAIN (<<>>) : (<<>>)[l] \in Int
        OBVIOUS
  <2>2. proposed' \subseteq Change
        BY <1>2 DEF IInv, TypeOK, ApproveChangeOfAnother
  <2> QED  BY <1>2, <2>1, <2>2, ReviseKeeps DEF ApproveChangeOfAnother
<1> QED  BY <1>1, <1>2, PendingKeeps

-------------------------------------------------------------------------------
(* Writing.                                                                *)

\* The other requests stay sound: quantities read are covered by a stock that
\* only grows, and reports say what they said.
LEMMA OthersSound ==
    ASSUME IInv, NEW r \in Request, req' = [req EXCEPT ![r] = NoRequest],
           stock' \in [Line -> Nat], \A l \in Line : stock'[l] >= stock[l],
           UNCHANGED changeVars,
           \A e \in Report : report[e] # NoReport =>
               report'[e] # NoReport /\ report'[e].lines = report[e].lines
    PROVE  RequestsSound'
<1> SUFFICES ASSUME NEW s \in Request, req'[s] # NoRequest
             PROVE  (/\ req[s].kind # "reject" =>
                           Sound(req[s]) /\ Covered(req[s]) /\ Informed(req[s])
                     /\ req[s].kind # "receive" => Reviews(req[s]))'
    BY DEF RequestsSound, Busy
<1>1. /\ req \in [Request -> InFlight \cup {NoRequest}]
      /\ stock \in [Line -> Nat]
      BY DEF IInv, TypeOK
<1>2. req'[s] = req[s] /\ req[s] # NoRequest /\ req[s] \in InFlight
      BY <1>1
<1>3. /\ req[s].kind # "reject" => Sound(req[s]) /\ Covered(req[s]) /\ Informed(req[s])
      /\ req[s].kind # "receive" => Reviews(req[s])
      BY <1>2 DEF IInv, RequestsSound, Busy
<1>4. (req[s].kind # "reject" => Sound(req[s]) /\ Informed(req[s]))'
      BY <1>2, <1>3 DEF Sound, Informed, Target, changeVars
<1>5. (req[s].kind # "reject" => Covered(req[s]))'
  <2> SUFFICES ASSUME req[s].kind # "reject", NEW l \in Tracked
               PROVE  stock'[l] >= req[s].delivered[l]
      BY <1>2 DEF Covered, Tracked, changeVars
  <2>1. req[s] \in Applying
        BY <1>2, Kinds
  <2>2. l \in Line /\ req[s].delivered[l] \in Nat
        BY <2>1, OrderedAssumption DEF Applying, Tracked
  <2> QED  BY <1>1, <1>3, <2>2 DEF Covered
<1>6. (req[s].kind # "receive" => Reviews(req[s]))'
      BY <1>2, <1>3 DEF Reviews
<1> QED  BY <1>4, <1>5, <1>6

\* A receipt or an approval writes what it worked out.
LEMMA ApplyKeeps ==
    ASSUME IInv, NEW r \in Request, Commit(r), req[r].kind # "reject"
    PROVE  IInv'
<1>0. PICK q : q = req[r]
      OBVIOUS
<1>1. /\ q \in Applying /\ q.kind \in {"receive", "approve"}
      /\ q # NoRequest
  <2>1. q \in InFlight /\ q # NoRequest
        BY <1>0 DEF Commit, IInv, TypeOK
  <2> QED  BY <1>0, <2>1, Kinds
<1>2. Sound(q) /\ Covered(q) /\ Informed(q) /\ (q.kind = "approve" => Reviews(q))
      BY <1>0, <1>1 DEF IInv, RequestsSound, Busy
<1>3. /\ status \in OrderStatus /\ delivered \in [Line -> Nat]
      /\ stock \in [Line -> Nat] /\ applied \in [Report -> Nat]
      /\ lowered \in BOOLEAN /\ raced \in BOOLEAN
      /\ report \in [Report -> SubmittedReport \cup {NoReport}]
      /\ req \in [Request -> InFlight \cup {NoRequest}]
      BY DEF IInv, TypeOK
<1>4. /\ q.status \in OrderStatus /\ q.delivered \in [Line -> Nat]
      /\ q.lines \subseteq Line /\ q.delta \in [Line -> Int]
      /\ q.ordered \in [Line -> Int]
      BY <1>1 DEF Applying
<1>5. /\ UNCHANGED changeVars
      /\ req' = [req EXCEPT ![r] = NoRequest]
      /\ raced' = (raced \/ Stale(q))
      /\ Apply(q)
      BY <1>0 DEF Commit
<1>6. \A l \in Line : /\ delivered'[l] = IF l \in q.lines THEN q.delivered[l] + q.delta[l]
                                                         ELSE delivered[l]
                      /\ delivered'[l] \in Nat
      BY <1>2, <1>3, <1>4, <1>5 DEF Apply, Sound
<1>7. \A l \in Line : /\ l \in Tracked =>
                            stock'[l] = IF l \in q.lines /\ q.delta[l] > 0
                                        THEN stock[l] + q.delta[l] ELSE stock[l]
                      /\ stock'[l] \in Nat /\ stock'[l] >= stock[l]
  <2> SUFFICES ASSUME NEW l \in Line
               PROVE  /\ l \in Tracked =>
                            stock'[l] = IF l \in q.lines /\ q.delta[l] > 0
                                        THEN stock[l] + q.delta[l] ELSE stock[l]
                      /\ stock'[l] \in Nat /\ stock'[l] >= stock[l]
      OBVIOUS
  <2>1. stock'[l] = IF l \in Moved(q) THEN stock[l] + q.delta[l] ELSE stock[l]
        BY <1>5 DEF Apply, Pushed
  <2>2. l \in Moved(q) => q.delta[l] > 0 /\ l \in q.lines
        BY DEF Moved
  <2>3. l \in Tracked /\ l \in q.lines /\ q.delta[l] > 0 => l \in Moved(q)
        BY <1>2 DEF Tracked, Informed, Moved
  <2>4. stock[l] \in Nat /\ q.delta[l] \in Int
        BY <1>3, <1>4
  <2> QED  BY <2>1, <2>2, <2>3, <2>4
<1>8. Target(q) \in OrderStatus
      BY <1>4, NextStatusType DEF Target
<1>9. \A e \in Report : report[e] # NoReport =>
          report'[e] # NoReport /\ report'[e].lines = report[e].lines
  <2>1. CASE q.kind = "approve"
        BY <2>1, <1>2, <1>5, CloseReport DEF Apply, Reviews, IInv
  <2>2. CASE q.kind = "receive"
        BY <2>2, <1>5 DEF Apply
  <2> QED  BY <2>1, <2>2, <1>1
<1>10. \A d \in Report :
          /\ applied'[d] = IF q.kind = "approve" /\ d = q.report THEN applied[d] + 1
                                                               ELSE applied[d]
          /\ applied'[d] \in Nat
      BY <1>2, <1>3, <1>5 DEF Apply, Reviews
<1>11. TypeOK'
  <2>1. delivered' \in [Line -> Nat] /\ stock' \in [Line -> Nat]
        BY <1>5, <1>6, <1>7 DEF Apply, Pushed
  <2>2. report' \in [Report -> SubmittedReport \cup {NoReport}]
    <3>1. CASE q.kind = "approve"
          BY <3>1, <1>2, <1>5, CloseReport DEF Apply, Reviews, IInv
    <3>2. CASE q.kind = "receive"
          BY <3>2, <1>3, <1>5 DEF Apply
    <3> QED  BY <3>1, <3>2, <1>1
  <2>3. applied' \in [Report -> Nat]
        BY <1>3, <1>5 DEF Apply
  <2>4. status' \in OrderStatus
        BY <1>3, <1>5, <1>8 DEF Apply
  <2>5. req' \in [Request -> InFlight \cup {NoRequest}]
        BY <1>3, <1>5
  <2>6. lowered' \in BOOLEAN /\ raced' \in BOOLEAN
    <3>1. lowered' = (lowered \/ \E l \in q.lines : q.delta[l] < 0)
          BY <1>5 DEF Apply
    <3> QED  BY <3>1, <1>5
  <2>7. counted' \in [Line -> Int]
        BY <1>4, <1>5 DEF Apply
  <2> QED  BY <1>5, <2>1, <2>2, <2>3, <2>4, <2>5, <2>6, <2>7
           DEF IInv, TypeOK, changeVars
<1>12. RequestsSound'
  <2>1. stock' \in [Line -> Nat]
        BY <1>11 DEF TypeOK
  <2> QED  BY <1>5, <1>7, <1>9, <2>1, OthersSound
<1>13. AppliedSubmitted'
      BY <1>2, <1>3, <1>9, <1>10 DEF IInv, AppliedSubmitted, Reviews
<1>14. Tracked' = Tracked /\ Tracked \subseteq Line /\ OrderFollows'
      BY <1>5, OrderedAssumption DEF IInv, Tracked, OrderFollows, changeVars
<1>15. StockCoversDelivered'
  <2> SUFFICES ASSUME NEW l \in Tracked
               PROVE  stock'[l] >= delivered'[l]
      BY <1>14 DEF StockCoversDelivered
  <2>1. /\ l \in Line
        /\ stock[l] >= delivered[l] /\ stock[l] >= q.delivered[l]
        BY <1>2, <1>14 DEF IInv, StockCoversDelivered, Covered
  <2>2. /\ stock[l] \in Nat /\ delivered[l] \in Nat
        /\ q.delivered[l] \in Nat /\ q.delta[l] \in Int
        BY <1>3, <1>4, <2>1
  <2> QED  BY <1>6, <1>7, <2>1, <2>2
<1>16. OverReceiptOnlyByReport'
  <2> SUFFICES ASSUME NEW l \in Line, l \notin cut, delivered'[l] > ordered[l]
               PROVE  \E d \in Report : applied'[d] > 0 /\ l \in DOMAIN report'[d].lines
      BY <1>5 DEF OverReceiptOnlyByReport, changeVars
  <2>1. CASE l \in q.lines
    <3>1. q.kind = "approve"
      <4>1. delivered'[l] = q.delivered[l] + q.delta[l]
            BY <2>1, <1>6
      <4>2. /\ delivered'[l] \in Nat /\ ordered[l] \in Int /\ q.ordered[l] \in Int
            /\ q.ordered[l] <= ordered[l]
            BY <1>2, <1>4, <1>6 DEF IInv, TypeOK, Informed
      <4>3. ~ (delivered'[l] <= q.ordered[l])
            BY <4>2
      <4> QED  BY <4>1, <4>3, <2>1, <1>1, <1>2 DEF Sound
    <3>2. l \in DOMAIN report'[q.report].lines
          BY <3>1, <2>1, <1>2, <1>9 DEF Reviews
    <3>3. applied'[q.report] > 0 /\ q.report \in Report
          BY <3>1, <1>2, <1>3, <1>10 DEF Reviews
    <3> QED  BY <3>2, <3>3
  <2>2. CASE l \notin q.lines
    <3>1. PICK d \in Report : applied[d] > 0 /\ l \in DOMAIN report[d].lines
          BY <2>2, <1>6 DEF IInv, OverReceiptOnlyByReport
    <3>2. report[d] # NoReport
          BY <3>1 DEF IInv, AppliedSubmitted
    <3>3. applied'[d] > 0
          BY <3>1, <1>3, <1>10
    <3> QED  BY <3>1, <3>2, <3>3, <1>9
  <2> QED  BY <2>1, <2>2
\* From here on, a write that is not stale and lowers nothing.
<1>17. ~raced' => /\ ~raced /\ q.status = status /\ q.delivered = delivered
                  /\ q.kind = "approve" => report[q.report].status = "SUBMITTED"
      BY <1>1, <1>5 DEF Stale
<1>18. ~lowered' => ~lowered /\ \A l \in q.lines : q.delta[l] >= 0
  <2>1. lowered' = (lowered \/ \E l \in q.lines : q.delta[l] < 0)
        BY <1>5 DEF Apply
  <2>2. ~lowered' => ~lowered /\ \A l \in q.lines : ~(q.delta[l] < 0)
        BY <2>1
  <2>3. \A l \in q.lines : ~(q.delta[l] < 0) => q.delta[l] >= 0
        BY <1>4
  <2> QED  BY <2>2, <2>3
<1>19. StockIsDelivered'
  <2> SUFFICES ASSUME ~raced', ~lowered', NEW l \in Tracked
               PROVE  stock'[l] = delivered'[l]
      BY <1>14 DEF StockIsDelivered
  <2>1. /\ l \in Line /\ stock[l] = delivered[l] /\ q.delivered[l] = delivered[l]
        /\ l \in q.lines => q.delta[l] >= 0
        BY <1>14, <1>17, <1>18 DEF IInv, StockIsDelivered
  <2>2. stock[l] \in Nat /\ q.delta[l] \in Int
        BY <1>3, <1>4, <2>1
  <2> QED  BY <1>6, <1>7, <2>1, <2>2
<1>20. AppliedAsDecided'
  <2> SUFFICES ASSUME ~raced', NEW d \in Report
               PROVE  applied'[d] = IF report'[d] # NoReport /\ report'[d].status = "APPROVED"
                                    THEN 1 ELSE 0
      BY DEF AppliedAsDecided
  <2>1. applied[d] = IF report[d] # NoReport /\ report[d].status = "APPROVED" THEN 1 ELSE 0
        BY <1>17 DEF IInv, AppliedAsDecided
  <2>2. CASE q.kind = "approve"
    <3>1. /\ report' = [report EXCEPT ![q.report].status = "APPROVED"]
          /\ q.report \in Report /\ report[q.report] # NoReport
          BY <2>2, <1>2, <1>5 DEF Apply, Reviews
    <3>2. /\ report'[q.report].status = "APPROVED"
          /\ \A e \in Report : e # q.report => report'[e] = report[e]
          BY <3>1, CloseReport DEF IInv
    <3>3. CASE d = q.report
          BY <3>1, <3>2, <3>3, <2>1, <2>2, <1>9, <1>10, <1>17
    <3>4. CASE d # q.report
          BY <3>2, <3>4, <2>1, <1>10
    <3> QED  BY <3>3, <3>4
  <2>3. CASE q.kind = "receive"
        BY <2>1, <2>3, <1>5 DEF Apply
  <2> QED  BY <2>2, <2>3, <1>1
<1>21. StatusTellsQuantities'
  <2> SUFFICES ASSUME ~raced', ~lowered'
               PROVE  IF \E l \in Line : delivered'[l] > 0
                      THEN status' = IF \A l \in Line : delivered'[l] >= q.ordered[l]
                                     THEN "DELIVERED" ELSE "PARTIALLY_DELIVERED"
                      ELSE /\ status' # "PARTIALLY_DELIVERED"
                           /\ status' = "DELIVERED" =>
                                 \A l \in Line : Ordered[l] = 0 \/ l \in cut
      BY <1>5 DEF StatusTellsQuantities, Apply, changeVars
  <2>1. ~(\E l \in Line : delivered[l] > 0) =>
            /\ status # "PARTIALLY_DELIVERED"
            /\ status = "DELIVERED" => \A l \in Line : Ordered[l] = 0 \/ l \in cut
        BY <1>17, <1>18 DEF IInv, StatusTellsQuantities
  <2>2. delivered' = Projected(q.delivered, q.lines, q.delta)
        BY <1>5, <1>17 DEF Apply, Projected
  <2>3. status' = NextStatus(status, delivered', q.ordered)
        BY <2>2, <1>5, <1>17 DEF Apply, Target
  <2>4. \A l \in Line : /\ delivered'[l] >= delivered[l]
                        /\ delivered[l] \in Nat /\ delivered'[l] \in Nat
                        /\ Ordered[l] \in Nat /\ q.ordered[l] \in Int
        BY <1>3, <1>4, <1>6, <1>17, <1>18, OrderedAssumption
  <2>5. CASE \E l \in Line : delivered'[l] > 0
        BY <2>3, <2>5 DEF NextStatus
  <2>6. CASE ~(\E l \in Line : delivered'[l] > 0)
    <3>1. ~(\E l \in Line : delivered[l] > 0)
          BY <2>4, <2>6
    <3>2. CASE \A l \in Line : delivered'[l] >= q.ordered[l]
      <4>1. ASSUME NEW l \in Line, l \notin cut
            PROVE  Ordered[l] = 0
        <5>1. Ordered[l] <= q.ordered[l] /\ delivered'[l] >= q.ordered[l]
              BY <1>2, <3>2, <4>1 DEF Informed
        <5>2. ~(delivered'[l] > 0)
              BY <2>6
        <5> QED  BY <2>4, <5>1, <5>2
      <4>2. status' = "DELIVERED"
            BY <2>3, <3>2 DEF NextStatus
      <4> QED  BY <2>6, <4>1, <4>2
    <3>3. CASE ~(\A l \in Line : delivered'[l] >= q.ordered[l])
      <4>1. status' = status
            BY <2>3, <2>6, <3>3 DEF NextStatus
      <4> QED  BY <2>1, <2>6, <3>1, <4>1
    <3> QED  BY <3>2, <3>3
  <2> QED  BY <2>5, <2>6
<1> QED  BY <1>11, <1>12, <1>13, <1>14, <1>15, <1>16, <1>19, <1>20, <1>21 DEF IInv

\* A rejection closes its report and leaves the order alone.
LEMMA RejectionKeeps ==
    ASSUME IInv, NEW r \in Request, Commit(r), req[r].kind = "reject"
    PROVE  IInv'
<1>0. PICK q : q = req[r]
      OBVIOUS
<1>1. q \in InFlight /\ q # NoRequest /\ q.kind = "reject"
      BY <1>0 DEF Commit, IInv, TypeOK
<1>2. q.report \in Report /\ report[q.report] # NoReport
      BY <1>0, <1>1 DEF IInv, RequestsSound, Busy, Reviews
<1>3. /\ req' = [req EXCEPT ![r] = NoRequest]
      /\ report' = [report EXCEPT ![q.report].status = "REJECTED"]
      /\ UNCHANGED <<status, delivered, stock, applied, lowered, counted, changeVars>>
      BY <1>0, <1>1 DEF Commit
<1>4. raced' = (raced \/ Stale(q))
      BY <1>0 DEF Commit
<1>5. /\ report' \in [Report -> SubmittedReport \cup {NoReport}]
      /\ report'[q.report].status = "REJECTED"
      /\ \A e \in Report : e # q.report => report'[e] = report[e]
      /\ \A e \in Report : report[e] # NoReport =>
            report'[e] # NoReport /\ report'[e].lines = report[e].lines
      BY <1>2, <1>3, CloseReport DEF IInv
<1>6. /\ stock \in [Line -> Nat] /\ applied \in [Report -> Nat]
      /\ req \in [Request -> InFlight \cup {NoRequest}]
      BY DEF IInv, TypeOK
<1>7. TypeOK'
  <2>1. raced' \in BOOLEAN
        BY <1>4
  <2> QED  BY <1>3, <1>5, <1>6, <2>1 DEF IInv, TypeOK, changeVars
<1>8. RequestsSound'
  <2>1. stock' \in [Line -> Nat] /\ \A l \in Line : stock'[l] >= stock[l]
        BY <1>3, <1>6
  <2> QED  BY <1>3, <1>5, <2>1, OthersSound
<1>9. AppliedSubmitted'
      BY <1>3, <1>5 DEF IInv, AppliedSubmitted
<1>10. ~raced' => ~raced /\ report[q.report].status = "SUBMITTED"
      BY <1>1, <1>4 DEF Stale
<1>11. (/\ OrderFollows /\ StockCoversDelivered /\ StockIsDelivered
        /\ StatusTellsQuantities)'
      BY <1>3, <1>10 DEF IInv, OrderFollows, StockCoversDelivered, StockIsDelivered,
                         StatusTellsQuantities, Tracked, changeVars
<1>12. OverReceiptOnlyByReport'
      BY <1>3, <1>5, <1>6 DEF IInv, OverReceiptOnlyByReport, AppliedSubmitted, changeVars
<1>13. AppliedAsDecided'
      BY <1>3, <1>5, <1>10 DEF IInv, AppliedAsDecided
<1> QED  BY <1>7, <1>8, <1>9, <1>11, <1>12, <1>13 DEF IInv

-------------------------------------------------------------------------------
(* The theorems.                                                           *)

\* The inductive invariant holds to begin with.
LEMMA InitIInv == Init => IInv
<1> SUFFICES ASSUME Init PROVE IInv
    OBVIOUS
<1> USE DEF Init
<1>1. \A l \in Line : Ordered[l] \in Nat /\ ordered[l] = Ordered[l] /\ delivered[l] = 0
      BY OrderedAssumption
<1>2. TypeOK
  <2>1. FALSE \in BOOLEAN
        OBVIOUS
  <2>2. Ordered \in [Line -> Int]
        BY OrderedAssumption
  <2> QED  BY <2>1, <2>2 DEF TypeOK, OrderStatus
<1>3. RequestsSound /\ AppliedSubmitted
      BY DEF RequestsSound, Busy, AppliedSubmitted
<1>4. OrderFollows
  <2>1. \A l \in Line \ cut : Ordered[l] <= ordered[l]
        BY <1>1
  <2>2. located \/ homeless
    <3>1. homeless = ~located
          OBVIOUS
    <3> QED  BY ONLY <3>1
  <2> QED  BY <2>1, <2>2 DEF OrderFollows
<1>5. StockCoversDelivered /\ StockIsDelivered
      BY OrderedAssumption DEF StockCoversDelivered, StockIsDelivered, Tracked
<1>6. OverReceiptOnlyByReport
      BY <1>1 DEF OverReceiptOnlyByReport
<1>7. StatusTellsQuantities
      BY <1>1 DEF StatusTellsQuantities
<1>8. AppliedAsDecided
      BY DEF AppliedAsDecided
<1> QED  BY <1>2, <1>3, <1>4, <1>5, <1>6, <1>7, <1>8 DEF IInv

\* Every step keeps it.
LEMMA StepIInv == IInv /\ [Next]_vars => IInv'
<1> SUFFICES ASSUME IInv, [Next]_vars
             PROVE  IInv'
    OBVIOUS
<1>1. CASE ConfirmPurchaseOrder
      BY <1>1, MoveKeeps DEF ConfirmPurchaseOrder
<1>2. CASE AcceptPurchaseOrder
      BY <1>2, MoveKeeps DEF AcceptPurchaseOrder
<1>3. CASE DeclinePurchaseOrder
      BY <1>3, MoveKeeps DEF DeclinePurchaseOrder
<1>4. ASSUME NEW d \in Report, NEW content \in Content, CreateReport(d, content)
      PROVE  IInv'
      BY <1>4, CreateKeeps
<1>5. ASSUME NEW r \in Request, ReceivePurchaseOrder(r)
      PROVE  IInv'
      BY <1>5, ReceiveKeeps
<1>6. ASSUME NEW r \in Request, RecheckReport(r)
      PROVE  IInv'
      BY <1>6, RecheckKeeps
<1>7. ASSUME NEW r \in Request, Commit(r)
      PROVE  IInv'
      BY <1>7, ApplyKeeps, RejectionKeeps
<1>8. ASSUME NEW r \in Request, NEW d \in Report, ApproveReport(r, d)
      PROVE  IInv'
      BY <1>8, ApproveKeeps
<1>9. ASSUME NEW r \in Request, NEW d \in Report, RejectReport(r, d)
      PROVE  IInv'
      BY <1>9, RejectKeeps
<1>10. CASE \/ ApproveChangeOfAnother
            \/ \E c \in Change : ProposeChange(c) \/ ApproveChange(c) \/ RejectChange(c)
      BY <1>10, ChangesKeep
<1>11. CASE UNCHANGED vars
      BY <1>11 DEF vars, changeVars, IInv, TypeOK, RequestsSound, Busy, Sound, Covered,
                   Informed, Reviews, Target, Tracked, OrderFollows, AppliedSubmitted,
                   StockCoversDelivered, StockIsDelivered, OverReceiptOnlyByReport,
                   StatusTellsQuantities, AppliedAsDecided
<1> QED  BY <1>1, <1>2, <1>3, <1>4, <1>5, <1>6, <1>7, <1>8, <1>9, <1>10, <1>11 DEF Next

\* The invariant the other theorems rest on: requests in flight are sound,
\* whatever has changed since they read.
THEOREM Invariance == Spec => []IInv
BY InitIInv, StepIInv, PTL DEF Spec

\* Quantities stay natural numbers: in particular no receipt and no approval,
\* however stale, writes a negative delivered quantity.
THEOREM TypeCorrect == Spec => []TypeOK
<1>1. IInv => TypeOK
      BY DEF IInv
<1> QED  BY <1>1, Invariance, PTL

\* Under any overlap of receipts and approvals stock is never short of what the
\* order shows as delivered; without one, and without a lowered figure, it is
\* exactly that.
THEOREM StockFollowsDeliveries == Spec => []StockFollows
<1>1. IInv => StockFollows
      BY DEF IInv, StockFollows
<1> QED  BY <1>1, Invariance, PTL

\* A line no change request has cut holds more than was ordered only if an
\* approved report said so, under any overlap: the manual receipt never exceeds
\* the order.
THEOREM OverReceipt == Spec => []OverReceiptOnlyByReport
<1>1. IInv => OverReceiptOnlyByReport
      BY DEF IInv
<1> QED  BY <1>1, Invariance, PTL

\* Without an overlap or a lowered figure the status tells the quantities, as
\* ordered when a receipt or an approval last looked, whatever change requests
\* have altered before or since.
THEOREM StatusFollows == Spec => []StatusTellsQuantities
<1>1. IInv => StatusTellsQuantities
      BY DEF IInv
<1> QED  BY <1>1, Invariance, PTL

\* Without an overlap every report was applied as it was decided: once if it is
\* approved, never if it is rejected or waits.
THEOREM DecisionsApplied == Spec => []AppliedAsDecided
<1>1. IInv => AppliedAsDecided
      BY DEF IInv
<1> QED  BY <1>1, Invariance, PTL

\* Without an overlap a complete order stays complete: the only status a receipt
\* could take it back to does not follow DELIVERED in the table.
THEOREM Completion == Spec => DeliveredIsKept
<1>1. ASSUME IInv, Next, status = "DELIVERED", ~raced'
      PROVE  status' = "DELIVERED"
  <2>1. ASSUME NEW r \in Request, Commit(r), req[r].kind # "reject"
        PROVE  status' = "DELIVERED"
    <3>0. PICK q : q = req[r]
          OBVIOUS
    <3>1. q \in Applying /\ Sound(q)
          BY <1>1, <2>1, <3>0, Kinds DEF Commit, IInv, TypeOK, RequestsSound, Busy
    <3>2. raced' = (raced \/ Stale(q)) /\ Apply(q)
          BY <2>1, <3>0 DEF Commit
    <3>3. q.status = "DELIVERED"
          BY <1>1, <2>1, <3>0, <3>2 DEF Stale
    <3>4. Target(q) \in {"DELIVERED", "PARTIALLY_DELIVERED"}
          BY <3>1, <3>3, NextStatusType DEF Target, OrderStatus
    <3>5. ~CanTransition("DELIVERED", "PARTIALLY_DELIVERED")
          BY DEF CanTransition, PO_TRANSITIONS
    <3>6. Target(q) = "DELIVERED"
          BY <3>1, <3>3, <3>4, <3>5 DEF Sound
    <3> QED  BY <1>1, <3>2, <3>6 DEF Apply
  <2>2. ASSUME NEW r \in Request, Commit(r), req[r].kind = "reject"
        PROVE  status' = "DELIVERED"
        BY <1>1, <2>2 DEF Commit
  <2> QED
      BY <1>1, <2>1, <2>2
      DEF Next, ConfirmPurchaseOrder, AcceptPurchaseOrder, DeclinePurchaseOrder,
          MoveOrder, CreateReport, ReceivePurchaseOrder, Receive, Begin, RecheckReport,
          ApproveReport, RejectReport, ProposeChange, ApproveChange, RejectChange,
          ApproveChangeOfAnother, Revise
<1>2. IInv /\ [Next]_vars => [status = "DELIVERED" /\ ~raced' => status' = "DELIVERED"]_vars
      BY <1>1
<1> QED  BY <1>2, Invariance, PTL DEF Spec, DeliveredIsKept

===============================================================================
