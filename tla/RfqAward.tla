-------------------------------- MODULE RfqAward --------------------------------
(***************************************************************************)
(* What becomes of the quotes of requests for quotation: a contractor      *)
(* approves, declines or awards them or splits the award (rfqs.service.ts),*)
(* while vendors may still revise them (quote-response.service.ts). How    *)
(* quotes come about is module RfqQuotes; here one may come at any time.   *)
(*                                                                         *)
(* A handler reads and checks the quotes, then an award reads the number   *)
(* for its order, then one transaction writes rows by id. A revision's     *)
(* transaction deletes the quote's line rows it can see and then makes new *)
(* ones: two steps, for it runs at READ COMMITTED. A request asks for one  *)
(* line, so a quote has one line row, unless revisions of it overlap.      *)
(***************************************************************************)
EXTENDS Integers, FiniteSets, Functions, FiniteSetsExt

CONSTANTS
    Rfq,          \* requests for quotation of a company
    Quote,        \* ids of quotes
    RfqOf,        \* RfqOf[x]: the request that quote x answers
    Request,      \* slots for requests in flight
    NoRequest,    \* the content of a free slot
    Quantity,     \* the quantities vendors offer, 0 for NO_QUOTE
    Requested,    \* the quantity a request's line asks for
    MaxRevisions  \* bound: revisions of one quote

ASSUME QuantityAssumption ==
    Quantity \subseteq Nat /\ Requested \in Nat /\ MaxRevisions \in Nat
ASSUME RfqOfAssumption == RfqOf \in [Quote -> Rfq]

VARIABLES
    rfq,        \* rfq[f]: the status of request f
    quote,      \* quote[x]: the status of quote x, "NONE" before it comes
    line,       \* the line rows of all quotes
    made,       \* made[x]: how many line rows were made of quote x, their next id
    order,      \* order[x]: the orders made from quote x
    lastPo,     \* the highest order number of the company
    req,        \* req[r]: what the request in slot r read and will write
    raced,      \* history: a write its handler's checks would no longer admit
    doubled,    \* history: quotes whose last revision overlapped another
    misrouted   \* history: requests of a quote decided under another's route

rows == <<quote, line, made, doubled>>
vars == <<rfq, rows, order, lastPo, req, raced, misrouted>>

-------------------------------------------------------------------------------

\* approved is the share granted by a split award, 0 until then.
LineRow == [quote : Quote, id : Nat, offer : Quantity, approved : Nat]

\* So much of a quote's line, of a split award or of an order.
Share == [quote : Quote, id : Nat, amount : Nat]
OrderRow == [number : Nat, lines : SUBSET Share]

\* An approval in flight: the request named by its route, the quotes, what is to
\* be ordered of the lines as read, and the order's number (0: not yet read).
Approving == [kind : {"approve", "award", "split"}, route : Rfq,
              quotes : SUBSET Quote, shares : SUBSET Share, number : Nat]
Declining == [kind : {"decline"}, quotes : SUBSET Quote]
\* A revision, and the ids of the line rows its DELETE has seen, once it has.
Revising  == [kind : {"update"}, quotes : SUBSET Quote, offer : Quantity,
              deleting : BOOLEAN, seen : SUBSET Nat]

InFlight == Approving \cup Declining \cup Revising

ASSUME NoRequestAssumption == NoRequest \notin InFlight

TypeOK ==
    /\ rfq \in [Rfq -> {"OPEN", "AWARDED", "CANCELLED"}]
    /\ quote \in [Quote -> {"NONE", "SUBMITTED", "APPROVED", "DECLINED"}]
    /\ line \subseteq LineRow
    /\ made \in [Quote -> Nat]
    /\ order \in [Quote -> SUBSET OrderRow]
    /\ lastPo \in Nat
    /\ req \in [Request -> InFlight \cup {NoRequest}]
    /\ raced \in BOOLEAN
    /\ doubled \subseteq Quote
    /\ misrouted \subseteq Rfq

\* The requests have just been sent.
Init ==
    /\ rfq = [f \in Rfq |-> "OPEN"]
    /\ quote = [x \in Quote |-> "NONE"]
    /\ line = {}
    /\ made = [x \in Quote |-> 0]
    /\ order = [x \in Quote |-> {}]
    /\ lastPo = 0
    /\ req = [r \in Request |-> NoRequest]
    /\ raced = FALSE
    /\ doubled = {}
    /\ misrouted = {}

Has(x, statuses) == quote[x] \in statuses

LinesOf(x) == {row \in line : row.quote = x}
Ids(x) == {row.id : row \in LinesOf(x)}

-------------------------------------------------------------------------------
(* What RfqQuotes does to the same rows.                                   *)

NewRow(x, offer) == [quote |-> x, id |-> made[x], offer |-> offer, approved |-> 0]

\* A quote comes in.
SubmitQuote(x) ==
    /\ quote[x] = "NONE"
    /\ quote' = [quote EXCEPT ![x] = "SUBMITTED"]
    /\ \E offer \in Quantity : line' = line \cup {NewRow(x, offer)}
    /\ made' = [made EXCEPT ![x] = @ + 1]
    /\ UNCHANGED <<rfq, order, lastPo, req, raced, doubled, misrouted>>

\* cancelRfq: whatever the request is.
CancelRfq(f) ==
    /\ rfq' = [rfq EXCEPT ![f] = "CANCELLED"]
    /\ UNCHANGED <<rows, order, lastPo, req, raced, misrouted>>

-------------------------------------------------------------------------------
(* Reading.                                                                *)

\* Mutant: a quote that was declined can be chosen after all.
AwardableDeclined(x) == Has(x, {"SUBMITTED", "DECLINED"})

\* Mutant: only quotes that were declined are refused.
AwardableApproved(x) == Has(x, {"SUBMITTED", "APPROVED"})

\* assertQuotePending, assertQuoteAwardable: PENDING quotes are never written.
Awardable(x) == Has(x, {"SUBMITTED"})

\* What the handler of q checked: updateQuote looks at the quote's request alone,
\* the others at the quotes alone.
Admits(q) ==
    IF q.kind = "update" THEN \A x \in q.quotes : rfq[RfqOf[x]] # "CANCELLED"
    ELSE \A x \in q.quotes : Awardable(x)

Begin(r, q) ==
    /\ req[r] = NoRequest
    /\ \A x \in q.quotes : quote[x] # "NONE"
    /\ Admits(q)
    /\ req' = [req EXCEPT ![r] = q]
    /\ UNCHANGED <<rfq, rows, order, lastPo, raced, misrouted>>

UpdateQuote(r, x) ==
    /\ made[x] <= MaxRevisions
    /\ \E offer \in Quantity :
        Begin(r, [kind |-> "update", quotes |-> {x}, offer |-> offer,
                  deleting |-> FALSE, seen |-> {}])

DeclineQuote(r, x) == Begin(r, [kind |-> "decline", quotes |-> {x}])

Approve(r, kind, route, quotes, shares) ==
    Begin(r, [kind |-> kind, route |-> route, quotes |-> quotes,
              shares |-> shares, number |-> 0])

\* approveQuote and awardQuote take the request of their route on trust.
ApproveQuote(r, f, x) == Approve(r, "approve", f, {x}, {})

\* awardQuote: the order is for all the quote's lines, those not quoted left out.
AwardQuote(r, f, x) ==
    Approve(r, "award", f, {x},
            {[quote |-> x, id |-> row.id, amount |-> row.offer] :
                row \in {w \in LinesOf(x) : w.offer > 0}})

\* awardSplit: shares of line rows of the route's request, none above its row's
\* offer, not more than requested together.
AwardSplit(r, f) ==
    \E chosen \in (SUBSET {row \in line : RfqOf[row.quote] = f}) \ {{}} :
    \E amount \in [chosen -> 1..Requested] :
        /\ \A row \in chosen : amount[row] <= row.offer
        /\ SumFunctionOnSet(amount, chosen) <= Requested
        /\ Approve(r, "split", f, {row.quote : row \in chosen},
                   {[quote |-> row.quote, id |-> row.id, amount |-> amount[row]] :
                       row \in chosen})

\* nextSequentialNumber, read before the transaction.
TakeNumber(r) ==
    /\ req[r] # NoRequest
    /\ req[r].kind \in {"award", "split"} /\ req[r].number = 0
    /\ req' = [req EXCEPT ![r].number = lastPo + 1]
    /\ UNCHANGED <<rfq, rows, order, lastPo, raced, misrouted>>

-------------------------------------------------------------------------------
(* Writing.                                                                *)

\* What the transaction of q itself enforces: the order's number is new, and
\* the line rows a split award read are still there. Else it is rolled back.
Enforced(q) ==
    /\ q.kind \in {"award", "split"} => q.number > lastPo
    /\ q.kind = "split" => \A s \in q.shares : s.id \in Ids(s.quote)

RollBack(r) ==
    /\ req[r] # NoRequest
    /\ req[r].kind \in {"award", "split"} => req[r].number # 0
    /\ ~Enforced(req[r])
    /\ req' = [req EXCEPT ![r] = NoRequest]
    /\ UNCHANGED <<rfq, rows, order, lastPo, raced, misrouted>>

Commit(r, kinds) ==
    /\ req[r] # NoRequest
    /\ req[r].kind \in kinds
    /\ Enforced(req[r])
    /\ raced' = (raced \/ ~Admits(req[r]))
    /\ req' = [req EXCEPT ![r] = NoRequest]

\* persistQuote's deleteMany: it will delete the rows of the quote that are
\* committed when it starts, those that are gone when it gets to them excepted.
DeleteLines(r) ==
    /\ req[r] # NoRequest
    /\ req[r].kind = "update" /\ ~req[r].deleting
    /\ req' = [req EXCEPT ![r] = [@ EXCEPT
                 !.deleting = TRUE, !.seen = UNION {Ids(x) : x \in req[r].quotes}]]
    /\ UNCHANGED <<rfq, rows, order, lastPo, raced, misrouted>>

\* Mutant: the rows are updated in place and keep what was approved of them.
RevisedInPlace(x, seen, offer) ==
    {IF row.quote = x /\ row.id \in seen THEN [row EXCEPT !.offer = offer] ELSE row :
        row \in line}

\* The table once the rows seen are deleted and a new one is made.
Revised(x, seen, offer) ==
    {row \in line : row.quote # x \/ row.id \notin seen} \cup {NewRow(x, offer)}

\* createMany and the end of the transaction; the quote's status stays what it is.
CommitUpdate(r) ==
    /\ Commit(r, {"update"})
    /\ req[r].deleting
    /\ \E x \in req[r].quotes :
        /\ line' = Revised(x, req[r].seen, req[r].offer)
        /\ made' = [made EXCEPT ![x] = @ + 1]
        /\ doubled' = IF req[r].seen = Ids(x) THEN doubled \ {x} ELSE doubled \cup {x}
    /\ UNCHANGED <<rfq, quote, order, lastPo, misrouted>>

CommitDecline(r) ==
    /\ Commit(r, {"decline"})
    /\ quote' = [x \in Quote |-> IF x \in req[r].quotes THEN "DECLINED" ELSE quote[x]]
    /\ UNCHANGED <<rfq, line, made, doubled, order, lastPo, misrouted>>

\* The line row, with the share granted of it.
Granted(row, shares) ==
    LET mine == {s \in shares : s.quote = row.quote /\ s.id = row.id} IN
    IF mine = {} THEN row
    ELSE [row EXCEPT !.approved = (CHOOSE s \in mine : TRUE).amount]

\* Mutant: the request gets the status of its quotes.
ApproveQuotesSameStatus(q) ==
    /\ quote' = [x \in Quote |-> IF x \in q.quotes THEN "APPROVED" ELSE quote[x]]
    /\ line' = IF q.kind = "split" THEN {Granted(row, q.shares) : row \in line} ELSE line
    /\ rfq' = [rfq EXCEPT ![q.route] = "APPROVED"]
    /\ misrouted' = misrouted
    /\ UNCHANGED <<made, doubled>>

\* The quotes are approved, a split award notes the shares on their lines, and
\* the route's request is AWARDED, whatever it was.
ApproveQuotes(q) ==
    /\ quote' = [x \in Quote |-> IF x \in q.quotes THEN "APPROVED" ELSE quote[x]]
    /\ line' = IF q.kind = "split" THEN {Granted(row, q.shares) : row \in line} ELSE line
    /\ rfq' = [rfq EXCEPT ![q.route] = "AWARDED"]
    /\ misrouted' = misrouted \cup
          UNION {{q.route, RfqOf[x]} : x \in {y \in q.quotes : RfqOf[y] # q.route}}
    /\ UNCHANGED <<made, doubled>>

CommitApproval(r) ==
    /\ Commit(r, {"approve"})
    /\ ApproveQuotes(req[r])
    /\ UNCHANGED <<order, lastPo>>

\* An award approves too, and makes an order of each quote.
CommitAward(r) ==
    LET q == req[r]
        Made(x) == [number |-> q.number, lines |-> {s \in q.shares : s.quote = x}]
    IN
    /\ Commit(r, {"award", "split"})
    /\ q.number # 0
    /\ ApproveQuotes(q)
    /\ order' = [x \in Quote |-> IF x \in q.quotes THEN order[x] \cup {Made(x)}
                                  ELSE order[x]]
    /\ lastPo' = q.number

-------------------------------------------------------------------------------

Next ==
    \/ \E f \in Rfq : CancelRfq(f)
    \/ \E x \in Quote : SubmitQuote(x)
    \/ \E r \in Request :
        \/ \E x \in Quote : UpdateQuote(r, x) \/ DeclineQuote(r, x)
        \/ \E f \in Rfq :
            \/ AwardSplit(r, f)
            \/ \E x \in Quote : ApproveQuote(r, f, x) \/ AwardQuote(r, f, x)
        \/ TakeNumber(r) \/ RollBack(r) \/ DeleteLines(r)
        \/ CommitUpdate(r) \/ CommitDecline(r) \/ CommitApproval(r) \/ CommitAward(r)

Spec == Init /\ [][Next]_vars

-------------------------------------------------------------------------------
(* Properties.                                                             *)

\* However awards and revisions overlap, no share granted of a line row exceeds
\* what that row offers (persistQuote, awardSplit). And a quote that has come has
\* one row for the line, so that its share is within the vendor's offer, unless
\* its last revision overlapped another: the rows of both stay then.
ApprovedWithinOffer ==
    /\ \A row \in line : row.approved <= row.offer
    /\ \A x \in Quote \ doubled :
        quote[x] # "NONE" => \E row \in line : LinesOf(x) = {row}

\* "Already-APPROVED quotes (and DECLINED ones) cannot be awarded again"
\* (rfqs.service.ts:2395-2396): unless requests overlapped, orders are made of
\* approved quotes alone, and one order of each.
AwardedOnce ==
    ~raced => \A x \in Quote : order[x] # {} =>
        /\ Has(x, {"APPROVED"})
        /\ \A a, b \in order[x] : a = b

\* Unless handlers overlapped, a request that is awarded has an approved quote
\* of its own, and one that is open has none: approveQuote and awardQuote write
\* the request their route names, so this is not said of the requests concerned
\* when that was not the quote's.
AwardedTellsQuotes ==
    ~raced => \A f \in Rfq \ misrouted :
        /\ rfq[f] = "AWARDED" => \E x \in Quote : RfqOf[x] = f /\ Has(x, {"APPROVED"})
        /\ rfq[f] = "OPEN" => \A x \in Quote : RfqOf[x] = f => ~Has(x, {"APPROVED"})

\* A decision on a quote is not taken back by a later one, unless they overlap.
DecisionIsKept ==
    [][\A x \in Quote : Has(x, {"APPROVED", "DECLINED"}) /\ ~raced' =>
           quote'[x] = quote[x]]_vars

===============================================================================
