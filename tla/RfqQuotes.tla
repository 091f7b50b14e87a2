-------------------------------- MODULE RfqQuotes --------------------------------
(***************************************************************************)
(* How one request for quotation gets its quotes: rfqs.service.ts drafts,  *)
(* sends, edits and cancels it, quote-response.service.ts takes quotes     *)
(* from signed-in vendors and through single-use invitation links. What an *)
(* award makes of the quotes is module RfqAward.                           *)
(*                                                                         *)
(* Each handler reads and checks outside any transaction and then writes   *)
(* rows by id, so it is a step that reads (named for the handler) and one  *)
(* that commits.                                                           *)
(***************************************************************************)
EXTENDS Naturals

CONSTANTS
    Vendor,
    Quote,      \* ids of quotes
    NoQuote,    \* the content of an id not yet in use
    Token,      \* ids of invitation links
    NoToken,    \* no link: the vendor is signed in, or the id is not in use
    Request,    \* slots for requests in flight
    NoRequest,  \* the content of a free slot
    MaxEdits    \* bound: no more edits after so many

ASSUME MaxEditsAssumption == MaxEdits \in Nat

VARIABLES
    rfq,    \* the request: status, line and vendor rows, vendors invited
    quote,  \* quote[x]: the quote x
    token,  \* token[t]: the invitation link t
    req,    \* req[r]: what the request in slot r read and will write
    raced   \* history: a write its handler's checks would no longer admit

vars == <<rfq, quote, token, req, raced>>

-------------------------------------------------------------------------------

\* lines and vendors count how often the rows were deleted and created anew.
RfqRow == [status : {"DRAFT", "OPEN", "AWARDED", "CANCELLED"},
           lines : Nat, vendors : Nat, invited : SUBSET Vendor]

\* line is the generation of the lines the quote refers to.
QuoteRow == [vendor : Vendor, status : {"SUBMITTED", "APPROVED", "DECLINED"},
             line : Nat, token : Token \cup {NoToken}]

\* A link names the vendor's row in the request (rfqVendorId).
TokenRow == [vendor : Vendor, row : Nat, state : {"LIVE", "EXPIRED", "USED"}]

InFlight ==
    [kind : {"send"}]
    \cup [kind : {"invite"}, row : Nat, left : SUBSET Vendor]
    \cup [kind : {"edit"}, newLines : BOOLEAN, vendors : SUBSET (SUBSET Vendor)]
    \cup [kind : {"submit"}, vendor : Vendor, token : Token \cup {NoToken}, line : Nat]
    \cup [kind : {"approve", "decline"}, quote : Quote]

ASSUME NoRequestAssumption == NoRequest \notin InFlight
ASSUME NoQuoteAssumption == NoQuote \notin QuoteRow
ASSUME NoTokenAssumption == NoToken \notin Token \cup TokenRow

TypeOK ==
    /\ rfq \in RfqRow
    /\ quote \in [Quote -> QuoteRow \cup {NoQuote}]
    /\ token \in [Token -> TokenRow \cup {NoToken}]
    /\ req \in [Request -> InFlight \cup {NoRequest}]
    /\ raced \in BOOLEAN

\* A draft with its lines, and whoever is invited so far.
Init ==
    /\ rfq \in [status : {"DRAFT"}, lines : {0}, vendors : {0}, invited : SUBSET Vendor]
    /\ quote = [x \in Quote |-> NoQuote]
    /\ token = [t \in Token |-> NoToken]
    /\ req = [r \in Request |-> NoRequest]
    /\ raced = FALSE

-------------------------------------------------------------------------------
(* What the handlers check.                                                *)

Has(x, statuses) == quote[x] # NoQuote /\ quote[x].status \in statuses

\* Mutant: an open request can be edited whatever quotes it has.
CanEditOpen == rfq.status \in {"DRAFT", "OPEN"}

\* updateRfq: a draft, or an open request no vendor has answered.
CanEdit ==
    \/ rfq.status = "DRAFT"
    \/ rfq.status = "OPEN" /\ \A x \in Quote : ~Has(x, {"SUBMITTED", "APPROVED"})

\* submitQuote, submitGuestQuote: an open request, an invited vendor (to a guest,
\* the vendor row of the link), and no quote of that vendor still to be decided.
CanQuote(v) ==
    /\ rfq.status = "OPEN"
    /\ v \in rfq.invited
    /\ \A x \in Quote : Has(x, {"SUBMITTED"}) => quote[x].vendor # v

\* What the handler of q checked.
Admits(q) ==
    \/ q.kind = "send" /\ rfq.status = "DRAFT" /\ rfq.invited # {}
    \/ q.kind = "edit" /\ CanEdit
    \/ q.kind = "submit" /\ CanQuote(q.vendor)
    \/ q.kind \in {"approve", "decline"} /\ Has(q.quote, {"SUBMITTED"})

Begin(r, q) ==
    /\ req[r] = NoRequest
    /\ Admits(q)
    /\ req' = [req EXCEPT ![r] = q]
    /\ UNCHANGED <<rfq, quote, token, raced>>

-------------------------------------------------------------------------------
(* Reading.                                                                *)

SendRfq(r) == Begin(r, [kind |-> "send"])

\* updateRfq replaces the lines, the vendors, or both.
UpdateRfq(r) ==
    /\ rfq.lines + rfq.vendors < MaxEdits
    /\ \E newLines \in BOOLEAN, vendors \in {{}} \cup {{vs} : vs \in SUBSET Vendor} :
        /\ newLines \/ vendors # {}
        /\ Begin(r, [kind |-> "edit", newLines |-> newLines, vendors |-> vendors])

Submit(r, v, t) ==
    Begin(r, [kind |-> "submit", vendor |-> v, token |-> t, line |-> rfq.lines])

SubmitQuote(r, v) == Submit(r, v, NoToken)

\* resolveInvitationToken: a live link whose vendor row is still there.
SubmitGuestQuote(r, t) ==
    /\ token[t] # NoToken
    /\ token[t].state = "LIVE" /\ token[t].row = rfq.vendors
    /\ Submit(r, token[t].vendor, t)

\* approveQuote, and whatever else approves a quote.
ApproveQuote(r, x) == Begin(r, [kind |-> "approve", quote |-> x])

DeclineQuote(r, x) == Begin(r, [kind |-> "decline", quote |-> x])

-------------------------------------------------------------------------------
(* Writing.                                                                *)

\* Mutant: the link is marked used whether or not it was.
EnforcedWithoutBurn(q) ==
    /\ q.kind = "edit" /\ q.newLines => \A x \in Quote : quote[x] = NoQuote
    /\ q.kind = "submit" => q.line = rfq.lines

\* Mutant: the rows of a quote do not refer to the lines by a foreign key.
EnforcedWithoutForeignKey(q) ==
    q.kind = "submit" /\ q.token # NoToken => token[q.token].state # "USED"

\* What the transaction of q itself enforces: a quote's rows refer to lines
\* that exist, and the link was not used before. Else it is rolled back.
Enforced(q) ==
    /\ q.kind = "edit" /\ q.newLines => \A x \in Quote : quote[x] = NoQuote
    /\ q.kind = "submit" => q.line = rfq.lines
    /\ q.kind = "submit" /\ q.token # NoToken => token[q.token].state # "USED"

RollBack(r) ==
    /\ req[r] # NoRequest
    /\ ~Enforced(req[r])
    /\ req' = [req EXCEPT ![r] = NoRequest]
    /\ UNCHANGED <<rfq, quote, token, raced>>

Commit(r, kinds) ==
    /\ req[r] # NoRequest
    /\ req[r].kind \in kinds
    /\ Enforced(req[r])
    /\ raced' = (raced \/ ~Admits(req[r]))

\* The request is open; the job that invites the vendors goes on by itself,
\* for the vendor rows of that moment.
CommitSend(r) ==
    /\ Commit(r, {"send"})
    /\ rfq' = [rfq EXCEPT !.status = "OPEN"]
    /\ req' = [req EXCEPT ![r] = [kind |-> "invite", row |-> rfq.vendors,
                                  left |-> rfq.invited]]
    /\ UNCHANGED <<quote, token>>

\* generateInvitationTokensAndNotify: one link per vendor.
MintInvitation(r, v, t) ==
    /\ req[r] # NoRequest
    /\ req[r].kind = "invite" /\ v \in req[r].left
    /\ token[t] = NoToken
    /\ token' = [token EXCEPT ![t] =
                    [vendor |-> v, row |-> req[r].row, state |-> "LIVE"]]
    /\ req' = [req EXCEPT ![r].left = @ \ {v}]
    /\ UNCHANGED <<rfq, quote, raced>>

\* The job is done, or has failed, which nobody hears of.
EndInvitations(r) ==
    /\ req[r] # NoRequest
    /\ req[r].kind = "invite"
    /\ req' = [req EXCEPT ![r] = NoRequest]
    /\ UNCHANGED <<rfq, quote, token, raced>>

CommitEdit(r) ==
    LET q == req[r] IN
    /\ Commit(r, {"edit"})
    /\ rfq' = [rfq EXCEPT !.lines = IF q.newLines THEN @ + 1 ELSE @,
                          !.vendors = IF q.vendors # {} THEN @ + 1 ELSE @,
                          !.invited = IF q.vendors # {} THEN UNION q.vendors ELSE @]
    /\ req' = [req EXCEPT ![r] = NoRequest]
    /\ UNCHANGED <<quote, token>>

\* persistQuote, with the link burned in the same transaction.
CommitSubmit(r, x) ==
    LET q == req[r] IN
    /\ Commit(r, {"submit"})
    /\ quote[x] = NoQuote
    /\ quote' = [quote EXCEPT ![x] = [vendor |-> q.vendor, status |-> "SUBMITTED",
                                      line |-> q.line, token |-> q.token]]
    /\ token' = IF q.token = NoToken THEN token
                ELSE [token EXCEPT ![q.token].state = "USED"]
    /\ req' = [req EXCEPT ![r] = NoRequest]
    /\ UNCHANGED rfq

\* Mutant: the request gets the quote's status.
CommitDecisionSameStatus(r) ==
    LET q == req[r] IN
    /\ Commit(r, {"approve", "decline"})
    /\ quote' = [quote EXCEPT ![q.quote].status =
                    IF q.kind = "approve" THEN "APPROVED" ELSE "DECLINED"]
    /\ rfq' = IF q.kind = "approve" THEN [rfq EXCEPT !.status = "APPROVED"] ELSE rfq
    /\ req' = [req EXCEPT ![r] = NoRequest]
    /\ UNCHANGED token

\* An approval also makes the request AWARDED, whatever it was.
CommitDecision(r) ==
    LET q == req[r] IN
    /\ Commit(r, {"approve", "decline"})
    /\ quote' = [quote EXCEPT ![q.quote].status =
                    IF q.kind = "approve" THEN "APPROVED" ELSE "DECLINED"]
    /\ rfq' = IF q.kind = "approve" THEN [rfq EXCEPT !.status = "AWARDED"] ELSE rfq
    /\ req' = [req EXCEPT ![r] = NoRequest]
    /\ UNCHANGED token

\* cancelRfq: whatever the request is.
CancelRfq ==
    /\ rfq' = [rfq EXCEPT !.status = "CANCELLED"]
    /\ UNCHANGED <<quote, token, req, raced>>

\* Time, or too many openings of the page.
ExpireLink(t) ==
    /\ token[t] # NoToken
    /\ token[t].state = "LIVE"
    /\ token' = [token EXCEPT ![t].state = "EXPIRED"]
    /\ UNCHANGED <<rfq, quote, req, raced>>

-------------------------------------------------------------------------------

Next ==
    \/ CancelRfq
    \/ \E t \in Token : ExpireLink(t)
    \/ \E r \in Request :
        \/ SendRfq(r) \/ UpdateRfq(r)
        \/ \E v \in Vendor : SubmitQuote(r, v)
        \/ \E t \in Token : SubmitGuestQuote(r, t)
        \/ \E x \in Quote : ApproveQuote(r, x) \/ DeclineQuote(r, x)
        \/ RollBack(r)
        \/ CommitSend(r) \/ CommitEdit(r) \/ CommitDecision(r) \/ EndInvitations(r)
        \/ \E x \in Quote : CommitSubmit(r, x)
        \/ \E v \in Vendor, t \in Token : MintInvitation(r, v, t)

Spec == Init /\ [][Next]_vars

-------------------------------------------------------------------------------
(* Properties.                                                             *)

\* "Burn the single-use token in the same transaction so a quote can never be
\* persisted without consuming its link (and vice-versa) ... concurrent submits
\* race here and only one wins" (quote-response.service.ts:862-864): a link is used
\* exactly when one quote came through it, however submissions overlap.
GuestLinkOnce ==
    \A t \in Token :
        LET through == {x \in Quote : quote[x] # NoQuote /\ quote[x].token = t} IN
        /\ \A x, y \in through : x = y
        /\ through # {} <=> token[t] # NoToken /\ token[t].state = "USED"

\* However edits and submissions overlap, a quote answers the lines the request
\* has now (the foreign key from a quote's rows to the lines).
QuotesAnswerLines ==
    \A x \in Quote : quote[x] # NoQuote => quote[x].line = rfq.lines

\* Unless requests overlapped, a vendor with a quote pending or approved is
\* invited, and has no second quote pending: the checks of updateRfq, submitQuote
\* and submitGuestQuote keep this together.
QuotesAreInvited ==
    ~raced => \A x \in Quote : Has(x, {"SUBMITTED", "APPROVED"}) =>
        /\ quote[x].vendor \in rfq.invited
        /\ \A y \in Quote : Has(x, {"SUBMITTED"}) /\ Has(y, {"SUBMITTED"})
               /\ quote[x].vendor = quote[y].vendor => x = y

\* However edits overlap the job that invites the vendors, a link that still opens
\* the request belongs to a vendor it invites; no check but the row's id says so.
LinkIsForInvited ==
    \A t \in Token : token[t] # NoToken /\ token[t].row = rfq.vendors =>
        token[t].vendor \in rfq.invited

\* Together: an edit that replaces the rows of a request (updateRfq) leaves neither
\* a quote that answers rows no longer there nor a link that opens the request to a
\* vendor no longer invited, whatever it overlapped.
RowsMatchRequest == QuotesAnswerLines /\ LinkIsForInvited
===============================================================================
