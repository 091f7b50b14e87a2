---------------------------- MODULE RfqQuotesProofs ----------------------------
(***************************************************************************)
(* Theorems about RfqQuotes, for any vendors, quotes, links and requests.  *)
(*                                                                         *)
(* What holds under any overlap rests on what the transactions enforce and *)
(* on the generations of rows: a link and an inviting job know the vendor  *)
(* rows they were made for, and rows are never made twice (Dated). What    *)
(* holds without an overlap rests on the handlers' checks being true of    *)
(* the state that is written.                                              *)
(***************************************************************************)
EXTENDS RfqQuotes, TLAPS

Busy == {r \in Request : req[r] # NoRequest}

\* The link of a submission in flight exists, and so does the quote of a decision.
Refers(q) ==
    /\ q.kind = "submit" /\ q.token # NoToken =>
           q.token \in Token /\ token[q.token] # NoToken
    /\ q.kind \in {"approve", "decline"} => quote[q.quote] # NoQuote

RefersToRows == \A r \in Busy : Refers(req[r])

\* Links and jobs are of past or present vendor rows, and those of the present
\* rows are for vendors invited.
Dated ==
    /\ \A t \in Token : token[t] # NoToken => token[t].row <= rfq.vendors
    /\ \A r \in Busy : req[r].kind = "invite" =>
           /\ req[r].row <= rfq.vendors
           /\ req[r].row = rfq.vendors => req[r].left \subseteq rfq.invited

\* Unless requests overlapped, a draft has no quotes.
DraftHasNoQuotes ==
    ~raced /\ rfq.status = "DRAFT" => \A x \in Quote : quote[x] = NoQuote

IInv ==
    /\ TypeOK
    /\ RefersToRows
    /\ Dated
    /\ DraftHasNoQuotes
    /\ GuestLinkOnce
    /\ QuotesAnswerLines
    /\ QuotesAreInvited
    /\ LinkIsForInvited

-------------------------------------------------------------------------------
(* Requests in flight.                                                     *)

\* What the fields of a request in flight are.
LEMMA Kinds ==
    ASSUME NEW q \in InFlight
    PROVE  /\ q.kind \in {"send", "invite", "edit", "submit", "approve", "decline"}
           /\ q.kind = "invite" => q.row \in Nat /\ q.left \in SUBSET Vendor
           /\ q.kind = "edit" => q.newLines \in BOOLEAN /\ q.vendors \in SUBSET (SUBSET Vendor)
           /\ q.kind = "submit" => /\ q.vendor \in Vendor /\ q.line \in Nat
                                   /\ q.token \in Token \cup {NoToken}
           /\ q.kind \in {"approve", "decline"} => q.quote \in Quote
BY DEF InFlight

\* A step that changes the requests alone keeps the invariant if what it puts in
\* a slot keeps to RefersToRows and Dated.
LEMMA RequestStep ==
    ASSUME IInv, NEW r \in Request, NEW new \in InFlight \cup {NoRequest},
           req' = [req EXCEPT ![r] = new],
           UNCHANGED <<rfq, quote, token, raced>>,
           new # NoRequest => Refers(new) /\ new.kind # "invite"
    PROVE  IInv'
<1>1. req \in [Request -> InFlight \cup {NoRequest}]
      BY DEF IInv, TypeOK
<1>2. TypeOK'
      BY <1>1 DEF IInv, TypeOK
<1>3. \A s \in Request : req'[s] = IF s = r THEN new ELSE req[s]
      BY <1>1
<1>4. RefersToRows'
      BY <1>3 DEF IInv, RefersToRows, Refers, Busy
<1>5. Dated'
      BY <1>3 DEF IInv, Dated, Busy
<1>6. (/\ DraftHasNoQuotes /\ GuestLinkOnce /\ QuotesAnswerLines
       /\ QuotesAreInvited /\ LinkIsForInvited)'
      BY DEF IInv, DraftHasNoQuotes, GuestLinkOnce, QuotesAnswerLines,
             QuotesAreInvited, LinkIsForInvited, Has
<1> QED  BY <1>2, <1>4, <1>5, <1>6 DEF IInv

\* Ending a request keeps what the other requests keep to.
LEMMA EndRequest ==
    ASSUME TypeOK, NEW r \in Request, req' = [req EXCEPT ![r] = NoRequest]
    PROVE  /\ req' \in [Request -> InFlight \cup {NoRequest}]
           /\ \A s \in Request : req'[s] # NoRequest => s # r /\ req'[s] = req[s]
BY DEF TypeOK

\* Rows are never deleted while a request in flight refers to them.
LEMMA RowsStay ==
    ASSUME TypeOK, RefersToRows,
           \A t \in Token : token[t] # NoToken => token'[t] # NoToken,
           \A x \in Quote : quote[x] # NoQuote => quote'[x] # NoQuote,
           \A s \in Request : req'[s] # NoRequest => req'[s] = req[s]
    PROVE  RefersToRows'
<1> SUFFICES ASSUME NEW s \in Request, req'[s] # NoRequest
             PROVE  /\ req'[s].kind = "submit" /\ req'[s].token # NoToken =>
                           req'[s].token \in Token /\ token'[req'[s].token] # NoToken
                    /\ req'[s].kind \in {"approve", "decline"} =>
                           quote'[req'[s].quote] # NoQuote
    BY DEF RefersToRows, Refers, Busy
<1>1. req'[s] = req[s] /\ Refers(req[s]) /\ req[s] \in InFlight
      BY DEF TypeOK, RefersToRows, Busy
<1>2. req[s].kind \in {"approve", "decline"} => req[s].quote \in Quote
      BY <1>1, Kinds
<1> QED  BY <1>1, <1>2 DEF Refers

-------------------------------------------------------------------------------
(* Reading.                                                                *)

\* The handlers that read put a request in flight that keeps the invariant.
LEMMA ReadKeeps ==
    ASSUME IInv, NEW r \in Request,
           \/ SendRfq(r) \/ UpdateRfq(r)
           \/ \E v \in Vendor : SubmitQuote(r, v)
           \/ \E t \in Token : SubmitGuestQuote(r, t)
           \/ \E x \in Quote : ApproveQuote(r, x) \/ DeclineQuote(r, x)
    PROVE  IInv'
<1>0. rfq.lines \in Nat
      BY DEF IInv, TypeOK, RfqRow
<1>1. CASE SendRfq(r)
  <2> DEFINE new == [kind |-> "send"]
  <2>1. new \in InFlight /\ new.kind = "send" /\ Refers(new)
        BY DEF InFlight, Refers
  <2>2. /\ req' = [req EXCEPT ![r] = new]
        /\ UNCHANGED <<rfq, quote, token, raced>>
        BY <1>1 DEF SendRfq, Begin
  <2> HIDE DEF new
  <2> QED  BY <2>1, <2>2, RequestStep
<1>2. CASE UpdateRfq(r)
  <2>1. PICK newLines \in BOOLEAN, vendors \in {{}} \cup {{vs} : vs \in SUBSET Vendor} :
            Begin(r, [kind |-> "edit", newLines |-> newLines, vendors |-> vendors])
        BY <1>2 DEF UpdateRfq
  <2> DEFINE new == [kind |-> "edit", newLines |-> newLines, vendors |-> vendors]
  <2>2. vendors \in SUBSET (SUBSET Vendor)
        BY <2>1
  <2>3. new \in InFlight /\ new.kind = "edit" /\ Refers(new)
        BY <2>2 DEF InFlight, Refers
  <2>4. /\ req' = [req EXCEPT ![r] = new]
        /\ UNCHANGED <<rfq, quote, token, raced>>
        BY <2>1 DEF Begin
  <2> HIDE DEF new
  <2> QED  BY <2>3, <2>4, RequestStep
<1>3. ASSUME NEW v \in Vendor, NEW t \in Token \cup {NoToken}, Submit(r, v, t),
             t # NoToken => token[t] # NoToken
      PROVE  IInv'
  <2> DEFINE new == [kind |-> "submit", vendor |-> v, token |-> t, line |-> rfq.lines]
  <2>1. new \in InFlight /\ new.kind = "submit" /\ Refers(new)
        BY <1>0, <1>3 DEF InFlight, Refers
  <2>2. /\ req' = [req EXCEPT ![r] = new]
        /\ UNCHANGED <<rfq, quote, token, raced>>
        BY <1>3 DEF Submit, Begin
  <2> HIDE DEF new
  <2> QED  BY <2>1, <2>2, RequestStep
<1>4. ASSUME NEW x \in Quote, NEW kind \in {"approve", "decline"},
             Begin(r, [kind |-> kind, quote |-> x])
      PROVE  IInv'
  <2> DEFINE new == [kind |-> kind, quote |-> x]
  <2>1. new \in InFlight /\ new.kind # "invite" /\ Refers(new)
        BY <1>4 DEF InFlight, Refers, Begin, Admits, Has
  <2>2. /\ req' = [req EXCEPT ![r] = new]
        /\ UNCHANGED <<rfq, quote, token, raced>>
        BY <1>4 DEF Begin
  <2> HIDE DEF new
  <2> QED  BY <2>1, <2>2, RequestStep
<1>5. ASSUME NEW v \in Vendor, SubmitQuote(r, v)
      PROVE  IInv'
      BY <1>3, <1>5 DEF SubmitQuote
<1>6. ASSUME NEW t \in Token, SubmitGuestQuote(r, t)
      PROVE  IInv'
  <2>1. token[t] \in TokenRow
        BY <1>6 DEF SubmitGuestQuote, IInv, TypeOK
  <2>2. token[t].vendor \in Vendor
        BY <2>1 DEF TokenRow
  <2> QED  BY <1>3, <1>6, <2>2 DEF SubmitGuestQuote
<1>7. ASSUME NEW x \in Quote, ApproveQuote(r, x) \/ DeclineQuote(r, x)
      PROVE  IInv'
      BY <1>4, <1>7 DEF ApproveQuote, DeclineQuote
<1> QED  BY <1>1, <1>2, <1>5, <1>6, <1>7

\* So does what ends a request without writing.
LEMMA RollBackKeeps ==
    ASSUME IInv, NEW r \in Request, RollBack(r) \/ EndInvitations(r)
    PROVE  IInv'
BY RequestStep DEF RollBack, EndInvitations

-------------------------------------------------------------------------------
(* Writing.                                                                *)

\* The request opens, and its job starts with the vendors of that moment.
LEMMA SendKeeps ==
    ASSUME IInv, NEW r \in Request, CommitSend(r)
    PROVE  IInv'
<1> DEFINE job == [kind |-> "invite", row |-> rfq.vendors, left |-> rfq.invited]
<1>0. /\ rfq \in RfqRow
      /\ req \in [Request -> InFlight \cup {NoRequest}]
      BY DEF IInv, TypeOK
<1>1. /\ req' = [req EXCEPT ![r] = job]
      /\ rfq' = [rfq EXCEPT !.status = "OPEN"]
      /\ UNCHANGED <<quote, token>>
      /\ raced' = (raced \/ ~Admits(req[r]))
      BY DEF CommitSend, Commit
<1>2. job \in InFlight
      BY <1>0 DEF InFlight, RfqRow
<1>3. /\ rfq' \in RfqRow /\ rfq'.status = "OPEN" /\ rfq'.lines = rfq.lines
      /\ rfq'.vendors = rfq.vendors /\ rfq'.invited = rfq.invited
      BY <1>0, <1>1 DEF RfqRow
<1>4. raced' \in BOOLEAN /\ (~raced' => ~raced)
      BY <1>1, Zenon DEF IInv, TypeOK
<1>5. TypeOK'
      BY <1>0, <1>1, <1>2, <1>3, <1>4 DEF IInv, TypeOK
<1>6. \A s \in Request : req'[s] = IF s = r THEN job ELSE req[s]
      BY <1>0, <1>1
<1>7. RefersToRows'
      BY <1>1, <1>6 DEF IInv, RefersToRows, Refers, Busy
<1>8. Dated'
  <2>1. \A s \in Request : req'[s] # NoRequest /\ req'[s].kind = "invite" =>
            /\ req'[s].row <= rfq.vendors
            /\ req'[s].row = rfq.vendors => req'[s].left \subseteq rfq.invited
        BY <1>0, <1>6 DEF IInv, Dated, Busy, RfqRow
  <2> QED  BY <1>1, <1>3, <2>1 DEF IInv, Dated, Busy
<1>9. DraftHasNoQuotes' /\ GuestLinkOnce' /\ QuotesAnswerLines' /\ LinkIsForInvited'
      BY <1>1, <1>3 DEF IInv, DraftHasNoQuotes, GuestLinkOnce, QuotesAnswerLines,
                        LinkIsForInvited
<1>10. QuotesAreInvited'
      BY <1>1, <1>3, <1>4 DEF IInv, QuotesAreInvited, Has
<1> QED  BY <1>5, <1>7, <1>8, <1>9, <1>10 DEF IInv

\* A link is minted for the vendor row the job knows.
LEMMA MintKeeps ==
    ASSUME IInv, NEW r \in Request, NEW v \in Vendor, NEW t \in Token,
           MintInvitation(r, v, t)
    PROVE  IInv'
<1>0. PICK q : q = req[r]
      OBVIOUS
<1> DEFINE link == [vendor |-> v, row |-> q.row, state |-> "LIVE"]
           rest == [q EXCEPT !.left = @ \ {v}]
<1>1. /\ q # NoRequest /\ q.kind = "invite" /\ v \in q.left
      /\ token[t] = NoToken
      /\ token' = [token EXCEPT ![t] = link]
      /\ req' = [req EXCEPT ![r] = rest]
      /\ UNCHANGED <<rfq, quote, raced>>
      BY <1>0 DEF MintInvitation
<1>2. /\ q \in InFlight
      /\ token \in [Token -> TokenRow \cup {NoToken}]
      /\ req \in [Request -> InFlight \cup {NoRequest}]
      BY <1>0, <1>1 DEF IInv, TypeOK
<1>3. q \in [kind : {"invite"}, row : Nat, left : SUBSET Vendor]
      BY <1>1, <1>2 DEF InFlight
<1>4. /\ link \in TokenRow /\ link # NoToken
      /\ link.row = q.row /\ link.vendor = v /\ link.state = "LIVE"
      BY <1>3, NoTokenAssumption DEF TokenRow
<1>5. /\ rest \in InFlight /\ rest.kind = "invite" /\ rest.row = q.row
      /\ rest.left \subseteq q.left
  <2>1. rest \in [kind : {"invite"}, row : Nat, left : SUBSET Vendor]
        BY <1>3
  <2> QED  BY <1>3, <2>1 DEF InFlight
<1>6. /\ q.row <= rfq.vendors
      /\ q.row = rfq.vendors => q.left \subseteq rfq.invited
      BY <1>0, <1>1 DEF IInv, Dated, Busy
<1> HIDE DEF link, rest
<1>7. /\ \A s \in Token : token'[s] = IF s = t THEN link ELSE token[s]
      /\ \A s \in Request : req'[s] = IF s = r THEN rest ELSE req[s]
      BY <1>1, <1>2
<1>8. TypeOK'
      BY <1>1, <1>2, <1>4, <1>5 DEF IInv, TypeOK
<1>9. RefersToRows'
      BY <1>0, <1>1, <1>4, <1>5, <1>7 DEF IInv, RefersToRows, Refers, Busy
<1>10. Dated'
      BY <1>0, <1>1, <1>4, <1>5, <1>6, <1>7 DEF IInv, Dated, Busy
<1>11. GuestLinkOnce'
      BY <1>1, <1>4, <1>7 DEF IInv, GuestLinkOnce
<1>12. LinkIsForInvited'
      BY <1>1, <1>4, <1>6, <1>7 DEF IInv, LinkIsForInvited
<1>13. DraftHasNoQuotes' /\ QuotesAnswerLines' /\ QuotesAreInvited'
      BY <1>1 DEF IInv, DraftHasNoQuotes, QuotesAnswerLines, QuotesAreInvited, Has
<1> QED  BY <1>8, <1>9, <1>10, <1>11, <1>12, <1>13 DEF IInv

\* An edit of the lines finds no quotes; an edit of the vendors makes new rows,
\* to which no link and no job belongs.
LEMMA EditKeeps ==
    ASSUME IInv, NEW r \in Request, CommitEdit(r)
    PROVE  IInv'
<1>0. PICK q : q = req[r]
      OBVIOUS
<1>1. /\ q # NoRequest /\ q.kind = "edit" /\ Enforced(q)
      /\ rfq' = [rfq EXCEPT !.lines = IF q.newLines THEN @ + 1 ELSE @,
                            !.vendors = IF q.vendors # {} THEN @ + 1 ELSE @,
                            !.invited = IF q.vendors # {} THEN UNION q.vendors ELSE @]
      /\ req' = [req EXCEPT ![r] = NoRequest]
      /\ UNCHANGED <<quote, token>>
      /\ raced' = (raced \/ ~Admits(q))
      BY <1>0 DEF CommitEdit, Commit
<1>2. /\ q \in InFlight /\ rfq \in RfqRow /\ TypeOK
      /\ quote \in [Quote -> QuoteRow \cup {NoQuote}]
      BY <1>0, <1>1 DEF IInv, TypeOK
<1>3. q.newLines \in BOOLEAN /\ q.vendors \in SUBSET (SUBSET Vendor)
      BY <1>1, <1>2, Kinds
<1>4. /\ rfq'.status = rfq.status
      /\ rfq'.lines = IF q.newLines THEN rfq.lines + 1 ELSE rfq.lines
      /\ rfq'.vendors = IF q.vendors # {} THEN rfq.vendors + 1 ELSE rfq.vendors
      /\ rfq'.invited = IF q.vendors # {} THEN UNION q.vendors ELSE rfq.invited
      BY <1>1, <1>2 DEF RfqRow
<1>5. rfq' \in RfqRow
  <2>1. /\ rfq.lines \in Nat /\ rfq.vendors \in Nat /\ rfq.invited \in SUBSET Vendor
        /\ rfq.status \in {"DRAFT", "OPEN", "AWARDED", "CANCELLED"}
        BY <1>2 DEF RfqRow
  <2>2. UNION q.vendors \in SUBSET Vendor
        BY <1>3
  <2>3. /\ rfq'.lines \in Nat /\ rfq'.vendors \in Nat
        /\ rfq'.invited \in SUBSET Vendor
        BY <1>4, <2>1, <2>2
  <2>4. rfq' = [status |-> rfq'.status, lines |-> rfq'.lines,
                vendors |-> rfq'.vendors, invited |-> rfq'.invited]
        BY <1>1, <1>2 DEF RfqRow
  <2> QED  BY <1>4, <2>1, <2>3, <2>4 DEF RfqRow
<1>6. raced' \in BOOLEAN /\ (~raced' => ~raced /\ Admits(q))
      BY <1>1, Zenon DEF IInv, TypeOK
<1>7. /\ req' \in [Request -> InFlight \cup {NoRequest}]
      /\ \A s \in Request : req'[s] # NoRequest => s # r /\ req'[s] = req[s]
      BY <1>1, <1>2, EndRequest
<1>8. TypeOK'
      BY <1>1, <1>5, <1>6, <1>7 DEF IInv, TypeOK
<1>9. RefersToRows'
      BY <1>1, <1>7 DEF IInv, RefersToRows, Refers, Busy
<1>10. Dated' /\ LinkIsForInvited'
  <2>0. rfq.vendors \in Nat
        BY <1>2 DEF RfqRow
  <2>1. \A t \in Token : token[t] # NoToken => token[t].row \in Nat
        BY DEF IInv, TypeOK, TokenRow
  <2>2. \A s \in Request : req[s] # NoRequest /\ req[s].kind = "invite" => req[s].row \in Nat
        BY Kinds DEF IInv, TypeOK
  <2>3. CASE q.vendors = {}
        BY <1>1, <1>4, <1>7, <2>3 DEF IInv, Dated, LinkIsForInvited, Busy
  <2>4. CASE q.vendors # {}
    <3>1. rfq'.vendors = rfq.vendors + 1
          BY <1>4, <2>4
    <3>2. \A t \in Token : token[t] # NoToken =>
              token[t].row <= rfq'.vendors /\ token[t].row # rfq'.vendors
          BY <2>0, <2>1, <3>1 DEF IInv, Dated
    <3>3. \A s \in Request : req'[s] # NoRequest /\ req'[s].kind = "invite" =>
              req'[s].row <= rfq'.vendors /\ req'[s].row # rfq'.vendors
          BY <1>7, <2>0, <2>2, <3>1 DEF IInv, Dated, Busy
    <3> QED  BY <1>1, <3>2, <3>3 DEF Dated, LinkIsForInvited, Busy
  <2> QED  BY <2>3, <2>4
<1>11. GuestLinkOnce'
      BY <1>1 DEF IInv, GuestLinkOnce
<1>12. QuotesAnswerLines'
      BY <1>1, <1>4 DEF IInv, QuotesAnswerLines, Enforced
<1>13. DraftHasNoQuotes'
      BY <1>1, <1>4, <1>6 DEF IInv, DraftHasNoQuotes
<1>14. QuotesAreInvited'
  <2> SUFFICES ASSUME ~raced'
               PROVE  \A x \in Quote : ~Has(x, {"SUBMITTED", "APPROVED"})
      BY <1>1 DEF QuotesAreInvited, Has
  <2>1. CanEdit
        BY <1>1, <1>6 DEF Admits
  <2>2. ~raced
        BY <1>6
  <2> QED  BY <2>1, <2>2 DEF CanEdit, Has, IInv, DraftHasNoQuotes
<1> QED  BY <1>8, <1>9, <1>10, <1>11, <1>12, <1>13, <1>14 DEF IInv

\* A quote is stored against lines that are still there, through a link that was
\* not used; unless the submission was overtaken, its vendor is invited and has
\* no other quote pending.
LEMMA SubmitKeeps ==
    ASSUME IInv, NEW r \in Request, NEW x \in Quote, CommitSubmit(r, x)
    PROVE  IInv'
<1>0. PICK q : q = req[r]
      OBVIOUS
<1> DEFINE row == [vendor |-> q.vendor, status |-> "SUBMITTED",
                   line |-> q.line, token |-> q.token]
<1>1. /\ q # NoRequest /\ q.kind = "submit" /\ Enforced(q)
      /\ quote[x] = NoQuote
      /\ quote' = [quote EXCEPT ![x] = row]
      /\ token' = IF q.token = NoToken THEN token
                  ELSE [token EXCEPT ![q.token].state = "USED"]
      /\ req' = [req EXCEPT ![r] = NoRequest]
      /\ UNCHANGED rfq
      /\ raced' = (raced \/ ~Admits(q))
      BY <1>0 DEF CommitSubmit, Commit
<1>2. /\ q \in InFlight /\ TypeOK
      /\ quote \in [Quote -> QuoteRow \cup {NoQuote}]
      /\ token \in [Token -> TokenRow \cup {NoToken}]
      BY <1>0, <1>1 DEF IInv, TypeOK
<1>3. q.vendor \in Vendor /\ q.line \in Nat /\ q.token \in Token \cup {NoToken}
      BY <1>1, <1>2, Kinds
<1>4. /\ row \in QuoteRow /\ row # NoQuote
      /\ row.vendor = q.vendor /\ row.line = q.line /\ row.token = q.token
      /\ row.status = "SUBMITTED"
      BY <1>3, NoQuoteAssumption DEF QuoteRow
<1> HIDE DEF row
<1>5. \A y \in Quote : quote'[y] = IF y = x THEN row ELSE quote[y]
      BY <1>1, <1>2
<1>6. q.token # NoToken =>
          /\ q.token \in Token /\ token[q.token] \in TokenRow
          /\ token[q.token] # NoToken /\ token[q.token].state # "USED"
      BY <1>0, <1>1, <1>2, <1>3 DEF IInv, RefersToRows, Refers, Busy, Enforced
\* The link keeps its vendor and its row.
<1>7. /\ token' \in [Token -> TokenRow \cup {NoToken}]
      /\ \A t \in Token : t # q.token => token'[t] = token[t]
      /\ \A t \in Token : token[t] = NoToken <=> token'[t] = NoToken
      /\ \A t \in Token : token[t] # NoToken =>
            token'[t].vendor = token[t].vendor /\ token'[t].row = token[t].row
      /\ q.token # NoToken => token'[q.token].state = "USED"
  <2>1. CASE q.token = NoToken
        BY <1>1, <1>2, <2>1
  <2>2. CASE q.token # NoToken
    <3> DEFINE used == [token[q.token] EXCEPT !.state = "USED"]
    <3>1. /\ used \in TokenRow /\ used # NoToken /\ used.state = "USED"
          /\ used.vendor = token[q.token].vendor /\ used.row = token[q.token].row
          BY <1>6, <2>2, NoTokenAssumption DEF TokenRow
    <3>2. token' = [token EXCEPT ![q.token] = used]
          BY <1>1, <2>2, Zenon
    <3> HIDE DEF used
    <3>3. \A t \in Token : token'[t] = IF t = q.token THEN used ELSE token[t]
          BY <1>2, <3>2
    <3>4. token' \in [Token -> TokenRow \cup {NoToken}]
          BY <1>2, <3>1, <3>2
    <3> QED  BY <1>6, <2>2, <3>1, <3>3, <3>4
  <2> QED  BY <2>1, <2>2
<1>8. raced' \in BOOLEAN /\ (~raced' => ~raced /\ Admits(q))
      BY <1>1, Zenon DEF IInv, TypeOK
<1>9. /\ req' \in [Request -> InFlight \cup {NoRequest}]
      /\ \A s \in Request : req'[s] # NoRequest => s # r /\ req'[s] = req[s]
      BY <1>1, <1>2, EndRequest
<1>10. TypeOK'
      BY <1>1, <1>2, <1>4, <1>7, <1>8, <1>9 DEF IInv, TypeOK
<1>11. RefersToRows'
      BY <1>2, <1>4, <1>5, <1>7, <1>9, RowsStay DEF IInv
<1>12. Dated' /\ LinkIsForInvited'
      BY <1>1, <1>7, <1>9 DEF IInv, Dated, LinkIsForInvited, Busy
<1>13. ~raced' => CanQuote(q.vendor)
      BY <1>1, <1>8 DEF Admits
<1>14. DraftHasNoQuotes'
      BY <1>1, <1>13 DEF DraftHasNoQuotes, CanQuote
<1>15. GuestLinkOnce'
  <2> SUFFICES ASSUME NEW t \in Token
               PROVE  LET through == {y \in Quote : quote'[y] # NoQuote /\ quote'[y].token = t} IN
                      /\ \A y, z \in through : y = z
                      /\ through # {} <=> token'[t] # NoToken /\ token'[t].state = "USED"
      BY DEF GuestLinkOnce
  <2> DEFINE before == {y \in Quote : quote[y] # NoQuote /\ quote[y].token = t}
             after  == {y \in Quote : quote'[y] # NoQuote /\ quote'[y].token = t}
  <2>1. /\ \A y, z \in before : y = z
        /\ before # {} <=> token[t] # NoToken /\ token[t].state = "USED"
        BY DEF IInv, GuestLinkOnce
  <2>2. CASE t = q.token
    <3>1. t # NoToken
          BY NoTokenAssumption
    <3>2. before = {}
          BY <1>6, <2>1, <2>2, <3>1
    <3>3. after = {x}
          BY <1>4, <1>5, <2>2, <3>2
    <3>4. token'[t] # NoToken /\ token'[t].state = "USED"
          BY <1>6, <1>7, <2>2, <3>1
    <3> QED  BY <3>3, <3>4
  <2>3. CASE t # q.token
    <3>1. after = before
          BY <1>1, <1>4, <1>5, <2>3
    <3>2. token'[t] = token[t]
          BY <1>7, <2>3
    <3> QED  BY <2>1, <3>1, <3>2
  <2> QED  BY <2>2, <2>3
<1>16. QuotesAnswerLines'
      BY <1>1, <1>4, <1>5 DEF IInv, QuotesAnswerLines, Enforced
<1>17. QuotesAreInvited'
      BY <1>1, <1>4, <1>5, <1>8, <1>13 DEF IInv, QuotesAreInvited, CanQuote, Has
<1> QED  BY <1>10, <1>11, <1>12, <1>14, <1>15, <1>16, <1>17 DEF IInv

\* A decision changes the quote's status alone.
LEMMA DecisionKeeps ==
    ASSUME IInv, NEW r \in Request, CommitDecision(r)
    PROVE  IInv'
<1>0. PICK q : q = req[r]
      OBVIOUS
<1> DEFINE to  == IF q.kind = "approve" THEN "APPROVED" ELSE "DECLINED"
           row == [quote[q.quote] EXCEPT !.status = to]
<1>1. /\ q # NoRequest /\ q.kind \in {"approve", "decline"}
      /\ quote' = [quote EXCEPT ![q.quote].status = to]
      /\ rfq' = IF q.kind = "approve" THEN [rfq EXCEPT !.status = "AWARDED"] ELSE rfq
      /\ req' = [req EXCEPT ![r] = NoRequest]
      /\ UNCHANGED token
      /\ raced' = (raced \/ ~Admits(q))
      BY <1>0 DEF CommitDecision, Commit
<1>2. /\ q \in InFlight /\ TypeOK /\ rfq \in RfqRow
      /\ quote \in [Quote -> QuoteRow \cup {NoQuote}]
      BY <1>0, <1>1 DEF IInv, TypeOK
<1>3. q.quote \in Quote
      BY <1>1, <1>2, Kinds
<1>4. /\ rfq' \in RfqRow /\ rfq'.status \in {rfq.status, "AWARDED"}
      /\ rfq'.lines = rfq.lines /\ rfq'.vendors = rfq.vendors
      /\ rfq'.invited = rfq.invited
      BY <1>1, <1>2 DEF RfqRow
<1>5. /\ quote[q.quote] \in QuoteRow /\ quote[q.quote] # NoQuote
      BY <1>0, <1>1, <1>2, <1>3 DEF IInv, RefersToRows, Refers, Busy
<1>6. /\ row \in QuoteRow /\ row # NoQuote /\ row.status = to
      /\ row.vendor = quote[q.quote].vendor /\ row.line = quote[q.quote].line
      /\ row.token = quote[q.quote].token
      BY <1>5, NoQuoteAssumption DEF QuoteRow
<1>7. quote' = [quote EXCEPT ![q.quote] = row]
      BY <1>1, Zenon
<1> HIDE DEF row
<1>8. \A y \in Quote : quote'[y] = IF y = q.quote THEN row ELSE quote[y]
      BY <1>2, <1>7
\* All but the status stays.
<1>9. \A y \in Quote :
          /\ quote[y] = NoQuote <=> quote'[y] = NoQuote
          /\ quote[y] # NoQuote => /\ quote'[y].vendor = quote[y].vendor
                                   /\ quote'[y].line = quote[y].line
                                   /\ quote'[y].token = quote[y].token
      BY <1>5, <1>6, <1>8
<1>10. raced' \in BOOLEAN /\ (~raced' => ~raced /\ Admits(q))
      BY <1>1, Zenon DEF IInv, TypeOK
<1>11. /\ req' \in [Request -> InFlight \cup {NoRequest}]
       /\ \A s \in Request : req'[s] # NoRequest => s # r /\ req'[s] = req[s]
      BY <1>1, <1>2, EndRequest
<1>12. TypeOK'
      BY <1>1, <1>2, <1>3, <1>4, <1>6, <1>7, <1>10, <1>11 DEF IInv, TypeOK
<1>13. RefersToRows'
      BY <1>1, <1>2, <1>9, <1>11, RowsStay DEF IInv
<1>14. Dated' /\ LinkIsForInvited'
      BY <1>1, <1>4, <1>11 DEF IInv, Dated, LinkIsForInvited, Busy
<1>15. ~raced' => ~raced /\ Has(q.quote, {"SUBMITTED"})
      BY <1>1, <1>10 DEF Admits
<1>16. DraftHasNoQuotes'
      BY <1>3, <1>4, <1>15 DEF IInv, DraftHasNoQuotes, Has
<1>17. GuestLinkOnce'
  <2> SUFFICES ASSUME NEW t \in Token
               PROVE  LET through == {y \in Quote : quote'[y] # NoQuote /\ quote'[y].token = t} IN
                      /\ \A y, z \in through : y = z
                      /\ through # {} <=> token'[t] # NoToken /\ token'[t].state = "USED"
      BY DEF GuestLinkOnce
  <2>1. {y \in Quote : quote'[y] # NoQuote /\ quote'[y].token = t}
            = {y \in Quote : quote[y] # NoQuote /\ quote[y].token = t}
        BY <1>9
  <2> QED  BY <1>1, <2>1 DEF IInv, GuestLinkOnce
<1>18. QuotesAnswerLines'
      BY <1>4, <1>9 DEF IInv, QuotesAnswerLines
<1>19. QuotesAreInvited'
      BY <1>3, <1>4, <1>5, <1>6, <1>8, <1>9, <1>15 DEF IInv, QuotesAreInvited, Has
<1> QED  BY <1>12, <1>13, <1>14, <1>16, <1>17, <1>18, <1>19 DEF IInv

\* Neither a cancellation nor time touches what the invariant tells of.
LEMMA CancelKeeps ==
    ASSUME IInv, CancelRfq
    PROVE  IInv'
<1>1. rfq \in RfqRow
      BY DEF IInv, TypeOK
<1>2. /\ rfq' \in RfqRow /\ rfq'.status = "CANCELLED" /\ rfq'.lines = rfq.lines
      /\ rfq'.vendors = rfq.vendors /\ rfq'.invited = rfq.invited
      BY <1>1 DEF CancelRfq, RfqRow
<1>3. UNCHANGED <<quote, token, req, raced>>
      BY DEF CancelRfq
<1> QED
    BY <1>2, <1>3 DEF IInv, TypeOK, RefersToRows, Refers, Busy, Dated, DraftHasNoQuotes,
       GuestLinkOnce, QuotesAnswerLines, QuotesAreInvited, LinkIsForInvited, Has

LEMMA ExpireKeeps ==
    ASSUME IInv, NEW t \in Token, ExpireLink(t)
    PROVE  IInv'
<1> DEFINE gone == [token[t] EXCEPT !.state = "EXPIRED"]
<1>1. /\ token[t] # NoToken /\ token[t].state = "LIVE"
      /\ token \in [Token -> TokenRow \cup {NoToken}]
      /\ UNCHANGED <<rfq, quote, req, raced>>
      BY DEF ExpireLink, IInv, TypeOK
<1>2. /\ gone \in TokenRow /\ gone # NoToken /\ gone.state = "EXPIRED"
      /\ gone.vendor = token[t].vendor /\ gone.row = token[t].row
      BY <1>1, NoTokenAssumption DEF TokenRow
<1>3. token' = [token EXCEPT ![t] = gone]
      BY Zenon DEF ExpireLink
<1> HIDE DEF gone
<1>4. \A s \in Token : token'[s] = IF s = t THEN gone ELSE token[s]
      BY <1>1, <1>3
<1>5. TypeOK'
      BY <1>1, <1>2, <1>3 DEF IInv, TypeOK
<1>6. RefersToRows'
      BY <1>1, <1>2, <1>4 DEF IInv, RefersToRows, Refers, Busy
<1>7. Dated' /\ LinkIsForInvited'
      BY <1>1, <1>2, <1>4 DEF IInv, Dated, LinkIsForInvited, Busy
<1>8. GuestLinkOnce'
      BY <1>1, <1>2, <1>4 DEF IInv, GuestLinkOnce
<1>9. DraftHasNoQuotes' /\ QuotesAnswerLines' /\ QuotesAreInvited'
      BY <1>1 DEF IInv, DraftHasNoQuotes, QuotesAnswerLines, QuotesAreInvited, Has
<1> QED  BY <1>5, <1>6, <1>7, <1>8, <1>9 DEF IInv

-------------------------------------------------------------------------------
(* The theorems.                                                           *)

LEMMA InitIInv == Init => IInv
<1> SUFFICES ASSUME Init
             PROVE  IInv
    OBVIOUS
<1>1. FALSE \in BOOLEAN
      OBVIOUS
<1>2. TypeOK
  <2>1. rfq \in RfqRow
        BY DEF Init, RfqRow
  <2> QED  BY <1>1, <2>1 DEF Init, TypeOK
<1>3. RefersToRows /\ Dated
      BY DEF Init, RefersToRows, Busy, Dated
<1>4. /\ DraftHasNoQuotes /\ GuestLinkOnce /\ QuotesAnswerLines
      /\ QuotesAreInvited /\ LinkIsForInvited
      BY DEF Init, DraftHasNoQuotes, GuestLinkOnce, QuotesAnswerLines,
             QuotesAreInvited, LinkIsForInvited, Has
<1> QED  BY <1>2, <1>3, <1>4 DEF IInv

\* Every step keeps it.
LEMMA StepIInv == IInv /\ [Next]_vars => IInv'
<1> SUFFICES ASSUME IInv, [Next]_vars
             PROVE  IInv'
    OBVIOUS
<1>1. CASE CancelRfq
      BY <1>1, CancelKeeps
<1>2. ASSUME NEW t \in Token, ExpireLink(t)
      PROVE  IInv'
      BY <1>2, ExpireKeeps
<1>3. ASSUME NEW r \in Request,
             \/ SendRfq(r) \/ UpdateRfq(r)
             \/ \E v \in Vendor : SubmitQuote(r, v)
             \/ \E t \in Token : SubmitGuestQuote(r, t)
             \/ \E x \in Quote : ApproveQuote(r, x) \/ DeclineQuote(r, x)
      PROVE  IInv'
      BY <1>3, ReadKeeps
<1>4. ASSUME NEW r \in Request, RollBack(r) \/ EndInvitations(r)
      PROVE  IInv'
      BY <1>4, RollBackKeeps
<1>5. ASSUME NEW r \in Request, CommitSend(r) \/ CommitEdit(r) \/ CommitDecision(r)
      PROVE  IInv'
      BY <1>5, SendKeeps, EditKeeps, DecisionKeeps
<1>6. ASSUME NEW r \in Request, NEW x \in Quote, CommitSubmit(r, x)
      PROVE  IInv'
      BY <1>6, SubmitKeeps
<1>7. ASSUME NEW r \in Request, NEW v \in Vendor, NEW t \in Token, MintInvitation(r, v, t)
      PROVE  IInv'
      BY <1>7, MintKeeps
<1>8. CASE UNCHANGED vars
      BY <1>8 DEF vars, IInv, TypeOK, RefersToRows, Refers, Busy, Dated, DraftHasNoQuotes,
                  GuestLinkOnce, QuotesAnswerLines, QuotesAreInvited, LinkIsForInvited, Has
<1> QED  BY <1>1, <1>2, <1>3, <1>4, <1>5, <1>6, <1>7, <1>8 DEF Next

\* The invariant the theorems below are part of.
THEOREM Invariance == Spec => []IInv
BY InitIInv, StepIInv, PTL DEF Spec

\* The variables keep their types: in particular a decision is never taken on a quote
\* that is not there, and a link is never burned that was not minted.
THEOREM TypeCorrect == Spec => []TypeOK
<1>1. IInv => TypeOK
      BY DEF IInv
<1> QED  BY <1>1, Invariance, PTL

\* Under any overlap a link is used exactly when one quote came through it.
THEOREM LinksAreSpentOnce == Spec => []GuestLinkOnce
<1>1. IInv => GuestLinkOnce
      BY DEF IInv
<1> QED  BY <1>1, Invariance, PTL

\* Under any overlap quotes answer the lines the request has, and links that still
\* open it are of vendors it invites.
THEOREM RowsMatch == Spec => []RowsMatchRequest
<1>1. IInv => RowsMatchRequest
      BY DEF IInv, RowsMatchRequest
<1> QED  BY <1>1, Invariance, PTL

\* Without an overlap quotes are of invited vendors, one pending of each.
THEOREM InvitedOnly == Spec => []QuotesAreInvited
<1>1. IInv => QuotesAreInvited
      BY DEF IInv
<1> QED  BY <1>1, Invariance, PTL

===============================================================================
