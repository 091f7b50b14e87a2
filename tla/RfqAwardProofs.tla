---------------------------- MODULE RfqAwardProofs ----------------------------
(***************************************************************************)
(* Theorems about RfqAward, for any requests, quotes, quantities and       *)
(* handlers in flight.                                                     *)
(*                                                                         *)
(* That a share stays within its row's offer holds under any overlap: a    *)
(* revision makes new rows under new ids, and a split award writes the     *)
(* rows it read or none (Sound). That a quote has one row is kept by every *)
(* revision whose DELETE has seen all rows. The other theorems follow a    *)
(* write its handler still admits.                                         *)
(***************************************************************************)
EXTENDS RfqAward, TLAPS

Busy == {r \in Request : req[r] # NoRequest}

\* The ids of line rows are those given out, and a quote that has not come has no
\* row.
RowsNumbered == \A row \in line : row.id < made[row.quote]
RowsOfQuotes == \A row \in line : quote[row.quote] # "NONE"

RowsDistinct ==
    \A a, b \in line : a.quote = b.quote /\ a.id = b.id => a = b

\* A request in flight is about quotes that exist, and a split award holds shares
\* of rows once made, within the offer of the row if it is still there.
Sound(q) ==
    /\ q.quotes # {}
    /\ \A x \in q.quotes : quote[x] # "NONE"
    /\ q.kind = "split" =>
          \A s \in q.shares :
              /\ s.id < made[s.quote]
              /\ \A row \in line :
                    row.quote = s.quote /\ row.id = s.id => s.amount <= row.offer

RequestsSound == \A r \in Busy : Sound(req[r])

\* The two parts of ApprovedWithinOffer.
WithinRow == \A row \in line : row.approved <= row.offer
OneRow == \A x \in Quote \ doubled :
              quote[x] # "NONE" => \E row \in line : LinesOf(x) = {row}

IInv ==
    /\ TypeOK
    /\ RowsNumbered
    /\ RowsOfQuotes
    /\ RowsDistinct
    /\ RequestsSound
    /\ WithinRow
    /\ OneRow
    /\ AwardedOnce
    /\ AwardedTellsQuotes

-------------------------------------------------------------------------------
(* Requests in flight.                                                     *)

LEMMA Kinds ==
    ASSUME NEW q \in InFlight
    PROVE  /\ q.kind \in {"approve", "award", "split", "decline", "update"}
           /\ q.quotes \in SUBSET Quote
           /\ q.kind \in {"approve", "award", "split"} =>
                 q.route \in Rfq /\ q.shares \in SUBSET Share /\ q.number \in Nat
           /\ q.kind = "update" => q.offer \in Quantity
BY DEF InFlight, Approving, Declining, Revising

\* A step that changes the requests alone, and puts a sound one in a slot.
LEMMA RequestStep ==
    ASSUME IInv, NEW r \in Request, NEW new \in InFlight \cup {NoRequest},
           req' = [req EXCEPT ![r] = new],
           UNCHANGED <<rfq, rows, order, lastPo, raced, misrouted>>,
           new # NoRequest => Sound(new)
    PROVE  IInv'
<1>1. req \in [Request -> InFlight \cup {NoRequest}]
      BY DEF IInv, TypeOK
<1>2. UNCHANGED <<rfq, quote, line, made, doubled, order, lastPo, raced, misrouted>>
      BY DEF rows
<1>3. TypeOK'
      BY <1>1, <1>2 DEF IInv, TypeOK
<1>4. \A s \in Request : req'[s] = IF s = r THEN new ELSE req[s]
      BY <1>1
<1>5. RequestsSound'
  <2> SUFFICES ASSUME NEW s \in Request, req'[s] # NoRequest
               PROVE  Sound(req'[s])
      BY <1>2 DEF RequestsSound, Busy, Sound
  <2> QED  BY <1>4 DEF IInv, RequestsSound, Busy
<1>6. (RowsNumbered /\ RowsOfQuotes /\ RowsDistinct /\ WithinRow /\ OneRow
       /\ AwardedOnce /\ AwardedTellsQuotes)'
      BY <1>2 DEF IInv, RowsNumbered, RowsOfQuotes, RowsDistinct, WithinRow, OneRow, LinesOf,
                  AwardedOnce, AwardedTellsQuotes, Has
<1> QED  BY <1>3, <1>5, <1>6 DEF IInv

\* A step after which every row is new or was there with its offer leaves the
\* requests it does not end sound.
LEMMA RowsStay ==
    ASSUME IInv, made' \in [Quote -> Nat], line' \subseteq LineRow,
           \A x \in Quote : made[x] <= made'[x],
           \A x \in Quote : quote[x] # "NONE" => quote'[x] # "NONE",
           \A new \in line' : \/ new.id >= made[new.quote]
                              \/ \E row \in line : /\ row.quote = new.quote
                                                   /\ row.id = new.id
                                                   /\ row.offer = new.offer,
           \A s \in Request : req'[s] # NoRequest => req'[s] = req[s]
    PROVE  RequestsSound'
<1> SUFFICES ASSUME NEW s \in Request, req'[s] # NoRequest
             PROVE  /\ req'[s].quotes # {}
                    /\ \A x \in req'[s].quotes : quote'[x] # "NONE"
                    /\ req'[s].kind = "split" =>
                          \A t \in req'[s].shares :
                              /\ t.id < made'[t.quote]
                              /\ \A row \in line' :
                                    row.quote = t.quote /\ row.id = t.id =>
                                        t.amount <= row.offer
    BY DEF RequestsSound, Busy, Sound
<1>1. PICK q : q = req[s]
      OBVIOUS
<1>2. req'[s] = q /\ q \in InFlight /\ Sound(q)
      BY <1>1 DEF IInv, TypeOK, RequestsSound, Busy
<1>3. q.quotes # {} /\ \A x \in q.quotes : quote'[x] # "NONE"
      BY <1>2, Kinds DEF Sound
<1>4. ASSUME q.kind = "split", NEW t \in q.shares
      PROVE  /\ t.id < made'[t.quote]
             /\ \A row \in line' :
                   row.quote = t.quote /\ row.id = t.id => t.amount <= row.offer
  <2>1. t \in Share
        BY <1>2, <1>4, Kinds
  <2>2. t.quote \in Quote /\ t.id \in Nat
        BY <2>1 DEF Share
  <2>3. /\ t.id < made[t.quote]
        /\ \A row \in line :
              row.quote = t.quote /\ row.id = t.id => t.amount <= row.offer
        BY <1>2, <1>4 DEF Sound
  <2>4. made[t.quote] \in Nat /\ made'[t.quote] \in Nat /\ made[t.quote] <= made'[t.quote]
        BY <2>2 DEF IInv, TypeOK
  <2>5. ASSUME NEW row \in line', row.quote = t.quote, row.id = t.id
        PROVE  t.amount <= row.offer
    <3>1. ~(row.id >= made[row.quote])
          BY <2>2, <2>3, <2>4, <2>5
    <3> QED  BY <2>3, <2>5, <3>1
  <2> QED  BY <2>2, <2>3, <2>4, <2>5
<1> QED  BY <1>2, <1>3, <1>4

-------------------------------------------------------------------------------
(* Reading.                                                                *)

\* A request begins: one that splits holds its shares within the offers.
LEMMA BeginKeeps ==
    ASSUME IInv, NEW r \in Request, NEW q \in InFlight, Begin(r, q), Sound(q)
    PROVE  IInv'
BY RequestStep DEF Begin

LEMMA ApproveKeeps ==
    ASSUME IInv, NEW r \in Request, NEW f \in Rfq,
           NEW kind \in {"approve", "award", "split"},
           NEW quotes \in SUBSET Quote, quotes # {},
           NEW shares \in SUBSET Share, Approve(r, kind, f, quotes, shares),
           kind = "split" =>
               \A s \in shares :
                   /\ s.id < made[s.quote]
                   /\ \A row \in line :
                         row.quote = s.quote /\ row.id = s.id => s.amount <= row.offer
    PROVE  IInv'
<1> DEFINE q == [kind |-> kind, route |-> f, quotes |-> quotes, shares |-> shares,
                 number |-> 0]
<1>1. q \in InFlight
      BY DEF InFlight, Approving
<1>2. Begin(r, q)
      BY DEF Approve
<1>3. q.kind = kind /\ q.quotes = quotes /\ q.shares = shares
      OBVIOUS
<1> HIDE DEF q
<1>4. Sound(q)
      BY <1>2, <1>3 DEF Begin, Sound
<1> QED  BY <1>1, <1>2, <1>4, BeginKeeps

\* What an award orders are shares of the quote's rows.
LEMMA OfferedShares ==
    ASSUME TypeOK, NEW x \in Quote
    PROVE  {[quote |-> x, id |-> row.id, amount |-> row.offer] :
               row \in {w \in LinesOf(x) : w.offer > 0}} \in SUBSET Share
<1>1. \A row \in LinesOf(x) : row \in LineRow
      BY DEF TypeOK, LinesOf
<1>2. \A row \in LinesOf(x) : row.id \in Nat /\ row.offer \in Nat
      BY <1>1, QuantityAssumption DEF LineRow
<1> QED  BY <1>2 DEF Share

LEMMA ReadKeeps ==
    ASSUME IInv, NEW r \in Request, NEW x \in Quote,
           \/ UpdateQuote(r, x) \/ DeclineQuote(r, x)
           \/ \E f \in Rfq : ApproveQuote(r, f, x) \/ AwardQuote(r, f, x)
    PROVE  IInv'
<1>1. CASE UpdateQuote(r, x)
  <2>1. PICK offer \in Quantity :
            Begin(r, [kind |-> "update", quotes |-> {x}, offer |-> offer,
                      deleting |-> FALSE, seen |-> {}])
        BY <1>1 DEF UpdateQuote
  <2> DEFINE q == [kind |-> "update", quotes |-> {x}, offer |-> offer,
                   deleting |-> FALSE, seen |-> {}]
  <2>2. q \in InFlight
    <3>1. FALSE \in BOOLEAN /\ {} \in SUBSET Nat /\ {x} \in SUBSET Quote
          OBVIOUS
    <3> QED  BY <3>1 DEF InFlight, Revising
  <2>3. Sound(q)
        BY <2>1 DEF Begin, Sound
  <2> QED  BY <2>1, <2>2, <2>3, BeginKeeps
<1>2. CASE DeclineQuote(r, x)
  <2> DEFINE q == [kind |-> "decline", quotes |-> {x}]
  <2>1. q \in InFlight
        BY DEF InFlight, Declining
  <2>2. Begin(r, q)
        BY <1>2 DEF DeclineQuote
  <2>3. Sound(q)
        BY <2>2 DEF Begin, Sound
  <2> QED  BY <2>1, <2>2, <2>3, BeginKeeps
<1>3. ASSUME NEW f \in Rfq, ApproveQuote(r, f, x)
      PROVE  IInv'
  <2>1. {} \in SUBSET Share /\ {x} \in SUBSET Quote
        OBVIOUS
  <2> QED  BY <1>3, <2>1, ApproveKeeps DEF ApproveQuote
<1>4. ASSUME NEW f \in Rfq, AwardQuote(r, f, x)
      PROVE  IInv'
  <2>1. {[quote |-> x, id |-> row.id, amount |-> row.offer] :
            row \in {w \in LinesOf(x) : w.offer > 0}} \in SUBSET Share
        BY OfferedShares DEF IInv
  <2>2. {x} \in SUBSET Quote
        OBVIOUS
  <2> QED  BY <1>4, <2>1, <2>2, ApproveKeeps DEF AwardQuote
<1> QED  BY <1>1, <1>2, <1>3, <1>4

\* A split award: a share is of one row, and within its offer.
LEMMA AwardSplitKeeps ==
    ASSUME IInv, NEW r \in Request, NEW f \in Rfq, AwardSplit(r, f)
    PROVE  IInv'
<1> DEFINE Quotes(chosen) == {row.quote : row \in chosen}
           Shares(chosen, amount) ==
               {[quote |-> row.quote, id |-> row.id, amount |-> amount[row]] :
                   row \in chosen}
<1>1. PICK chosen \in (SUBSET {row \in line : RfqOf[row.quote] = f}) \ {{}} :
         \E amount \in [chosen -> 1..Requested] :
             /\ \A row \in chosen : amount[row] <= row.offer
             /\ Approve(r, "split", f, Quotes(chosen), Shares(chosen, amount))
      BY DEF AwardSplit
<1>2. PICK amount \in [chosen -> 1..Requested] :
         /\ \A row \in chosen : amount[row] <= row.offer
         /\ Approve(r, "split", f, Quotes(chosen), Shares(chosen, amount))
      BY <1>1
<1>3. chosen # {} /\ \A row \in chosen : row \in line /\ row \in LineRow
      BY <1>1 DEF IInv, TypeOK
<1>4. \A row \in chosen : /\ row.quote \in Quote /\ row.id \in Nat
                          /\ amount[row] \in Nat
      BY <1>2, <1>3, QuantityAssumption DEF LineRow
<1>5. Quotes(chosen) \in SUBSET Quote /\ Quotes(chosen) # {}
      BY <1>3, <1>4
<1>6. Shares(chosen, amount) \in SUBSET Share
      BY <1>4 DEF Share
<1>7. ASSUME NEW s \in Shares(chosen, amount)
      PROVE  /\ s.id < made[s.quote]
             /\ \A row \in line :
                   row.quote = s.quote /\ row.id = s.id => s.amount <= row.offer
  <2>1. PICK mine \in chosen :
            s = [quote |-> mine.quote, id |-> mine.id, amount |-> amount[mine]]
        BY <1>7
  <2>2. s.quote = mine.quote /\ s.id = mine.id /\ s.amount = amount[mine]
        BY <2>1
  <2>3. s.id < made[s.quote]
        BY <1>3, <2>2 DEF IInv, RowsNumbered
  <2>4. \A row \in line : row.quote = s.quote /\ row.id = s.id => row = mine
        BY <1>3, <2>2 DEF IInv, RowsDistinct
  <2> QED  BY <1>2, <2>2, <2>3, <2>4
<1> HIDE DEF Quotes, Shares
<1> QED  BY <1>2, <1>5, <1>6, <1>7, ApproveKeeps

LEMMA TakeNumberKeeps ==
    ASSUME IInv, NEW r \in Request, TakeNumber(r)
    PROVE  IInv'
<1>1. PICK q : q = req[r]
      OBVIOUS
<1>2. q \in InFlight /\ q.kind \in {"award", "split"} /\ Sound(q)
      BY <1>1 DEF TakeNumber, IInv, TypeOK, RequestsSound, Busy
<1> DEFINE new == [q EXCEPT !.number = lastPo + 1]
<1>3. lastPo + 1 \in Nat
      BY DEF IInv, TypeOK
<1>4. q \in Approving
      BY <1>2 DEF InFlight, Declining, Revising
<1>5. new \in InFlight
      BY <1>3, <1>4 DEF InFlight, Approving
<1>6. new.kind = q.kind /\ new.quotes = q.quotes /\ new.shares = q.shares
      BY <1>4 DEF Approving
<1>7. req' = [req EXCEPT ![r] = new]
      BY <1>1 DEF TakeNumber
<1> HIDE DEF new
<1>8. Sound(new)
      BY <1>2, <1>6 DEF Sound
<1> QED  BY <1>5, <1>7, <1>8, RequestStep DEF TakeNumber

LEMMA DeleteLinesKeeps ==
    ASSUME IInv, NEW r \in Request, DeleteLines(r)
    PROVE  IInv'
<1>1. PICK q : q = req[r]
      OBVIOUS
<1>2. PICK ids : ids = UNION {Ids(x) : x \in q.quotes}
      OBVIOUS
<1>3. q \in InFlight /\ q.kind = "update" /\ Sound(q)
      BY <1>1 DEF DeleteLines, IInv, TypeOK, RequestsSound, Busy
<1>4. q \in Revising
      BY <1>3 DEF InFlight, Approving, Declining
<1>5. ids \in SUBSET Nat
  <2>1. \A row \in line : row.id \in Nat
        BY DEF IInv, TypeOK, LineRow
  <2> QED  BY <1>2, <2>1 DEF Ids, LinesOf
<1> DEFINE new == [q EXCEPT !.deleting = TRUE, !.seen = ids]
<1>6. new = [kind |-> "update", quotes |-> q.quotes, offer |-> q.offer,
             deleting |-> TRUE, seen |-> ids]
  <2>1. PICK one : one = [q EXCEPT !.deleting = TRUE]
        OBVIOUS
  <2>2. one = [kind |-> "update", quotes |-> q.quotes, offer |-> q.offer,
               deleting |-> TRUE, seen |-> q.seen]
        BY <1>3, <1>4, <2>1 DEF Revising
  <2>3. new = [one EXCEPT !.seen = ids]
        BY <2>1, Zenon
  <2> HIDE DEF new
  <2> QED  BY <2>2, <2>3
<1>7. new \in InFlight
  <2>1. TRUE \in BOOLEAN
        OBVIOUS
  <2>2. q.quotes \in SUBSET Quote /\ q.offer \in Quantity
        BY <1>4 DEF Revising
  <2>3. new \in Revising
        BY <1>5, <1>6, <2>1, <2>2 DEF Revising
  <2> QED  BY <2>3 DEF InFlight
<1>8. new.kind = q.kind /\ new.quotes = q.quotes
      BY <1>3, <1>6
<1>9. req' = [req EXCEPT ![r] = new]
      BY <1>1, <1>2 DEF DeleteLines
<1> HIDE DEF new
<1>10. Sound(new)
      BY <1>3, <1>8 DEF Sound
<1> QED  BY <1>7, <1>9, <1>10, RequestStep DEF DeleteLines

LEMMA RollBackKeeps ==
    ASSUME IInv, NEW r \in Request, RollBack(r)
    PROVE  IInv'
BY RequestStep DEF RollBack

-------------------------------------------------------------------------------
(* Writing.                                                                *)

\* The row made for a quote is of the table's type, and new.
LEMMA NewRowNew ==
    ASSUME IInv, NEW x \in Quote, NEW offer \in Quantity
    PROVE  /\ NewRow(x, offer) \in LineRow
           /\ NewRow(x, offer).quote = x /\ NewRow(x, offer).id = made[x]
           /\ NewRow(x, offer).approved <= NewRow(x, offer).offer
           /\ \A row \in line : row.quote = x => row.id # made[x] /\ row.id < made[x] + 1
<1>1. made[x] \in Nat /\ offer \in Nat
      BY QuantityAssumption DEF IInv, TypeOK
<1>2. \A row \in line : row.id \in Nat /\ (row.quote = x => row.id < made[x])
      BY DEF IInv, TypeOK, RowsNumbered, LineRow
<1> QED  BY <1>1, <1>2 DEF NewRow, LineRow

\* Rows of the table, some of them deleted, and a new one of quote x: the ids stay
\* as they should be.
LEMMA TableGrows ==
    ASSUME IInv, NEW x \in Quote, NEW offer \in Quantity,
           NEW kept \in SUBSET line, line' = kept \cup {NewRow(x, offer)},
           made' = [made EXCEPT ![x] = @ + 1]
    PROVE  /\ line' \subseteq LineRow /\ made' \in [Quote -> Nat]
           /\ RowsNumbered' /\ RowsDistinct' /\ WithinRow'
           /\ \A y \in Quote : made[y] <= made'[y]
           /\ \A new \in line' : \/ new.id >= made[new.quote]
                                \/ \E row \in line : /\ row.quote = new.quote
                                                     /\ row.id = new.id
                                                     /\ row.offer = new.offer
<1> DEFINE one == NewRow(x, offer)
<1>1. /\ one \in LineRow /\ one.quote = x /\ one.id = made[x]
      /\ one.approved <= one.offer
      /\ \A row \in line : row.quote = x => row.id # made[x] /\ row.id < made[x] + 1
      BY NewRowNew
<1>2. \A row \in line' : row \in line \/ row = one
      OBVIOUS
<1> HIDE DEF one
<1>3. line \subseteq LineRow /\ made \in [Quote -> Nat]
      BY DEF IInv, TypeOK
<1>4. line' \subseteq LineRow /\ made' \in [Quote -> Nat]
      BY <1>1, <1>2, <1>3
<1>5. \A y \in Quote : made'[y] = IF y = x THEN made[x] + 1 ELSE made[y]
      BY <1>3
<1>6. RowsNumbered'
  <2> SUFFICES ASSUME NEW row \in line'
               PROVE  row.id < made'[row.quote]
      BY DEF RowsNumbered
  <2>1. row.quote \in Quote /\ row.id \in Nat
        BY <1>4 DEF LineRow
  <2>2. CASE row = one
        BY <1>1, <1>3, <1>5, <2>2
  <2>3. CASE row \in line
    <3>1. row.id < made[row.quote]
          BY <2>3 DEF IInv, RowsNumbered
    <3> QED  BY <1>1, <1>5, <2>1, <2>3, <3>1
  <2> QED  BY <1>2, <2>2, <2>3
<1>7. RowsDistinct'
  <2> SUFFICES ASSUME NEW a \in line', NEW b \in line', a.quote = b.quote, a.id = b.id
               PROVE  a = b
      BY DEF RowsDistinct
  <2>1. CASE a \in line /\ b \in line
        BY <2>1 DEF IInv, RowsDistinct
  <2>2. CASE a = one \/ b = one
        BY <1>1, <1>2, <2>2
  <2> QED  BY <1>2, <2>1, <2>2
<1>8. WithinRow'
      BY <1>1, <1>2 DEF IInv, WithinRow
<1>9. \A y \in Quote : made[y] <= made'[y]
      BY <1>3, <1>5
<1>10. \A new \in line' : \/ new.id >= made[new.quote]
                        \/ \E row \in line : /\ row.quote = new.quote
                                             /\ row.id = new.id
                                             /\ row.offer = new.offer
      BY <1>1, <1>2, <1>3
<1> QED  BY <1>4, <1>6, <1>7, <1>8, <1>9, <1>10

LEMMA SubmitQuoteKeeps ==
    ASSUME IInv, NEW x \in Quote, SubmitQuote(x)
    PROVE  IInv'
<1>1. PICK offer \in Quantity : line' = line \cup {NewRow(x, offer)}
      BY DEF SubmitQuote
<1>2. /\ quote[x] = "NONE" /\ quote' = [quote EXCEPT ![x] = "SUBMITTED"]
      /\ made' = [made EXCEPT ![x] = @ + 1]
      /\ UNCHANGED <<rfq, order, lastPo, req, raced, doubled, misrouted>>
      BY DEF SubmitQuote
<1>3. /\ line' \subseteq LineRow /\ made' \in [Quote -> Nat]
      /\ RowsNumbered' /\ RowsDistinct' /\ WithinRow'
      /\ \A y \in Quote : made[y] <= made'[y]
      /\ \A new \in line' : \/ new.id >= made[new.quote]
                           \/ \E row \in line : /\ row.quote = new.quote
                                                /\ row.id = new.id
                                                /\ row.offer = new.offer
      BY <1>1, <1>2, TableGrows
<1>4. \A y \in Quote : quote'[y] = IF y = x THEN "SUBMITTED" ELSE quote[y]
      BY <1>2 DEF IInv, TypeOK
<1>5. TypeOK'
      BY <1>2, <1>3 DEF IInv, TypeOK
<1>6. RequestsSound'
      BY <1>2, <1>3, <1>4, RowsStay
<1>7. NewRow(x, offer) \in LineRow /\ NewRow(x, offer).quote = x
      BY NewRowNew
<1>8. RowsOfQuotes'
  <2> SUFFICES ASSUME NEW row \in line'
               PROVE  quote'[row.quote] # "NONE"
      BY DEF RowsOfQuotes
  <2>1. row \in line => row.quote \in Quote
        BY DEF IInv, TypeOK, LineRow
  <2> QED  BY <1>1, <1>4, <1>7, <2>1 DEF IInv, RowsOfQuotes
<1>9. OneRow'
  <2> SUFFICES ASSUME NEW y \in Quote \ doubled, quote'[y] # "NONE"
               PROVE  \E row \in line' : {w \in line' : w.quote = y} = {row}
      BY <1>2 DEF OneRow, LinesOf
  <2>1. CASE y = x
    <3>1. \A row \in line : row.quote # x
          BY <1>2 DEF IInv, RowsOfQuotes
    <3>2. {w \in line' : w.quote = x} = {NewRow(x, offer)}
          BY <1>1, <1>7, <3>1
    <3> QED  BY <1>1, <2>1, <3>2
  <2>2. CASE y # x
    <3>1. PICK row \in line : LinesOf(y) = {row}
          BY <1>4, <2>2 DEF IInv, OneRow
    <3>2. {w \in line' : w.quote = y} = LinesOf(y)
          BY <1>1, <1>7, <2>2 DEF LinesOf
    <3> QED  BY <1>1, <3>1, <3>2
  <2> QED  BY <2>1, <2>2
<1>10. AwardedOnce'
      BY <1>2, <1>4 DEF IInv, AwardedOnce, Has
<1>11. AwardedTellsQuotes'
      BY <1>2, <1>4 DEF IInv, AwardedTellsQuotes, Has
<1> QED  BY <1>3, <1>5, <1>6, <1>8, <1>9, <1>10, <1>11 DEF IInv

LEMMA CancelRfqKeeps ==
    ASSUME IInv, NEW f \in Rfq, CancelRfq(f)
    PROVE  IInv'
<1>1. /\ rfq' = [rfq EXCEPT ![f] = "CANCELLED"]
      /\ UNCHANGED <<quote, line, made, doubled, order, lastPo, req, raced, misrouted>>
      BY DEF CancelRfq, rows
<1>2. TypeOK'
      BY <1>1 DEF IInv, TypeOK
<1>3. RequestsSound'
      BY <1>1 DEF IInv, RequestsSound, Busy, Sound
<1>4. (RowsNumbered /\ RowsOfQuotes /\ RowsDistinct /\ WithinRow /\ OneRow
       /\ AwardedOnce)'
      BY <1>1 DEF IInv, RowsNumbered, RowsOfQuotes, RowsDistinct, WithinRow, OneRow,
                  LinesOf, AwardedOnce, Has
<1>5. \A g \in Rfq : rfq'[g] = IF g = f THEN "CANCELLED" ELSE rfq[g]
      BY <1>1 DEF IInv, TypeOK
<1>6. AwardedTellsQuotes'
      BY <1>1, <1>5 DEF IInv, AwardedTellsQuotes, Has
<1> QED  BY <1>2, <1>3, <1>4, <1>6 DEF IInv

\* What the end of a request, with any write, does to the requests.
LEMMA Ended ==
    ASSUME IInv, NEW r \in Request, NEW kinds, Commit(r, kinds)
    PROVE  /\ req[r] \in InFlight /\ req[r].kind \in kinds
           /\ Sound(req[r]) /\ Enforced(req[r])
           /\ req' \in [Request -> InFlight \cup {NoRequest}]
           /\ \A s \in Request : req'[s] # NoRequest => req'[s] = req[s]
           /\ raced' \in BOOLEAN
           /\ ~raced' => ~raced /\ Admits(req[r])
<1>1. req \in [Request -> InFlight \cup {NoRequest}] /\ raced \in BOOLEAN
      BY DEF IInv, TypeOK
<1>2. req' = [req EXCEPT ![r] = NoRequest] /\ req[r] # NoRequest
      BY DEF Commit
<1>3. /\ req' \in [Request -> InFlight \cup {NoRequest}]
      /\ \A s \in Request : req'[s] # NoRequest => req'[s] = req[s]
      BY <1>1, <1>2
<1>4. raced' = (raced \/ ~Admits(req[r]))
      BY DEF Commit
<1>5. raced' \in BOOLEAN /\ (~raced' => ~raced /\ Admits(req[r]))
      BY <1>1, <1>4, Zenon
<1>6. req[r] \in InFlight /\ req[r].kind \in kinds /\ Enforced(req[r])
      BY <1>1, <1>2 DEF Commit
<1>7. Sound(req[r])
      BY <1>2 DEF IInv, RequestsSound, Busy
<1> QED  BY <1>3, <1>5, <1>6, <1>7

LEMMA CommitUpdateKeeps ==
    ASSUME IInv, NEW r \in Request, CommitUpdate(r)
    PROVE  IInv'
<1>1. PICK q : q = req[r]
      OBVIOUS
<1>2. /\ q \in InFlight /\ q.kind = "update" /\ Sound(q)
      /\ req' \in [Request -> InFlight \cup {NoRequest}]
      /\ \A s \in Request : req'[s] # NoRequest => req'[s] = req[s]
      /\ raced' \in BOOLEAN /\ (~raced' => ~raced)
      BY <1>1, Ended DEF CommitUpdate
<1>3. PICK x \in q.quotes :
         /\ line' = Revised(x, q.seen, q.offer)
         /\ made' = [made EXCEPT ![x] = @ + 1]
         /\ doubled' = IF q.seen = Ids(x) THEN doubled \ {x} ELSE doubled \cup {x}
      BY <1>1 DEF CommitUpdate
<1>4. UNCHANGED <<rfq, quote, order, lastPo, misrouted>>
      BY DEF CommitUpdate
<1>5. x \in Quote /\ q.offer \in Quantity /\ quote[x] # "NONE"
      BY <1>2, <1>3, Kinds DEF Sound
<1> DEFINE kept == {row \in line : row.quote # x \/ row.id \notin q.seen}
           one == NewRow(x, q.offer)
<1>6. line' = kept \cup {one} /\ kept \in SUBSET line
      BY <1>3 DEF Revised
<1>7. one \in LineRow /\ one.quote = x
      BY <1>5, NewRowNew
<1>8. \A row \in kept : row \in line /\ (row.quote # x \/ row.id \notin q.seen)
      OBVIOUS
<1>9. \A row \in line : row.quote # x => row \in kept
      OBVIOUS
<1>10. /\ line' \subseteq LineRow /\ made' \in [Quote -> Nat]
       /\ RowsNumbered' /\ RowsDistinct' /\ WithinRow'
       /\ \A y \in Quote : made[y] <= made'[y]
       /\ \A new \in line' : \/ new.id >= made[new.quote]
                            \/ \E row \in line : /\ row.quote = new.quote
                                                 /\ row.id = new.id
                                                 /\ row.offer = new.offer
      BY <1>3, <1>5, <1>6, TableGrows
<1> HIDE DEF kept, one
<1>11. TypeOK'
  <2>1. doubled' \subseteq Quote
        BY <1>3, <1>5 DEF IInv, TypeOK
  <2> QED  BY <1>2, <1>4, <1>10, <2>1 DEF IInv, TypeOK
<1>12. RequestsSound'
      BY <1>2, <1>4, <1>10, RowsStay
<1>13. RowsOfQuotes'
      BY <1>4, <1>5, <1>6, <1>7, <1>8 DEF IInv, RowsOfQuotes
\* If the DELETE saw every row of the quote, the new one is alone.
<1>14. OneRow'
  <2> SUFFICES ASSUME NEW y \in Quote, y \notin doubled', quote[y] # "NONE"
               PROVE  \E row \in line' : {w \in line' : w.quote = y} = {row}
      BY <1>4 DEF OneRow, LinesOf
  <2>1. CASE y = x
    <3>1. q.seen = Ids(x)
          BY <1>3, <2>1
    <3>2. \A row \in line : row.quote = x => row.id \in q.seen
          BY <3>1 DEF Ids, LinesOf
    <3>3. {w \in line' : w.quote = x} = {one}
          BY <1>6, <1>7, <1>8, <3>2
    <3> QED  BY <1>6, <2>1, <3>3
  <2>2. CASE y # x
    <3>1. y \notin doubled
          BY <1>3, <2>2
    <3>2. PICK row \in line : LinesOf(y) = {row}
          BY <3>1 DEF IInv, OneRow
    <3>3. {w \in line' : w.quote = y} = LinesOf(y)
          BY <1>6, <1>7, <1>8, <1>9, <2>2 DEF LinesOf
    <3>4. row \in line'
          BY <3>2, <3>3
    <3> QED  BY <3>2, <3>3, <3>4
  <2> QED  BY <2>1, <2>2
<1>15. (AwardedOnce /\ AwardedTellsQuotes)'
      BY <1>2, <1>4 DEF IInv, AwardedOnce, AwardedTellsQuotes, Has
<1> QED  BY <1>10, <1>11, <1>12, <1>13, <1>14, <1>15 DEF IInv

LEMMA CommitDeclineKeeps ==
    ASSUME IInv, NEW r \in Request, CommitDecline(r)
    PROVE  IInv'
<1>1. PICK q : q = req[r]
      OBVIOUS
<1>2. /\ q \in InFlight /\ q.kind = "decline" /\ Sound(q)
      /\ req' \in [Request -> InFlight \cup {NoRequest}]
      /\ \A s \in Request : req'[s] # NoRequest => req'[s] = req[s]
      /\ raced' \in BOOLEAN /\ (~raced' => ~raced /\ Admits(q))
      BY <1>1, Ended DEF CommitDecline
<1>3. quote' = [x \in Quote |-> IF x \in q.quotes THEN "DECLINED" ELSE quote[x]]
      BY <1>1 DEF CommitDecline
<1>4. UNCHANGED <<rfq, line, made, doubled, order, lastPo, misrouted>>
      BY DEF CommitDecline
<1>5. \A x \in Quote : /\ quote'[x] = "NONE" <=> quote[x] = "NONE"
                       /\ x \notin q.quotes => quote'[x] = quote[x]
                       /\ x \in q.quotes => quote'[x] = "DECLINED"
      BY <1>2, <1>3 DEF Sound
<1>6. TypeOK'
      BY <1>2, <1>3, <1>4 DEF IInv, TypeOK
<1>7. /\ made' \in [Quote -> Nat] /\ line' \subseteq LineRow
      /\ \A x \in Quote : made[x] <= made'[x]
      BY <1>4 DEF IInv, TypeOK
<1>8. RequestsSound'
      BY <1>2, <1>4, <1>5, <1>7, RowsStay
<1>9. (RowsNumbered /\ RowsDistinct /\ WithinRow)'
      BY <1>4 DEF IInv, RowsNumbered, RowsDistinct, WithinRow
<1>10. (RowsOfQuotes /\ OneRow)'
  <2>1. \A row \in line : row.quote \in Quote
        BY DEF IInv, TypeOK, LineRow
  <2> QED  BY <1>4, <1>5, <2>1 DEF IInv, RowsOfQuotes, OneRow, LinesOf
\* If no request came between, none of the quotes was approved.
<1>11. ~raced' => ~raced /\ \A x \in q.quotes : quote[x] = "SUBMITTED"
      BY <1>2 DEF Admits, Awardable, Has
<1>12. ~raced' => \A x \in Quote : quote'[x] = "APPROVED" <=> quote[x] = "APPROVED"
      BY <1>5, <1>11
<1>13. AwardedOnce'
      BY <1>4, <1>11, <1>12 DEF IInv, AwardedOnce, Has
<1>14. AwardedTellsQuotes'
      BY <1>4, <1>11, <1>12 DEF IInv, AwardedTellsQuotes, Has
<1> QED  BY <1>6, <1>8, <1>9, <1>10, <1>13, <1>14 DEF IInv

\* A row with its share granted: the share, if any, is one of those held.
LEMMA GrantedRow ==
    ASSUME NEW row \in LineRow, NEW shares \in SUBSET Share
    PROVE  /\ Granted(row, shares) \in LineRow
           /\ Granted(row, shares).quote = row.quote
           /\ Granted(row, shares).id = row.id
           /\ Granted(row, shares).offer = row.offer
           /\ \/ Granted(row, shares).approved = row.approved
              \/ \E s \in shares : /\ s.quote = row.quote /\ s.id = row.id
                                  /\ Granted(row, shares).approved = s.amount
<1> DEFINE mine == {s \in shares : s.quote = row.quote /\ s.id = row.id}
<1>1. CASE mine = {}
      BY <1>1 DEF Granted
<1>2. CASE mine # {}
  <2>1. PICK s : s = CHOOSE t \in mine : TRUE
        OBVIOUS
  <2>2. s \in mine
        BY <1>2, <2>1
  <2>3. Granted(row, shares) = [row EXCEPT !.approved = s.amount]
        BY <1>2, <2>1 DEF Granted
  <2>4. s \in Share /\ s \in shares /\ s.quote = row.quote /\ s.id = row.id
        BY <2>2
  <2>5. s.amount \in Nat
        BY <2>4 DEF Share
  <2> HIDE DEF mine
  <2> QED  BY <2>3, <2>4, <2>5 DEF LineRow
<1> QED  BY <1>1, <1>2

\* What an approval does to the line rows: each is kept, with its share granted if
\* the approval is a split award.
LEMMA SharesGranted ==
    ASSUME IInv, NEW q \in InFlight, Sound(q), q.kind \in {"approve", "award", "split"},
           ApproveQuotes(q)
    PROVE  /\ \A new \in line' :
                 \E row \in line :
                     /\ row.quote = new.quote /\ row.id = new.id /\ row.offer = new.offer
                     /\ new.approved <= new.offer
           /\ \A row \in line : \E new \in line' : row.quote = new.quote
           /\ line' \subseteq LineRow
           /\ RowsDistinct'
<1>1. line \subseteq LineRow /\ WithinRow /\ RowsDistinct
      BY DEF IInv, TypeOK
<1>2. CASE q.kind # "split"
  <2>1. line' = line
        BY <1>2 DEF ApproveQuotes
  <2> QED  BY <1>1, <2>1 DEF WithinRow, RowsDistinct
<1>3. CASE q.kind = "split"
  <2>1. line' = {Granted(row, q.shares) : row \in line}
        BY <1>3 DEF ApproveQuotes
  <2>2. q.shares \in SUBSET Share
        BY Kinds
  <2>3. ASSUME NEW row \in line
        PROVE  /\ Granted(row, q.shares) \in LineRow
               /\ Granted(row, q.shares).quote = row.quote
               /\ Granted(row, q.shares).id = row.id
               /\ Granted(row, q.shares).offer = row.offer
               /\ Granted(row, q.shares).approved <= row.offer
    <3>1. row \in LineRow
          BY <1>1
    <3>2. /\ Granted(row, q.shares) \in LineRow
          /\ Granted(row, q.shares).quote = row.quote
          /\ Granted(row, q.shares).id = row.id
          /\ Granted(row, q.shares).offer = row.offer
          /\ \/ Granted(row, q.shares).approved = row.approved
             \/ \E s \in q.shares : /\ s.quote = row.quote /\ s.id = row.id
                                   /\ Granted(row, q.shares).approved = s.amount
          BY <2>2, <3>1, GrantedRow
    <3>3. \A s \in q.shares : s.quote = row.quote /\ s.id = row.id => s.amount <= row.offer
          BY <1>3 DEF Sound
    <3>4. row.approved <= row.offer
          BY <1>1 DEF WithinRow
    <3> QED  BY <3>2, <3>3, <3>4
  <2>4. RowsDistinct'
    <3> SUFFICES ASSUME NEW a \in line', NEW b \in line', a.quote = b.quote, a.id = b.id
                 PROVE  a = b
        BY DEF RowsDistinct
    <3>1. PICK v \in line : a = Granted(v, q.shares)
          BY <2>1
    <3>2. PICK w \in line : b = Granted(w, q.shares)
          BY <2>1
    <3>3. v = w
          BY <1>1, <2>3, <3>1, <3>2 DEF RowsDistinct
    <3> QED  BY <3>1, <3>2, <3>3
  <2> QED  BY <2>1, <2>3, <2>4
<1> QED  BY <1>2, <1>3

\* What any approval keeps.
LEMMA ApprovalKeeps ==
    ASSUME IInv, NEW q \in InFlight, Sound(q), ApproveQuotes(q),
           q.kind \in {"approve", "award", "split"},
           \A s \in Request : req'[s] # NoRequest => req'[s] = req[s],
           ~raced' => ~raced
    PROVE  /\ rfq' \in [Rfq -> {"OPEN", "AWARDED", "CANCELLED"}]
           /\ quote' \in [Quote -> {"NONE", "SUBMITTED", "APPROVED", "DECLINED"}]
           /\ line' \subseteq LineRow /\ made' \in [Quote -> Nat]
           /\ doubled' \subseteq Quote /\ misrouted' \subseteq Rfq
           /\ RowsNumbered' /\ RowsOfQuotes' /\ RowsDistinct' /\ RequestsSound'
           /\ WithinRow' /\ OneRow' /\ AwardedTellsQuotes'
           /\ \A x \in q.quotes : quote'[x] = "APPROVED"
           /\ \A x \in Quote : x \notin q.quotes => quote'[x] = quote[x]
<1>1. /\ quote' = [x \in Quote |-> IF x \in q.quotes THEN "APPROVED" ELSE quote[x]]
      /\ rfq' = [rfq EXCEPT ![q.route] = "AWARDED"]
      /\ misrouted' = misrouted \cup
            UNION {{q.route, RfqOf[x]} : x \in {y \in q.quotes : RfqOf[y] # q.route}}
      /\ made' = made /\ doubled' = doubled
      BY DEF ApproveQuotes
<1>2. /\ q.quotes \subseteq Quote /\ q.quotes # {} /\ q.route \in Rfq
      /\ \A x \in q.quotes : quote[x] # "NONE"
      BY Kinds DEF Sound
<1>3. /\ \A x \in q.quotes : quote'[x] = "APPROVED"
      /\ \A x \in Quote : x \notin q.quotes => quote'[x] = quote[x]
      /\ \A x \in Quote : quote'[x] = "NONE" <=> quote[x] = "NONE"
      BY <1>1, <1>2
<1>4. /\ \A new \in line' :
            \E row \in line :
                /\ row.quote = new.quote /\ row.id = new.id /\ row.offer = new.offer
                /\ new.approved <= new.offer
      /\ \A row \in line : \E new \in line' : row.quote = new.quote
      /\ line' \subseteq LineRow
      /\ RowsDistinct'
      BY SharesGranted
<1>5. /\ rfq' \in [Rfq -> {"OPEN", "AWARDED", "CANCELLED"}]
      /\ quote' \in [Quote -> {"NONE", "SUBMITTED", "APPROVED", "DECLINED"}]
      /\ made' \in [Quote -> Nat] /\ doubled' \subseteq Quote
      BY <1>1 DEF IInv, TypeOK
<1>6. misrouted' \subseteq Rfq
      BY <1>1, <1>2, RfqOfAssumption DEF IInv, TypeOK
<1>7. \A row \in line : row.quote \in Quote
      BY DEF IInv, TypeOK, LineRow
<1>8. (RowsNumbered /\ RowsOfQuotes /\ WithinRow)'
      BY <1>1, <1>3, <1>4, <1>7 DEF IInv, RowsNumbered, RowsOfQuotes, WithinRow
<1>9. RequestsSound'
  <2>1. \A x \in Quote : made[x] <= made'[x]
        BY <1>1 DEF IInv, TypeOK
  <2> QED  BY <1>3, <1>4, <1>5, <2>1, RowsStay
<1>10. OneRow'
  <2> SUFFICES ASSUME NEW x \in Quote \ doubled, quote[x] # "NONE"
               PROVE  \E new \in line' : {w \in line' : w.quote = x} = {new}
      BY <1>1, <1>3 DEF OneRow, LinesOf
  <2>1. PICK row \in line : LinesOf(x) = {row}
        BY DEF IInv, OneRow
  <2>2. row.quote = x /\ \A w \in line : w.quote = x => w = row
        BY <2>1 DEF LinesOf
  <2>3. PICK new \in line' : new.quote = x
        BY <1>4, <2>2
  <2>4. \A w \in line' : w.quote = x => w.id = row.id
        BY <1>4, <2>2
  <2>5. \A w \in line' : w.quote = x => w = new
        BY <1>4, <2>3, <2>4 DEF RowsDistinct
  <2> QED  BY <2>3, <2>5
<1>11. AwardedTellsQuotes'
  <2> SUFFICES ASSUME ~raced, NEW f \in Rfq, f \notin misrouted'
               PROVE  /\ rfq'[f] = "AWARDED" =>
                            \E x \in Quote : RfqOf[x] = f /\ quote'[x] = "APPROVED"
                      /\ rfq'[f] = "OPEN" =>
                            \A x \in Quote : RfqOf[x] = f => quote'[x] # "APPROVED"
      BY DEF AwardedTellsQuotes, Has
  <2>1. f \notin misrouted /\ \A x \in q.quotes : f \in {q.route, RfqOf[x]} => RfqOf[x] = q.route
        BY <1>1
  <2>2. CASE f = q.route
    <3>1. rfq'[f] = "AWARDED"
          BY <1>1, <1>2, <2>2 DEF IInv, TypeOK
    <3>2. \A x \in q.quotes : RfqOf[x] = f /\ quote'[x] = "APPROVED"
          BY <1>3, <2>1, <2>2
    <3> QED  BY <1>2, <3>1, <3>2
  <2>3. CASE f # q.route
    <3>1. rfq'[f] = rfq[f]
          BY <1>1, <2>3 DEF IInv, TypeOK
    <3>2. \A x \in Quote : RfqOf[x] = f => quote'[x] = quote[x]
          BY <1>3, <2>1, <2>3
    <3> QED  BY <2>1, <3>1, <3>2 DEF IInv, AwardedTellsQuotes, Has
  <2> QED  BY <2>2, <2>3
<1> QED  BY <1>3, <1>4, <1>5, <1>6, <1>8, <1>9, <1>10, <1>11

LEMMA CommitApprovalKeeps ==
    ASSUME IInv, NEW r \in Request, CommitApproval(r)
    PROVE  IInv'
<1>1. PICK q : q = req[r]
      OBVIOUS
<1>2. /\ q \in InFlight /\ q.kind = "approve" /\ Sound(q)
      /\ req' \in [Request -> InFlight \cup {NoRequest}]
      /\ \A s \in Request : req'[s] # NoRequest => req'[s] = req[s]
      /\ raced' \in BOOLEAN /\ (~raced' => ~raced)
      BY <1>1, Ended DEF CommitApproval
<1>3. ApproveQuotes(q) /\ UNCHANGED <<order, lastPo>>
      BY <1>1 DEF CommitApproval
<1>4. /\ rfq' \in [Rfq -> {"OPEN", "AWARDED", "CANCELLED"}]
      /\ quote' \in [Quote -> {"NONE", "SUBMITTED", "APPROVED", "DECLINED"}]
      /\ line' \subseteq LineRow /\ made' \in [Quote -> Nat]
      /\ doubled' \subseteq Quote /\ misrouted' \subseteq Rfq
      /\ RowsNumbered' /\ RowsOfQuotes' /\ RowsDistinct' /\ RequestsSound'
      /\ WithinRow' /\ OneRow' /\ AwardedTellsQuotes'
      /\ \A x \in q.quotes : quote'[x] = "APPROVED"
      /\ \A x \in Quote : x \notin q.quotes => quote'[x] = quote[x]
      BY <1>2, <1>3, ApprovalKeeps
<1>5. TypeOK'
      BY <1>2, <1>3, <1>4 DEF IInv, TypeOK
<1>6. AwardedOnce'
      BY <1>2, <1>3, <1>4 DEF IInv, AwardedOnce, Has
<1> QED  BY <1>4, <1>5, <1>6 DEF IInv

LEMMA CommitAwardKeeps ==
    ASSUME IInv, NEW r \in Request, CommitAward(r)
    PROVE  IInv'
<1>1. PICK q : q = req[r]
      OBVIOUS
<1> DEFINE Made(x) == [number |-> q.number, lines |-> {s \in q.shares : s.quote = x}]
<1>2. /\ q \in InFlight /\ q.kind \in {"award", "split"} /\ Sound(q)
      /\ req' \in [Request -> InFlight \cup {NoRequest}]
      /\ \A s \in Request : req'[s] # NoRequest => req'[s] = req[s]
      /\ raced' \in BOOLEAN /\ (~raced' => ~raced /\ Admits(q))
      BY <1>1, Ended DEF CommitAward
<1>3. /\ ApproveQuotes(q) /\ lastPo' = q.number
      /\ order' = [x \in Quote |-> IF x \in q.quotes THEN order[x] \cup {Made(x)}
                                   ELSE order[x]]
      BY <1>1 DEF CommitAward
<1>4. /\ rfq' \in [Rfq -> {"OPEN", "AWARDED", "CANCELLED"}]
      /\ quote' \in [Quote -> {"NONE", "SUBMITTED", "APPROVED", "DECLINED"}]
      /\ line' \subseteq LineRow /\ made' \in [Quote -> Nat]
      /\ doubled' \subseteq Quote /\ misrouted' \subseteq Rfq
      /\ RowsNumbered' /\ RowsOfQuotes' /\ RowsDistinct' /\ RequestsSound'
      /\ WithinRow' /\ OneRow' /\ AwardedTellsQuotes'
      /\ \A x \in q.quotes : quote'[x] = "APPROVED"
      /\ \A x \in Quote : x \notin q.quotes => quote'[x] = quote[x]
      BY <1>2, <1>3, ApprovalKeeps
<1>5. q.number \in Nat /\ q.shares \in SUBSET Share /\ q.quotes \subseteq Quote
      BY <1>2, Kinds
<1>6. \A x \in Quote : Made(x) \in OrderRow
      BY <1>5 DEF OrderRow
<1> HIDE DEF Made
<1>7. order' \in [Quote -> SUBSET OrderRow]
      BY <1>3, <1>6 DEF IInv, TypeOK
<1>8. TypeOK'
      BY <1>2, <1>3, <1>4, <1>5, <1>7 DEF IInv, TypeOK
\* If no request came between, none of the quotes had an order.
<1>9. AwardedOnce'
  <2> SUFFICES ASSUME ~raced', NEW x \in Quote, order'[x] # {}
               PROVE  /\ quote'[x] = "APPROVED"
                      /\ \A a, b \in order'[x] : a = b
      BY DEF AwardedOnce, Has
  <2>1. CASE x \in q.quotes
    <3>1. quote[x] = "SUBMITTED"
          BY <1>2, <2>1 DEF Admits, Awardable, Has
    <3>2. order[x] = {}
          BY <1>2, <3>1 DEF IInv, AwardedOnce, Has
    <3>3. order'[x] = {Made(x)}
          BY <1>3, <2>1, <3>2
    <3> QED  BY <1>4, <2>1, <3>3
  <2>2. CASE x \notin q.quotes
    <3>1. order'[x] = order[x] /\ quote'[x] = quote[x]
          BY <1>3, <1>4, <2>2
    <3> QED  BY <1>2, <3>1 DEF IInv, AwardedOnce, Has
  <2> QED  BY <2>1, <2>2
<1> QED  BY <1>4, <1>8, <1>9 DEF IInv

-------------------------------------------------------------------------------
(* The invariant.                                                          *)

LEMMA InitIInv == Init => IInv
<1> SUFFICES ASSUME Init PROVE IInv
    OBVIOUS
<1>1. TypeOK
  <2>1. {} \in SUBSET OrderRow /\ FALSE \in BOOLEAN
        OBVIOUS
  <2> QED  BY <2>1 DEF Init, TypeOK
<1>2. /\ \A x \in Quote : quote[x] = "NONE" /\ order[x] = {}
      /\ \A f \in Rfq : rfq[f] = "OPEN"
      /\ line = {}
      BY DEF Init
<1>3. RequestsSound
      BY DEF Init, RequestsSound, Busy
<1>4. RowsNumbered /\ RowsOfQuotes /\ RowsDistinct /\ WithinRow /\ OneRow
      BY <1>2 DEF RowsNumbered, RowsOfQuotes, RowsDistinct, WithinRow, OneRow
<1>5. AwardedOnce /\ AwardedTellsQuotes
      BY <1>2 DEF AwardedOnce, AwardedTellsQuotes, Has
<1> QED  BY <1>1, <1>3, <1>4, <1>5 DEF IInv

LEMMA StepIInv == IInv /\ [Next]_vars => IInv'
<1> SUFFICES ASSUME IInv, [Next]_vars PROVE IInv'
    OBVIOUS
<1>1. CASE \E f \in Rfq : CancelRfq(f)
      BY <1>1, CancelRfqKeeps
<1>2. CASE \E x \in Quote : SubmitQuote(x)
      BY <1>2, SubmitQuoteKeeps
<1>3. ASSUME NEW r \in Request, NEW x \in Quote,
             \/ UpdateQuote(r, x) \/ DeclineQuote(r, x)
             \/ \E f \in Rfq : ApproveQuote(r, f, x) \/ AwardQuote(r, f, x)
      PROVE  IInv'
      BY <1>3, ReadKeeps
<1>4. ASSUME NEW r \in Request, NEW f \in Rfq, AwardSplit(r, f)
      PROVE  IInv'
      BY <1>4, AwardSplitKeeps
<1>5. ASSUME NEW r \in Request, TakeNumber(r) \/ RollBack(r) \/ DeleteLines(r)
      PROVE  IInv'
      BY <1>5, TakeNumberKeeps, RollBackKeeps, DeleteLinesKeeps
<1>6. ASSUME NEW r \in Request,
             CommitUpdate(r) \/ CommitDecline(r) \/ CommitApproval(r) \/ CommitAward(r)
      PROVE  IInv'
      BY <1>6, CommitUpdateKeeps, CommitDeclineKeeps, CommitApprovalKeeps, CommitAwardKeeps
<1>7. CASE UNCHANGED vars
  <2>1. UNCHANGED <<rfq, quote, line, made, doubled, order, lastPo, req, raced, misrouted>>
        BY <1>7 DEF vars, rows
  <2>2. TypeOK'
        BY <2>1 DEF IInv, TypeOK
  <2>3. RequestsSound'
        BY <2>1 DEF IInv, RequestsSound, Busy, Sound
  <2>4. (RowsNumbered /\ RowsOfQuotes /\ RowsDistinct /\ WithinRow /\ OneRow
         /\ AwardedOnce /\ AwardedTellsQuotes)'
        BY <2>1 DEF IInv, RowsNumbered, RowsOfQuotes, RowsDistinct, WithinRow, OneRow,
                    LinesOf, AwardedOnce, AwardedTellsQuotes, Has
  <2> QED  BY <2>2, <2>3, <2>4 DEF IInv
<1> QED  BY <1>1, <1>2, <1>3, <1>4, <1>5, <1>6, <1>7 DEF Next

\* The inductive invariant: every reachable state is typed, its line rows and its
\* requests in flight are sound, and the invariants hold.
THEOREM Invariance == Spec => []IInv
BY InitIInv, StepIInv, PTL DEF Spec

\* The requests, their quotes, line rows, orders and the handlers in flight are what
\* rfqs.service.ts and the schema say.
THEOREM TypeCorrect == Spec => []TypeOK
<1>1. IInv => TypeOK
      BY DEF IInv
<1> QED  BY <1>1, Invariance, PTL

\* However awards and revisions overlap, no share of a line row is above what the row
\* offers: persistQuote's new rows make a late split award fail. And a quote has one
\* row for the line, unless its last revision overlapped another.
THEOREM SharesWithinOffers == Spec => []ApprovedWithinOffer
<1>1. IInv => ApprovedWithinOffer
      BY DEF IInv, WithinRow, OneRow, ApprovedWithinOffer
<1> QED  BY <1>1, Invariance, PTL

\* Without overlapping requests an order is made of an approved quote, and once.
THEOREM OneOrderPerQuote == Spec => []AwardedOnce
<1>1. IInv => AwardedOnce
      BY DEF IInv
<1> QED  BY <1>1, Invariance, PTL

\* Without overlapping handlers a request is AWARDED with an approved quote of its
\* own, and has none while it is OPEN, unless a quote was decided under the route of
\* another request than its own.
THEOREM StatusTellsQuotes == Spec => []AwardedTellsQuotes
<1>1. IInv => AwardedTellsQuotes
      BY DEF IInv
<1> QED  BY <1>1, Invariance, PTL

-------------------------------------------------------------------------------
(* Decisions.                                                              *)

Kept == \A x \in Quote : Has(x, {"APPROVED", "DECLINED"}) /\ ~raced' =>
            quote'[x] = quote[x]

LEMMA CommitsKeep ==
    ASSUME IInv, NEW r \in Request,
           CommitUpdate(r) \/ CommitDecline(r) \/ CommitApproval(r) \/ CommitAward(r)
    PROVE  Kept
<1>1. PICK q : q = req[r]
      OBVIOUS
<1> SUFFICES ASSUME NEW x \in Quote, ~raced', quote[x] \in {"APPROVED", "DECLINED"}
             PROVE  quote'[x] = quote[x]
    BY DEF Kept, Has
<1>2. CASE CommitUpdate(r)
      BY <1>2 DEF CommitUpdate
<1>3. CASE CommitDecline(r)
  <2>1. Admits(q) /\ q.kind = "decline"
        BY <1>1, <1>3, Ended DEF CommitDecline
  <2>2. x \notin q.quotes
        BY <2>1 DEF Admits, Awardable, Has
  <2> QED  BY <1>1, <1>3, <2>2 DEF CommitDecline
<1>4. CASE CommitApproval(r) \/ CommitAward(r)
  <2>1. Admits(q) /\ q.kind \in {"approve", "award", "split"} /\ ApproveQuotes(q)
        BY <1>1, <1>4, Ended DEF CommitApproval, CommitAward
  <2>2. x \notin q.quotes
        BY <2>1 DEF Admits, Awardable, Has
  <2> QED  BY <2>1, <2>2, Zenon DEF ApproveQuotes
<1> QED  BY <1>2, <1>3, <1>4

LEMMA StepKeeps == IInv /\ [Next]_vars => Kept
<1> SUFFICES ASSUME IInv, [Next]_vars PROVE Kept
    OBVIOUS
<1>1. CASE quote' = quote
      BY <1>1 DEF Kept
<1>2. CASE \E x \in Quote : SubmitQuote(x)
  <2>1. PICK x \in Quote : SubmitQuote(x)
        BY <1>2
  <2>2. quote[x] = "NONE" /\ \A y \in Quote : y # x => quote'[y] = quote[y]
        BY <2>1 DEF SubmitQuote, IInv, TypeOK
  <2> QED  BY <2>2 DEF Kept, Has
<1>3. CASE \E r \in Request :
              CommitUpdate(r) \/ CommitDecline(r) \/ CommitApproval(r) \/ CommitAward(r)
      BY <1>3, CommitsKeep
<1>4. ASSUME \/ \E f \in Rfq : CancelRfq(f)
             \/ \E r \in Request :
                    \/ TakeNumber(r) \/ RollBack(r) \/ DeleteLines(r)
                    \/ \E x \in Quote :
                        \/ UpdateQuote(r, x) \/ DeclineQuote(r, x)
                        \/ \E f \in Rfq : ApproveQuote(r, f, x) \/ AwardQuote(r, f, x)
      PROVE  quote' = quote
      BY <1>4 DEF rows, CancelRfq, UpdateQuote, DeclineQuote, ApproveQuote, AwardQuote,
                  Approve, Begin, TakeNumber, RollBack, DeleteLines
<1>5. ASSUME NEW r \in Request, NEW f \in Rfq, AwardSplit(r, f)
      PROVE  quote' = quote
  <2>1. \E quotes, shares : Approve(r, "split", f, quotes, shares)
        BY <1>5 DEF AwardSplit
  <2> QED  BY <2>1 DEF Approve, Begin, rows
<1>6. CASE UNCHANGED vars
      BY <1>1, <1>6 DEF vars, rows
<1>7. CASE Next
      BY <1>1, <1>2, <1>3, <1>4, <1>5, <1>7 DEF Next
<1> QED  BY <1>6, <1>7

\* A quote once approved or declined stays so, as long as no write lands that its
\* handler's checks would by then refuse.
THEOREM DecisionsStand == Spec => DecisionIsKept
<1>1. IInv /\ [Next]_vars =>
         [\A x \in Quote : Has(x, {"APPROVED", "DECLINED"}) /\ ~raced' =>
              quote'[x] = quote[x]]_vars
      BY StepKeeps DEF Kept
<1> QED  BY <1>1, Invariance, PTL DEF Spec, DecisionIsKept

===============================================================================
